------------------------------ MODULE LwMutex ------------------------------
(***************************************************************************)
(* One guest sys_lwmutex and one sys_lwcond on it, as the sysPrxForUser    *)
(* layer implements them (ps3recomp/runtime/ppu/ppu_sysprx.cpp) on top of  *)
(* the host mutex of module FairMutex.                                     *)
(*                                                                         *)
(* An lwmutex is serialized only once a guarded call site has taken it:    *)
(* "policy" is what g_lwm_policy and its publish-only cache hold for it.   *)
(* A handler is cut where another thread can see it half done: after the   *)
(* policy lookup, at every wait, between the read and the write of the     *)
(* guest's recursion word, and between a host release and its notification *)
(* (the Notify action of FairMutex).  A local that is dead is reset.       *)
(*                                                                         *)
(* inside is the guest's side: for each thread the locks it has taken and  *)
(* not yet unlocked, outermost first, as it got them -- "open" under       *)
(* policy none, "got" with the host mutex, "late" after a timed-out        *)
(* acquire that let it proceed unserialized.                               *)
(***************************************************************************)
EXTENDS FairMutex

CONSTANTS
  LwmAll,      \* PPU_LWM_ALL is set
  LwSetups,    \* what a behaviour is about: the classes of call sites that
               \* take this lwmutex, whether some holder may keep it past
               \* PPU_LWM_WAIT_MS, whether some sys_lwcond_wait may outlast its
               \* timeout, and whether a guest thread unlocks what it never locked
  Waiters,     \* bound: threads that wait on the lwcond
  MaxSignals,  \* bound: signals sent in a behaviour
  RecurWidth   \* LWM_RECUR is a word of this many values (2^32): it drifts
               \* when unserialized updates race

ASSUME LwmAllAssumption == LwmAll \in BOOLEAN
ASSUME LwSetupsAssumption == LwSetups \subseteq
  [sites : SUBSET {"plain", "alloc", "strict"}, locksExpire : BOOLEAN,
   waitsExpire : BOOLEAN, strays : BOOLEAN]
ASSUME BoundsAssumption == Waiters \subseteq Threads /\ MaxSignals \in Nat
ASSUME WidthAssumption == RecurWidth \in Nat /\ RecurWidth > MaxNest

VARIABLES
  setup,      \* the member of LwSetups this behaviour is about
  policy,     \* published policy of the lwmutex
  pol,        \* policy a thread's pending lock or trylock was given
  at,         \* where a thread is in the sysPrxForUser layer
  inside,     \* the guest's nesting, see above
  word,       \* LWM_OWNER and LWM_RECUR in guest memory
  reg,        \* recursion count a thread has read, or must restore
  gate,       \* holder of LwCondHost::gate across a release, or None
  sequence,   \* LwCondHost::sequence
  before,     \* a waiter's snapshot of sequence
  sleeping,   \* waiters blocked in c.cv, no notification received
  left,       \* levels a waiter still has to take back
  result,     \* outcome of a thread's last sys_lwcond_wait
  signalled,  \* history: a signal came while the thread waited
  astray      \* history: a thread released a level of the host mutex that
              \* another thread had taken

condVars == <<gate, sequence, before, sleeping, left, result, signalled>>
lwVars   == <<setup, astray, vars, policy, pol, at, inside, word, reg, condVars>>

Policies == {"none", "timed", "strict"}
Stations == {"guest", "lock", "try", "stamp", "count", "uncount", "unlock",
             "cond", "asleep", "relock", "wake_one", "wake_all"}

LwInit ==
  /\ Init
  /\ setup \in LwSetups
  /\ policy = "none"
  /\ pol = [t \in Threads |-> "none"]
  /\ at = [t \in Threads |-> "guest"]
  /\ inside = [t \in Threads |-> <<>>]
  /\ word = [owner |-> None, recur |-> 0]
  /\ reg = [t \in Threads |-> 0]
  /\ gate = None
  /\ sequence = 0
  /\ before = [t \in Threads |-> 0]
  /\ sleeping = {}
  /\ left = [t \in Threads |-> 0]
  /\ result = [t \in Threads |-> "ok"]
  /\ signalled = [t \in Threads |-> FALSE]
  /\ astray = FALSE

-----------------------------------------------------------------------------
Move(t, station) == at' = [at EXCEPT ![t] = station]

InGuest(t) == at[t] = "guest" /\ pc[t] = "run"

(* lwm_policy: what a caller at site s is told.  Outside PPU_LWM_ALL it is *)
(* also what gets published; a policy is only ever strengthened.           *)
Resolved(s) ==
  CASE LwmAll                              -> "timed"
    [] ~LwmAll /\ s = "strict"             -> "strict"
    [] ~LwmAll /\ s = "alloc" /\ policy = "none" -> "timed"
    [] OTHER                               -> policy

(* The guest holds one more lock as soon as the host mutex says so. *)
Entered(t) ==
  inside' = IF Len(nest'[t]) > Len(nest[t])
            THEN [inside EXCEPT ![t] = Append(@, Last(nest'[t]))]
            ELSE inside

-----------------------------------------------------------------------------
(* sys_lwmutex_lock and sys_lwmutex_trylock                                *)

Call(t, station) ==
  /\ InGuest(t)
  /\ Len(inside[t]) < MaxNest
  /\ \E s \in setup.sites :
       /\ pol' = [pol EXCEPT ![t] = Resolved(s)]
       /\ policy' = IF LwmAll THEN policy ELSE Resolved(s)
  /\ Move(t, station)
  /\ UNCHANGED <<vars, inside, word, reg, condVars>>

SysLock(t)    == Call(t, "lock")
SysTryLock(t) == Call(t, "try")

(* Policy none: no host mutex is touched. *)
GoOpen(t) ==
  /\ at[t] \in {"lock", "try"}
  /\ pol[t] = "none"
  /\ inside' = [inside EXCEPT ![t] = Append(@, "open")]
  /\ Move(t, "stamp")
  /\ UNCHANGED <<vars, policy, pol, word, reg, condVars>>

HostLock(t) ==
  /\ at[t] = "lock"
  /\ \/ pol[t] = "strict" /\ Lock(t)
     \/ pol[t] = "timed" /\ TryLockFor(t)
  /\ Entered(t)
  /\ Move(t, "stamp")
  /\ UNCHANGED <<policy, pol, word, reg, condVars>>

(* A failed try_lock returns EBUSY before the guest words are written. *)
HostTryLock(t) ==
  /\ at[t] = "try"
  /\ pol[t] # "none"
  /\ TryLock(t)
  /\ Entered(t)
  /\ IF inside' = inside
     THEN Move(t, "guest") /\ pol' = [pol EXCEPT ![t] = "none"]
     ELSE Move(t, "stamp") /\ UNCHANGED pol
  /\ UNCHANGED <<policy, word, reg, condVars>>

(* A host call that blocked, or still has to notify, goes on. *)
HostProgress(t) ==
  /\ \/ Wake(t)
     \/ SpuriousWake(t)
     \/ setup.locksExpire /\ Timeout(t)
     \/ Notify(t)
  /\ Entered(t)
  /\ UNCHANGED <<policy, pol, at, word, reg, condVars>>

(* LWM_OWNER = self; LWM_RECUR is read ... *)
Stamp(t) ==
  /\ at[t] = "stamp"
  /\ pc[t] = "run"
  /\ word' = [word EXCEPT !.owner = t]
  /\ reg' = [reg EXCEPT ![t] = word.recur]
  /\ Move(t, "count")
  /\ UNCHANGED <<vars, policy, pol, inside, condVars>>

(* ... and written back one higher. *)
Count(t) ==
  /\ at[t] = "count"
  /\ word' = [word EXCEPT !.recur = (reg[t] + 1) % RecurWidth]
  /\ reg' = [reg EXCEPT ![t] = 0]
  /\ pol' = [pol EXCEPT ![t] = "none"]
  /\ Move(t, "guest")
  /\ UNCHANGED <<vars, policy, inside, condVars>>

-----------------------------------------------------------------------------
(* sys_lwmutex_unlock                                                      *)

(* Also by a thread that has locked nothing. *)
SysUnlock(t) ==
  /\ InGuest(t)
  /\ \/ inside[t] # <<>> /\ inside' = [inside EXCEPT ![t] = Front(@)]
     \/ inside[t] = <<>> /\ setup.strays /\ UNCHANGED inside
  /\ reg' = [reg EXCEPT ![t] = word.recur]
  /\ Move(t, "uncount")
  /\ UNCHANGED <<vars, policy, pol, word, condVars>>

Uncount(t) ==
  /\ at[t] = "uncount"
  /\ word' = [owner |-> IF reg[t] <= 1 THEN None ELSE word.owner,
              recur |-> IF reg[t] = 0 THEN word.recur ELSE reg[t] - 1]
  /\ reg' = [reg EXCEPT ![t] = 0]
  /\ Move(t, "unlock")
  /\ UNCHANGED <<vars, policy, pol, inside, condVars>>

(* FairRecursiveTimedMutex::unlock, whatever the caller has to release. *)
HostUnlock(t) ==
  IF nest[t] # <<>>
  THEN Unlock(t)
  ELSE ForeignUnlock(t) \/ (owner = None /\ UNCHANGED vars)

(* The host mutex is released when the PUBLISHED policy says so, which     *)
(* need not be the policy the matching lock was given.                     *)
Release(t) ==
  /\ at[t] = "unlock"
  /\ IF policy # "none" THEN HostUnlock(t) ELSE UNCHANGED vars
  /\ Move(t, "guest")
  /\ UNCHANGED <<policy, pol, inside, word, reg, condVars>>

-----------------------------------------------------------------------------
(* sys_lwcond_signal, sys_lwcond_signal_all                                *)

Signal(t) ==
  /\ InGuest(t)
  /\ gate = None
  /\ sequence < MaxSignals
  /\ sequence' = sequence + 1
  /\ signalled' = [u \in Threads |-> signalled[u] \/ at[u] \in {"cond", "asleep"}]
  /\ Move(t, "wake_one") \/ Move(t, "wake_all")
  /\ UNCHANGED <<vars, policy, pol, inside, word, reg, gate, before, sleeping,
                 left, result>>

(* The notification follows after the gate was dropped. *)
NotifyOne(t) ==
  /\ at[t] = "wake_one"
  /\ \/ sleeping = {} /\ UNCHANGED sleeping
     \/ \E u \in sleeping : sleeping' = sleeping \ {u}
  /\ Move(t, "guest")
  /\ UNCHANGED <<vars, policy, pol, inside, word, reg, gate, sequence, before,
                 left, result, signalled>>

(* Mutant of NotifyAll: notify_one, too. *)
MutNotifyAll(t) ==
  /\ at[t] = "wake_all"
  /\ \/ sleeping = {} /\ UNCHANGED sleeping
     \/ \E u \in sleeping : sleeping' = sleeping \ {u}
  /\ Move(t, "guest")
  /\ UNCHANGED <<vars, policy, pol, inside, word, reg, gate, sequence, before,
                 left, result, signalled>>

NotifyAll(t) ==
  /\ at[t] = "wake_all"
  /\ sleeping' = {}
  /\ Move(t, "guest")
  /\ UNCHANGED <<vars, policy, pol, inside, word, reg, gate, sequence, before,
                 left, result, signalled>>

-----------------------------------------------------------------------------
(* sys_lwcond_wait                                                         *)

(* Under the gate: the snapshot, then every level the caller really holds. *)
CondWait(t) ==
  /\ t \in Waiters
  /\ InGuest(t)
  /\ inside[t] # <<>>
  /\ gate = None
  /\ gate' = t
  /\ before' = [before EXCEPT ![t] = sequence]
  /\ IF owner = t THEN ReleaseAll(t) ELSE UNCHANGED vars
  /\ left' = [left EXCEPT ![t] = Levels(t)]
  /\ reg' = [reg EXCEPT ![t] = Levels(t)]
  /\ inside' = [inside EXCEPT ![t] = SubSeq(@, 1, Len(@) - Levels(t))]
  /\ signalled' = [signalled EXCEPT ![t] = FALSE]
  /\ Move(t, "cond")
  /\ UNCHANGED <<policy, pol, word, sequence, sleeping, result>>

(* The guest words are zeroed; the predicate of wait_for is tested, and the *)
(* thread sleeps, the gate goes with it.                                   *)
CondSleep(t) ==
  /\ at[t] = "cond"
  /\ pc[t] = "run"
  /\ word' = [owner |-> None, recur |-> 0]
  /\ gate' = None
  /\ IF sequence # before[t]
     THEN /\ result' = [result EXCEPT ![t] = "ok"]
          /\ Move(t, "relock")
          /\ UNCHANGED sleeping
     ELSE /\ sleeping' = sleeping \cup {t}
          /\ Move(t, "asleep")
          /\ UNCHANGED result
  /\ UNCHANGED <<vars, policy, pol, inside, reg, sequence, before, left, signalled>>

(* Notified: back to sleep unless the sequence moved. *)
CondWake(t) ==
  /\ at[t] = "asleep"
  /\ t \notin sleeping
  /\ gate = None
  /\ IF sequence # before[t]
     THEN /\ result' = [result EXCEPT ![t] = "ok"]
          /\ Move(t, "relock")
          /\ UNCHANGED sleeping
     ELSE /\ sleeping' = sleeping \cup {t}
          /\ UNCHANGED <<at, result>>
  /\ UNCHANGED <<vars, policy, pol, inside, word, reg, gate, sequence, before,
                 left, signalled>>

Outwaited(t, outcome) ==
  /\ setup.waitsExpire
  /\ at[t] = "asleep"
  /\ gate = None
  /\ result' = [result EXCEPT ![t] = outcome]
  /\ sleeping' = sleeping \ {t}
  /\ Move(t, "relock")
  /\ UNCHANGED <<vars, policy, pol, inside, word, reg, gate, sequence, before,
                 left, signalled>>

(* Mutant of CondExpire: the sequence is not looked at again. *)
MutCondExpireBlind(t) == Outwaited(t, "timedout")

(* The timeout (an untimed wait is capped, too): the sequence is looked at *)
(* once more before the wait reports ETIMEDOUT.                            *)
CondExpire(t) ==
  Outwaited(t, IF sequence # before[t] THEN "ok" ELSE "timedout")

(* Every level is taken back by a timed acquire, whatever the policy. *)
Relock(t) ==
  /\ at[t] = "relock"
  /\ left[t] > 0
  /\ TryLockFor(t)
  /\ Entered(t)
  /\ left' = [left EXCEPT ![t] = @ - 1]
  /\ UNCHANGED <<policy, pol, at, word, reg, gate, sequence, before, sleeping,
                 result, signalled>>

CondReturn(t) ==
  /\ at[t] = "relock"
  /\ pc[t] = "run"
  /\ left[t] = 0
  /\ word' = [owner |-> t, recur |-> reg[t]]
  /\ reg' = [reg EXCEPT ![t] = 0]
  /\ before' = [before EXCEPT ![t] = 0]
  /\ result' = [result EXCEPT ![t] = "ok"]
  /\ signalled' = [signalled EXCEPT ![t] = FALSE]
  /\ Move(t, "guest")
  /\ UNCHANGED <<vars, policy, pol, inside, gate, sequence, sleeping, left>>

-----------------------------------------------------------------------------
(* What a thread does on its own once it has entered the layer. *)
Continue(t) ==
  \/ GoOpen(t) \/ HostLock(t) \/ HostTryLock(t) \/ HostProgress(t)
  \/ Stamp(t) \/ Count(t) \/ Uncount(t) \/ Release(t)
  \/ NotifyOne(t) \/ NotifyAll(t)
  \/ CondSleep(t) \/ CondWake(t) \/ CondExpire(t) \/ Relock(t) \/ CondReturn(t)

LwStep(t) ==
  \/ SysLock(t) \/ SysTryLock(t) \/ SysUnlock(t) \/ Signal(t) \/ CondWait(t)
  \/ Continue(t)

(* A level that the host mutex loses in a step of t, but not of t's. *)
Strays(t) == astray' = (astray \/ (owner \notin {None, t} /\ depth' # depth))

LwNext == UNCHANGED setup /\ \E t \in Threads : LwStep(t) /\ Strays(t)

LwSpec == LwInit /\ [][LwNext]_lwVars

LwGoOn(t) == Continue(t) /\ Strays(t) /\ UNCHANGED setup

(* The host runs every thread that can run. *)
LwFairSpec == LwSpec /\ \A t \in Threads : WF_lwVars(LwGoOn(t))

-----------------------------------------------------------------------------
LwTypeOK ==
  /\ TypeOK
  /\ setup \in LwSetups
  /\ policy \in Policies
  /\ pol \in [Threads -> Policies]
  /\ at \in [Threads -> Stations]
  /\ inside \in [Threads -> Seq({"open", "got", "late"})]
  /\ word \in [owner : Threads \cup {None}, recur : 0..(RecurWidth - 1)]
  /\ reg \in [Threads -> Nat]
  /\ gate \in Threads \cup {None}
  /\ sequence \in 0..MaxSignals
  /\ before \in [Threads -> 0..MaxSignals]
  /\ sleeping \in SUBSET Threads
  /\ left \in [Threads -> Nat]
  /\ result \in [Threads -> {"ok", "timedout"}]
  /\ signalled \in [Threads -> BOOLEAN]
  /\ astray \in BOOLEAN

Holds(t, how) == how \in Range(inside[t])

(* Every call site that takes this lwmutex is one of the guarded ones, and *)
(* nobody unlocks it who has not locked it.                                *)
Guarded == ~LwmAll /\ "plain" \notin setup.sites /\ ~setup.strays

(* Whichever sites take a lwmutex, and with a policy that was published    *)
(* under way: two threads that both took it with its host mutex are never  *)
(* inside together, not after a timeout, a condition wait or the balancing *)
(* unlock of a late acquire -- as long as no thread has released another's *)
(* level.                                                                  *)
SerializedCallersExclude == ~LwmAll /\ ~astray =>
  \A t, u \in Threads : Holds(t, "got") /\ Holds(u, "got") => t = u

(* That takes an unlock of a lock that was taken open, before the policy   *)
(* was published, or never taken (702): where every site is guarded and a  *)
(* guest unlocks what it locked, no level of another is ever released.     *)
NothingStrays == Guarded => ~astray

(* While no holder outlasts the acquire deadline either, such a guest has  *)
(* a mutex: at most one thread is inside, however it got there.            *)
GuestExclusion == Guarded /\ ~setup.locksExpire =>
  \A t, u \in Threads : inside[t] # <<>> /\ inside[u] # <<>> => t = u

(* The lwmutex is a mutex (ppu_sysprx.cpp:570-705): among the callers it   *)
(* serializes until a level is released by a thread that has not taken it; *)
(* with guarded sites always; and among all callers while deadlines are    *)
(* kept as well.                                                           *)
LwMutexExcludes == SerializedCallersExclude /\ NothingStrays /\ GuestExclusion

(* The callers that an lwmutex serializes exclude each other, whatever     *)
(* other callers do: "remember the strongest policy so every caller of the *)
(* same guest mutex honours it" (ppu_sysprx.cpp:464-466).  The unlock of a *)
(* caller that was there before the policy honours it, its lock did not.   *)
SerializedAnyhow ==
  \A t, u \in Threads : Holds(t, "got") /\ Holds(u, "got") => t = u

(* A thread that has unlocked everything it locked has given the host      *)
(* mutex back, so nobody else waits for it in vain.                        *)
LastUnlockFreesHost ==
  \A t \in Threads : InGuest(t) /\ inside[t] = <<>> => owner # t

(* A wait reports ETIMEDOUT only if no signal was sent while it waited,    *)
(* also when its notification went to a waiter that came later.            *)
TimeoutMeansNoSignal ==
  \A t \in Threads :
    at[t] = "relock" /\ result[t] = "timedout" => ~signalled[t]

(* A lwmutex taken from strict call sites never lets a thread proceed      *)
(* unserialized.                                                           *)
StrictNeverUnserialized == setup.sites = {"strict"} =>
  \A t \in Threads : ~Holds(t, "late")

(* A broadcast brings back, without their timeouts, all who were waiting   *)
(* when it was sent, asleep or on their way to sleep, although it notifies *)
(* after it has dropped the gate (751-759).  A single signal need not: its *)
(* notification may go to a waiter that came later.                        *)
Signalled(t) == at[t] \in {"cond", "asleep"} /\ sequence # before[t]
BroadcastWakes ==
  \A t \in Threads :
    (Signalled(t) /\ \E u \in Threads : at[u] = "wake_all") ~> ~Signalled(t)
=============================================================================
