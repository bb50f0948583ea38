----------------------------- MODULE FairMutex -----------------------------
(***************************************************************************)
(* FairRecursiveTimedMutex, the host mutex that backs every sys_lwmutex of *)
(* the guest (ps3recomp/runtime/ppu/ppu_fair_mutex.h).                     *)
(*                                                                         *)
(* Every method runs under gate_, so a method body up to its cv_ wait, and *)
(* from a wakeup to the next wait, is one action.  unlock and release_all  *)
(* drop gate_ BEFORE they notify: the notification is an action of its own *)
(* (Notify) and other threads run in between.  A ticket of waiters_ stands *)
(* for the thread that drew it, so waiters is a sequence of threads.       *)
(*                                                                         *)
(* nest is the caller's side of the contract: for each thread, the         *)
(* outcomes of the acquires it has not yet released, outermost first --    *)
(* "got" for an acquire that took the mutex, "late" for a timed acquire    *)
(* that gave up and let its caller run unlocked.                           *)
(***************************************************************************)
EXTENDS Naturals, Sequences, FiniteSets, SequencesExt

CONSTANTS Threads,   \* the guest threads
          None,      \* owner_ == 0
          MaxNest    \* bound: how deep a thread nests its acquires

ASSUME NoneAssumption == None \notin Threads
ASSUME MaxNestAssumption == MaxNest \in Nat \ {0}

VARIABLES
  owner,      \* owner_
  depth,      \* depth_
  waiters,    \* waiters_: threads in the order they drew their tickets
  timed_out,  \* timed_out_: acquires of a thread that gave up, not yet balanced
  asleep,     \* threads blocked in cv_.wait, no notification received
  pc,         \* where a thread is inside the mutex
  nest        \* outcomes of the acquires the thread still has to release

vars == <<owner, depth, waiters, timed_out, asleep, pc, nest>>

Outcomes == {"got", "late"}
Places   == {"run", "lock", "timed", "notify"}

Waiting(t) == pc[t] \in {"lock", "timed"}

Init ==
  /\ owner = None
  /\ depth = 0
  /\ waiters = <<>>
  /\ timed_out = [t \in Threads |-> 0]
  /\ asleep = {}
  /\ pc = [t \in Threads |-> "run"]
  /\ nest = [t \in Threads |-> <<>>]

-----------------------------------------------------------------------------
(* Helpers on the nesting and on the place of a thread.                    *)

Push(t, outcome) == nest' = [nest EXCEPT ![t] = Append(@, outcome)]

Goto(t, place) == pc' = [pc EXCEPT ![t] = place]

-----------------------------------------------------------------------------
(* Acquire                                                                 *)

MayAcquire(t) == pc[t] = "run" /\ Len(nest[t]) < MaxNest

(* The predicate of cv_.wait: free, and t holds the oldest ticket. *)
Ready(t) == owner = None /\ waiters # <<>> /\ Head(waiters) = t

(* Mutant of Uncontended: a free mutex is taken over the heads of the queue. *)
MutBarging(t) == owner \in {t, None}

(* Recursive re-entry, or a free mutex that nobody queues for. *)
Uncontended(t) == owner = t \/ (owner = None /\ waiters = <<>>)

TakeNow(t) ==
  /\ Uncontended(t)
  /\ owner' = t
  /\ depth' = IF owner = t THEN depth + 1 ELSE 1
  /\ Push(t, "got")
  /\ UNCHANGED <<waiters, timed_out, asleep, pc>>

(* Draw a ticket and block.  The wait predicate is false on entry: either  *)
(* the mutex is owned or an older ticket exists.                           *)
Enqueue(t, place) ==
  /\ ~Uncontended(t)
  /\ waiters' = Append(waiters, t)
  /\ asleep' = asleep \cup {t}
  /\ Goto(t, place)
  /\ UNCHANGED <<owner, depth, timed_out, nest>>

Lock(t) == MayAcquire(t) /\ (TakeNow(t) \/ Enqueue(t, "lock"))

(* try_lock fails without a trace when the mutex is contended. *)
TryLock(t) ==
  /\ MayAcquire(t)
  /\ \/ TakeNow(t)
     \/ ~Uncontended(t) /\ UNCHANGED vars

TryLockFor(t) == MayAcquire(t) /\ (TakeNow(t) \/ Enqueue(t, "timed"))

(* The tail of lock and try_lock_for, reached when the predicate holds. *)
TakeTurn(t) ==
  /\ Ready(t)
  /\ waiters' = Tail(waiters)
  /\ owner' = t
  /\ depth' = 1
  /\ asleep' = asleep \ {t}
  /\ Goto(t, "run")
  /\ Push(t, "got")
  /\ UNCHANGED timed_out

(* A notified waiter looks at the predicate again. *)
Wake(t) ==
  /\ Waiting(t)
  /\ t \notin asleep
  /\ \/ TakeTurn(t)
     \/ /\ ~Ready(t)
        /\ asleep' = asleep \cup {t}
        /\ UNCHANGED <<owner, depth, waiters, timed_out, pc, nest>>

(* cv_.wait may return without a notification. *)
SpuriousWake(t) ==
  /\ t \in asleep
  /\ asleep' = asleep \ {t}
  /\ UNCHANGED <<owner, depth, waiters, timed_out, pc, nest>>

(* The deadline of try_lock_for: the predicate is evaluated once more, and *)
(* only a thread that is still not ready leaves the queue.  (The code's     *)
(* notify_all here asks for a free mutex with t in front: ready after all.) *)
Timeout(t) ==
  /\ pc[t] = "timed"
  /\ \/ TakeTurn(t)
     \/ /\ ~Ready(t)
        /\ \E i \in 1..Len(waiters) :
             waiters[i] = t /\ waiters' = RemoveAt(waiters, i)
        /\ asleep' = asleep \ {t}
        /\ timed_out' = [timed_out EXCEPT ![t] = @ + 1]
        /\ Goto(t, "run")
        /\ Push(t, "late")
        /\ UNCHANGED <<owner, depth>>

-----------------------------------------------------------------------------
(* Release                                                                 *)

(* One level of the current owner goes; the last one frees the mutex and   *)
(* leaves the calling thread t with a notify_all still to do.              *)
DropLevel(t) ==
  /\ depth' = depth - 1
  /\ IF depth = 1
     THEN owner' = None /\ Goto(t, "notify")
     ELSE UNCHANGED <<owner, pc>>
  /\ UNCHANGED <<waiters, timed_out, asleep>>

(* Mutant of Unlock: no timed_out_, every unlock releases a level. *)
MutUnlockForgetsLate(t) ==
  /\ pc[t] = "run"
  /\ nest[t] # <<>>
  /\ nest' = [nest EXCEPT ![t] = Front(@)]
  /\ DropLevel(t)

(* unlock called by a thread that has an acquire to release. *)
Unlock(t) ==
  /\ pc[t] = "run"
  /\ nest[t] # <<>>
  /\ nest' = [nest EXCEPT ![t] = Front(@)]
  /\ \/ owner = t /\ DropLevel(t)
     \/ /\ owner # t
        /\ timed_out[t] > 0
        /\ timed_out' = [timed_out EXCEPT ![t] = @ - 1]
        /\ UNCHANGED <<owner, depth, waiters, asleep, pc>>

(* unlock called for a lock another thread took: it releases that lock. *)
ForeignUnlock(t) ==
  /\ pc[t] = "run"
  /\ nest[t] = <<>>
  /\ owner \notin {None, t}
  /\ timed_out[t] = 0
  /\ nest' = [nest EXCEPT ![owner] = Front(@)]
  /\ DropLevel(t)

(* release_all: a condition wait drops every level the thread really has. *)
ReleaseAll(t) ==
  /\ pc[t] = "run"
  /\ owner = t
  /\ owner' = None
  /\ depth' = 0
  /\ nest' = [nest EXCEPT ![t] = SubSeq(@, 1, Len(@) - depth)]
  /\ Goto(t, "notify")
  /\ UNCHANGED <<waiters, timed_out, asleep>>

(* Mutant of Notify: notify_one wakes one sleeper, whoever that is. *)
MutNotifyOne(t) ==
  /\ pc[t] = "notify"
  /\ IF asleep = {} THEN UNCHANGED asleep
                    ELSE \E u \in asleep : asleep' = asleep \ {u}
  /\ Goto(t, "run")
  /\ UNCHANGED <<owner, depth, waiters, timed_out, nest>>

(* cv_.notify_all, after gate_ was dropped. *)
Notify(t) ==
  /\ pc[t] = "notify"
  /\ asleep' = {}
  /\ Goto(t, "run")
  /\ UNCHANGED <<owner, depth, waiters, timed_out, nest>>

-----------------------------------------------------------------------------
Step(t) ==
  \/ Lock(t) \/ TryLock(t) \/ TryLockFor(t)
  \/ Wake(t) \/ SpuriousWake(t) \/ Timeout(t)
  \/ Unlock(t) \/ ForeignUnlock(t) \/ ReleaseAll(t)
  \/ Notify(t)

Next == \E t \in Threads : Step(t)

Spec == Init /\ [][Next]_vars

(* The host runs a thread that can run, and timers expire.  What the guest *)
(* does with the mutex is its own business.                                *)
Fairness ==
  \A t \in Threads :
    /\ WF_vars(Wake(t))
    /\ WF_vars(Timeout(t))
    /\ WF_vars(Notify(t))

FairSpec == Spec /\ Fairness
-----------------------------------------------------------------------------
(* Types: owner, depth, the queue and the caller's nesting are well formed. *)
TypeOK ==
  /\ owner \in Threads \cup {None}
  /\ depth \in Nat
  /\ waiters \in Seq(Threads)
  /\ timed_out \in [Threads -> Nat]
  /\ asleep \in SUBSET Threads
  /\ pc \in [Threads -> Places]
  /\ nest \in [Threads -> Seq(Outcomes)]

Got(t) == {i \in 1..Len(nest[t]) : nest[t][i] = "got"}

(* While one thread has a successful acquire it has not released, no other *)
(* thread has one: timed-out callers that ran unlocked, their later unlock *)
(* calls and releases by other threads never let a second owner in.        *)
MutualExclusion ==
  \A t, u \in Threads : t # u => Got(t) = {} \/ Got(u) = {}

(* The mutex and its callers agree: depth_ counts exactly the successful   *)
(* acquires of the owner, timed_out_ exactly the failed ones of each       *)
(* thread, and the failed ones are always the outer ones -- which is why   *)
(* unlock may try the owner's own level before timed_out_.                 *)
Nesting(s, late, held) ==
  /\ Len(s) = late + held
  /\ \A i \in 1..Len(s) : s[i] = IF i <= late THEN "late" ELSE "got"

Levels(t) == IF owner = t THEN depth ELSE 0

Balanced ==
  /\ owner = None <=> depth = 0
  /\ \A t \in Threads : Nesting(nest[t], timed_out[t], Levels(t))

(* A free mutex with a queue is never forgotten: its oldest waiter is      *)
(* already awake, or a thread that freed it has its notify_all still to do. *)
NoLostWakeup ==
  owner = None /\ waiters # <<>> =>
    \/ Head(waiters) \notin asleep
    \/ \E t \in Threads : pc[t] = "notify"

(* The queue holds each blocked thread once, and nobody else: never the     *)
(* owner, who re-enters without a ticket.                                  *)
QueueIsWaiters ==
  /\ IsInjective(waiters)
  /\ Range(waiters) = {t \in Threads : Waiting(t)}
  /\ asleep \subseteq Range(waiters)
  /\ owner \notin Range(waiters)

(* Nobody overtakes: a thread gets a mutex it did not own only when no     *)
(* other thread is queued before it -- the barging the class is there to   *)
(* prevent, which std::recursive_timed_mutex allows.                       *)
NoBarging ==
  [][\A t \in Threads :
       owner # t /\ owner' = t => waiters = <<>> \/ Head(waiters) = t]_vars

(* If no thread keeps the mutex forever, a thread blocked in lock gets it. *)
NoStarvation ==
  (\A u \in Threads : []<>(owner # u)) =>
    \A t \in Threads : (pc[t] = "lock") ~> (owner = t)

(* The class implements the lock a guest is promised, where a guest thread *)
(* holds as many levels as acquires that succeeded and are not released.   *)
Promise == INSTANCE RecursiveLock
             WITH level <- [t \in Threads |-> Cardinality(Got(t))]
ImplementsLock == Promise!LockSpec
=============================================================================
