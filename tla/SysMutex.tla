------------------------------ MODULE SysMutex ------------------------------
(***************************************************************************)
(* One sys_mutex and the sys_conds on it (sys_mutex.c and sys_cond.c of    *)
(* ps3recomp/runtime/syscalls).                                            *)
(*                                                                         *)
(* The guest's mutex is a pair of words, owner_tid and lock_count, over a  *)
(* host mutex: a CRITICAL_SECTION, always recursive, or a pthread mutex,   *)
(* recursive when the guest's is and error-checking otherwise.  The words  *)
(* are written by the holder of the host mutex, so taking it and writing   *)
(* them is one step; an unlock writes them first and is two.  "nest" is    *)
(* the guest's own account of the locks it has been granted.               *)
(***************************************************************************)
EXTENDS Naturals, FiniteSets

CONSTANTS
  Threads, None,
  Conds,       \* condition variables of the mutex
  Gates,       \* those whose sys_cond_signal is a broadcast: cond_id 5
  Windows,     \* the build: CRITICAL_SECTION or pthreads
  Recursive,   \* the guest asked for a recursive mutex
  TryAgain,    \* the guest re-enters with sys_mutex_trylock
  MayDestroy,  \* the guest may destroy the mutex and its conds
  MaxNest      \* bound: how deep a thread nests

ASSUME NoneAssumption == None \notin Threads
ASSUME FlagsAssumption == {Windows, Recursive, TryAgain, MayDestroy} \subseteq BOOLEAN
ASSUME CondsAssumption == Gates \subseteq Conds /\ None \notin Conds
ASSUME NestAssumption == MaxNest \in Nat \ {0}

VARIABLES
  active, ownerTid, lockCount,  \* sys_mutex_info
  hostOwner, hostCount,         \* the host mutex
  live,                         \* sys_cond_info: the conds that exist
  at,                           \* where a thread is
  on,                           \* the cond it waits on
  timed,                        \* whether its lock or wait has a timeout
  saved,                        \* what a wait saved: <<owner, count>>
  nest                          \* the guest's account

wordVars == <<ownerTid, lockCount>>
hostVars == <<hostOwner, hostCount>>
waitVars == <<on, saved>>
smVars == <<active, wordVars, hostVars, live, at, timed, waitVars, nest>>

Nothing == <<None, 0>>

SmInit ==
  /\ active = TRUE
  /\ ownerTid = None /\ lockCount = 0
  /\ hostOwner = None /\ hostCount = 0
  /\ live = Conds
  /\ at = [t \in Threads |-> "idle"]
  /\ on = [t \in Threads |-> None]
  /\ timed = [t \in Threads |-> FALSE]
  /\ saved = [t \in Threads |-> Nothing]
  /\ nest = [t \in Threads |-> 0]

-----------------------------------------------------------------------------
(* The host mutex *)

HostRecursive == Windows \/ Recursive
HostFree(t) == hostOwner = None \/ (hostOwner = t /\ HostRecursive)
HostTake(t) == hostOwner' = t /\ hostCount' = hostCount + 1

\* One level is given back; a thread that does not own the mutex gets an error
\* that nobody looks at.
HostGive(t) ==
  IF hostOwner # t THEN UNCHANGED hostVars
  ELSE /\ hostCount' = hostCount - 1
       /\ hostOwner' = IF hostCount = 1 THEN None ELSE t

Go(t, station) == at' = [at EXCEPT ![t] = station]
Return(t) == Go(t, "idle") /\ timed' = [timed EXCEPT ![t] = FALSE]

\* The words and the guest's account after a lock.
Granted(t) ==
  /\ ownerTid' = t
  /\ lockCount' = lockCount + 1
  /\ nest' = [nest EXCEPT ![t] = @ + 1]

-----------------------------------------------------------------------------
(* sys_mutex *)

Reentered(t) == ownerTid = t /\ lockCount > 0

\* sys_mutex_lock up to the wait: EDEADLK when a non-recursive mutex is the
\* caller's own.
Lock(t) ==
  /\ at[t] = "idle" /\ active /\ nest[t] < MaxNest
  /\ Recursive \/ ~Reentered(t)
  /\ Go(t, "locking")
  /\ timed' \in {timed, [timed EXCEPT ![t] = TRUE]}
  /\ UNCHANGED <<active, wordVars, hostVars, live, waitVars, nest>>

LockGranted(t) ==
  /\ at[t] = "locking"
  /\ HostFree(t) /\ HostTake(t)
  /\ Granted(t)
  /\ Return(t)
  /\ UNCHANGED <<active, live, waitVars>>

LockExpire(t) ==
  /\ at[t] = "locking" /\ timed[t] /\ ~HostFree(t)
  /\ Return(t)
  /\ UNCHANGED <<active, wordVars, hostVars, live, waitVars, nest>>

\* A re-entry that leaves the host mutex alone.
MutReenterHost(t) == UNCHANGED hostVars

\* What sys_mutex_trylock does to the host mutex when the caller re-enters:
\* on POSIX nothing, although the unlock will give a level back.
ReenterHost(t) == IF Windows THEN HostTake(t) ELSE UNCHANGED hostVars

TryLock(t) ==
  /\ at[t] = "idle" /\ active /\ nest[t] < MaxNest
  /\ IF Recursive /\ Reentered(t)
     THEN TryAgain /\ ReenterHost(t)
     ELSE HostFree(t) /\ HostTake(t)
  /\ Granted(t)
  /\ UNCHANGED <<active, live, at, timed, waitVars>>

\* The words of an unlock of t.
Uncount(t) ==
  /\ lockCount' = lockCount - 1
  /\ ownerTid' = IF lockCount = 1 THEN None ELSE ownerTid

\* sys_mutex_unlock of a lock the guest was granted: EPERM when the words
\* name somebody else, else the words, then the host mutex.
Unlock(t) ==
  /\ at[t] = "idle" /\ active /\ nest[t] > 0
  /\ nest' = [nest EXCEPT ![t] = @ - 1]
  /\ IF ownerTid = t
     THEN Uncount(t) /\ Go(t, "unlocking")
     ELSE UNCHANGED <<wordVars, at>>
  /\ UNCHANGED <<active, hostVars, live, timed, waitVars>>

UnlockHost(t) ==
  /\ at[t] = "unlocking"
  /\ HostGive(t)
  /\ Return(t)
  /\ UNCHANGED <<active, wordVars, live, waitVars, nest>>

\* sys_mutex_destroy does not ask whether the mutex is held.  glibc refuses to
\* destroy a locked mutex and keeps it as it is; elsewhere this is undefined
\* for those who wait for it.
MutexDestroy(t) ==
  /\ MayDestroy /\ active /\ at[t] = "idle"
  /\ active' = FALSE
  /\ UNCHANGED <<wordVars, hostVars, live, at, timed, waitVars, nest>>

-----------------------------------------------------------------------------
(* sys_cond *)

Sleepers(c) == {t \in Threads : at[t] = "waiting" /\ on[t] = c}

\* What a wait gives back of the host mutex.
WaitGives(t) == HostGive(t)

\* sys_cond_wait by a thread that holds the mutex: the words are saved and
\* cleared, and the host gives back ONE level of the mutex and sleeps.
\* Without the host mutex it returns at once and has changed nothing.
CondWait(t, c) ==
  /\ at[t] = "idle" /\ active /\ c \in live
  /\ nest[t] > 0 /\ hostOwner = t
  /\ saved' = [saved EXCEPT ![t] = <<ownerTid, lockCount>>]
  /\ ownerTid' = None /\ lockCount' = 0
  /\ WaitGives(t)
  /\ on' = [on EXCEPT ![t] = c]
  /\ Go(t, "waiting")
  /\ timed' \in {timed, [timed EXCEPT ![t] = TRUE]}
  /\ UNCHANGED <<active, live, nest>>

\* A sleeper is woken for no reason, or its timeout passes.
CondWake(t) ==
  /\ at[t] = "waiting"
  /\ Go(t, "relocking")
  /\ UNCHANGED <<active, wordVars, hostVars, live, timed, waitVars, nest>>

\* Only the timeout gets a waiter away from a cond that is gone.
CondExpire(t) ==
  /\ at[t] \in {"waiting", "orphan"} /\ timed[t]
  /\ Go(t, "relocking")
  /\ UNCHANGED <<active, wordVars, hostVars, live, timed, waitVars, nest>>

\* What a wait writes back into the words.
Restored(t) == ownerTid' = saved[t][1] /\ lockCount' = saved[t][2]

CondReturn(t) ==
  /\ at[t] = "relocking"
  /\ HostFree(t) /\ HostTake(t)
  /\ Restored(t)
  /\ saved' = [saved EXCEPT ![t] = Nothing]
  /\ on' = [on EXCEPT ![t] = None]
  /\ Return(t)
  /\ UNCHANGED <<active, live, nest>>

\* No cond is special.
MutBroadcasts(c) == FALSE

\* The conds whose signal wakes all.
Broadcasts(c) == c \in Gates

WakeThese(woken) ==
  /\ at' = [u \in Threads |-> IF u \in woken THEN "relocking" ELSE at[u]]
  /\ UNCHANGED <<active, wordVars, hostVars, live, timed, waitVars, nest>>

CondSignal(t, c) ==
  /\ at[t] = "idle" /\ c \in live /\ Sleepers(c) # {}
  /\ IF Broadcasts(c) THEN WakeThese(Sleepers(c))
     ELSE \E u \in Sleepers(c) : WakeThese({u})

CondSignalAll(t, c) ==
  /\ at[t] = "idle" /\ c \in live /\ Sleepers(c) # {}
  /\ WakeThese(Sleepers(c))

\* Nobody is woken by sys_cond_destroy.
CondDestroy(t, c) ==
  /\ MayDestroy /\ at[t] = "idle" /\ c \in live
  /\ live' = live \ {c}
  /\ at' = [u \in Threads |-> IF u \in Sleepers(c) THEN "orphan" ELSE at[u]]
  /\ UNCHANGED <<active, wordVars, hostVars, timed, waitVars, nest>>

-----------------------------------------------------------------------------
Continue(t) == \/ LockGranted(t) \/ LockExpire(t) \/ UnlockHost(t)
               \/ CondExpire(t) \/ CondReturn(t)

SmNext == \E t \in Threads :
  \/ Lock(t) \/ TryLock(t) \/ Unlock(t) \/ MutexDestroy(t)
  \/ Continue(t) \/ CondWake(t)
  \/ \E c \in Conds : \/ CondWait(t, c) \/ CondSignal(t, c)
                      \/ CondSignalAll(t, c) \/ CondDestroy(t, c)

SmSpec == SmInit /\ [][SmNext]_smVars

\* The host runs every thread that can go on.  It need not be fair among the
\* threads that want the mutex.
SmFairSpec == SmSpec /\ \A t \in Threads : WF_smVars(Continue(t))

-----------------------------------------------------------------------------
(* Properties *)

Away(t) == at[t] \in {"waiting", "orphan", "relocking"}
Holds(t) == nest[t] > 0 /\ ~Away(t)

\* The shape of the state; a thread that sleeps on a cond has saved the words
\* of a mutex that was its own.
SmTypeOK ==
  /\ ownerTid \in Threads \cup {None} /\ lockCount \in 0 .. MaxNest
  /\ hostOwner \in Threads \cup {None}
  /\ hostOwner = None <=> hostCount = 0
  /\ nest \in [Threads -> 0 .. MaxNest]
  /\ \A t \in Threads : IF Away(t) THEN saved[t] = <<t, nest[t]>>
                        ELSE saved[t] = Nothing

\* The words name the thread that has the mutex and count its locks, and the
\* host mutex backs every one of them (sys_mutex.c:262).
WordsBacked == \A t \in Threads : Holds(t) =>
  /\ ownerTid = t /\ lockCount = nest[t]
  /\ hostOwner = t
  /\ hostCount = nest[t] + (IF at[t] = "unlocking" THEN 1 ELSE 0)

\* A thread that waits on a cond has released the mutex (sys_cond.c:215).
WaiterReleases == \A t \in Threads : at[t] = "waiting" => hostOwner # t

\* A mutex nobody has does not keep threads waiting; a thread that waits on a
\* cond has it when it had locked it more than once (see WaiterReleases).
FreeIsGranted ==
  ~ <>[](/\ \E t \in Threads : at[t] = "locking"
         /\ \A t \in Threads : ~Holds(t) /\ (Away(t) => nest[t] = 1))

\* The guest has the recursive lock LV2 promises.
LockPromise == INSTANCE RecursiveLock
  WITH level <- [t \in Threads |-> IF Away(t) THEN 0 ELSE nest[t]]
MutexImplementsLock == LockPromise!LockSpec
=============================================================================
