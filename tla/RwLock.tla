------------------------------- MODULE RwLock -------------------------------
(***************************************************************************)
(* Reader-writer locks (ps3recomp/runtime/syscalls/sys_rwlock.c).  POSIX    *)
(* calls pthread_rwlock_* and nothing else.  Windows keeps two words beside *)
(* the SRW lock, writer and writer_tid, which a writer sets one after the   *)
(* other when it has the lock and clears in the other order before it gives *)
(* it back; other threads read them, one after the other, without a lock to *)
(* answer EDEADLK and EPERM.  The count of readers is written and never     *)
(* read, and is left out; timeouts are ignored by the code.                 *)
(***************************************************************************)
EXTENDS Naturals, FiniteSets

CONSTANTS
  Users,      \* guest threads
  Builds,     \* {TRUE} for Windows, {FALSE} for POSIX, or both
  MaxReads,   \* bound: levels a thread reads at
  Nobody      \* no thread

ASSUME RwAssumption == Builds \subseteq BOOLEAN /\ MaxReads \in Nat /\ Nobody \notin Users

VARIABLES
  srw,                \* is this the Windows build: chosen once
  writer, writerTid,  \* the words
  shared, exclusive,  \* the host lock: levels by thread, and its writer
  place, trying,      \* where a thread is in a call, and whether it may block
  has                 \* who was told that it has the lock for writing

hostVars == <<shared, exclusive>>
wordVars == <<srw, writer, writerTid>>
rwVars   == <<wordVars, hostVars, place, trying, has>>

RwInit ==
  /\ srw \in Builds
  /\ writer = 0 /\ writerTid = Nobody
  /\ shared = [u \in Users |-> 0] /\ exclusive = Nobody
  /\ place = [u \in Users |-> "out"]
  /\ trying = [u \in Users |-> FALSE]
  /\ has = {}

To(u, p) == place' = [place EXCEPT ![u] = p]
Returns(u) == To(u, "out") /\ trying' = [trying EXCEPT ![u] = FALSE]

Readable == exclusive = Nobody
Writable == exclusive = Nobody /\ \A u \in Users : shared[u] = 0

-----------------------------------------------------------------------------
\* sys_rwlock_rlock, and a tryrlock that is not answered EBUSY.  The guest
\* does not read while it writes.
RLock(u) ==
  /\ place[u] = "out" /\ u \notin has /\ shared[u] < MaxReads
  /\ Readable
  /\ shared' = [shared EXCEPT ![u] = @ + 1]
  /\ UNCHANGED <<wordVars, exclusive, place, trying, has>>

\* sys_rwlock_runlock by a thread that reads.
RUnlock(u) ==
  /\ place[u] = "out" /\ shared[u] > 0
  /\ shared' = [shared EXCEPT ![u] = @ - 1]
  /\ UNCHANGED <<wordVars, exclusive, place, trying, has>>

-----------------------------------------------------------------------------
\* sys_rwlock_wlock and trywlock of a thread that does not read: on Windows
\* the test of writer.  A thread that has the lock for writing asks again
\* only where the words are there to refuse it.
WLock(u, try) ==
  /\ place[u] = "out" /\ shared[u] = 0 /\ (u \in has => srw)
  /\ trying' = [trying EXCEPT ![u] = try]
  /\ To(u, IF srw /\ writer = 1 THEN "compare" ELSE "acquire")
  /\ UNCHANGED <<wordVars, hostVars, has>>

\* The test of writer_tid.
Compare(u) ==
  /\ place[u] = "compare"
  /\ To(u, IF writerTid = u THEN "edeadlk" ELSE "acquire")
  /\ UNCHANGED <<wordVars, hostVars, trying, has>>

\* The host lock is acquired.
WAcquire(u) ==
  /\ place[u] = "acquire" /\ Writable
  /\ exclusive' = u
  /\ IF srw THEN To(u, "mark") /\ UNCHANGED <<trying, has>>
            ELSE Returns(u) /\ has' = has \cup {u}
  /\ UNCHANGED <<wordVars, shared>>

\* EBUSY.
WBusy(u) ==
  /\ place[u] = "acquire" /\ trying[u] /\ ~Writable
  /\ Returns(u)
  /\ UNCHANGED <<wordVars, hostVars, has>>

Mark(u) ==
  /\ place[u] = "mark"
  /\ writer' = 1
  /\ To(u, "name")
  /\ UNCHANGED <<srw, writerTid, hostVars, trying, has>>

Name(u) ==
  /\ place[u] = "name"
  /\ writerTid' = u
  /\ Returns(u) /\ has' = has \cup {u}
  /\ UNCHANGED <<srw, writer, hostVars>>

-----------------------------------------------------------------------------
\* sys_rwlock_wunlock: on Windows the test of writer, by anybody; on POSIX
\* the guest unlocks what it has.
WUnlock(u) ==
  /\ place[u] = "out" /\ (u \in has \/ srw)
  /\ IF srw
     THEN To(u, IF writer = 0 THEN "eperm" ELSE "own") /\ UNCHANGED <<exclusive, has>>
     ELSE exclusive' = Nobody /\ has' = has \ {u} /\ UNCHANGED place
  /\ UNCHANGED <<wordVars, shared, trying>>

\* The reset without the test.
MutOwnAnyone(u) ==
  /\ place[u] = "own"
  /\ To(u, "unmark") /\ writerTid' = Nobody /\ has' = has \ {u}
  /\ UNCHANGED <<srw, writer, hostVars, trying>>

\* The test of writer_tid, and its reset.
Own(u) ==
  /\ place[u] = "own"
  /\ IF writerTid # u THEN To(u, "eperm") /\ UNCHANGED <<writerTid, has>>
     ELSE To(u, "unmark") /\ writerTid' = Nobody /\ has' = has \ {u}
  /\ UNCHANGED <<srw, writer, hostVars, trying>>

Unmark(u) ==
  /\ place[u] = "unmark"
  /\ writer' = 0
  /\ To(u, "free")
  /\ UNCHANGED <<srw, writerTid, hostVars, trying, has>>

WFree(u) ==
  /\ place[u] = "free"
  /\ exclusive' = Nobody
  /\ To(u, "out")
  /\ UNCHANGED <<wordVars, shared, trying, has>>

\* A call that is answered EDEADLK or EPERM.
Refused(u) ==
  /\ place[u] \in {"edeadlk", "eperm"}
  /\ Returns(u)
  /\ UNCHANGED <<wordVars, hostVars, has>>

-----------------------------------------------------------------------------
RwContinue(u) == \/ Compare(u) \/ WAcquire(u) \/ WBusy(u) \/ Mark(u) \/ Name(u)
                 \/ Own(u) \/ Unmark(u) \/ WFree(u) \/ Refused(u)

RwNext == \E u \in Users :
  \/ RLock(u) \/ RUnlock(u) \/ WUnlock(u) \/ RwContinue(u)
  \/ \E try \in BOOLEAN : WLock(u, try)

RwSpec == RwInit /\ [][RwNext]_rwVars

-----------------------------------------------------------------------------
(* Properties *)

\* The shape of the state.
RwTypeOK ==
  /\ srw \in Builds
  /\ writer \in {0, 1} /\ writerTid \in Users \cup {Nobody}
  /\ shared \in [Users -> 0 .. MaxReads] /\ exclusive \in Users \cup {Nobody}
  /\ place \in [Users -> {"out", "compare", "edeadlk", "acquire", "mark", "name",
                          "own", "eperm", "unmark", "free"}]
  /\ trying \in [Users -> BOOLEAN]
  /\ has \in SUBSET Users

\* The words are read without a lock, yet a thread is told EDEADLK only if it
\* has the lock and EPERM only if it has not (sys_rwlock.c:174, 227).
RefusalsAreTrue == \A u \in Users :
  /\ place[u] = "edeadlk" => u \in has
  /\ place[u] = "eperm" => u \notin has

\* Readers share and a writer is alone, from the return of its lock to its
\* unlock, which nobody else can do for it.
Promised == INSTANCE SharedLock WITH Parties <- Users, reads <- shared, writing <- has
ImplementsSharedLock == Promised!SharedLockSpec
=============================================================================
