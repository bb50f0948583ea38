-------------------------- MODULE SysMutexProofs --------------------------
(***************************************************************************)
(* Proofs about SysMutex for any threads, conds and nesting, recursive or   *)
(* not, on either build -- as long as the POSIX build is not re-entered by   *)
(* sys_mutex_trylock, which counts a lock its host mutex does not have.     *)
(*                                                                         *)
(* WordsBacked is about the thread that has the mutex.  To keep it one must  *)
(* know what the host mutex counts for EVERY thread: one level more than the *)
(* guest's account in the middle of an unlock, one less during a wait on a  *)
(* cond, which leaves a sleeper with the host mutex if it had nested; and   *)
(* that the words are blank when nobody has the mutex.                      *)
(*                                                                         *)
(* The rest is about the objects of CellSync, one invariant for each: the   *)
(* copies of the reader-writer memory, the rounds of the barrier, and the   *)
(* queue as a FIFO.                                                        *)
(***************************************************************************)
EXTENDS SysMutex, CellSync, RingLemmas, TLAPS, FiniteSetTheorems

Backing == TryAgain => Windows

(* The levels of the host mutex that are due to t. *)
HostLevels(t) == IF Away(t) THEN nest[t] - 1
                 ELSE nest[t] + (IF at[t] = "unlocking" THEN 1 ELSE 0)

Places == {"idle", "locking", "unlocking", "waiting", "orphan", "relocking"}

Shape ==
  /\ SmTypeOK
  /\ hostCount \in Nat
  /\ at \in [Threads -> Places]
  /\ saved \in [Threads -> (Threads \cup {None}) \X Nat]
  /\ \A t \in Threads : Away(t) => nest[t] > 0
  /\ \A t \in Threads : at[t] = "locking" => nest[t] < MaxNest

(* The host mutex counts the levels of one thread, and there are no others. *)
HostCounts ==
  /\ \A t \in Threads : HostLevels(t) > 0 <=> hostOwner = t
  /\ \A t \in Threads : hostOwner = t => hostCount = HostLevels(t)

(* The words count the locks of the thread that has the mutex. *)
WordsCount ==
  /\ \A t \in Threads : ownerTid = t <=> Holds(t)
  /\ \A t \in Threads : ownerTid = t => lockCount = nest[t]
  /\ ownerTid = None => lockCount = 0

(* The inductive invariant. *)
IInv == Backing /\ Shape /\ HostCounts /\ WordsCount

USE NoneAssumption, FlagsAssumption, CondsAssumption, NestAssumption

(* The invariant holds before the first call. *)
LEMMA InitInv == Backing /\ SmInit => IInv
  BY DEF SmInit, IInv, Shape, SmTypeOK, HostCounts, WordsCount, HostLevels, Holds,
     Away, Places, Nothing

(* A thread comes to the host mutex, gives up, or is woken. *)
LEMMA MovesInv ==
  ASSUME IInv, NEW t \in Threads,
         Lock(t) \/ LockExpire(t) \/ MutexDestroy(t) \/ CondWake(t) \/ CondExpire(t)
  PROVE  IInv'
<1> USE DEF Lock, LockExpire, MutexDestroy, CondWake, CondExpire, Go, Return,
        wordVars, hostVars, waitVars, IInv
<1>1. Shape'
  BY DEF Shape, SmTypeOK, Away, Places
<1>2. HostCounts'
  BY DEF Shape, SmTypeOK, HostCounts, HostLevels, Away, Places
<1>3. WordsCount'
  BY DEF Shape, SmTypeOK, WordsCount, Holds, Away, Places
<1> QED
  BY <1>1, <1>2, <1>3 DEF Backing

(* Sleepers are woken, or their cond goes: they stay away. *)
LEMMA WakesInv ==
  ASSUME IInv, NEW t \in Threads, NEW c \in Conds,
         CondSignal(t, c) \/ CondSignalAll(t, c) \/ CondDestroy(t, c)
  PROVE  IInv'
<1>0. /\ \/ at' = [u \in Threads |-> IF u \in Sleepers(c) THEN "orphan" ELSE at[u]]
         \/ \E woken \in SUBSET Sleepers(c) :
              at' = [u \in Threads |-> IF u \in woken THEN "relocking" ELSE at[u]]
      /\ UNCHANGED <<active, wordVars, hostVars, timed, waitVars, nest>>
  BY DEF CondSignal, CondSignalAll, CondDestroy, WakeThese
<1>1. /\ at' \in [Threads -> Places]
      /\ \A u \in Threads : Away(u)' <=> Away(u)
      /\ \A u \in Threads : at'[u] = "locking" <=> at[u] = "locking"
      /\ \A u \in Threads : at'[u] = "unlocking" <=> at[u] = "unlocking"
  BY <1>0 DEF IInv, Shape, Away, Sleepers, Places
<1> USE <1>0, <1>1 DEF wordVars, hostVars, waitVars, IInv
<1>2. Shape'
  BY DEF Shape, SmTypeOK
<1>3. HostCounts'
  BY DEF HostCounts, HostLevels
<1>4. WordsCount'
  BY DEF WordsCount, Holds
<1> QED
  BY <1>2, <1>3, <1>4 DEF Backing

(* Who can take the host mutex is the only thread with levels. *)
LEMMA FreeExcludes ==
  ASSUME IInv, NEW t \in Threads, HostFree(t), NEW u \in Threads \ {t}
  PROVE  ~Holds(u) /\ HostLevels(u) = 0 /\ ownerTid # u
  BY DEF IInv, Shape, SmTypeOK, HostCounts, WordsCount, HostLevels, Holds, Away, HostFree

(* A lock or trylock is granted. *)
LEMMA GrantInv ==
  ASSUME IInv, NEW t \in Threads, LockGranted(t) \/ TryLock(t)
  PROVE  IInv'
<1>1. HostFree(t) \/ Holds(t)
  BY DEF LockGranted, TryLock, IInv, WordsCount, Reentered
<1>2. /\ hostOwner \in {t, None}
      /\ HostTake(t)
  BY <1>1 DEF LockGranted, TryLock, HostFree, ReenterHost, IInv, Backing, HostCounts, Holds,
     HostLevels, Shape, SmTypeOK
<1>3. /\ Granted(t)
      /\ at[t] \in {"idle", "locking"} /\ at' = [at EXCEPT ![t] = "idle"]
      /\ nest[t] < MaxNest
      /\ UNCHANGED waitVars
  BY DEF LockGranted, TryLock, Return, Go, IInv, Shape
<1>4. ownerTid \in {t, None} /\ lockCount = nest[t] /\ hostCount = nest[t]
  BY <1>2, <1>3 DEF IInv, Shape, SmTypeOK, HostCounts, WordsCount, HostLevels, Holds, Away
<1> USE <1>2, <1>3, <1>4 DEF Granted, HostTake, waitVars, IInv
<1>5. Shape'
  BY DEF Shape, SmTypeOK, Away, Places
<1>6. HostCounts'
  BY DEF Shape, SmTypeOK, HostCounts, HostLevels, Away
<1>7. WordsCount'
  BY DEF Shape, SmTypeOK, WordsCount, Holds, Away
<1> QED
  BY <1>5, <1>6, <1>7 DEF Backing

(* The words of an unlock ... *)
LEMMA UnlockInv ==
  ASSUME IInv, NEW t \in Threads, Unlock(t)
  PROVE  IInv'
<1>1. ownerTid = t /\ hostOwner = t /\ lockCount = nest[t] /\ hostCount = nest[t]
  BY DEF Unlock, IInv, WordsCount, Holds, Away, HostCounts, HostLevels, Shape, SmTypeOK
<1> USE <1>1 DEF Unlock, Uncount, Go, hostVars, waitVars, wordVars, IInv
<1>2. Shape'
  BY DEF Shape, SmTypeOK, Away, Places
<1>3. HostCounts'
  BY DEF Shape, SmTypeOK, HostCounts, HostLevels, Away
<1>4. WordsCount'
  BY DEF Shape, SmTypeOK, WordsCount, Holds, Away
<1> QED
  BY <1>2, <1>3, <1>4 DEF Backing

(* ... and its host mutex. *)
LEMMA UnlockHostInv ==
  ASSUME IInv, NEW t \in Threads, UnlockHost(t)
  PROVE  IInv'
<1>1. hostOwner = t /\ hostCount = nest[t] + 1
  BY DEF UnlockHost, IInv, Away, HostCounts, HostLevels, Shape, SmTypeOK
<1> USE <1>1 DEF UnlockHost, HostGive, Return, Go, waitVars, wordVars, IInv
<1>2. Shape'
  BY DEF Shape, SmTypeOK, Away, Places
<1>3. HostCounts'
  BY DEF Shape, SmTypeOK, HostCounts, HostLevels, Away
<1>4. WordsCount'
  BY DEF Shape, SmTypeOK, WordsCount, Holds, Away
<1> QED
  BY <1>2, <1>3, <1>4 DEF Backing

(* A wait leaves the words blank and one level less in the host mutex ... *)
LEMMA CondWaitInv ==
  ASSUME IInv, NEW t \in Threads, NEW c \in Conds, CondWait(t, c)
  PROVE  IInv'
<1>1. ownerTid = t /\ hostOwner = t /\ lockCount = nest[t] /\ hostCount = nest[t]
  BY DEF CondWait, IInv, WordsCount, Holds, Away, HostCounts, HostLevels, Shape, SmTypeOK
<1> USE <1>1 DEF CondWait, WaitGives, HostGive, Go, IInv
<1>2. Shape'
  BY DEF Shape, SmTypeOK, Away, Places
<1>3. HostCounts'
  BY DEF Shape, SmTypeOK, HostCounts, HostLevels, Away
<1>4. WordsCount'
  BY DEF Shape, SmTypeOK, WordsCount, Holds, Away
<1> QED
  BY <1>2, <1>3, <1>4 DEF Backing

(* ... and takes both back. *)
LEMMA CondReturnInv ==
  ASSUME IInv, NEW t \in Threads, CondReturn(t)
  PROVE  IInv'
<1>1. /\ hostOwner \in {t, None} /\ hostCount + 1 = nest[t]
      /\ ownerTid = None /\ saved[t] = <<t, nest[t]>> /\ nest[t] > 0
  BY FreeExcludes DEF CondReturn, HostFree, IInv, WordsCount, Holds, Away, HostCounts,
     HostLevels, Shape, SmTypeOK
<1> USE <1>1 DEF CondReturn, HostTake, Restored, Return, Go, IInv, Nothing
<1>2. Shape'
  BY DEF Shape, SmTypeOK, Away, Places
<1>3. HostCounts'
  BY DEF Shape, SmTypeOK, HostCounts, HostLevels, Away
<1>4. WordsCount'
  BY FreeExcludes DEF Shape, SmTypeOK, WordsCount, Holds, Away
<1> QED
  BY <1>2, <1>3, <1>4 DEF Backing

(* No step breaks the invariant. *)
LEMMA NextInv == IInv /\ [SmNext]_smVars => IInv'
<1> SUFFICES ASSUME IInv, [SmNext]_smVars PROVE IInv'
  OBVIOUS
<1>1. CASE UNCHANGED smVars
  BY <1>1 DEF IInv, Backing, Shape, SmTypeOK, HostCounts, WordsCount, HostLevels, Holds,
     Away, smVars, wordVars, hostVars, waitVars
<1>2. CASE SmNext
  BY <1>2, MovesInv, WakesInv, GrantInv, UnlockInv, UnlockHostInv, CondWaitInv,
     CondReturnInv DEF SmNext, Continue
<1> QED
  BY <1>1, <1>2

(* The invariant holds throughout. *)
LEMMA AlwaysInv == Backing /\ SmSpec => []IInv
  BY InitInv, NextInv, PTL DEF SmSpec

(* The words name who has the mutex, count its locks, and the host mutex   *)
(* backs each of them, even when unlocks are half done and sleepers still   *)
(* have levels of it.                                                      *)
THEOREM WordsAreBacked == Backing /\ SmSpec => []WordsBacked
<1>1. IInv => WordsBacked
  BY DEF IInv, Shape, SmTypeOK, HostCounts, WordsCount, WordsBacked, HostLevels, Holds, Away
<1> QED
  BY <1>1, AlwaysInv, PTL

-----------------------------------------------------------------------------
(* What the guest has of the mutex. *)
Level == [t \in Threads |-> IF Away(t) THEN 0 ELSE nest[t]]

(* A step of the code that the guest does not notice. *)
Quietly == \A u \in Threads : Away(u)' = Away(u) /\ nest'[u] = nest[u]

(* What neither takes nor gives a level leaves the levels alone. *)
LEMMA QuietSteps ==
  ASSUME IInv, NEW t \in Threads,
         \/ Lock(t) \/ LockExpire(t) \/ MutexDestroy(t) \/ CondWake(t) \/ CondExpire(t)
         \/ UnlockHost(t)
         \/ \E c \in Conds : CondSignal(t, c) \/ CondSignalAll(t, c) \/ CondDestroy(t, c)
  PROVE  Level' = Level
<1>1. Quietly
  BY DEF Quietly, IInv, Shape, SmTypeOK, Lock, LockExpire, MutexDestroy, CondWake, CondExpire,
     UnlockHost, CondSignal, CondSignalAll, CondDestroy, WakeThese, Sleepers, Away, Go, Return
<1> QED
  BY <1>1 DEF Quietly, Level

(* A step that takes or gives back levels is one of the abstract lock. *)
LEMMA LoudSteps ==
  ASSUME IInv, NEW t \in Threads,
         \/ LockGranted(t) \/ TryLock(t) \/ Unlock(t) \/ CondReturn(t)
         \/ \E c \in Conds : CondWait(t, c)
  PROVE  LockPromise!LockNext
<1> USE DEF Level, IInv, Shape, SmTypeOK
<1>1. ASSUME HostFree(t) \/ Holds(t)  PROVE LockPromise!Excludes(t)
  <2>1. \A u \in Threads \ {t} : ~Holds(u)
    BY <1>1, FreeExcludes DEF WordsCount
  <2> QED
    BY <2>1 DEF LockPromise!Excludes, Holds
<1>2. CASE LockGranted(t) \/ TryLock(t)
  <2>1. HostFree(t) \/ Holds(t)
    BY <1>2 DEF LockGranted, TryLock, WordsCount, Reentered
  <2>2. Level' = [Level EXCEPT ![t] = @ + 1]
    BY <1>2 DEF LockGranted, TryLock, Granted, Return, Go, Away
  <2> QED
    BY <1>1, <2>1, <2>2 DEF LockPromise!Acquire, LockPromise!LockNext
<1>3. CASE Unlock(t)
  <2>1. Level[t] > 0 /\ Level' = [Level EXCEPT ![t] = @ - 1]
    BY <1>3 DEF Unlock, Go, Away
  <2> QED
    BY <2>1 DEF LockPromise!Release, LockPromise!LockNext
<1>4. CASE \E c \in Conds : CondWait(t, c)
  <2>1. Level[t] > 0 /\ Level' = [Level EXCEPT ![t] = 0]
    BY <1>4 DEF CondWait, Go, Away
  <2> QED
    BY <2>1 DEF LockPromise!ReleaseAll, LockPromise!LockNext
<1>5. CASE CondReturn(t)
  <2>1. Level[t] = 0 /\ nest[t] \in Nat
    BY <1>5 DEF CondReturn, Away
  <2>2. Level' = [u \in Threads |-> IF u = t THEN nest[t] ELSE Level[u]]
    BY <1>5 DEF CondReturn, Return, Go, Away
  <2>3. LockPromise!Excludes(t)
    BY <1>1, <1>5 DEF CondReturn
  <2> QED
    BY <2>1, <2>2, <2>3 DEF LockPromise!Reacquire, LockPromise!LockNext
<1> QED
  BY <1>2, <1>3, <1>4, <1>5

(* The guest has a recursive lock: a thread whose lock was granted keeps   *)
(* every other thread out until it has unlocked as often, or waits.        *)
THEOREM MutexRefinement == Backing /\ SmSpec => MutexImplementsLock
<1>1. SmInit => LockPromise!LockInit
  BY DEF SmInit, LockPromise!LockInit, Away
<1>2. IInv /\ [SmNext]_smVars => [LockPromise!LockNext]_Level
  <2> SUFFICES ASSUME IInv, [SmNext]_smVars PROVE LockPromise!LockNext \/ Level' = Level
    OBVIOUS
  <2>1. CASE UNCHANGED smVars
    BY <2>1 DEF smVars, Level, Away
  <2>2. CASE SmNext
    BY <2>2, QuietSteps, LoudSteps DEF SmNext, Continue
  <2> QED
    BY <2>1, <2>2
<1>3. Backing /\ SmSpec => [][LockPromise!LockNext]_Level
  BY <1>2, InitInv, NextInv, PTL DEF SmSpec
<1> QED
  BY <1>1, <1>3, PTL DEF SmSpec, MutexImplementsLock, LockPromise!LockSpec, Level

-----------------------------------------------------------------------------
(***************************************************************************)
(* Proofs about CellSync for any threads, items and bounds.                 *)
(*                                                                         *)
(* That a reader of the buffer sees one write whole rests on two counts    *)
(* that are read and written by separate atomics.  The invariant says what *)
(* they count: the readers between their increment and their decrement,    *)
(* and the one thread that owns the buffer.  A writer puts only after it   *)
(* saw no reader, and a reader that is counted later sees the writer and   *)
(* retreats.                                                                *)
(***************************************************************************)

Counts == {"check", "retreat", "copy", "copy2", "leave"}
Reads == {"copy", "copy2", "leave"}
Owns == {"drain", "put", "put2", "free"}
Putting == {"put", "put2", "free"}

Counted == {t \in Users : stage[t] \in Counts}

(* What the argument needs of the types. *)
BufferTypes ==
  /\ object.users \subseteq Users
  /\ stage \in [Users -> Stages] /\ mine \in [Users -> Items \X Items]
  /\ buffer \in Items \X Items
  /\ readers = Cardinality(Counted) /\ writer \in {0, 1}

(* writer is 1 exactly while one thread owns the buffer. *)
OneOwner == \A t \in Users : stage[t] \in Owns =>
  writer = 1 /\ \A u \in Users : stage[u] \in Owns => u = t

(* Nobody copies out while somebody may copy in. *)
Apart == \A t, u \in Users : ~(stage[t] \in Putting /\ stage[u] \in Reads)

(* A writer has one item, and the halves agree but in the middle of a copy. *)
Halves ==
  /\ \A t \in Users : stage[t] \in {"claim"} \cup Owns => mine[t][1] = mine[t][2]
  /\ \A t \in Users : stage[t] = "put2" => buffer[1] = mine[t][1]
  /\ (\A t \in Users : stage[t] # "put2") => buffer[1] = buffer[2]

(* What a reader has copied so far. *)
Copied ==
  /\ \A t \in Users : stage[t] = "copy2" => mine[t][1] = buffer[1]
  /\ ReadsAreWhole

(* The inductive invariant. *)
BufferInv == BufferTypes /\ OneOwner /\ Apart /\ Halves /\ Copied

(* The initial buffer is a whole item: both halves are the same. *)
LEMMA BlankIsPair == Blank \in Items \X Items /\ Blank[1] = Blank[2]
<1>1. NoItem \in Items
  BY SyncAssumption DEF NoItem
<1> QED BY <1>1 DEF Blank

(* The readers a lock counts are finitely many, so they can be counted. *)
LEMMA CountedIsFinite == IsFiniteSet(Counted) /\ Cardinality(Counted) \in Nat
<1>1. IsFiniteSet(Users)
  BY SyncAssumption
<1>2. Counted \in SUBSET Users
  BY DEF Counted
<1>3. IsFiniteSet(Counted)
  BY <1>1, <1>2, FS_Subset
<1> QED BY <1>3, FS_CardinalityType

(* The invariant of the buffer holds before anybody opens the object. *)
LEMMA InitBuffer == SyncInit => BufferInv
<1> SUFFICES ASSUME SyncInit PROVE BufferInv
  OBVIOUS
<1>1. Counted = {}
  BY DEF SyncInit, Counted, Counts
<1>2. Cardinality({}) = 0
  BY FS_EmptySet
<1>3. NoItem \in Items
  BY SyncAssumption DEF NoItem
<1>4. object.users \subseteq Users
  BY SyncAssumption DEF SyncInit
<1> QED
  BY <1>1, <1>2, <1>3, <1>4 DEF SyncInit, BufferInv, BufferTypes, OneOwner, Apart, Halves, Copied,
     ReadsAreWhole, Stages, Reads, Owns, Putting

(* A thread that goes from s to s2 with other locals. *)
Goes2(t, s2) ==
  /\ stage' = [stage EXCEPT ![t] = s2]
  /\ \E m \in Items \X Items : mine' = [mine EXCEPT ![t] = m]

(* Steps of the locks and of the barrier leave the buffer alone. *)
Elsewhere == Stages \ (Counts \cup Owns \cup {"claim"})

(* Steps between stages that touch neither locks nor buffer keep it. *)
LEMMA ElsewhereInv ==
  ASSUME BufferInv, NEW t \in Users, NEW s \in Elsewhere, stage[t] \in Elsewhere,
         Goes2(t, s), UNCHANGED <<object, readers, writer, buffer>>
  PROVE  BufferInv'
<1> USE DEF Goes2, Elsewhere, Counts, Owns, Reads, Putting, Stages
<1>1. Counted' = Counted
  BY DEF BufferInv, BufferTypes, Counted
<1>2. BufferTypes'
  BY <1>1 DEF BufferInv, BufferTypes
<1>3. OneOwner' /\ Apart'
  BY DEF BufferInv, BufferTypes, OneOwner, Apart
<1>4. Halves' /\ Copied'
  BY DEF BufferInv, BufferTypes, Halves, Copied, ReadsAreWhole
<1> QED BY <1>2, <1>3, <1>4 DEF BufferInv

(* Calls on the other objects, and calls that only begin, keep it. *)
LEMMA LocksInv ==
  ASSUME BufferInv, NEW t \in Users,
         LockStep(t) \/ \E o \in Puts \cup Gets \cup {"peek", "clear", "mutex", "trymutex"}, i \in Items :
                          QueueCall(t, o, i)
  PROVE  BufferInv'
<1>1. mine[t] \in Items \X Items
  BY DEF BufferInv, BufferTypes
<1>2. UNCHANGED <<object, readers, writer, buffer>>
  BY DEF Then, Goes, Call, LockStep, QueueCall, QueueSpin, Acquire, Busy, Recheck, Copy, Visit, Commit, Open, rwmVars, queueVars
<1>3. \E s \in Elsewhere : stage[t] \in Elsewhere /\ Goes2(t, s)
  <2> USE BlankIsPair, <1>1 DEF Then, Goes, Goes2, Elsewhere, Stages, Counts, Owns
  <2>1. CASE QueueSpin(t)
    BY <2>1 DEF QueueSpin
  <2>2. CASE Acquire(t)
    BY <2>2 DEF Acquire
  <2>3. CASE Busy(t)
    BY <2>3 DEF Busy
  <2>4. CASE Recheck(t)
    BY <2>4 DEF Recheck
  <2>5. CASE Copy(t)
    BY <2>5 DEF Copy
  <2>6. CASE Visit(t)
    BY <2>6 DEF Visit
  <2>7. CASE Commit(t)
    BY <2>7 DEF Commit
  <2>8. CASE Open(t)
    BY <2>8 DEF Open
  <2>9. CASE \E o \in Puts \cup Gets \cup {"peek", "clear", "mutex", "trymutex"}, i \in Items : QueueCall(t, o, i)
    BY <2>9 DEF QueueCall, Call
  <2> QED
    BY <2>1, <2>2, <2>3, <2>4, <2>5, <2>6, <2>7, <2>8, <2>9 DEF LockStep
<1> QED BY <1>2, <1>3, ElsewhereInv

(* The barrier has no part in the buffer. *)
LEMMA BarrierInv ==
  ASSUME BufferInv, NEW t \in Users,
         BarrierStep(t) \/ Notify(t) \/ BarrierWait(t) \/ TryWait(t)
  PROVE  BufferInv'
<1>1. mine[t] \in Items \X Items
  BY DEF BufferInv, BufferTypes
<1>2. UNCHANGED <<object, readers, writer, buffer>>
  BY DEF Then, Goes, Call, BarrierStep, Reset, Advance, Pass, Notify, BarrierWait, TryWait, rwmVars
<1>3. \E s \in Elsewhere : stage[t] \in Elsewhere /\ Goes2(t, s)
  BY BlankIsPair, <1>1 DEF Then, Goes, Goes2, Call, Elsewhere, Stages, Counts, Owns,
     BarrierStep, Reset, Advance, Pass, Notify, BarrierWait, TryWait
<1> QED BY <1>2, <1>3, ElsewhereInv

(* A reader on its way to the buffer. *)
LEMMA SeeksInv ==
  ASSUME BufferInv, NEW t \in Users,
         NoWriter(t) \/ \E o \in {"read", "tryread"} : ReadCall(t, o)
  PROVE  BufferInv'
<1>1. mine[t] \in Items \X Items
  BY DEF BufferInv, BufferTypes
<1>2. UNCHANGED <<object, readers, writer, buffer>>
  BY DEF Then, Goes, Call, NoWriter, ReadCall, rwmVars
<1>3. \E s \in Elsewhere : stage[t] \in Elsewhere /\ Goes2(t, s)
  BY BlankIsPair, <1>1 DEF Then, Goes, Goes2, Call, Elsewhere, Stages, Counts, Owns, NoWriter, ReadCall
<1> QED BY <1>2, <1>3, ElsewhereInv

(* The count of the readers follows each of them. *)
LEMMA EnterInv ==
  ASSUME BufferInv, NEW t \in Users, Enter(t)
  PROVE  BufferInv'
<1> USE DEF Enter, Goes, Then, BufferInv, BufferTypes, Counts, Reads, Owns, Putting, Stages
<1>1. Counted' = Counted \cup {t} /\ t \notin Counted
  BY DEF Counted
<1>2. Cardinality(Counted') = Cardinality(Counted) + 1
  BY <1>1, CountedIsFinite, FS_AddElement
<1>3. BufferTypes'
  BY <1>2
<1>4. OneOwner' /\ Apart'
  BY DEF OneOwner, Apart
<1>5. Halves' /\ Copied'
  BY DEF Halves, Copied, ReadsAreWhole
<1> QED BY <1>3, <1>4, <1>5

(* A reader that leaves, or gives up, is no longer counted. *)
LEMMA DepartInv ==
  ASSUME BufferInv, NEW t \in Users, Retreat(t) \/ Leave(t)
  PROVE  BufferInv'
<1> USE DEF Retreat, Leave, Goes, Then, BufferInv, BufferTypes, Counts, Reads, Owns, Putting, Stages
<1>1. Counted' = Counted \ {t} /\ t \in Counted
  BY DEF Counted
<1>2. Cardinality(Counted') = Cardinality(Counted) - 1
  BY <1>1, CountedIsFinite, FS_RemoveElement
<1>3. BufferTypes'
  BY <1>2, BlankIsPair
<1>4. OneOwner' /\ Apart'
  BY DEF OneOwner, Apart
<1>5. Halves' /\ Copied'
  BY DEF Halves, Copied, ReadsAreWhole
<1> QED BY <1>3, <1>4, <1>5

(* The second look at the writer keeps a reader from one that is putting. *)
LEMMA CheckInv ==
  ASSUME BufferInv, NEW t \in Users, Check(t)
  PROVE  BufferInv'
<1> USE DEF Check, Goes, Then, rwmVars, BufferInv, BufferTypes, Counts, Reads, Owns, Putting, Stages
<1>1. Counted' = Counted
  BY DEF Counted
<1>2. BufferTypes'
  BY <1>1
<1>3. OneOwner' /\ Apart'
  BY DEF OneOwner, Apart
<1>4. Halves' /\ Copied'
  BY DEF Halves, Copied, ReadsAreWhole
<1> QED BY <1>2, <1>3, <1>4

(* A reader finds the halves of one write, since nobody is putting. *)
LEMMA ReadHalfInv ==
  ASSUME BufferInv, NEW t \in Users,
         ReadHalf(t, 1, "copy", "copy2") \/ ReadHalf(t, 2, "copy2", "leave")
  PROVE  BufferInv'
<1> USE DEF ReadHalf, Then, rwmVars, BufferInv, BufferTypes, Counts, Reads, Owns, Putting, Stages
<1>1. Counted' = Counted
  BY DEF Counted
<1>2. BufferTypes'
  BY <1>1
<1>3. OneOwner' /\ Apart'
  BY DEF OneOwner, Apart
<1>4. buffer[1] = buffer[2]
  BY DEF Apart, Halves
<1>5. Halves'
  BY DEF Halves
<1>6. Copied'
  BY <1>4 DEF Copied, ReadsAreWhole
<1> QED BY <1>2, <1>3, <1>5, <1>6

(* A writer comes with one item, claims, drains or gives up. *)
LEMMA ClaimInv ==
  ASSUME BufferInv, NEW t \in Users,
         Claim(t) \/ Drain(t) \/ Free(t) \/ \E o \in {"write", "trywrite"}, i \in Items : WriteCall(t, o, i)
  PROVE  BufferInv'
<1> USE DEF Claim, Drain, Free, WriteCall, Call, Goes, Then, rwmVars, BufferInv, BufferTypes,
        Counts, Reads, Owns, Putting, Stages
<1>1. Counted' = Counted
  BY DEF Counted
<1>2. BufferTypes'
  BY <1>1, BlankIsPair
<1>3. readers = 0 => \A u \in Users : stage[u] \notin Counts
  <2>1. readers = 0 => Counted = {}
    BY CountedIsFinite, FS_EmptySet
  <2> QED BY <2>1 DEF Counted
<1>4. OneOwner' /\ Apart'
  BY <1>3 DEF OneOwner, Apart
<1>5. Halves'
  BY BlankIsPair DEF Halves
<1>6. Copied'
  BY DEF Copied, ReadsAreWhole
<1> QED BY <1>2, <1>4, <1>5, <1>6

(* A write stores one half at a time, while nobody else is inside. *)
LEMMA WriteHalfInv ==
  ASSUME BufferInv, NEW t \in Users,
         WriteHalf(t, 1, "put", "put2") \/ WriteHalf(t, 2, "put2", "free")
  PROVE  BufferInv'
<1> USE DEF WriteHalf, Goes, Then, rwmVars, BufferInv, BufferTypes,
        Counts, Reads, Owns, Putting, Stages
<1>1. Counted' = Counted
  BY DEF Counted
<1>2. BufferTypes'
  BY <1>1
<1>3. OneOwner' /\ Apart'
  BY DEF OneOwner, Apart
<1>4. Halves'
  BY DEF OneOwner, Halves
<1>5. Copied'
  BY DEF Apart, Copied, ReadsAreWhole
<1> QED BY <1>2, <1>3, <1>4, <1>5

(* No step breaks the invariant of the buffer. *)
LEMMA NextBuffer == BufferInv /\ [SyncNext]_syncVars => BufferInv'
<1> SUFFICES ASSUME BufferInv, [SyncNext]_syncVars PROVE BufferInv'
  OBVIOUS
<1>1. CASE UNCHANGED syncVars \/ Initialize
  <2>1. UNCHANGED <<object, stage, mine, buffer, readers, writer>>
    BY <1>1 DEF syncVars, rwmVars, Initialize
  <2> QED
    BY <2>1 DEF BufferInv, BufferTypes, OneOwner, Apart, Halves, Copied, ReadsAreWhole, Counted
<1>2. ASSUME NEW t \in object.users,
             SyncContinue(t)
               \/ (\E o \in Puts \cup Gets \cup {"peek", "clear", "mutex", "trymutex"}, i \in Items : QueueCall(t, o, i))
               \/ (\E o \in {"read", "tryread"} : ReadCall(t, o))
               \/ (\E o \in {"write", "trywrite"}, i \in Items : WriteCall(t, o, i))
               \/ Notify(t) \/ BarrierWait(t) \/ TryWait(t)
      PROVE  BufferInv'
  <2>1. t \in Users
    BY <1>2 DEF BufferInv, BufferTypes
  <2> QED
    BY <1>2, <2>1, LocksInv, BarrierInv, SeeksInv, EnterInv, DepartInv, CheckInv, ReadHalfInv, ClaimInv, WriteHalfInv
    DEF SyncContinue, RwmStep
<1> QED BY <1>1, <1>2 DEF SyncNext

(* What a reader brings home is one write whole. *)
THEOREM ReadsStayWhole == SyncSpec => []ReadsAreWhole
<1>1. BufferInv => ReadsAreWhole
  BY DEF BufferInv, Copied
<1> QED BY <1>1, InitBuffer, NextBuffer, PTL DEF SyncSpec

-----------------------------------------------------------------------------
(* The barrier.  Its count is cleared one step before its phase advances,   *)
(* so between the two a round is over for who tests the count and not yet   *)
(* for who waits for the phase.  The round a thread may be in is therefore *)
(* told from the step of the last one to notify, not from phase alone.     *)

Closing == \E t \in Users : stage[t] = "advance"

(* The rounds whose count has been cleared. *)
Round == IF Closing THEN phase + 1 ELSE phase

(* Those who have entered the round after these. *)
Ahead == {u \in object.users : notified[u] = Round + 1}

RoundTypes ==
  /\ object \in Objects
  /\ stage \in [Users -> Stages]
  /\ phase \in Nat /\ arrived = Cardinality(Ahead)
  /\ DOMAIN seen = Users /\ notified \in [Users -> Nat] /\ passed \in [Users -> Nat]

(* Who has left a round has entered it, and nobody is two rounds ahead. *)
InStep == \A u \in object.users :
  /\ passed[u] <= notified[u] /\ notified[u] <= passed[u] + 1
  /\ Round <= notified[u] /\ notified[u] <= Round + 1
  /\ passed[u] <= Round

(* One thread closes a round: when all are in it, and it is in it still. *)
OneCloses ==
  /\ \A t, u \in Users : stage[t] \in {"reset", "advance"} /\ stage[u] \in {"reset", "advance"} => t = u
  /\ \A t \in Users : stage[t] = "reset" => Ahead = object.users
  /\ \A t \in Users : stage[t] \in {"reset", "advance"} => t \in object.users
  /\ \A t \in Users : stage[t] = "advance" => notified[t] = Round

(* Where nobody tests the count, who sleeps since an earlier phase is in none. *)
PhasesTell == "try" \notin object.waits => \A u \in object.users :
  /\ passed[u] <= phase
  /\ stage[u] = "asleep" => notified[u] <= phase \/ seen[u] = phase

(* The inductive invariant. *)
RoundInv == RoundTypes /\ InStep /\ OneCloses /\ PhasesTell
            /\ \A u \in object.users : stage[u] = "asleep" => "wait" \in object.waits /\ InRound(u)

USE SyncAssumption

(* The users of an object are finitely many threads. *)
LEMMA UsersAreFinite ==
  ASSUME RoundInv
  PROVE  /\ object.users \subseteq Users /\ IsFiniteSet(object.users)
         /\ Ahead \subseteq object.users /\ IsFiniteSet(Ahead) /\ Cardinality(Ahead) \in Nat
         /\ Cardinality(Ahead) <= Total /\ Total \in Nat
         /\ (Cardinality(Ahead) = Total => Ahead = object.users)
<1>1. object.users \in SUBSET Users
  BY DEF RoundInv, RoundTypes
<1>2. IsFiniteSet(Users)
  OBVIOUS
<1>3. IsFiniteSet(object.users)
  BY <1>1, <1>2, FS_Subset
<1>4. Ahead \in SUBSET object.users
  BY DEF Ahead
<1> QED BY <1>1, <1>3, <1>4, FS_Subset, FS_CardinalityType DEF Total

(* Who is in no round can enter one: unless all are in it already. *)
LEMMA NotifyRound ==
  ASSUME RoundInv, NEW t \in object.users, Notify(t)
  PROVE  RoundInv'
<1> USE DEF RoundInv, RoundTypes
<1>1. t \in Users /\ ~InRound(t) /\ stage[t] = "idle" /\ object' = object /\ phase' = phase /\ passed' = passed
      /\ notified' = [notified EXCEPT ![t] = @ + 1] /\ arrived' = arrived + 1
  BY UsersAreFinite DEF Notify, Call, Then
<1>2. passed[t] = notified[t] /\ notified[t] = Round /\ Round \in Nat
  BY <1>1 DEF InStep, InRound, Round
<1>3. \A u \in Users : stage[u] # "reset"
  BY <1>1, <1>2 DEF OneCloses, Ahead
<1>4. PICK s \in {"reset", "idle"} : stage' = [stage EXCEPT ![t] = s] /\ seen' = [seen EXCEPT ![t] = 0] /\ (s = "reset" <=> arrived + 1 >= Total)
  BY <1>1 DEF Notify, Call, Then
<1>5. Closing' = Closing /\ Round' = Round
  BY <1>1, <1>4 DEF Closing, Round
<1>6. Ahead' = Ahead \cup {t} /\ t \notin Ahead
  BY <1>1, <1>2, <1>5 DEF Ahead
<1>7. Cardinality(Ahead') = Cardinality(Ahead) + 1
  BY <1>6, UsersAreFinite, FS_AddElement
<1>8. Ahead' \in SUBSET object.users /\ IsFiniteSet(object.users)
  BY <1>1, <1>6, UsersAreFinite
<1>9. Cardinality(Ahead') <= Total /\ (Cardinality(Ahead') = Total => Ahead' = object.users)
  BY <1>8, FS_Subset DEF Total
<1>10. RoundTypes'
  BY <1>1, <1>4, <1>7 DEF Stages
<1>11. InStep'
  BY <1>1, <1>2, <1>5 DEF InStep
<1>12. ASSUME s = "reset"
       PROVE  Ahead' = object.users /\ ~Closing
  <2>1. Ahead' = object.users
    BY <1>4, <1>7, <1>9, <1>12, UsersAreFinite
  <2>2. ASSUME NEW u \in Users, stage[u] = "advance" PROVE FALSE
    <3>1. u \in object.users /\ notified[u] = Round /\ u # t
      BY <1>1, <2>2 DEF OneCloses
    <3>2. u \notin Ahead'
      BY <1>1, <1>2, <1>5, <3>1 DEF Ahead
    <3> QED BY <2>1, <3>1, <3>2
  <2> QED BY <2>1, <2>2 DEF Closing
<1>13. OneCloses'
  <2>1. CASE s = "reset"
    BY <1>1, <1>3, <1>4, <1>12, <2>1 DEF OneCloses, Closing
  <2>2. CASE s = "idle"
    BY <1>1, <1>3, <1>4, <1>5, <2>2 DEF OneCloses
  <2> QED BY <2>1, <2>2
<1>14. PhasesTell'
  BY <1>1, <1>4 DEF PhasesTell
<1>15. \A u \in object'.users : stage'[u] = "asleep" => "wait" \in object'.waits /\ InRound(u)'
  BY <1>1, <1>4 DEF InRound
<1> QED BY <1>10, <1>11, <1>13, <1>14, <1>15

(* The last one clears the count: the round is over for who tests it. *)
LEMMA ResetRound ==
  ASSUME RoundInv, NEW t \in object.users, Reset(t)
  PROVE  RoundInv'
<1> USE DEF RoundInv, RoundTypes
<1>1. t \in Users /\ stage[t] = "reset" /\ object' = object /\ phase' = phase /\ passed' = passed /\ notified' = notified
      /\ stage' = [stage EXCEPT ![t] = "advance"] /\ arrived' = 0 /\ DOMAIN seen' = Users /\ \A u \in Users : seen'[u] = seen[u]
  BY UsersAreFinite DEF Reset, Goes, Then
<1>2. ~Closing /\ Closing' /\ Round = phase /\ Round' = phase + 1 /\ Ahead = object.users
  BY <1>1 DEF Closing, Round, OneCloses
<1>3. \A u \in object.users : notified[u] = phase + 1
  BY <1>2 DEF Ahead
<1>4. Ahead' = {}
  BY <1>1, <1>2, <1>3 DEF Ahead
<1>5. RoundTypes'
  BY <1>1, <1>4, FS_EmptySet DEF Stages
<1>6. InStep'
  BY <1>1, <1>2, <1>3 DEF InStep
<1>7. OneCloses'
  BY <1>1, <1>2, <1>3 DEF OneCloses
<1>8. PhasesTell'
  BY <1>1 DEF PhasesTell
<1>9. \A u \in object'.users : stage'[u] = "asleep" => "wait" \in object'.waits /\ InRound(u)'
  BY <1>1 DEF InRound
<1> QED BY <1>5, <1>6, <1>7, <1>8, <1>9

(* Then it advances the phase: the round is over for who waits for that. *)
LEMMA AdvanceRound ==
  ASSUME RoundInv, NEW t \in object.users, Advance(t)
  PROVE  RoundInv'
<1> USE DEF RoundInv, RoundTypes
<1>1. t \in Users /\ stage[t] = "advance" /\ object' = object /\ phase' = phase + 1 /\ passed' = passed /\ notified' = notified
      /\ stage' = [stage EXCEPT ![t] = "idle"] /\ arrived' = arrived /\ seen' = [seen EXCEPT ![t] = 0]
  BY UsersAreFinite DEF Advance, Goes, Then
<1>2. Closing /\ ~Closing' /\ Round = phase + 1 /\ Round' = phase + 1
  BY <1>1 DEF Closing, Round, OneCloses
<1>3. Ahead' = Ahead
  BY <1>1, <1>2 DEF Ahead
<1>4. RoundTypes'
  BY <1>1, <1>3 DEF Stages
<1>5. InStep'
  BY <1>1, <1>2 DEF InStep
<1>6. OneCloses'
  BY <1>1 DEF OneCloses
<1>7. PhasesTell'
  BY <1>1, <1>2 DEF PhasesTell, InStep
<1>8. \A u \in object'.users : stage'[u] = "asleep" => "wait" \in object'.waits /\ InRound(u)'
  BY <1>1 DEF InRound
<1> QED BY <1>4, <1>5, <1>6, <1>7, <1>8

(* A wait notes the phase. *)
LEMMA WaitRound ==
  ASSUME RoundInv, NEW t \in object.users, BarrierWait(t)
  PROVE  RoundInv'
<1> USE DEF RoundInv, RoundTypes
<1>1. t \in Users /\ stage[t] = "idle" /\ InRound(t) /\ "wait" \in object.waits
      /\ UNCHANGED <<object, phase, passed, notified, arrived>>
      /\ stage' = [stage EXCEPT ![t] = "asleep"] /\ seen' = [seen EXCEPT ![t] = phase]
  BY UsersAreFinite DEF BarrierWait, Call, Then, barVars
<1>2. Closing' = Closing /\ Round' = Round
  BY <1>1 DEF Closing, Round
<1>3. Ahead' = Ahead
  BY <1>1, <1>2 DEF Ahead
<1>4. RoundTypes'
  BY <1>1, <1>3 DEF Stages
<1>5. InStep'
  BY <1>1, <1>2 DEF InStep
<1>6. OneCloses'
  BY <1>1, <1>2, <1>3 DEF OneCloses
<1>7. PhasesTell'
  BY <1>1 DEF PhasesTell
<1>8. \A u \in object'.users : stage'[u] = "asleep" => "wait" \in object'.waits /\ InRound(u)'
  BY <1>1 DEF InRound
<1> QED BY <1>4, <1>5, <1>6, <1>7, <1>8

(* Who leaves a round, leaves one that is over. *)
LEMMA LeaveRound ==
  ASSUME RoundInv, object.waits # {"wait", "try"}, NEW t \in object.users, Pass(t) \/ TryWait(t)
  PROVE  RoundInv'
<1> USE DEF RoundInv, RoundTypes
<1>1. t \in Users /\ stage[t] \in {"idle", "asleep"} /\ InRound(t)
      /\ UNCHANGED <<object, phase, notified, arrived>> /\ passed' = [passed EXCEPT ![t] = @ + 1]
      /\ stage' = [stage EXCEPT ![t] = "idle"] /\ seen' = [seen EXCEPT ![t] = 0]
  BY UsersAreFinite DEF Pass, TryWait, Call, Goes, Then
<1>2. Closing' = Closing /\ Round' = Round /\ Round \in Nat /\ Round >= phase
  BY <1>1 DEF Closing, Round
<1>3. Ahead' = Ahead
  BY <1>1, <1>2 DEF Ahead
<1>4. passed[t] + 1 = notified[t]
  BY <1>1 DEF InStep, InRound
<1>5. notified[t] <= Round /\ ("try" \notin object.waits => notified[t] <= phase)
  <2>1. CASE Pass(t)
    <3>1. stage[t] = "asleep" /\ phase # seen[t] /\ "wait" \in object.waits
      BY <2>1 DEF Pass
    <3>2. object.waits \in SUBSET {"wait", "try"}
      OBVIOUS
    <3>3. "try" \notin object.waits
      BY <3>1, <3>2
    <3>4. notified[t] <= phase
      BY <3>1, <3>3 DEF PhasesTell
    <3> QED BY <1>1, <1>2, <3>4
  <2>2. CASE TryWait(t)
    <3>1. arrived = 0 /\ "try" \in object.waits
      BY <2>2 DEF TryWait
    <3>2. Ahead = {}
      BY <3>1, UsersAreFinite, FS_EmptySet
    <3> QED BY <1>1, <1>2, <3>1, <3>2 DEF Ahead, InStep
  <2> QED BY <2>1, <2>2
<1>6. RoundTypes'
  BY <1>1, <1>3 DEF Stages
<1>7. InStep'
  BY <1>1, <1>2, <1>4, <1>5 DEF InStep
<1>8. OneCloses'
  BY <1>1, <1>2, <1>3 DEF OneCloses
<1>9. PhasesTell'
  BY <1>1, <1>4, <1>5 DEF PhasesTell
<1>10. \A u \in object'.users : stage'[u] = "asleep" => "wait" \in object'.waits /\ InRound(u)'
  BY <1>1 DEF InRound
<1> QED BY <1>6, <1>7, <1>8, <1>9, <1>10

(* Calls on the other objects leave the barrier alone. *)
NotOfTheBarrier == Stages \ {"reset", "advance", "asleep"}

(* The stages of those calls are none of the barrier's. *)
LEMMA ElsewhereRound ==
  ASSUME RoundInv, NEW t \in object.users,
         LockStep(t) \/ RwmStep(t)
           \/ (\E o \in Puts \cup Gets \cup {"peek", "clear", "mutex", "trymutex"}, i \in Items : QueueCall(t, o, i))
           \/ (\E o \in {"read", "tryread"} : ReadCall(t, o))
           \/ (\E o \in {"write", "trywrite"}, i \in Items : WriteCall(t, o, i))
  PROVE  RoundInv'
<1> USE DEF RoundInv, RoundTypes
<1>1. t \in Users
  BY UsersAreFinite
<1>2. UNCHANGED <<object, arrived, phase, notified, passed>>
  BY DEF LockStep, RwmStep, QueueCall, ReadCall, WriteCall, Call, QueueSpin, Acquire, Busy, Recheck, Copy, Visit, Commit,
     Open, NoWriter, Enter, Check, Retreat, Leave, ReadHalf, Claim, Drain, Free, WriteHalf, Goes, Then, barVars
<1>3. stage[t] \in NotOfTheBarrier /\ \E s \in NotOfTheBarrier : \E n :
        stage' = [stage EXCEPT ![t] = s] /\ seen' = [seen EXCEPT ![t] = n]
  <2> USE DEF NotOfTheBarrier, Stages, Goes, Then, Call
  <2>1. CASE QueueSpin(t) \/ Acquire(t) \/ Busy(t) \/ Recheck(t) \/ Visit(t) \/ Commit(t) \/ Open(t)
    BY <1>1, <2>1 DEF QueueSpin, Acquire, Busy, Recheck, Visit, Commit, Open
  <2>2. CASE Copy(t)
    BY <1>1, <2>2 DEF Copy
  <2>3. CASE RwmStep(t)
    BY <1>1, <2>3 DEF RwmStep, NoWriter, Enter, Check, Retreat, Leave, ReadHalf, Claim, Drain, Free, WriteHalf
  <2>4. CASE (\E o \in Puts \cup Gets \cup {"peek", "clear", "mutex", "trymutex"}, i \in Items : QueueCall(t, o, i))
           \/ (\E o \in {"read", "tryread"} : ReadCall(t, o))
           \/ (\E o \in {"write", "trywrite"}, i \in Items : WriteCall(t, o, i))
    BY <1>1, <2>4 DEF QueueCall, ReadCall, WriteCall
  <2> QED BY <2>1, <2>2, <2>3, <2>4 DEF LockStep
<1>4. PICK s \in NotOfTheBarrier : stage' = [stage EXCEPT ![t] = s] /\ \E n : seen' = [seen EXCEPT ![t] = n]
  BY <1>3
<1>5. Closing' = Closing /\ Round' = Round
  BY <1>2, <1>3, <1>4 DEF Closing, Round, NotOfTheBarrier
<1>6. Ahead' = Ahead
  BY <1>2, <1>5 DEF Ahead
<1>7. RoundTypes'
  BY <1>1, <1>2, <1>4, <1>6 DEF NotOfTheBarrier
<1>8. InStep'
  BY <1>2, <1>5 DEF InStep
<1>9. OneCloses'
  BY <1>1, <1>2, <1>4, <1>5, <1>6 DEF OneCloses, NotOfTheBarrier
<1>10. PhasesTell'
  BY <1>1, <1>2, <1>4 DEF PhasesTell, NotOfTheBarrier
<1>11. \A u \in object'.users : stage'[u] = "asleep" => "wait" \in object'.waits /\ InRound(u)'
  BY <1>1, <1>2, <1>4 DEF InRound, NotOfTheBarrier
<1> QED BY <1>7, <1>8, <1>9, <1>10, <1>11

(* A barrier whose users all wait in one way keeps the invariant. *)
OneWay == object.waits # {"wait", "try"}

(* Nobody has entered a round yet. *)
LEMMA InitRound == SyncInit => RoundInv
<1> SUFFICES ASSUME SyncInit PROVE RoundInv
  OBVIOUS
<1>1. ~Closing /\ Round = 0 /\ Ahead = {}
  <2>1. ~Closing
    BY DEF SyncInit, Closing
  <2>2. Round = 0
    BY <2>1 DEF SyncInit, Round
  <2>3. object.users \subseteq Users
    BY DEF SyncInit
  <2> QED BY <2>1, <2>2, <2>3 DEF SyncInit, Ahead
<1>2. RoundTypes
  BY <1>1, FS_EmptySet DEF SyncInit, RoundTypes, Stages
<1>3. object.users \subseteq Users
  BY DEF SyncInit
<1> QED BY <1>1, <1>2, <1>3 DEF SyncInit, RoundInv, InStep, OneCloses, PhasesTell

(* The users never change, nor the way they wait: each step is one of those *)
(* above, of a user of the object, or the first call.                       *)
LEMMA NextRound == (OneWay => RoundInv) /\ [SyncNext]_syncVars => (OneWay => RoundInv)'
<1> SUFFICES ASSUME OneWay => RoundInv, [SyncNext]_syncVars, OneWay' PROVE RoundInv'
  OBVIOUS
<1>1. object' = object
  BY DEF SyncNext, syncVars, Initialize, SyncContinue, LockStep, RwmStep, BarrierStep, QueueCall, ReadCall, WriteCall, Call,
     QueueSpin, Acquire, Busy, Recheck, Copy, Visit, Commit, Open, NoWriter, Enter, Check, Retreat, Leave, ReadHalf, Claim,
     Drain, Free, WriteHalf, Notify, Reset, Advance, BarrierWait, Pass, TryWait, Goes, Then
<1>2. OneWay /\ RoundInv
  BY <1>1 DEF OneWay
<1>3. CASE UNCHANGED syncVars \/ Initialize
  <2>1. UNCHANGED <<object, stage, seen, arrived, phase, notified, passed>>
    BY <1>3 DEF syncVars, barVars, Initialize
  <2> QED
    BY <1>2, <2>1 DEF RoundInv, RoundTypes, InStep, OneCloses, PhasesTell, Closing, Round, Ahead, InRound
<1>4. CASE SyncNext
  BY <1>2, <1>3, <1>4, NotifyRound, ResetRound, AdvanceRound, WaitRound, LeaveRound, ElsewhereRound
  DEF SyncNext, SyncContinue, BarrierStep, OneWay
<1> QED BY <1>3, <1>4

(* Nobody leaves a round before all are in it, if all leave in one way:     *)
(* clearing the count before the phase is advanced harms only a mix.        *)
THEOREM RoundsStayFull == SyncSpec => []RoundsAreFull
<1>1. (OneWay => RoundInv) => RoundsAreFull
  <2> SUFFICES ASSUME RoundInv, NEW t \in object.users, NEW u \in object.users
               PROVE  passed[t] <= notified[u]
    BY DEF OneWay, RoundsAreFull
  <2>1. passed[t] <= Round /\ Round <= notified[u] /\ Round \in Nat /\ passed[t] \in Nat /\ notified[u] \in Nat
    BY UsersAreFinite DEF RoundInv, RoundTypes, InStep, Round
  <2> QED BY <2>1
<1>2. SyncInit => (OneWay => RoundInv)
  BY InitRound
<1> QED BY <1>1, <1>2, NextRound, PTL DEF SyncSpec

-----------------------------------------------------------------------------

(* The queue under its spinlock.  The entry is copied and the indices move  *)
(* in different steps, and a call tests count before it has the lock: what *)
(* makes the queue a FIFO is that one thread at a time is between Acquire  *)
(* and Open, with the index it read still the queue's, and the test made   *)
(* again under the lock.                                                   *)

Locked == {"inside", "commit", "unlock"}

CellTypes ==
  /\ stage \in [Users -> Stages] /\ object.users \subseteq Users
  /\ DOMAIN op = Users /\ DOMAIN seen = Users
  /\ head \in 0 .. Depth - 1 /\ tail \in 0 .. Depth - 1 /\ count \in 0 .. Depth
  /\ ring \in [0 .. Depth - 1 -> Items]
  /\ made \in BOOLEAN

(* One thread has the lock. *)
OneInside == \A t \in Users : stage[t] \in Locked =>
  lock = 1 /\ \A u \in Users : stage[u] \in Locked => u = t

(* What the holder read is still so. *)
IndexHolds == \A t \in Users : stage[t] = "commit" =>
  \/ op[t] \in Puts /\ count < Depth /\ seen[t] = tail
  \/ op[t] \in Gets /\ count > 0 /\ seen[t] = head

(* The inductive invariant. *)
CellInv == CellTypes /\ OneInside /\ IndexHolds
           /\ tail = Slot(Depth, head, count)
           /\ (~made => count = 0 /\ \A t \in Users : stage[t] = "idle")

(* The queue as the abstract one sees it. *)
Queued == [q \in {1} |-> [i \in 1 .. count |-> ring[(head + i - 1) % Depth]]]
Room == [q \in {1} |-> IF made THEN Depth ELSE 0]

(* It is what the ring holds, a sequence of items. *)
LEMMA QueuedIs ==
  ASSUME CellInv
  PROVE  /\ Queued = [q \in {1} |-> Held(ring, Depth, head, count)]
         /\ Keeps(ring, Depth, head, count, Items)
         /\ Held(ring, Depth, head, count) \in Seq(Items)
         /\ Len(Held(ring, Depth, head, count)) = count
<1>1. head \in 0 .. Depth - 1 /\ count \in Nat /\ ring \in [0 .. Depth - 1 -> Items] /\ Depth \in Nat \ {0}
  BY DEF CellInv, CellTypes
<1>2. \A i \in 0 .. count - 1 : Slot(Depth, head, i) \in 0 .. Depth - 1
  BY <1>1, SlotRange
<1>3. Keeps(ring, Depth, head, count, Items)
  BY <1>1, <1>2 DEF Keeps
<1> QED BY <1>1, <1>3, HeldSeq DEF Queued, Held

(* A step of the abstract queue. *)
LEMMA FifoTakes ==
  ASSUME NEW k \in 1 .. Len(Queued[1]), Fifo!Take(1, k)
  PROVE  Fifo!FifoNext
<1>1. \E n \in 1 .. Len(Queued[1]) : Fifo!Take(1, n)
  OBVIOUS
<1>2. 1 \in {1}
  OBVIOUS
<1> QED BY <1>1, <1>2, Zenon DEF Fifo!FifoNext, Queued

(* What a step does that leaves the queue as it is, or uses it. *)
CellStep == CellInv' /\ [Fifo!FifoNext]_<<Queued, Room>>

(* Steps of a thread that does not touch the queue, or only its lock. *)
LEMMA QuietCell ==
  ASSUME CellInv, NEW t \in Users, made,
         UNCHANGED <<object, made, head, tail, count, ring>>,
         NEW s \in Stages \ {"commit"}, stage' = [stage EXCEPT ![t] = s],
         s \in Locked => (stage[t] \in Locked /\ lock' = lock) \/ (lock = 0 /\ lock' = 1),
         lock' = lock \/ stage[t] \in Locked \/ lock = 0,
         NEW o, op' = [op EXCEPT ![t] = o], NEW n, seen' = [seen EXCEPT ![t] = n]
  PROVE  CellStep
<1>1. CellTypes'
  BY DEF CellInv, CellTypes
<1>2. OneInside'
  BY DEF CellInv, CellTypes, OneInside, Locked
<1>3. IndexHolds'
  BY DEF CellInv, CellTypes, IndexHolds
<1>4. Queued' = Queued /\ Room' = Room
  BY DEF Queued, Room
<1> QED BY <1>1, <1>2, <1>3, <1>4 DEF CellStep, CellInv

(* Calls on the other objects, and the steps of one on the queue that only *)
(* begin, wait, lock, look or unlock.                                      *)
LEMMA OtherCells ==
  ASSUME CellInv, NEW t \in Users, made,
         RwmStep(t) \/ BarrierStep(t) \/ Notify(t) \/ BarrierWait(t) \/ TryWait(t)
           \/ (\E o \in {"read", "tryread"} : ReadCall(t, o))
           \/ (\E o \in {"write", "trywrite"}, i \in Items : WriteCall(t, o, i))
  PROVE  CellStep
<1>1. UNCHANGED <<object, made, head, tail, count, ring, lock>>
  BY DEF RwmStep, BarrierStep, ReadCall, WriteCall, Call, NoWriter, Enter, Check, Retreat, Leave, ReadHalf, Claim,
     Drain, Free, WriteHalf, Notify, Reset, Advance, BarrierWait, Pass, TryWait, Goes, Then, queueVars
<1>2. \E s \in Stages \ {"inside", "commit", "unlock"} : stage' = [stage EXCEPT ![t] = s]
  BY DEF RwmStep, BarrierStep, ReadCall, WriteCall, Call, NoWriter, Enter, Check, Retreat, Leave, ReadHalf, Claim,
     Drain, Free, WriteHalf, Notify, Reset, Advance, BarrierWait, Pass, TryWait, Goes, Then, Stages
<1>3. (\E o : op' = [op EXCEPT ![t] = o]) /\ \E n : seen' = [seen EXCEPT ![t] = n]
  BY DEF RwmStep, BarrierStep, ReadCall, WriteCall, Call, NoWriter, Enter, Check, Retreat, Leave, ReadHalf, Claim,
     Drain, Free, WriteHalf, Notify, Reset, Advance, BarrierWait, Pass, TryWait, Goes, Then
<1>4. PICK s \in Stages \ {"inside", "commit", "unlock"} : stage' = [stage EXCEPT ![t] = s]
  BY <1>2
<1>5. s \notin Locked /\ s \in Stages \ {"commit"}
  BY <1>4 DEF Locked
<1> QED BY <1>1, <1>3, <1>4, <1>5, QuietCell

(* Waiting for the spinlock, having it, and what does not move an index      *)
(* under it: a failed test of count, a look, the unlock.                    *)
LEMMA LockCells ==
  ASSUME CellInv, NEW t \in Users, made,
         QueueSpin(t) \/ Acquire(t) \/ Busy(t) \/ Recheck(t) \/ Open(t) \/ (Visit(t) /\ op[t] # "clear")
           \/ (\E o \in Puts \cup Gets \cup {"peek", "clear", "mutex", "trymutex"}, i \in Items : QueueCall(t, o, i))
  PROVE  CellStep
<1>1. UNCHANGED <<object, made, head, tail, count, ring>>
  BY DEF QueueCall, Call, QueueSpin, Acquire, Busy, Recheck, Visit, Open, Goes, Then, queueVars
<1>3. (\E o : op' = [op EXCEPT ![t] = o]) /\ \E n : seen' = [seen EXCEPT ![t] = n]
  BY DEF QueueCall, Call, QueueSpin, Acquire, Busy, Recheck, Visit, Open, Goes, Then
<1>4. PICK s \in Stages \ {"commit"} :
         /\ stage' = [stage EXCEPT ![t] = s]
         /\ s \in Locked => (stage[t] \in Locked /\ lock' = lock) \/ (lock = 0 /\ lock' = 1)
         /\ lock' = lock \/ stage[t] \in Locked \/ lock = 0
  <2> USE DEF Goes, Then, Stages, Locked
  <2>1. CASE QueueSpin(t) \/ Acquire(t) \/ Busy(t)
    BY <2>1 DEF QueueSpin, Acquire, Busy, queueVars
  <2>2. CASE Recheck(t) \/ Open(t)
    BY <2>2 DEF Recheck, Open
  <2>4. CASE Visit(t)
    BY <2>4 DEF Visit
  <2>3. CASE \E o \in Puts \cup Gets \cup {"peek", "clear", "mutex", "trymutex"}, i \in Items : QueueCall(t, o, i)
    BY <2>3 DEF QueueCall, Call, queueVars
  <2> QED BY <2>1, <2>2, <2>3, <2>4
<1> QED BY <1>1, <1>3, <1>4, QuietCell

(* A push stores its item where nothing is queued, a pop reads the oldest. *)
LEMMA CopyCell ==
  ASSUME CellInv, NEW t \in Users, mine[t] \in Items \X Items, made, Copy(t)
  PROVE  CellStep
<1> USE DEF CellInv
<1>1. /\ stage[t] = "inside" /\ stage' = [stage EXCEPT ![t] = "commit"]
      /\ op' = [op EXCEPT ![t] = op[t]] /\ UNCHANGED <<object, made, lock, head, tail, count>>
  BY DEF Copy, Then
<1>2. CASE op[t] \in Puts
  <2>1. /\ count < Depth /\ seen' = [seen EXCEPT ![t] = tail] /\ ring' = [ring EXCEPT ![tail] = mine[t][1]]
        /\ mine[t][1] \in Items
    BY <1>2 DEF Copy, Then, Ready, Puts, Gets
  <2>2. CellTypes'
    BY <1>1, <2>1 DEF CellTypes, Stages
  <2>3. OneInside' /\ IndexHolds'
    BY <1>1, <1>2, <2>1 DEF CellTypes, OneInside, IndexHolds, Locked
  <2>4. Held(ring', Depth, head, count) = Held(ring, Depth, head, count)
    <3>1. head \in 0 .. Depth - 1 /\ count \in 0 .. Depth - 1 /\ ring \in [0 .. Depth - 1 -> Items] /\ Depth \in Nat \ {0}
          /\ tail = Slot(Depth, head, count)
      BY <2>1 DEF CellTypes
    <3>2. ASSUME NEW i \in 1 .. count PROVE ring'[(head + i - 1) % Depth] = ring[(head + i - 1) % Depth]
      <4>1. i - 1 \in 0 .. Depth - 1 /\ i - 1 # count
        BY <3>1
      <4>2. Slot(Depth, head, i - 1) # tail
        BY <3>1, <4>1, SlotsDiffer
      <4>3. Slot(Depth, head, i - 1) \in 0 .. Depth - 1
        BY <3>1, <4>1, SlotRange
      <4>4. (head + i - 1) % Depth = Slot(Depth, head, i - 1)
        BY <3>1, head + i - 1 = head + (i - 1) DEF Slot
      <4> QED BY <2>1, <3>1, <4>2, <4>3, <4>4
    <3> QED BY <3>2 DEF Held
  <2>5. CellInv'
    BY <1>1, <2>2, <2>3 DEF CellTypes
  <2>6. Queued' = [q \in {1} |-> Held(ring', Depth, head', count')]
    BY DEF Queued, Held
  <2>7. Queued' = Queued /\ Room' = Room
    BY <1>1, <2>4, <2>6, QueuedIs DEF Room
  <2> QED BY <2>5, <2>7 DEF CellStep
<1>3. CASE op[t] \notin Puts
  <2>1. count # 0 /\ op[t] \in Gets /\ seen' = [seen EXCEPT ![t] = head] /\ UNCHANGED ring
    BY <1>3 DEF Copy, Then, Ready
  <2>2. CellTypes'
    BY <1>1, <2>1 DEF CellTypes, Stages
  <2>3. OneInside' /\ IndexHolds'
    BY <1>1, <2>1 DEF CellTypes, OneInside, IndexHolds, Locked
  <2>4. Queued' = Queued /\ Room' = Room
    BY <1>1, <2>1 DEF Queued, Room
  <2> QED BY <1>1, <2>2, <2>3, <2>4 DEF CellStep, CellTypes
<1> QED BY <1>2, <1>3

(* A clear takes everything. *)
LEMMA ClearCell ==
  ASSUME CellInv, NEW t \in Users, made, Visit(t), op[t] = "clear"
  PROVE  CellStep
<1> USE DEF CellInv
<1>1. /\ stage[t] = "inside" /\ stage' = [stage EXCEPT ![t] = "unlock"]
      /\ op' = [op EXCEPT ![t] = op[t]] /\ seen' = [seen EXCEPT ![t] = seen[t]] /\ UNCHANGED <<object, made, lock, ring>>
      /\ head' = 0 /\ tail' = 0 /\ count' = 0
  BY DEF Visit, Goes, Then
<1>2. CellTypes'
  BY <1>1 DEF CellTypes, Stages
<1>3. OneInside'
  BY <1>1 DEF CellTypes, OneInside, Locked
<1>4. IndexHolds'
  BY <1>1 DEF CellTypes, OneInside, IndexHolds, Locked
<1>5. tail' = Slot(Depth, head', count')
  <2>1. 0 \in 0 .. Depth - 1
    OBVIOUS
  <2> QED BY <1>1, <2>1, SlotNowhere
<1>6. CellInv'
  BY <1>1, <1>2, <1>3, <1>4, <1>5
<1>7. Queued' = [q \in {1} |-> <<>>]
  BY <1>1 DEF Queued
<1>8. Room' = Room
  BY <1>1 DEF Room
<1>9. CASE count = 0
  <2>1. Queued = [q \in {1} |-> <<>>]
    BY <1>9 DEF Queued
  <2> QED BY <1>6, <1>7, <1>8, <2>1 DEF CellStep
<1>10. CASE count # 0
  <2> DEFINE s == Held(ring, Depth, head, count)
  <2>1. Queued = [q \in {1} |-> s] /\ s \in Seq(Items) /\ Len(s) = count /\ count \in Nat
    BY QueuedIs DEF CellTypes
  <2> HIDE DEF s
  <2>2. SubSeq(s, count + 1, count) = <<>>
    BY <2>1
  <2>3. PICK k \in Nat : k = count
    BY <2>1
  <2>4. Queued' = [Queued EXCEPT ![1] = SubSeq(@, k + 1, Len(@))] /\ k \in 1 .. Len(Queued[1])
    BY <1>7, <1>10, <2>1, <2>2, <2>3
  <2>5. Fifo!Take(1, k)
    BY <1>8, <2>4 DEF Fifo!Take, Queued, Room
  <2>6. Fifo!FifoNext
    BY <2>4, <2>5, FifoTakes
  <2> QED BY <1>6, <2>6 DEF CellStep
<1> QED BY <1>9, <1>10

(* A commit of a push puts the item it copied at the end, one of a pop      *)
(* takes the oldest, which it has copied.                                  *)
LEMMA CommitCell ==
  ASSUME CellInv, NEW t \in Users, made, Commit(t)
  PROVE  CellStep
<1> USE DEF CellInv
<1>1. /\ stage[t] = "commit" /\ stage' = [stage EXCEPT ![t] = "unlock"]
      /\ op' = [op EXCEPT ![t] = op[t]] /\ seen' = [seen EXCEPT ![t] = 0] /\ UNCHANGED <<object, made, lock, ring>>
  BY DEF Commit, Then
<1>2. PICK n \in Nat, h \in Nat, c \in Nat :
        n = Depth /\ h = head /\ c = count /\ tail = Slot(n, h, c) /\ n # 0 /\ h \in 0 .. n - 1 /\ c \in 0 .. n
  BY DEF CellTypes
<1>3. PICK s : s = Held(ring, n, h, c)
  OBVIOUS
<1>4. Queued = [q \in {1} |-> s] /\ Keeps(ring, n, h, c, Items) /\ s \in Seq(Items) /\ Len(s) = c
  BY <1>2, <1>3, QueuedIs
<1>5. Queued' = [q \in {1} |-> Held(ring, n, head', count')] /\ Room' = Room
  BY <1>1, <1>2 DEF Queued, Room, Held
<1>6. Room[1] = n
  BY <1>2 DEF Room
<1>7. OneInside' /\ IndexHolds'
  BY <1>1 DEF CellTypes, OneInside, IndexHolds, Locked
<1>8. CASE op[t] \in Puts
  <2>1. c < n /\ seen[t] = tail
    BY <1>1, <1>2, <1>8 DEF IndexHolds, Puts, Gets
  <2>2. tail' = Slot(n, tail, 1) /\ head' = h /\ count' = c + 1
    BY <1>2, <1>8, <2>1 DEF Commit, Slot
  <2>3. tail' = Slot(n, h, c + 1)
    BY <1>2, <2>1, <2>2, SlotsAdd
  <2>4. tail' \in 0 .. n - 1 /\ tail \in 0 .. n - 1
    BY <1>2, <2>1, <2>3, SlotRange DEF CellTypes
  <2>5. CellInv'
    BY <1>1, <1>2, <1>7, <2>1, <2>2, <2>3, <2>4 DEF CellTypes, Stages
  <2>6. PICK e \in Items : e = ring[Slot(n, h, c)]
    BY <1>2, <2>4 DEF CellTypes
  <2>7. [ring EXCEPT ![Slot(n, h, c)] = e] = ring
    BY <1>2, <2>4, <2>6 DEF CellTypes
  <2>8. Held(ring, n, h, c + 1) = Append(s, e)
    <3>1. n \in Nat \ {0} /\ h \in 0 .. n - 1 /\ c \in 0 .. n - 1 /\ Keeps(ring, n, h, c, Items)
      BY <1>2, <1>4, <2>1
    <3>2. /\ Held([ring EXCEPT ![Slot(n, h, c)] = e], n, h, c + 1) = Append(Held(ring, n, h, c), e)
          /\ Keeps([ring EXCEPT ![Slot(n, h, c)] = e], n, h, c + 1, Items)
      BY <3>1, HeldPut
    <3> QED BY <1>3, <2>7, <3>2
  <2>9. Queued' = [Queued EXCEPT ![1] = Append(@, e)] /\ Len(Queued[1]) < Room[1]
    BY <1>4, <1>5, <1>6, <2>1, <2>2, <2>8
  <2>10. Fifo!Put(1)
    BY <1>5, <2>9 DEF Fifo!Put, Queued, Room
  <2>11. Fifo!FifoNext
    BY <2>10 DEF Fifo!FifoNext
  <2> QED BY <2>5, <2>11 DEF CellStep
<1>9. CASE op[t] \notin Puts
  <2>1. c > 0 /\ seen[t] = head
    BY <1>1, <1>2, <1>9 DEF IndexHolds
  <2>2. head' = Slot(n, h, 1) /\ tail' = tail /\ count' = c - 1
    BY <1>2, <1>9, <2>1 DEF Commit, Slot
  <2>3. head' \in 0 .. n - 1
    BY <1>2, <2>2, SlotRange
  <2>4. tail' = Slot(n, head', count')
    BY <1>2, <2>1, <2>2, SlotsAdd
  <2>5. CellInv'
    BY <1>1, <1>2, <1>7, <2>1, <2>2, <2>3, <2>4 DEF CellTypes, Stages
  <2>6. Held(ring, n, Slot(n, h, 1), c - 1) = SubSeq(s, 1 + 1, Len(s))
    <3>1. PICK k \in Nat : k = 1
      OBVIOUS
    <3>2. n \in Nat \ {0} /\ h \in 0 .. n - 1 /\ c \in 0 .. n /\ k \in 0 .. c /\ Keeps(ring, n, h, c, Items)
      BY <1>2, <1>4, <2>1, <3>1
    <3>3. /\ Held(ring, n, Slot(n, h, k), c - k) = SubSeq(Held(ring, n, h, c), k + 1, Len(Held(ring, n, h, c)))
          /\ Keeps(ring, n, Slot(n, h, k), c - k, Items)
      BY <3>2, HeldTake
    <3> QED BY <1>3, <3>1, <3>3
  <2>7. Queued' = [Queued EXCEPT ![1] = SubSeq(@, 1 + 1, Len(@))] /\ 1 \in 1 .. Len(Queued[1])
    <3>1. Queued[1] = s /\ Len(s) = c /\ c \in Nat
      BY <1>2, <1>4
    <3>2. Queued' = [q \in {1} |-> SubSeq(s, 1 + 1, Len(s))]
      BY <1>5, <2>2, <2>6
    <3>3. [Queued EXCEPT ![1] = SubSeq(@, 1 + 1, Len(@))] = [q \in {1} |-> SubSeq(s, 1 + 1, Len(s))]
      BY <1>4
    <3> QED BY <2>1, <3>1, <3>2, <3>3
  <2>8. Fifo!Take(1, 1)
    BY <1>5, <2>7 DEF Fifo!Take, Queued, Room
  <2>9. Fifo!FifoNext
    BY <2>7, <2>8, FifoTakes
  <2> QED BY <2>5, <2>9 DEF CellStep
<1> QED BY <1>8, <1>9

(* The queue is there, and empty, from Initialize on. *)
LEMMA InitCell == SyncInit => CellInv /\ Fifo!FifoInit
<1> SUFFICES ASSUME SyncInit PROVE CellInv /\ Fifo!FifoInit
  OBVIOUS
<1>1. NoItem \in Items
  BY DEF NoItem
<1>2. object.users \subseteq Users
  BY DEF SyncInit
<1>3. 0 = Slot(Depth, 0, 0)
  BY 0 \in 0 .. Depth - 1, SlotNowhere
<1>4. CellTypes
  <2>1. made \in BOOLEAN
    BY Zenon DEF SyncInit
  <2>2. head \in 0 .. Depth - 1 /\ tail \in 0 .. Depth - 1 /\ count \in 0 .. Depth /\ ring \in [0 .. Depth - 1 -> Items]
    BY <1>1 DEF SyncInit
  <2>3. stage \in [Users -> Stages] /\ DOMAIN op = Users /\ DOMAIN seen = Users
    BY DEF SyncInit, Stages
  <2> QED BY <1>2, <2>1, <2>2, <2>3 DEF CellTypes
<1>5. CellInv
  BY <1>3, <1>4 DEF SyncInit, CellInv, OneInside, IndexHolds, Locked
<1>6. Queued = [q \in {1} |-> <<>>] /\ Room = [q \in {1} |-> 0]
  BY DEF SyncInit, Queued, Room
<1> QED BY <1>5, <1>6 DEF Fifo!FifoInit, Queued, Room

(* The first call makes the queue, with the room it is given. *)
LEMMA InitializeCell == CellInv /\ Initialize => CellStep
<1> SUFFICES ASSUME CellInv, Initialize PROVE CellStep
  OBVIOUS
<1>1. ~made /\ made' /\ UNCHANGED <<object, head, tail, count, ring, lock, op, stage, seen>> /\ count = 0
  BY DEF Initialize, CellInv, queueVars
<1>2. made' \in BOOLEAN
  BY DEF Initialize
<1>3. CellInv'
  BY <1>1, <1>2 DEF CellInv, CellTypes, OneInside, IndexHolds
<1>4. Queued = [q \in {1} |-> <<>>] /\ Queued' = [q \in {1} |-> <<>>]
  BY <1>1 DEF Queued
<1>5. Room = [q \in {1} |-> 0] /\ Room' = [q \in {1} |-> Depth]
  BY <1>1 DEF Room
<1>6. Fifo!Open(1)
  <2>1. Room[1] = 0 /\ Queued' = [Queued EXCEPT ![1] = <<>>] /\ Room' = [Room EXCEPT ![1] = Depth]
    BY <1>4, <1>5
  <2>2. Depth \in 1 .. Depth
    OBVIOUS
  <2> QED BY <2>1, <2>2 DEF Fifo!Open, Fifo!EmptyQueue, Queued, Room
<1>7. Fifo!FifoNext
  BY <1>6 DEF Fifo!FifoNext
<1> QED BY <1>3, <1>7 DEF CellStep

(* Each step is one above, of a user whose item is one. *)
LEMMA NextCell == BufferInv /\ CellInv /\ [SyncNext]_syncVars => CellStep
<1> SUFFICES ASSUME BufferInv, CellInv, [SyncNext]_syncVars PROVE CellStep
  OBVIOUS
<1>1. CASE UNCHANGED syncVars
  BY <1>1 DEF syncVars, queueVars, CellStep, CellInv, CellTypes, OneInside, IndexHolds, Queued, Room
<1>2. CASE Initialize
  BY <1>2, InitializeCell
<1>3. ASSUME NEW t \in object.users,
             SyncContinue(t)
               \/ (\E o \in Puts \cup Gets \cup {"peek", "clear", "mutex", "trymutex"}, i \in Items : QueueCall(t, o, i))
               \/ (\E o \in {"read", "tryread"} : ReadCall(t, o))
               \/ (\E o \in {"write", "trywrite"}, i \in Items : WriteCall(t, o, i))
               \/ Notify(t) \/ BarrierWait(t) \/ TryWait(t)
      PROVE  CellStep
  <2>1. t \in Users /\ mine[t] \in Items \X Items
    BY <1>3 DEF BufferInv, BufferTypes
  <2>2. made
    <3>1. stage[t] # "idle" => made
      BY <2>1 DEF CellInv
    <3>2. SyncContinue(t) => stage[t] # "idle"
      BY DEF SyncContinue, LockStep, RwmStep, BarrierStep, QueueSpin, Acquire, Busy, Recheck, Copy, Visit, Commit, Open,
         NoWriter, Enter, Check, Retreat, Leave, ReadHalf, Claim, Drain, Free, WriteHalf, Reset, Advance, Pass
    <3> QED BY <1>3, <3>1, <3>2 DEF QueueCall, ReadCall, WriteCall, Notify, BarrierWait, TryWait, Call
  <2> QED BY <1>3, <2>1, <2>2, OtherCells, LockCells, CopyCell, ClearCell, CommitCell DEF SyncContinue, LockStep
<1> QED BY <1>1, <1>2, <1>3 DEF SyncNext

(* The queue is a FIFO of its depth: whatever its users test without the    *)
(* lock, try, clear or look at, an item comes out once, in its turn.        *)
THEOREM CellQueueIsFifo == SyncSpec => SyncQueueIsFifo
<1>1. CellStep => CellInv' /\ [Fifo!FifoNext]_<<Queued, Room>>
  BY DEF CellStep
<1>2. SyncSpec => Fifo!FifoInit /\ [][Fifo!FifoNext]_<<Queued, Room>>
  BY <1>1, InitBuffer, NextBuffer, InitCell, NextCell, PTL DEF SyncSpec
<1> QED BY <1>2, PTL DEF SyncQueueIsFifo, Fifo!FifoSpec, Queued, Room
=============================================================================
