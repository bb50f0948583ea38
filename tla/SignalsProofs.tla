--------------------------- MODULE SignalsProofs ---------------------------
(***************************************************************************)
(* Proofs about event flags (EventFlag), reader-writer locks (RwLock) and  *)
(* semaphores (Semaphore), for any objects, threads, bits, waits and       *)
(* counts, and either build.                                               *)
(***************************************************************************)
EXTENDS EventFlag, Semaphore, RwLock, TLAPS, FiniteSetTheorems

-----------------------------------------------------------------------------
(* EventFlag.  That nobody sleeps on a pattern that satisfies it needs to   *)
(* be known together with who can be asleep at all: a waiter, on a flag     *)
(* that exists, so that filling a slot again cannot change the pattern      *)
(* under a sleeper.                                                         *)

Waits == {"entering", "asleep", "expired", "orphan", "trying"}

(* The variables, with the parts of the state that only the proof needs.   *)
Shape ==
  /\ FlagTypeOK
  /\ want \in [Waiters -> Want \cup {NoWant}]
  /\ change \in [Setters -> {"none", "set", "clear"} \X SUBSET Bits]
  /\ created \in [Flags -> Nat]
  /\ raised \in [Flags -> [Bits -> Nat]]
  /\ taken \in [Flags -> [Bits -> Nat]]
  /\ \A t \in Threads : at[t] \in {"changing", "destroying"} => t \in Setters
  /\ \A t \in Threads : at[t] \in Waits => t \in Waiters

(* A bit that is up has risen once more often than it was taken.           *)
Counted == \A f \in Flags, b \in Bits :
  taken[f][b] + (IF b \in pattern[f] THEN 1 ELSE 0) <= raised[f][b]

(* The inductive invariant. *)
FlagInv == Shape /\ SleepersUnsatisfied /\ Counted

USE FlagIdsAssumption, FlagThreadsAssumption, WantsAssumption

(* A thread that does nothing waits for nothing, and has nothing to change. *)
LEMMA Nothing ==
  /\ NoWant \notin Want
  /\ NoChange \in {"none", "set", "clear"} \X SUBSET Bits
<1>1. NoWant \notin Want
  <2>1. NoWant.bits = {}
    BY DEF NoWant
  <2>2. \A w \in Want : w.bits # {}
    BY DEF Want
  <2> QED
    BY <2>1, <2>2
<1>2. NoChange \in {"none", "set", "clear"} \X SUBSET Bits
  BY DEF NoChange
<1> QED
  BY <1>1, <1>2

(* The invariant holds before the first create. *)
LEMMA FlagsStart == FlagInit => FlagInv
<1> SUFFICES ASSUME FlagInit PROVE FlagInv
  OBVIOUS
<1> USE DEF FlagInit
<1>1. Shape
  BY DEF Shape, FlagTypeOK, Threads, NoWant, NoChange, Waits
<1>2. SleepersUnsatisfied
  BY DEF SleepersUnsatisfied
<1>3. Counted
  BY DEF Counted
<1> QED
  BY <1>1, <1>2, <1>3 DEF FlagInv

(* A slot that is filled has no sleepers. *)
LEMMA CreateInv ==
  ASSUME FlagInv, NEW t \in Setters, NEW f \in Flags, NEW init \in SUBSET Bits,
         FlagCreate(t, f, init)
  PROVE  FlagInv'
<1> USE DEF FlagCreate, threadVars
<1>1. Shape'
  BY DEF FlagInv, Shape, FlagTypeOK
<1>2. SleepersUnsatisfied'
  BY DEF FlagInv, Shape, FlagTypeOK, SleepersUnsatisfied, Asleep, Met, Threads
<1>3. Counted'
  BY DEF FlagInv, Shape, FlagTypeOK, Counted
<1> QED
  BY <1>1, <1>2, <1>3 DEF FlagInv

(* The sleepers of a flag that goes are no longer its sleepers. *)
LEMMA DestroyInv ==
  ASSUME FlagInv, NEW t \in Setters, NEW f \in Flags, FlagDestroy(t, f)
  PROVE  FlagInv'
<1> USE DEF FlagDestroy, Asleep
<1>1. Shape'
  <2>1. CASE /\ active' = [active EXCEPT ![f] = FALSE]
             /\ at' = [u \in Threads |-> IF u \in Asleep(f) THEN "orphan" ELSE at[u]]
             /\ UNCHANGED on
    BY <2>1 DEF FlagInv, Shape, FlagTypeOK, Threads, Waits
  <2>2. CASE at' = [at EXCEPT ![t] = "destroying"] /\ on' = [on EXCEPT ![t] = f] /\ UNCHANGED active
    <3>1. t \in Threads /\ t \notin Waiters /\ at[t] = "idle"
      BY DEF Threads
    <3> QED
      BY <2>2, <3>1 DEF FlagInv, Shape, FlagTypeOK, Threads, Waits
  <2> QED
    BY <2>1, <2>2
<1>2. SleepersUnsatisfied'
  BY DEF FlagInv, Shape, FlagTypeOK, SleepersUnsatisfied, Met, Threads
<1>3. Counted'
  BY DEF FlagInv, Shape, FlagTypeOK, Counted
<1> QED
  BY <1>1, <1>2, <1>3 DEF FlagInv

(* Nor has a flag any when a destroy that waited for them goes on. *)
LEMMA DestroyedInv ==
  ASSUME FlagInv, NEW t \in Threads, FlagDestroyed(t)
  PROVE  FlagInv'
<1> USE DEF FlagDestroyed, Leave
<1>0. on[t] \in Flags /\ t \in Setters
  BY DEF FlagInv, Shape, FlagTypeOK
<1>1. Shape'
  BY <1>0, Nothing DEF FlagInv, Shape, FlagTypeOK, Asleep, Threads, Waits
<1>2. SleepersUnsatisfied'
  BY <1>0 DEF FlagInv, Shape, FlagTypeOK, SleepersUnsatisfied, Asleep, Met, Threads
<1>3. Counted'
  BY <1>0 DEF FlagInv, Shape, FlagTypeOK, Counted
<1> QED
  BY <1>1, <1>2, <1>3 DEF FlagInv

(* A call starts: nothing of the flag changes, and nobody falls asleep. *)
LEMMA EnterInv ==
  ASSUME FlagInv, NEW f \in Flags,
         \/ \E t \in Waiters, w \in Wants : Wait(t, f, w) \/ TryWait(t, f, w)
         \/ \E t \in Setters, bits \in SUBSET Bits :
              Change(t, f, "set", bits) \/ Change(t, f, "clear", bits)
  PROVE  FlagInv'
<1> USE DEF Wait, TryWait, Change, flagVars
<1>1. Shape'
  <2>1. CASE \E t \in Waiters, w \in Wants : Wait(t, f, w) \/ TryWait(t, f, w)
    <3>1. PICK t \in Waiters, w \in Wants : Wait(t, f, w) \/ TryWait(t, f, w)
      BY <2>1
    <3>2. FlagTypeOK'
      <4>1. PICK there \in {"entering", "trying"} : at' = [at EXCEPT ![t] = there]
        BY <3>1
      <4>2. on' = [on EXCEPT ![t] = f] /\ want' = [want EXCEPT ![t] = w] /\ UNCHANGED flagVars
        BY <3>1
      <4>3. w # NoWant /\ t \in Threads
        BY Nothing DEF Threads
      <4>4. at' \in [Threads -> {"idle", "entering", "asleep", "expired", "orphan",
                                 "trying", "changing", "destroying"}]
        BY <4>1 DEF FlagInv, Shape, FlagTypeOK
      <4>5. \A u \in Threads \ {t} : at'[u] = at[u] /\ on'[u] = on[u]
        BY <4>1, <4>2 DEF FlagInv, Shape, FlagTypeOK
      <4>6. at'[t] \in {"entering", "trying"} /\ on'[t] = f /\ want'[t] = w
        BY <4>1, <4>2, <4>3 DEF FlagInv, Shape, FlagTypeOK
      <4>7. on' \in [Threads -> Flags \cup {0}]
        BY <4>2 DEF FlagInv, Shape, FlagTypeOK
      <4>8. \A u \in Threads : at'[u] = "idle" <=> on'[u] = 0
        BY <4>5, <4>6 DEF FlagInv, Shape, FlagTypeOK
      <4>9. \A u \in Waiters : (at'[u] = "idle" <=> want'[u] = NoWant)
                                /\ (at'[u] = "asleep" => active[on'[u]])
        <5>1. \A u \in Waiters : u \in Threads
          BY DEF Threads
        <5>2. \A u \in Waiters \ {t} : want'[u] = want[u]
          BY <4>2 DEF FlagInv, Shape
        <5> QED
          BY <4>3, <4>5, <4>6, <5>1, <5>2 DEF FlagInv, Shape, FlagTypeOK
      <4> QED
        BY <4>2, <4>4, <4>7, <4>8, <4>9 DEF FlagInv, Shape, FlagTypeOK, flagVars
    <3> QED
      BY <3>1, <3>2 DEF FlagInv, Shape, FlagTypeOK, Threads, Waits
  <2>2. CASE \E t \in Setters, bits \in SUBSET Bits :
               Change(t, f, "set", bits) \/ Change(t, f, "clear", bits)
    <3>1. FlagTypeOK'
      <4>1. PICK t \in Setters : /\ at' = [at EXCEPT ![t] = "changing"]
                                 /\ on' = [on EXCEPT ![t] = f]
        BY <2>2
      <4>2. \A u \in Waiters : at'[u] = at[u] /\ on'[u] = on[u] /\ u \in Threads
        BY <4>1 DEF FlagInv, Shape, FlagTypeOK, Threads
      <4>3. \A u \in Threads : at'[u] = "idle" <=> on'[u] = 0
        BY <4>1 DEF FlagInv, Shape, FlagTypeOK, Threads
      <4>4. at' \in [Threads -> {"idle", "entering", "asleep", "expired", "orphan",
                                 "trying", "changing", "destroying"}]
        BY <4>1 DEF FlagInv, Shape, FlagTypeOK
      <4>5. on' \in [Threads -> Flags \cup {0}]
        BY <4>1 DEF FlagInv, Shape, FlagTypeOK
      <4> QED
        BY <2>2, <4>2, <4>3, <4>4, <4>5 DEF FlagInv, Shape, FlagTypeOK
    <3> QED
      BY SMTT(30), <2>2, <3>1 DEF FlagInv, Shape, FlagTypeOK, Threads, Waits
  <2> QED
    BY <2>1, <2>2
<1>2. SleepersUnsatisfied'
  <2>1. \A g \in Flags : Asleep(g)' \in SUBSET Asleep(g)
    BY DEF FlagInv, Shape, FlagTypeOK, Asleep, Threads
  <2>2. \A g \in Flags : \A t \in Asleep(g)' : want'[t] = want[t]
    BY DEF FlagInv, Shape, FlagTypeOK, Asleep, Threads
  <2> QED
    BY <2>1, <2>2 DEF FlagInv, SleepersUnsatisfied, Met
<1>3. Counted'
  BY DEF FlagInv, Counted
<1> QED
  BY <1>1, <1>2, <1>3 DEF FlagInv

(* A wait that is satisfied only takes bits from the pattern. *)
LEMMA SatisfyInv ==
  ASSUME FlagInv, NEW t \in Waiters, at[t] \in Waits, at[t] # "asleep",
         Satisfy(t, on[t])
  PROVE  FlagInv'
<1> USE DEF Satisfy, Leave
<1>0. on[t] \in Flags /\ want[t] \in Want /\ t \in Threads
  BY DEF FlagInv, Shape, FlagTypeOK, Threads, Waits
<1>1. Remains(on[t], want[t]) \in SUBSET pattern[on[t]]
  BY <1>0 DEF Remains, Want, Clears
<1>2. Shape'
  <2>1. FlagTypeOK'
    BY <1>0, <1>1, Nothing DEF FlagInv, Shape, FlagTypeOK, Threads, Waits
  <2>2. (taken \in [Flags -> [Bits -> Nat]])'
    <3>1. taken[on[t]] \in [Bits -> Nat]
      BY <1>0 DEF FlagInv, Shape
    <3>2. [b \in Bits |-> taken[on[t]][b] +
             (IF want[t].clear # "keep" /\ b \in want[t].bits \cap pattern[on[t]]
              THEN 1 ELSE 0)] \in [Bits -> Nat]
      BY <3>1
    <3> QED
      BY <3>2 DEF FlagInv, Shape
  <2> QED
    BY <1>0, <1>1, <2>1, <2>2, Nothing DEF FlagInv, Shape, FlagTypeOK, Threads, Waits
<1>3. SleepersUnsatisfied'
  BY <1>0, <1>1 DEF FlagInv, Shape, FlagTypeOK, SleepersUnsatisfied, Asleep, Met, Threads
<1>4. Counted'
  BY <1>0, <1>1 DEF FlagInv, Shape, FlagTypeOK, Counted, Remains, Want, Clears
<1> QED
  BY <1>2, <1>3, <1>4 DEF FlagInv

(* Who falls asleep has just seen that it must wait. *)
LEMMA WaitLoopInv ==
  ASSUME FlagInv, NEW t \in Waiters, WaitLoop(t)
  PROVE  FlagInv'
<1> USE DEF WaitLoop
<1>1. CASE MustWait(on[t], want[t])
  <2> USE <1>1 DEF MustWait, flagVars
  <2>1. Shape'
    BY DEF FlagInv, Shape, FlagTypeOK, Threads, Waits
  <2>2. SleepersUnsatisfied'
    BY DEF FlagInv, Shape, FlagTypeOK, SleepersUnsatisfied, Asleep, Met, Threads
  <2>3. Counted'
    BY DEF FlagInv, Counted
  <2> QED
    BY <2>1, <2>2, <2>3 DEF FlagInv
<1>2. CASE ~MustWait(on[t], want[t])
  BY <1>2, SatisfyInv DEF Waits
<1> QED
  BY <1>1, <1>2

(* The other ends of a wait leave the pattern alone. *)
LEMMA WaitEndsInv ==
  ASSUME FlagInv, NEW t \in Waiters,
         SpuriousWake(t) \/ WaitExpire(t) \/ WaitTimedOut(t) \/ TryWaitEnd(t)
  PROVE  FlagInv'
<1>1. CASE TryWaitEnd(t) /\ Met(on[t], want[t])
  BY <1>1, SatisfyInv DEF TryWaitEnd, Waits
<1>2. CASE ~(TryWaitEnd(t) /\ Met(on[t], want[t]))
  <2> USE <1>2 DEF SpuriousWake, WaitExpire, WaitTimedOut, TryWaitEnd, Leave, flagVars
  <2>1. Shape'
    BY Nothing DEF FlagInv, Shape, FlagTypeOK, Threads, Waits
  <2>2. SleepersUnsatisfied'
    BY DEF FlagInv, Shape, FlagTypeOK, SleepersUnsatisfied, Asleep, Met, Threads
  <2>3. Counted'
    BY DEF FlagInv, Counted
  <2> QED
    BY <2>1, <2>2, <2>3 DEF FlagInv
<1> QED
  BY <1>1, <1>2

(* A set wakes everybody who sleeps on the flag ... *)
LEMMA SetInv ==
  ASSUME FlagInv, NEW t \in Threads, Set(t)
  PROVE  FlagInv'
<1> USE DEF Set, Raise, Woken, Asleep
<1>0. on[t] \in Flags /\ t \in Setters /\ change[t][2] \in SUBSET Bits
  BY DEF FlagInv, Shape, FlagTypeOK
<1>1. Shape'
  <2>1. FlagTypeOK'
    BY <1>0, Nothing DEF FlagInv, Shape, FlagTypeOK, Threads, Waits
  <2>2. (raised \in [Flags -> [Bits -> Nat]])'
    <3>1. raised[on[t]] \in [Bits -> Nat]
      BY <1>0 DEF FlagInv, Shape
    <3>2. [b \in Bits |-> raised[on[t]][b] +
             (IF b \in (pattern[on[t]] \cup change[t][2]) \ pattern[on[t]]
              THEN 1 ELSE 0)] \in [Bits -> Nat]
      BY <3>1
    <3> QED
      BY <3>2 DEF FlagInv, Shape
  <2> QED
    BY <1>0, <2>1, <2>2, Nothing DEF FlagInv, Shape, FlagTypeOK, Threads, Waits
<1>2. SleepersUnsatisfied'
  BY <1>0 DEF FlagInv, Shape, FlagTypeOK, SleepersUnsatisfied, Met, Threads
<1>3. Counted'
  BY <1>0 DEF FlagInv, Shape, FlagTypeOK, Counted
<1> QED
  BY <1>1, <1>2, <1>3 DEF FlagInv

(* ... and a clear makes no wait true. *)
LEMMA ClearInv ==
  ASSUME FlagInv, NEW t \in Threads, Clear(t)
  PROVE  FlagInv'
<1> USE DEF Clear, Leave
<1>0. on[t] \in Flags /\ t \in Setters /\ change[t][2] \in SUBSET Bits
  BY DEF FlagInv, Shape, FlagTypeOK
<1>1. Shape'
  BY <1>0, Nothing DEF FlagInv, Shape, FlagTypeOK, Threads, Waits
<1>2. SleepersUnsatisfied'
  BY <1>0 DEF FlagInv, Shape, FlagTypeOK, SleepersUnsatisfied, Asleep, Met, Threads
<1>3. Counted'
  BY <1>0 DEF FlagInv, Shape, FlagTypeOK, Counted
<1> QED
  BY <1>1, <1>2, <1>3 DEF FlagInv

(* No step breaks it. *)
LEMMA FlagsGoOn == FlagInv /\ [FlagNext]_fVars => FlagInv'
<1> SUFFICES ASSUME FlagInv, [FlagNext]_fVars PROVE FlagInv'
  OBVIOUS
<1>1. CASE UNCHANGED fVars
  BY <1>1 DEF FlagInv, Shape, FlagTypeOK, SleepersUnsatisfied, Counted, Asleep, Met,
     fVars, flagVars, threadVars
<1>2. CASE FlagNext
  BY <1>2, CreateInv, DestroyInv, DestroyedInv, EnterInv, WaitLoopInv, WaitEndsInv, SetInv, ClearInv
     DEF FlagNext, Continue
<1> QED
  BY <1>1, <1>2

(* The invariant holds throughout. *)
LEMMA FlagsAlways == FlagSpec => []FlagInv
  BY FlagsStart, FlagsGoOn, PTL DEF FlagSpec

(* The flags are well formed, and only a flag that exists has sleepers.    *)
THEOREM FlagTypesCorrect == FlagSpec => []FlagTypeOK
<1>1. FlagInv => FlagTypeOK
  BY DEF FlagInv, Shape
<1> QED
  BY <1>1, FlagsAlways, PTL

(* Nobody sleeps on a pattern that satisfies it. *)
THEOREM SleepersAreUnsatisfied == FlagSpec => []SleepersUnsatisfied
<1>1. FlagInv => SleepersUnsatisfied
  BY DEF FlagInv
<1> QED
  BY <1>1, FlagsAlways, PTL

(* No rise of a bit satisfies two waits that clear it. *)
THEOREM RaisesAreTakenOnce == FlagSpec => []RaiseTakenOnce
<1>1. FlagInv => RaiseTakenOnce
  <2> SUFFICES ASSUME FlagInv, NEW f \in Flags, NEW b \in Bits
               PROVE  taken[f][b] <= raised[f][b]
    BY DEF RaiseTakenOnce
  <2>1. taken[f][b] \in Nat /\ raised[f][b] \in Nat
    <3>1. raised \in [Flags -> [Bits -> Nat]] /\ taken \in [Flags -> [Bits -> Nat]]
      BY DEF FlagInv, Shape
    <3> QED
      BY <3>1
  <2>2. taken[f][b] + (IF b \in pattern[f] THEN 1 ELSE 0) <= raised[f][b]
    BY DEF FlagInv, Counted
  <2> QED
    BY <2>1, <2>2
<1> QED
  BY <1>1, FlagsAlways, PTL

-----------------------------------------------------------------------------
(* RwLock.  The words that Windows reads without a lock never refuse a call *)
(* wrongly, and the lock is a SharedLock.  The inductive invariant ties the *)
(* words, the host lock and the places of the threads together: whoever has *)
(* the lock or is between the host lock and a word is the one writer of the *)
(* host lock.                                                               *)

InHost == {"mark", "name", "unmark", "free"}

(* The host lock is held for writing by who was told that it has the lock, *)
(* or is about to be told, or has just given it up.                        *)
HostIsBacked ==
  \A u \in Users : exclusive = u <=> u \in has \/ place[u] \in InHost

(* A held host lock has no readers. *)
WriterAlone == exclusive # Nobody => \A u \in Users : shared[u] = 0

(* The words of the Windows build name the holder. *)
WordsNameHolder ==
  srw => \A u \in Users : /\ writerTid = u <=> u \in has
                          /\ u \in has \/ place[u] \in {"name", "unmark"} => writer = 1

(* Who has the lock is not between the host lock and a word; POSIX has no  *)
(* words to be at.                                                         *)
PlacesFit ==
  \A u \in Users : /\ place[u] \in InHost => u \notin has
                   /\ ~srw => place[u] \in {"out", "acquire"}

(* The inductive invariant. *)
LockInv == /\ RwTypeOK /\ HostIsBacked /\ WriterAlone
        /\ WordsNameHolder /\ PlacesFit /\ RefusalsAreTrue

-----------------------------------------------------------------------------
(* The invariant of the locks holds before the first create. *)
LEMMA LocksStart == RwInit => LockInv
BY RwAssumption
DEF RwInit, LockInv, RwTypeOK, HostIsBacked, WriterAlone, WordsNameHolder, PlacesFit,
    RefusalsAreTrue, InHost

(* Nothing that is read changes. *)
LEMMA StutterInv == LockInv /\ UNCHANGED rwVars => LockInv'
BY DEF LockInv, RwTypeOK, HostIsBacked, WriterAlone, WordsNameHolder, PlacesFit,
       RefusalsAreTrue, InHost, rwVars, wordVars, hostVars

(* A reader comes and goes while nobody writes. *)
LEMMA ReadersInv ==
  ASSUME LockInv, NEW u \in Users, RLock(u) \/ RUnlock(u)
  PROVE  LockInv'
<1> USE DEF LockInv, RwTypeOK, InHost, wordVars
<1>1. CASE RLock(u)
  <2> USE <1>1 DEF RLock, Readable
  <2>1. RwTypeOK'         BY RwAssumption
  <2>2. WriterAlone'      BY DEF WriterAlone
  <2>3. HostIsBacked' /\ WordsNameHolder' /\ PlacesFit' /\ RefusalsAreTrue'
    BY DEF HostIsBacked, WordsNameHolder, PlacesFit, RefusalsAreTrue
  <2> QED BY <2>1, <2>2, <2>3
<1>2. CASE RUnlock(u)
  <2> USE <1>2 DEF RUnlock
  <2>1. RwTypeOK'         BY RwAssumption
  <2>2. WriterAlone'      BY DEF WriterAlone
  <2>3. HostIsBacked' /\ WordsNameHolder' /\ PlacesFit' /\ RefusalsAreTrue'
    BY DEF HostIsBacked, WordsNameHolder, PlacesFit, RefusalsAreTrue
  <2> QED BY <2>1, <2>2, <2>3
<1> QED BY <1>1, <1>2

(* The calls up to the host lock, and back from it: the words and the host *)
(* lock stay as they are, and only the thread's place moves.               *)
LEMMA TestsInv ==
  ASSUME LockInv, NEW u \in Users,
         \/ \E try \in BOOLEAN : WLock(u, try)
         \/ Compare(u) \/ WBusy(u) \/ Refused(u)
  PROVE  LockInv'
<1> USE RwAssumption DEF LockInv, RwTypeOK, HostIsBacked, WriterAlone, WordsNameHolder,
        PlacesFit, RefusalsAreTrue, InHost, wordVars, hostVars, To, Returns
<1>1. CASE \E try \in BOOLEAN : WLock(u, try)   BY <1>1 DEF WLock
<1>2. CASE Compare(u)                           BY <1>2 DEF Compare
<1>3. CASE WBusy(u)                             BY <1>3 DEF WBusy
<1>4. CASE Refused(u)                           BY <1>4 DEF Refused
<1> QED BY <1>1, <1>2, <1>3, <1>4

(* The host lock and the words are taken, in that order. *)
LEMMA TakeInv ==
  ASSUME LockInv, NEW u \in Users, WAcquire(u) \/ Mark(u) \/ Name(u)
  PROVE  LockInv'
<1> USE RwAssumption DEF LockInv, RwTypeOK, HostIsBacked, WriterAlone, WordsNameHolder,
        PlacesFit, RefusalsAreTrue, InHost, wordVars, hostVars, To, Returns
<1>1. CASE WAcquire(u)
  <2>0. /\ place[u] = "acquire" /\ exclusive = Nobody /\ \A v \in Users : shared[v] = 0
        /\ exclusive' = u /\ UNCHANGED <<srw, writer, writerTid, shared>>
    BY <1>1, Zenon DEF WAcquire, Writable
  <2>1. CASE srw
    <3>1. place' = [place EXCEPT ![u] = "mark"] /\ UNCHANGED <<trying, has>>
      BY <1>1, <2>1, Zenon DEF WAcquire
    <3> QED
      BY <2>0, <2>1, <3>1
  <2>2. CASE ~srw
    <3>1. /\ place' = [place EXCEPT ![u] = "out"] /\ trying' = [trying EXCEPT ![u] = FALSE]
          /\ has' = has \cup {u}
      BY <1>1, <2>2, Zenon DEF WAcquire
    <3> QED
      BY <2>0, <2>2, <3>1
  <2> QED
    BY <2>1, <2>2
<1>2. CASE Mark(u)       BY <1>2 DEF Mark
<1>3. CASE Name(u)       BY <1>3 DEF Name
<1> QED BY <1>1, <1>2, <1>3

(* They are given back in the other order. *)
LEMMA GiveInv ==
  ASSUME LockInv, NEW u \in Users, WUnlock(u) \/ Own(u) \/ Unmark(u) \/ WFree(u)
  PROVE  LockInv'
<1> USE RwAssumption DEF LockInv, RwTypeOK, HostIsBacked, WriterAlone, WordsNameHolder,
        PlacesFit, RefusalsAreTrue, InHost, wordVars, hostVars, To
<1>1. CASE WUnlock(u)   BY <1>1 DEF WUnlock
<1>2. CASE Own(u)       BY <1>2 DEF Own
<1>3. CASE Unmark(u)    BY <1>3 DEF Unmark
<1>4. CASE WFree(u)     BY <1>4 DEF WFree
<1> QED BY <1>1, <1>2, <1>3, <1>4

(* Every step keeps the invariant. *)
LEMMA LocksGoOn == LockInv /\ [RwNext]_rwVars => LockInv'
<1> SUFFICES ASSUME LockInv, RwNext PROVE LockInv'
  BY StutterInv
<1> PICK u \in Users :
      \/ RLock(u) \/ RUnlock(u) \/ WUnlock(u) \/ RwContinue(u)
      \/ \E try \in BOOLEAN : WLock(u, try)
  BY DEF RwNext
<1> QED BY ReadersInv, TestsInv, TakeInv, GiveInv DEF RwContinue

(* The invariant holds throughout. *)
THEOREM LocksAlways == RwSpec => []LockInv
<1> QED BY LocksStart, LocksGoOn, PTL DEF RwSpec

-----------------------------------------------------------------------------
(* EDEADLK is answered only to the holder, EPERM only to a thread that is  *)
(* not, although the words are read one after the other without a lock.    *)
THEOREM RefusalsTrue == RwSpec => []RefusalsAreTrue
<1>1. LockInv => RefusalsAreTrue
  BY DEF LockInv
<1> QED BY <1>1, LocksAlways, PTL

(* A new lock is one nobody reads or writes. *)
LEMMA InitPromised == RwInit => Promised!SlInit
BY DEF RwInit, Promised!SlInit

(* Every step of the code is one of the promised lock, or changes nothing  *)
(* of it.                                                                  *)
LEMMA StepPromised ==
  LockInv /\ [RwNext]_rwVars => [Promised!SlNext]_Promised!slVars
<1> SUFFICES ASSUME LockInv, [RwNext]_rwVars
             PROVE  Promised!SlNext \/ UNCHANGED <<shared, has>>
  BY DEF Promised!slVars
<1>1. CASE UNCHANGED rwVars
  BY <1>1 DEF rwVars, hostVars
<1>2. CASE RwNext
  <2> PICK u \in Users :
        \/ RLock(u) \/ RUnlock(u) \/ WUnlock(u) \/ RwContinue(u)
        \/ \E try \in BOOLEAN : WLock(u, try)
    BY <1>2 DEF RwNext
  <2> USE RwAssumption DEF LockInv, RwTypeOK, HostIsBacked, WriterAlone, WordsNameHolder,
          PlacesFit, InHost, wordVars, hostVars
  <2>1. CASE RLock(u)
    <3>1. Promised!Read(u)  BY <2>1 DEF RLock, Readable, Promised!Read
    <3> QED BY <3>1 DEF Promised!SlNext
  <2>2. CASE RUnlock(u)
    <3>1. Promised!EndRead(u)  BY <2>2 DEF RUnlock, Promised!EndRead
    <3> QED BY <3>1 DEF Promised!SlNext
  <2>3. CASE WAcquire(u)
    <3>1. Promised!Write(u) \/ UNCHANGED <<shared, has>>
      BY <2>3 DEF WAcquire, Writable, Promised!Write, Promised!Unread
    <3> QED BY <3>1 DEF Promised!SlNext
  <2>4. CASE Name(u)
    <3>1. has = {}  BY <2>4 DEF Name
    <3>2. Promised!Write(u)  BY <2>4, <3>1 DEF Name, Promised!Write, Promised!Unread
    <3> QED BY <3>2 DEF Promised!SlNext
  <2>5. CASE WUnlock(u)
    <3>1. Promised!EndWrite(u) \/ UNCHANGED <<shared, has>>
      BY <2>5 DEF WUnlock, Promised!EndWrite
    <3> QED BY <3>1 DEF Promised!SlNext
  <2>6. CASE Own(u)
    <3>1. Promised!EndWrite(u) \/ UNCHANGED <<shared, has>>
      BY <2>6 DEF Own, Promised!EndWrite
    <3> QED BY <3>1 DEF Promised!SlNext
  <2>7. CASE \/ \E try \in BOOLEAN : WLock(u, try)
             \/ Compare(u) \/ WBusy(u) \/ Mark(u) \/ Unmark(u) \/ WFree(u) \/ Refused(u)
    BY <2>7 DEF WLock, Compare, WBusy, Mark, Unmark, WFree, Refused
  <2> QED BY <2>1, <2>2, <2>3, <2>4, <2>5, <2>6, <2>7 DEF RwContinue
<1> QED BY <1>1, <1>2

(* Readers share the lock and a writer has it alone, on both builds. *)
THEOREM LockRefinement == RwSpec => ImplementsSharedLock
<1> QED BY InitPromised, StepPromised, LocksAlways, PTL
    DEF RwSpec, ImplementsSharedLock, Promised!SharedLockSpec
-----------------------------------------------------------------------------
(* Semaphore.  On Windows a post is promised to value before the kernel     *)
(* has it, and a token is gone from the kernel before value knows: that     *)
(* ReleaseSemaphore adds what was posted, and so the abstract counter gets  *)
(* its tokens, rests on the two counts differing by just these calls.       *)

SemStages == IF setup.windows THEN {"idle", "asleep", "counting", "releasing"} ELSE {"idle", "asleep", "woken"}

SemTypes ==
  /\ setup \in Setups /\ alive \in BOOLEAN
  /\ value \in Int /\ value <= MaxValue /\ handle \in Nat
  /\ doing \in [Callers -> SemStages]
  /\ adding \in [Callers -> 0 .. MaxValue]
  /\ posted \in Nat /\ drawn \in Nat

(* Who is in a call is in one of a semaphore that exists, and only a post  *)
(* has tokens to add.                                                      *)
CallsLast ==
  /\ ~alive => \A t \in Callers : doing[t] = "idle"
  /\ \A t \in Callers : IF doing[t] = "releasing" THEN adding[t] \in Counts ELSE adding[t] = 0

(* The inductive invariant. *)
SemInv == SemTypes /\ CallsLast /\ CountsAgree

USE SemCallersAssumption, SemMaxAssumption, SemStartsAssumption, SemCountsAssumption, SemSetupsAssumption

(* The sets that are counted are finite. *)
LEMMA CallsAreFinite ==
  /\ IsFiniteSet(Doing("counting")) /\ Cardinality(Doing("counting")) \in Nat
  /\ IsFiniteSet(Announced) /\ Cardinality(Announced) \in Nat
<1>1. Doing("counting") \in SUBSET Callers
  BY DEF Doing
<1>2. IsFiniteSet(Doing("counting"))
  BY <1>1, FS_Subset
<1>3. IsFiniteSet(1 .. MaxValue)
  BY FS_Interval
<1>4. IsFiniteSet(Callers \X (1 .. MaxValue))
  BY <1>3, FS_Product
<1>5. Announced \in SUBSET (Callers \X (1 .. MaxValue))
  BY DEF Announced
<1>6. IsFiniteSet(Announced)
  BY <1>4, <1>5, FS_Subset
<1> QED BY <1>2, <1>6, FS_CardinalityType

(* As many tokens of a post as it adds. *)
Share(t, n) == {t} \X (1 .. n)

(* A share has one element for each token. *)
LEMMA ShareCounts ==
  ASSUME NEW t, NEW n \in Nat
  PROVE  IsFiniteSet(Share(t, n)) /\ Cardinality(Share(t, n)) = n
<1>1. IsFiniteSet(1 .. n) /\ Cardinality(1 .. n) = n
  BY FS_Interval
<1>2. IsFiniteSet({t}) /\ Cardinality({t}) = 1
  BY FS_Singleton
<1> QED BY <1>1, <1>2, FS_Product DEF Share

(* A post announces its tokens ... *)
LEMMA AnnouncedGrows ==
  ASSUME SemInv, NEW t \in Callers, adding[t] = 0, NEW n \in 1 .. MaxValue, adding' = [adding EXCEPT ![t] = n]
  PROVE  Cardinality(Announced)' = Cardinality(Announced) + n
<1>1. Announced' = Announced \cup Share(t, n) /\ Announced \cap Share(t, n) = {}
  BY DEF Announced, Share, SemInv, SemTypes
<1>2. Cardinality(Announced \cup Share(t, n)) = Cardinality(Announced) + Cardinality(Share(t, n)) - Cardinality({})
  BY <1>1, CallsAreFinite, ShareCounts, FS_Union
<1> QED BY <1>1, <1>2, CallsAreFinite, ShareCounts, FS_EmptySet

(* ... and the release takes them off the list. *)
LEMMA AnnouncedShrinks ==
  ASSUME SemInv, NEW t \in Callers, adding' = [adding EXCEPT ![t] = 0]
  PROVE  Cardinality(Announced)' = Cardinality(Announced) - adding[t] /\ adding[t] <= Cardinality(Announced)
<1>1. adding[t] \in 0 .. MaxValue
  BY DEF SemInv, SemTypes
<1>2. Announced = Announced' \cup Share(t, adding[t]) /\ Announced' \cap Share(t, adding[t]) = {}
  BY <1>1 DEF Announced, Share, SemInv, SemTypes
<1>3. IsFiniteSet(Announced') /\ Cardinality(Announced') \in Nat
  <2>1. Announced' \in SUBSET Announced
    BY <1>2
  <2> QED BY <2>1, CallsAreFinite, FS_Subset, FS_CardinalityType
<1>4. Cardinality(Announced' \cup Share(t, adding[t])) = Cardinality(Announced') + Cardinality(Share(t, adding[t])) - Cardinality({})
  BY <1>1, <1>2, <1>3, ShareCounts, FS_Union
<1> QED BY <1>1, <1>2, <1>3, <1>4, ShareCounts, FS_EmptySet

(* One more wait on Windows is between the kernel's count and value, or one fewer. *)
LEMMA CountingMoves ==
  ASSUME SemInv, NEW t \in Callers, NEW s, Goes(t, s)
  PROVE  /\ doing[t] # "counting" /\ s = "counting" =>
              Cardinality(Doing("counting"))' = Cardinality(Doing("counting")) + 1
         /\ doing[t] = "counting" /\ s # "counting" =>
              Cardinality(Doing("counting"))' = Cardinality(Doing("counting")) - 1
         /\ doing[t] # "counting" /\ s # "counting" =>
              Cardinality(Doing("counting"))' = Cardinality(Doing("counting"))
<1>1. doing \in [Callers -> SemStages]
  BY DEF SemInv, SemTypes
<1>2. ASSUME doing[t] # "counting", s = "counting"
      PROVE  Cardinality(Doing("counting"))' = Cardinality(Doing("counting")) + 1
  <2>1. Doing("counting")' = Doing("counting") \cup {t} /\ t \notin Doing("counting")
    BY <1>1, <1>2 DEF Doing, Goes
  <2> QED BY <2>1, CallsAreFinite, FS_AddElement
<1>3. ASSUME doing[t] = "counting", s # "counting"
      PROVE  Cardinality(Doing("counting"))' = Cardinality(Doing("counting")) - 1
  <2>1. Doing("counting")' = Doing("counting") \ {t} /\ t \in Doing("counting")
    BY <1>1, <1>3 DEF Doing, Goes
  <2> QED BY <2>1, CallsAreFinite, FS_RemoveElement
<1>4. ASSUME doing[t] # "counting", s # "counting"
      PROVE  Cardinality(Doing("counting"))' = Cardinality(Doing("counting"))
  <2>1. Doing("counting")' = Doing("counting")
    BY <1>1, <1>4 DEF Doing, Goes
  <2> QED BY <2>1
<1> QED BY <1>2, <1>3, <1>4

(* What each step does: it keeps the invariant, and is a step of the counter. *)
Kept == SemInv' /\ [Counter!Create \/ Counter!Take \/ \E n \in Counts : Counter!Put(n)]_<<
          IF alive THEN Tokens ELSE 0, IF alive THEN posted ELSE 0, IF alive THEN drawn ELSE 0>>

(* Before the first create there is nothing to count. *)
LEMMA SemStarts == SemInit => SemInv /\ Counter!TcInit
<1> SUFFICES ASSUME SemInit PROVE SemInv /\ Counter!TcInit
  OBVIOUS
<1>1. Doing("counting") = {} /\ Announced = {}
  BY DEF SemInit, Doing, Announced
<1>2. Cardinality({}) = 0
  BY FS_EmptySet
<1>3. CountsAgree
  BY <1>1, <1>2 DEF SemInit, CountsAgree
<1>4. /\ value = 0 /\ handle = 0 /\ posted = 0 /\ drawn = 0 /\ alive = FALSE /\ setup \in Setups
      /\ doing = [t \in Callers |-> "idle"] /\ adding = [t \in Callers |-> 0]
  BY DEF SemInit
<1>5. doing \in [Callers -> SemStages] /\ adding \in [Callers -> 0 .. MaxValue]
  BY <1>4 DEF SemStages
<1>6. SemTypes
  <2>1. value \in Int /\ value <= MaxValue /\ handle \in Nat /\ posted \in Nat /\ drawn \in Nat
    BY <1>4
  <2>2. alive \in BOOLEAN
    BY <1>4, Zenon
  <2> QED BY <1>4, <1>5, <2>1, <2>2 DEF SemTypes
<1>7. CallsLast
  BY <1>4 DEF CallsLast
<1> QED BY <1>3, <1>4, <1>6, <1>7 DEF SemInv, Counter!TcInit, Counter!Fresh, Tokens

(* A create and a destroy start the counter afresh. *)
LEMMA CreateKeeps ==
  ASSUME SemInv, SemDestroy \/ \E n \in Starts : SemCreate(n)
  PROVE  Kept
<1>1. CASE SemDestroy
  <2>1. SemTypes'
    BY <1>1 DEF SemInv, SemTypes, SemStages, SemDestroy, callVars
  <2>2. CallsLast'
    BY <1>1 DEF SemInv, CallsLast, SemDestroy, callVars, Doing
  <2>3. CountsAgree'
    BY <1>1 DEF SemInv, CountsAgree, SemDestroy, callVars, Doing, Announced
  <2>4. Counter!Create
    <3>1. 0 \in 0 .. MaxValue
      OBVIOUS
    <3> QED BY <1>1, <3>1 DEF SemDestroy, Counter!Create, Counter!Fresh
  <2> QED BY <2>1, <2>2, <2>3, <2>4 DEF Kept, SemInv
<1>2. ASSUME NEW n \in Starts, SemCreate(n)
      PROVE  Kept
  <2>1. n \in 0 .. MaxValue
    OBVIOUS
  <2>2. SemTypes'
    BY <1>2, <2>1 DEF SemInv, SemTypes, SemStages, SemCreate, callVars
  <2>3. CallsLast'
    BY <1>2 DEF SemInv, CallsLast, SemCreate, callVars, Doing
  <2>4. CountsAgree'
    <3>1. Doing("counting")' = {}
      BY <1>2 DEF SemCreate, Doing, callVars
    <3>2. \A t \in Callers : adding'[t] = 0
      BY <1>2 DEF SemInv, CallsLast, SemCreate, callVars, Doing
    <3>3. Announced' = {}
      BY <3>2 DEF Announced
    <3> QED BY <1>2, <2>1, <3>1, <3>3, FS_EmptySet DEF CountsAgree, SemCreate
  <2>5. Counter!Create
    BY <1>2, <2>1 DEF SemCreate, Counter!Create, Counter!Fresh, Tokens
  <2> QED BY <2>2, <2>3, <2>4, <2>5 DEF Kept, SemInv
<1> QED BY <1>1, <1>2

(* A token is drawn once, from a count that had it. *)
LEMMA DrawKeeps ==
  ASSUME SemInv, NEW t \in Callers, alive, doing[t] \in {"idle", "asleep", "woken"}, Tokens > 0, Draw(t)
  PROVE  Kept
<1>1. setup.windows \in BOOLEAN /\ Tokens \in Int
  BY DEF SemInv, SemTypes, Tokens
<1>2. SemTypes'
  BY DEF SemInv, SemTypes, SemStages, Draw, Goes, Tokens
<1>3. CallsLast'
  BY DEF SemInv, SemTypes, CallsLast, Draw, Goes
<1>4. CountsAgree'
  <2> SUFFICES ASSUME setup.windows PROVE CountsAgree'
    BY DEF CountsAgree, Draw
  <2>1. Goes(t, "counting") /\ handle' = handle - 1 /\ UNCHANGED <<setup, value, adding>>
    BY DEF Draw
  <2>2. Cardinality(Doing("counting"))' = Cardinality(Doing("counting")) + 1
    BY <2>1, CountingMoves
  <2>3. Announced' = Announced
    BY <2>1 DEF Announced
  <2> QED BY <2>1, <2>2, <2>3, CallsAreFinite DEF CountsAgree, SemInv, SemTypes
<1>5. Counter!Take
  BY <1>1 DEF Counter!Take, Draw, Tokens
<1> QED BY <1>2, <1>3, <1>4, <1>5 DEF Kept, SemInv

(* A wait sleeps, wakes, draws or gives up. *)
LEMMA WaitsKeep ==
  ASSUME SemInv, NEW t \in Callers,
         SemTryWait(t) \/ KernelWake(t) \/ Retest(t) \/ SpuriousSignal(t) \/ SemExpire(t)
           \/ \E d \in {FALSE, setup.deadlines} : SemWait(t, d)
  PROVE  Kept
<1>1. doing[t] # "idle" => alive
  BY DEF SemInv, CallsLast
<1>2. value \in Int /\ handle \in Nat
  BY DEF SemInv, SemTypes
<1>3. ASSUME Draw(t), SemTryWait(t) \/ KernelWake(t) \/ Retest(t) \/ \E d \in {FALSE, setup.deadlines} : SemWait(t, d)
      PROVE  Kept
  <2>1. alive /\ doing[t] \in {"idle", "asleep", "woken"}
    BY <1>1, <1>3 DEF SemTryWait, KernelWake, Retest, SemWait
  <2>2. Tokens > 0
    BY <1>2, <1>3 DEF SemTryWait, KernelWake, Retest, SemWait, MaySleep, Tokens, Goes, Draw
  <2> QED BY <1>3, <2>1, <2>2, DrawKeeps
<1>4. ASSUME UNCHANGED <<setup, alive, value, handle, adding, posted, drawn>>, NEW s \in SemStages \ {"counting", "releasing"},
             Goes(t, s), doing[t] \in {"idle", "asleep", "woken"}, alive
      PROVE  Kept
  <2>1. SemTypes'
    BY <1>4 DEF SemInv, SemTypes, SemStages, Goes
  <2>2. CallsLast'
    BY <1>4 DEF SemInv, SemTypes, CallsLast, Goes
  <2>3. Cardinality(Doing("counting"))' = Cardinality(Doing("counting"))
    BY <1>4, CountingMoves
  <2>4. Announced' = Announced
    BY <1>4 DEF Announced
  <2>5. CountsAgree'
    BY <1>4, <2>3, <2>4 DEF CountsAgree, SemInv
  <2> QED BY <1>4, <2>1, <2>2, <2>5 DEF Kept, SemInv, Tokens
<1>5. CASE Retest(t) /\ ~Draw(t)
  <2>1. "asleep" \in SemStages \ {"counting", "releasing"}
    BY DEF SemStages
  <2> QED BY <1>1, <1>4, <1>5, <2>1 DEF Retest
<1>6. CASE \E d \in {FALSE, setup.deadlines} : SemWait(t, d) /\ ~Draw(t)
  <2>1. "asleep" \in SemStages \ {"counting", "releasing"}
    BY DEF SemStages
  <2> QED BY <1>4, <1>6, <2>1 DEF SemWait
<1>7. CASE SpuriousSignal(t)
  <2>1. "woken" \in SemStages \ {"counting", "releasing"}
    BY <1>7 DEF SemStages, SpuriousSignal
  <2> QED BY <1>1, <1>4, <1>7, <2>1 DEF SpuriousSignal
<1>8. CASE SemExpire(t)
  <2>1. "idle" \in SemStages \ {"counting", "releasing"}
    BY DEF SemStages
  <2> QED BY <1>1, <1>4, <1>8, <2>1 DEF SemExpire
<1> QED BY <1>3, <1>5, <1>6, <1>7, <1>8 DEF SemTryWait, KernelWake

(* The second count follows the first; nobody sees it. *)
LEMMA UncountKeeps ==
  ASSUME SemInv, NEW t \in Callers, Uncount(t)
  PROVE  Kept
<1>1. setup.windows /\ setup \in Setups
  BY DEF SemInv, SemTypes, SemStages, Uncount
<1>2. SemTypes' /\ CallsLast'
  BY DEF SemInv, SemTypes, SemStages, CallsLast, Uncount, Goes
<1>3. Cardinality(Doing("counting"))' = Cardinality(Doing("counting")) - 1
  <2>1. Goes(t, "idle") /\ doing[t] = "counting"
    BY DEF Uncount
  <2> QED BY <2>1, CountingMoves
<1>4. Announced' = Announced
  BY DEF Announced, Uncount
<1>5. CountsAgree'
  BY <1>3, <1>4, CallsAreFinite DEF CountsAgree, SemInv, SemTypes, Uncount
<1> QED BY <1>1, <1>2, <1>5 DEF Kept, SemInv, Uncount, Tokens

(* A post within the maximum, which on Windows is only announced. *)
LEMMA PostKeeps ==
  ASSUME SemInv, NEW t \in Callers, NEW n \in Counts, SemPost(t, n)
  PROVE  Kept
<1>0. n \in Nat \ {0} /\ value \in Int /\ setup.windows \in BOOLEAN
  BY DEF SemInv, SemTypes
<1>1. CASE setup.windows
  <2>1. /\ Goes(t, "releasing") /\ adding' = [adding EXCEPT ![t] = n] /\ doing[t] = "idle" /\ alive
        /\ value' = value + n /\ value + n <= MaxValue /\ UNCHANGED <<setup, alive, handle, posted, drawn>>
    BY <1>1 DEF SemPost
  <2>2. adding[t] = 0
    BY <2>1 DEF SemInv, CallsLast
  <2>3. Cardinality(Doing("counting"))' = Cardinality(Doing("counting"))
    BY <2>1, CountingMoves
  <2>4. value = handle + Cardinality(Doing("counting")) + Cardinality(Announced) /\ handle \in Nat
    BY <1>1 DEF SemInv, SemTypes, CountsAgree
  <2>5. n \in 1 .. MaxValue
    BY <1>0, <2>1, <2>4, CallsAreFinite
  <2>6. Cardinality(Announced)' = Cardinality(Announced) + n
    BY <2>1, <2>2, <2>5, AnnouncedGrows
  <2>7. SemTypes'
    BY <1>0, <1>1, <2>1, <2>5 DEF SemInv, SemTypes, SemStages, Goes
  <2>8. CallsLast'
    BY <2>1 DEF SemInv, SemTypes, CallsLast, Goes
  <2>9. CountsAgree'
    BY <1>0, <2>1, <2>3, <2>4, <2>6, CallsAreFinite DEF CountsAgree
  <2> QED BY <1>1, <2>1, <2>7, <2>8, <2>9 DEF Kept, SemInv, Tokens
<1>2. CASE ~setup.windows
  <2>1. /\ \A u \in Callers : doing'[u] = doing[u] \/ (doing[u] = "asleep" /\ doing'[u] = "woken")
        /\ doing' \in [Callers -> SemStages] /\ alive
        /\ value' = value + n /\ value + n <= MaxValue /\ posted' = posted + n
        /\ UNCHANGED <<setup, alive, handle, adding, drawn>>
    BY <1>2 DEF SemPost, Wakeable, Doing, SemStages, SemInv, SemTypes
  <2>2. SemTypes'
    BY <1>0, <1>2, <2>1 DEF SemInv, SemTypes, SemStages
  <2>3. CallsLast'
    BY <2>1 DEF SemInv, SemTypes, CallsLast
  <2>4. CountsAgree'
    BY <1>2, <2>1 DEF CountsAgree
  <2>5. Counter!Put(n)
    BY <1>0, <1>2, <2>1 DEF Counter!Put, Tokens
  <2> QED BY <2>2, <2>3, <2>4, <2>5 DEF Kept, SemInv
<1> QED BY <1>0, <1>1, <1>2

(* The kernel has room for every post that was announced. *)
LEMMA ReleaseKeeps ==
  ASSUME SemInv, NEW t \in Callers, Release(t)
  PROVE  Kept
<1>1. setup.windows /\ alive /\ adding[t] \in Counts /\ adding[t] \in 0 .. MaxValue /\ value \in Int /\ value <= MaxValue
      /\ handle \in Nat
  BY DEF SemInv, SemTypes, SemStages, CallsLast, Release
<1>2. Cardinality(Announced)' = Cardinality(Announced) - adding[t] /\ adding[t] <= Cardinality(Announced)
  BY AnnouncedShrinks DEF Release
<1>3. value = handle + Cardinality(Doing("counting")) + Cardinality(Announced)
  BY <1>1 DEF SemInv, CountsAgree
<1>4. handle + adding[t] <= MaxValue
  BY <1>1, <1>2, <1>3, CallsAreFinite
<1>5. /\ handle' = handle + adding[t] /\ posted' = posted + adding[t] /\ UNCHANGED <<setup, alive, value, drawn>>
      /\ adding' = [adding EXCEPT ![t] = 0] /\ Goes(t, "idle") /\ doing[t] = "releasing"
  BY <1>4 DEF Release
<1>6. Cardinality(Doing("counting"))' = Cardinality(Doing("counting"))
  BY <1>5, CountingMoves
<1>7. SemTypes'
  BY <1>1, <1>5 DEF SemInv, SemTypes, SemStages, Goes
<1>8. CallsLast'
  BY <1>5 DEF SemInv, SemTypes, CallsLast, Goes
<1>9. CountsAgree'
  BY <1>1, <1>2, <1>3, <1>5, <1>6, CallsAreFinite DEF CountsAgree
<1>10. Counter!Put(adding[t])
  BY <1>1, <1>4, <1>5 DEF Counter!Put, Tokens
<1> QED BY <1>1, <1>7, <1>8, <1>9, <1>10 DEF Kept, SemInv

(* Every step keeps the invariant, and is one of the counter or unseen. *)
LEMMA SemKeeps == SemInv /\ [SemNext]_semVars => Kept
<1> SUFFICES ASSUME SemInv, [SemNext]_semVars PROVE Kept
  OBVIOUS
<1>1. CASE UNCHANGED semVars
  BY <1>1 DEF Kept, semVars, callVars, SemInv, SemTypes, SemStages, CallsLast, CountsAgree, Doing, Announced, Tokens
<1>2. CASE SemNext
  BY <1>2, CreateKeeps, WaitsKeep, UncountKeeps, PostKeeps, ReleaseKeeps DEF SemNext, SemContinue
<1> QED BY <1>1, <1>2

(* The calls between the two counts account for their difference. *)
THEOREM SemCountsAgree == SemSpec => []CountsAgree
<1>1. SemInv /\ [SemNext]_semVars => SemInv'
  BY SemKeeps DEF Kept
<1>2. SemInv => CountsAgree
  BY DEF SemInv
<1> QED BY <1>1, <1>2, SemStarts, PTL DEF SemSpec

(* A semaphore is a counter: no interleaving of posts and waits loses a     *)
(* token or hands one out twice, on either build, timeouts included.        *)
THEOREM SemaphoreIsACounter == SemSpec => SemImplementsCounter
<1>1. SemInv /\ [SemNext]_semVars =>
        SemInv' /\ [Counter!Create \/ Counter!Take \/ \E n \in Counts : Counter!Put(n)]_(Counter!tcVars)
  BY SemKeeps DEF Kept, Counter!tcVars
<1> QED BY <1>1, SemStarts, PTL DEF SemSpec, SemImplementsCounter, Counter!CounterSpec
=============================================================================
