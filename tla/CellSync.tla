------------------------------ MODULE CellSync ------------------------------
(***************************************************************************)
(* The cellSync library (ps3recomp/libs/sync/cellSync.c): a spinlock, a     *)
(* bounded queue under one (the lock-free queue has the same body), a       *)
(* buffer that readers share with a writer, and a barrier, all on C11       *)
(* atomics in guest memory and without any host lock.  A behaviour is about *)
(* one object.  Every atomic access another thread can tell from the next   *)
(* is an action; a copy of a buffer takes two.                              *)
(***************************************************************************)
EXTENDS Integers, Sequences, FiniteSets

CONSTANTS
  Users,       \* threads
  Objects,     \* kinds of object, their users, alignment of guest memory, ways to wait
  Items,       \* what is queued or written
  Depth,       \* depth of the queue
  MaxCopies,   \* bound: copies into the buffer of the writers
  MaxRounds    \* bound: rounds of the barrier

Kinds == {"mutex", "queue", "rwm", "barrier"}

ASSUME SyncAssumption ==
  /\ IsFiniteSet(Users) /\ Users # {} /\ Items # {}
  /\ Depth \in Nat \ {0} /\ {MaxCopies, MaxRounds} \subseteq Nat
  /\ Objects \subseteq [kind : Kinds, users : SUBSET Users,
                        aligned : BOOLEAN, waits : SUBSET {"wait", "try"}]

VARIABLES
  object, made,                   \* the object of this behaviour; is it initialised
  lock, head, tail, count, ring,  \* CellSyncQueue; lock is CellSyncMutex too
  readers, writer, buffer,        \* CellSyncRwm; the buffer in two halves
  arrived, phase,                 \* CellSyncBarrier
  op, stage,                       \* the call of a thread, and where it is
  mine, seen,                     \* its data, and the index or phase it read
  copies, notified, passed        \* history: writes; rounds entered and left

queueVars == <<lock, head, tail, count, ring>>
rwmVars   == <<readers, writer, buffer, copies>>
barVars   == <<arrived, phase, notified, passed>>
syncVars  == <<object, made, queueVars, rwmVars, barVars, op, stage, mine, seen>>

NoItem == CHOOSE i \in Items : TRUE

SyncInit ==
  /\ object \in Objects /\ made = FALSE
  /\ lock = 0 /\ head = 0 /\ tail = 0 /\ count = 0
  /\ ring = [i \in 0 .. Depth - 1 |-> NoItem]
  /\ readers = 0 /\ writer = 0 /\ buffer = <<NoItem, NoItem>>
  /\ arrived = 0 /\ phase = 0
  /\ op = [t \in Users |-> "none"] /\ stage = [t \in Users |-> "idle"]
  /\ mine = [t \in Users |-> <<NoItem, NoItem>>] /\ seen = [t \in Users |-> 0]
  /\ copies = 0
  /\ notified = [t \in Users |-> 0] /\ passed = [t \in Users |-> 0]

\* The Initialize functions; the counters were put to 0 above.
Initialize ==
  /\ ~made /\ made' = TRUE
  /\ UNCHANGED <<object, queueVars, rwmVars, barVars, op, stage, mine, seen>>

Blank == <<NoItem, NoItem>>

\* A thread goes on with m and n as its locals; a call that returns drops them.
Then(t, o, s, m, n) ==
  LET dead == s = "idle" IN
  /\ stage' = [stage EXCEPT ![t] = s] /\ op' = [op EXCEPT ![t] = IF dead THEN "none" ELSE o]
  /\ mine' = [mine EXCEPT ![t] = IF dead THEN Blank ELSE m]
  /\ seen' = [seen EXCEPT ![t] = IF dead THEN 0 ELSE n]
  /\ UNCHANGED <<object, made>>

Goes(t, s) == Then(t, op[t], s, mine[t], seen[t])

Call(t, o, s, m, n) == made /\ stage[t] = "idle" /\ Then(t, o, s, m, n)

-----------------------------------------------------------------------------
(* The mutex, and the two queues under their lock                          *)

Puts  == {"push", "trypush"}
Gets  == {"pop", "trypop"}
Tries == {"trypush", "trypop", "trymutex"}
Waits == {"push", "pop"}
Calls == IF object.kind = "mutex" THEN {"mutex", "trymutex"}
         ELSE Puts \cup Gets \cup {"peek", "clear"}

\* The test of count before the lock is taken, and again under it.
Ready(o) == CASE o \in Puts             -> count < Depth
              [] o \in Gets \cup {"peek"} -> count # 0
              [] OTHER                  -> TRUE

\* A call that does not wait returns OVERFLOW or EMPTY at once.
QueueCall(t, o, i) ==
  /\ object.kind \in {"mutex", "queue"} /\ o \in Calls
  /\ o \in Waits \/ Ready(o)
  /\ Call(t, o, IF o \in Waits THEN "spin" ELSE "lock", IF o \in Puts THEN <<i, i>> ELSE Blank, 0)
  /\ UNCHANGED <<queueVars, rwmVars, barVars>>

\* Spins until there is room, or an entry.
QueueSpin(t) ==
  /\ stage[t] = "spin" /\ Ready(op[t])
  /\ Goes(t, "lock")
  /\ UNCHANGED <<queueVars, rwmVars, barVars>>

\* Mutant of Acquire: the lock is taken by a store.
MutAcquire(t) ==
  /\ stage[t] = "lock"
  /\ lock' = 1 /\ Goes(t, "inside")
  /\ UNCHANGED <<head, tail, count, ring, rwmVars, barVars>>

\* queue_spinlock_acquire, cellSyncMutexLock, and the try forms that succeed.
Acquire(t) ==
  /\ stage[t] = "lock" /\ lock = 0
  /\ lock' = 1 /\ Goes(t, "inside")
  /\ UNCHANGED <<head, tail, count, ring, rwmVars, barVars>>

\* CELL_SYNC_ERROR_BUSY.
Busy(t) ==
  /\ stage[t] = "lock" /\ lock = 1 /\ op[t] \in Tries
  /\ Goes(t, "idle")
  /\ UNCHANGED <<queueVars, rwmVars, barVars>>

\* The entry was taken between the test and the lock.  A waiting call starts
\* again with pointers that are translated a second time: it comes back to
\* this queue only where guest memory begins at a multiple of 4 GiB.
Recheck(t) ==
  /\ stage[t] = "inside" /\ ~Ready(op[t])
  /\ lock' = 0
  /\ Goes(t, CASE op[t] \notin Waits -> "idle"
             [] object.aligned     -> "spin"
             [] OTHER              -> "astray")
  /\ UNCHANGED <<head, tail, count, ring, rwmVars, barVars>>

\* Reads an index and copies the item (what a reader does with it is its own).
Copy(t) ==
  /\ stage[t] = "inside" /\ Ready(op[t]) /\ op[t] \in Puts \cup Gets
  /\ IF op[t] \in Puts
     THEN Then(t, op[t], "commit", mine[t], tail) /\ ring' = [ring EXCEPT ![tail] = mine[t][1]]
     ELSE Then(t, op[t], "commit", Blank, head) /\ UNCHANGED ring
  /\ UNCHANGED <<lock, head, tail, count, rwmVars, barVars>>

\* Peek looks at the first item, clear forgets all, and the holder of a mutex
\* does what it took it for.
Visit(t) ==
  /\ stage[t] = "inside" /\ Ready(op[t]) /\ op[t] \notin Puts \cup Gets
  /\ IF op[t] = "clear" THEN head' = 0 /\ tail' = 0 /\ count' = 0
     ELSE UNCHANGED <<head, tail, count>>
  /\ Goes(t, "unlock")
  /\ UNCHANGED <<lock, ring, rwmVars, barVars>>

\* Advances the index it read, and the count.
Commit(t) ==
  /\ stage[t] = "commit"
  /\ IF op[t] \in Puts
     THEN tail' = (seen[t] + 1) % Depth /\ count' = count + 1 /\ UNCHANGED head
     ELSE head' = (seen[t] + 1) % Depth /\ count' = count - 1 /\ UNCHANGED tail
  /\ Then(t, op[t], "unlock", Blank, 0)
  /\ UNCHANGED <<lock, ring, rwmVars, barVars>>

Open(t) ==
  /\ stage[t] = "unlock"
  /\ lock' = 0 /\ Goes(t, "idle")
  /\ UNCHANGED <<head, tail, count, ring, rwmVars, barVars>>

\* What a thread does once it is in a call of these.
LockStep(t) ==
  \/ QueueSpin(t) \/ Acquire(t) \/ Busy(t) \/ Recheck(t)
  \/ Copy(t) \/ Visit(t) \/ Commit(t) \/ Open(t)

-----------------------------------------------------------------------------
(* The buffer that is read and written                                     *)

\* cellSyncRwmRead and TryRead, which is refused while there is a writer.
ReadCall(t, o) ==
  /\ object.kind = "rwm" /\ o \in {"read", "tryread"}
  /\ o = "tryread" => writer = 0
  /\ Call(t, o, IF o = "read" THEN "seek" ELSE "enter", Blank, 0)
  /\ UNCHANGED <<queueVars, rwmVars, barVars>>

NoWriter(t) ==
  /\ stage[t] = "seek" /\ writer = 0
  /\ Goes(t, "enter")
  /\ UNCHANGED <<queueVars, rwmVars, barVars>>

Enter(t) ==
  /\ stage[t] = "enter"
  /\ readers' = readers + 1 /\ Goes(t, "check")
  /\ UNCHANGED <<queueVars, writer, buffer, copies, barVars>>

\* Mutant of Check: without the second look.
MutCheck(t) ==
  /\ stage[t] = "check"
  /\ Goes(t, "copy")
  /\ UNCHANGED <<queueVars, rwmVars, barVars>>

\* Mutant of Check: waits for the writer where it is counted.
MutStay(t) ==
  /\ stage[t] = "check" /\ writer = 0
  /\ Goes(t, "copy")
  /\ UNCHANGED <<queueVars, rwmVars, barVars>>

\* A writer may have come between the look and the count.
Check(t) ==
  /\ stage[t] = "check"
  /\ Goes(t, IF writer = 0 THEN "copy" ELSE "retreat")
  /\ UNCHANGED <<queueVars, rwmVars, barVars>>

Retreat(t) ==
  /\ stage[t] = "retreat"
  /\ readers' = readers - 1 /\ Goes(t, IF op[t] = "read" THEN "seek" ELSE "idle")
  /\ UNCHANGED <<queueVars, writer, buffer, copies, barVars>>

ReadHalf(t, h, s, next) ==
  /\ stage[t] = s
  /\ Then(t, op[t], next, [mine[t] EXCEPT ![h] = buffer[h]], 0)
  /\ UNCHANGED <<queueVars, rwmVars, barVars>>

Leave(t) ==
  /\ stage[t] = "leave"
  /\ readers' = readers - 1 /\ Goes(t, "idle")
  /\ UNCHANGED <<queueVars, writer, buffer, copies, barVars>>

\* cellSyncRwmWrite and TryWrite.
WriteCall(t, o, i) ==
  /\ object.kind = "rwm" /\ o \in {"write", "trywrite"}
  /\ copies < MaxCopies /\ copies' = copies + 1
  /\ Call(t, o, "claim", <<i, i>>, 0)
  /\ UNCHANGED <<queueVars, readers, writer, buffer, barVars>>

Claim(t) ==
  /\ stage[t] = "claim"
  /\ IF writer = 0 THEN writer' = 1 /\ Goes(t, "drain")
     ELSE op[t] = "trywrite" /\ Goes(t, "idle") /\ UNCHANGED writer
  /\ UNCHANGED <<queueVars, readers, buffer, copies, barVars>>

\* Waits for the readers, or gives up on them.
Drain(t) ==
  /\ stage[t] = "drain"
  /\ \/ readers = 0 /\ Goes(t, "put") /\ UNCHANGED writer
     \/ readers > 0 /\ op[t] = "trywrite" /\ writer' = 0 /\ Goes(t, "idle")
  /\ UNCHANGED <<queueVars, readers, buffer, copies, barVars>>

WriteHalf(t, h, s, next) ==
  /\ stage[t] = s
  /\ buffer' = [buffer EXCEPT ![h] = mine[t][h]] /\ Goes(t, next)
  /\ UNCHANGED <<queueVars, readers, writer, copies, barVars>>

Free(t) ==
  /\ stage[t] = "free"
  /\ writer' = 0 /\ Goes(t, "idle")
  /\ UNCHANGED <<queueVars, readers, buffer, copies, barVars>>

RwmStep(t) ==
  \/ NoWriter(t) \/ Enter(t) \/ Check(t) \/ Retreat(t) \/ Leave(t)
  \/ ReadHalf(t, 1, "copy", "copy2") \/ ReadHalf(t, 2, "copy2", "leave")
  \/ Claim(t) \/ Drain(t) \/ Free(t)
  \/ WriteHalf(t, 1, "put", "put2") \/ WriteHalf(t, 2, "put2", "free")

-----------------------------------------------------------------------------
(* The barrier.  Its users notify it and then wait, once a round.          *)

Total == Cardinality(object.users)

InRound(t) == notified[t] > passed[t]

Notify(t) ==
  /\ object.kind = "barrier"
  /\ ~InRound(t) /\ notified[t] < MaxRounds
  /\ Call(t, "notify", IF arrived + 1 >= Total THEN "reset" ELSE "idle", Blank, 0)
  /\ arrived' = arrived + 1
  /\ notified' = [notified EXCEPT ![t] = @ + 1]
  /\ UNCHANGED <<queueVars, rwmVars, phase, passed>>

\* The last one clears the count, then advances the phase.
Reset(t) ==
  /\ stage[t] = "reset"
  /\ arrived' = 0 /\ Goes(t, "advance")
  /\ UNCHANGED <<queueVars, rwmVars, phase, notified, passed>>

Advance(t) ==
  /\ stage[t] = "advance"
  /\ phase' = phase + 1 /\ Goes(t, "idle")
  /\ UNCHANGED <<queueVars, rwmVars, arrived, notified, passed>>

\* cellSyncBarrierWait waits for the phase to leave what it finds.
BarrierWait(t) ==
  /\ object.kind = "barrier" /\ InRound(t) /\ "wait" \in object.waits
  /\ Call(t, "wait", "asleep", Blank, phase)
  /\ UNCHANGED <<queueVars, rwmVars, barVars>>

Pass(t) ==
  /\ stage[t] = "asleep" /\ phase # seen[t]
  /\ passed' = [passed EXCEPT ![t] = @ + 1] /\ Goes(t, "idle")
  /\ UNCHANGED <<queueVars, rwmVars, arrived, phase, notified>>

\* Mutant of TryWait: the look at the count is lost.
MutTryWait(t) ==
  /\ object.kind = "barrier" /\ InRound(t) /\ "try" \in object.waits
  /\ Call(t, "trywait", "idle", Blank, 0)
  /\ passed' = [passed EXCEPT ![t] = @ + 1]
  /\ UNCHANGED <<queueVars, rwmVars, arrived, phase, notified>>

\* cellSyncBarrierTryWait that is not BUSY.
TryWait(t) ==
  /\ object.kind = "barrier" /\ InRound(t) /\ "try" \in object.waits /\ arrived = 0
  /\ Call(t, "trywait", "idle", Blank, 0)
  /\ passed' = [passed EXCEPT ![t] = @ + 1]
  /\ UNCHANGED <<queueVars, rwmVars, arrived, phase, notified>>

BarrierStep(t) == Reset(t) \/ Advance(t) \/ Pass(t)

-----------------------------------------------------------------------------
SyncContinue(t) == LockStep(t) \/ RwmStep(t) \/ BarrierStep(t)

SyncNext == Initialize \/ \E t \in object.users :
  \/ SyncContinue(t)
  \/ \E o \in Puts \cup Gets \cup {"peek", "clear", "mutex", "trymutex"}, i \in Items : QueueCall(t, o, i)
  \/ \E o \in {"read", "tryread"} : ReadCall(t, o)
  \/ \E o \in {"write", "trywrite"}, i \in Items : WriteCall(t, o, i)
  \/ Notify(t) \/ BarrierWait(t) \/ TryWait(t)

SyncSpec == SyncInit /\ [][SyncNext]_syncVars /\ \A t \in Users : WF_syncVars(SyncContinue(t))

-----------------------------------------------------------------------------
Stages == {"idle", "spin", "lock", "inside", "commit", "unlock", "astray", "seek", "enter", "check",
          "retreat", "copy", "copy2", "leave", "claim", "drain", "put", "put2", "free", "reset",
          "advance", "asleep"}

\* The state is well formed.
SyncTypeOK ==
  /\ object \in Objects /\ made \in BOOLEAN
  /\ {lock, writer} \subseteq {0, 1}
  /\ {head, tail} \subseteq 0 .. Depth - 1 /\ count \in 0 .. Depth
  /\ ring \in [0 .. Depth - 1 -> Items]
  /\ readers \in 0 .. Total /\ buffer \in Items \X Items
  /\ arrived \in 0 .. Total /\ phase \in Nat
  /\ stage \in [Users -> Stages] /\ mine \in [Users -> Items \X Items]
  /\ seen \in [Users -> Nat] /\ copies \in 0 .. MaxCopies
  /\ {notified, passed} \subseteq [Users -> 0 .. MaxRounds]

\* What a reader brings home is one write whole: a reader that was counted
\* while a writer came retreats before it copies (cellSyncRwmRead).
ReadsAreWhole == \A t \in Users : stage[t] = "leave" => mine[t][1] = mine[t][2]

\* Nobody leaves a round of the barrier before all have entered it, if all
\* wait in one way (cellSyncBarrierNotify clears the count before the phase).
RoundsAreFull == object.waits # {"wait", "try"} =>
  \A t, u \in object.users : passed[t] <= notified[u]

\* docs/MODULES_REFERENCE.md:844 "all threads must arrive before any proceed".
RoundsAreFullAnyhow == \A t, u \in object.users : passed[t] <= notified[u]

Fifo == INSTANCE EventFifo WITH
  Queues <- {1}, Events <- Items, MaxRoom <- Depth,
  fifo <- [q \in {1} |-> [i \in 1 .. count |-> ring[(head + i - 1) % Depth]]],
  room <- [q \in {1} |-> IF made THEN Depth ELSE 0]

\* The queue under its spinlock, whose count is tested without it, is a FIFO
\* of its depth for any mix of waiting calls, tries, looks and clears.
SyncQueueIsFifo == Fifo!FifoSpec

\* A writer that has claimed the buffer is not kept out by readers that come
\* and go (cellSyncRwmWrite waits for their count to be 0).
WritersGetIn == \A t \in Users : (stage[t] = "drain") ~> (stage[t] # "drain")

\* cellSync.c:138 "Wait until the phase changes (all have arrived)": whoever
\* waits in a round that all have entered leaves it.
BarrierOpens == \A t \in Users :
  (stage[t] = "asleep" /\ \A u \in object.users : notified[u] >= notified[t]) ~> (stage[t] # "asleep")

\* A call uses the pointers it was given.
NothingAstray == \A t \in Users : stage[t] # "astray"
=============================================================================
