----------------------------- MODULE GcmFrames -----------------------------
(***************************************************************************)
(* From the guest's command ring to the render queue                       *)
(* (ps3recomp/libs/video/cellGcmSys.c, rsx_recorder.c and                  *)
(* rsx_sdl_gpu_backend.c, ps3recomp/runtime/host/frame_driver.cpp).        *)
(*                                                                         *)
(* The guest writes words into a ring and moves `put`.  At each refresh    *)
(* and every few milliseconds the frame driver walks the ring up to `put`, *)
(* records what it finds in a batch and stops at a flip, which seals the   *)
(* batch until the next refresh presents it.  A batch that is presented,   *)
(* or that the next clear of the display ends, goes to a queue that the    *)
(* main thread executes.                                                   *)
(*                                                                         *)
(* Words are clears and draws of the display, flips and jumps; a clear or  *)
(* a draw has a number that tells it from its neighbours.                  *)
(***************************************************************************)
EXTENDS Integers, Sequences, SequencesExt, FiniteSetsExt

CONSTANTS
  RingEnd,     \* the words of the ring are 0 .. RingEnd - 1
  Numbers,     \* numbers of words: 0 .. Numbers - 1, over and over
  QueueDepth,  \* queue_limit: 1 .. 4
  GatedFlips,  \* flips a clear of the display holds back: 3
  FrameSetups  \* kinds of guest: see HasTurned and MayClear

ASSUME FramesAssumption ==
  /\ {RingEnd, Numbers, QueueDepth, GatedFlips} \subseteq Nat \ {0}
  /\ FrameSetups \subseteq [patient : BOOLEAN, clears : {"first", "never", "anywhere"}]

VARIABLES
  game,     \* the member of FrameSetups this behaviour is about
  mem,      \* the words of the ring, and room for a jump behind the last one
  current,  \* the guest's write position: context->current
  guestAt,  \* "free", or "recycling": it waits in cellGcm_fifo_recycle
  number,   \* the number of the guest's next word
  put,      \* the control register
  getoff, drained,  \* s_fifo_getoff and what the guest sees of it
  flip_pending,     \* s_flip_pending
  driver,   \* the frame driver: where it is, the put it read, where a
            \* submission goes on
  batch,    \* the recorder's batch
  gate,     \* batch_has_display_clear and gated_flips
  queue,    \* batches in the render queue
  main,     \* the main thread: "running", "leaving", "joining" the driver, "done"
  stopping, \* s_sdl.stopping
  frame,    \* the kinds of the words of the frame the guest is writing
  meant     \* history: the words the guest has written that are not yet
            \* submitted

gfVars == <<game, mem, current, guestAt, number, put, getoff, drained, flip_pending,
            driver, batch, gate, queue, main, stopping, frame, meant>>

Word(kind, n) == [kind |-> kind, n |-> n]
Flip == Word("flip", 0)
Driver(at, p, then) == [at |-> at, put |-> p, then |-> then]
Waiting == Driver("wait", 0, "wait")
NoGate == [clear |-> FALSE, flips |-> 0]

GfInit ==
  /\ game \in FrameSetups
  /\ mem = [i \in 0 .. RingEnd |-> Word("none", 0)]
  /\ current = 0 /\ guestAt = "free" /\ number = 0
  /\ put = 0 /\ getoff = 0 /\ drained = 0
  /\ flip_pending = FALSE
  /\ driver = Waiting
  /\ batch = <<>> /\ gate = NoGate
  /\ queue = 0
  /\ main = "running" /\ stopping = FALSE
  /\ frame = <<>> /\ meant = <<>>

-----------------------------------------------------------------------------
(* The guest *)

guestVars == <<mem, current, guestAt, number, put, frame, meant>>
driverVars == <<getoff, drained, flip_pending, driver, batch, gate>>
mainVars == <<main, stopping>>

\* Where a guest may clear the display: before it draws a frame, nowhere, or
\* between its draws.
MayClear ==
  \/ game.clears = "first" /\ frame = <<>>
  \/ game.clears = "anywhere"

Writes(w) ==
  /\ guestAt = "free" /\ current < RingEnd
  /\ mem' = [mem EXCEPT ![current] = w]
  /\ current' = current + 1
  /\ meant' = Append(meant, w)
  /\ UNCHANGED <<game, guestAt, put, driverVars, queue, mainVars>>

\* A clear or a draw; frames have at most two.
WriteWord(kind) ==
  /\ Len(frame) < 2
  /\ IF kind = "clear" THEN MayClear ELSE game.clears = "first" => frame # <<>>
  /\ Writes(Word(kind, number))
  /\ frame' = Append(frame, kind)
  /\ number' = (number + 1) % Numbers

\* The flip word that a statically linked cellGcmSetFlip writes ends a frame
\* that has drawn something.
WriteFlip ==
  /\ frame # <<>> /\ Last(frame) = "draw"
  /\ Writes(Flip)
  /\ frame' = <<>>
  /\ UNCHANGED number

Flush ==
  /\ guestAt = "free" /\ put # current
  /\ put' = current
  /\ UNCHANGED <<game, mem, current, guestAt, number, frame, meant, driverVars, queue, mainVars>>

\* A patient guest fills the ring only when the driver has moved on from its
\* beginning since it was last recycled.
HasTurned == game.patient => drained # 0

\* cellGcm_fifo_recycle, when the ring is full.
Recycle ==
  /\ guestAt = "free" /\ current = RingEnd
  /\ HasTurned
  /\ mem' = [mem EXCEPT ![current] = Word("jump", 0)]
  /\ put' = 0
  /\ guestAt' = "recycling"
  /\ UNCHANGED <<game, current, number, frame, meant, driverVars, queue, mainVars>>

\* Going back as soon as the driver has begun the tail of the ring.
MutIsDrained == drained # current

IsDrained == drained = 0

\* The driver is seen to have taken the jump.  Giving up after two seconds is
\* left out.
Recycled ==
  /\ guestAt = "recycling" /\ IsDrained
  /\ current' = 0
  /\ guestAt' = "free"
  /\ UNCHANGED <<game, mem, number, put, frame, meant, driverVars, queue, mainVars>>

-----------------------------------------------------------------------------
(* The frame driver *)

\* rsx_sdl_gpu_backend_queue_has_capacity
HasCapacity == queue < QueueDepth /\ ~stopping

\* A refresh: unless the queue is full the driver presents and walks.  A driver
\* that is late makes up to 240 in a row, looking for room before each
\* (frame_driver.cpp:151-164); here it may be joined between them.
Vblank ==
  /\ driver = Waiting /\ main \in {"running", "leaving"}
  /\ HasCapacity
  /\ driver' = Driver("present", 0, "wait")
  /\ UNCHANGED <<game, guestVars, getoff, drained, flip_pending, batch, gate, queue, mainVars>>

\* Walking on at every poll, into the next frame.
MutMayPoll == HasCapacity

\* A flip seals the batch until the next refresh.
MayPoll == HasCapacity /\ ~flip_pending

\* The time to look at the ring between refreshes.
Poll ==
  /\ driver = Waiting /\ main \in {"running", "leaving"}
  /\ MayPoll
  /\ driver' = Driver("begin", 0, "wait")
  /\ UNCHANGED <<game, guestVars, getoff, drained, flip_pending, batch, gate, queue, mainVars>>

Draws == \E i \in 1 .. Len(batch) : batch[i].kind = "draw"

\* Is this flip held back?  A clear holds back the next few.
Held == gate.clear /\ gate.flips < GatedFlips

\* present_pending and rec_present.  That an empty batch is submitted, too, until
\* anything was drawn (rsx_recorder.c:1061-1063) is left out.
Present ==
  /\ driver.at = "present"
  /\ flip_pending' = FALSE
  /\ gate' = IF ~flip_pending THEN gate
             ELSE IF Held THEN [gate EXCEPT !.flips = @ + 1]
             ELSE IF gate.clear THEN NoGate ELSE gate
  /\ driver' = IF flip_pending /\ ~Held /\ Draws
                 THEN Driver("submit", 0, "begin") ELSE Driver("begin", 0, "wait")
  /\ UNCHANGED <<game, guestVars, getoff, drained, batch, queue, mainVars>>

\* How many of the first k words that are not submitted yet belong in a batch.
Rank(k) == Cardinality({i \in 1 .. k : meant[i] # Flip})

\* The first k words make up the batch, or could: where its words end, and all
\* the places where they might.
Makes(k) ==
  /\ Rank(k) = Len(batch)
  /\ \A i \in 1 .. k : meant[i] # Flip => batch[Rank(i)] = meant[i]
Made == {k \in 0 .. Len(meant) : Makes(k)}

\* consumer_submit waits for room; it keeps nothing once the host stops.
MayQueue == queue < QueueDepth \/ stopping

Submit ==
  /\ driver.at = "submit" /\ MayQueue
  /\ queue' = IF stopping THEN queue ELSE queue + 1
  /\ batch' = <<>>
  /\ meant' = IF Made = {} THEN meant ELSE SubSeq(meant, 1 + Max(Made), Len(meant))
  /\ driver' = Driver(driver.then, driver.put, "wait")
  /\ UNCHANGED <<game, mem, current, guestAt, number, frame, put, getoff, drained,
                 flip_pending, gate, mainVars>>

\* cellGcm_rsx_process_fifo reads put once.
BeginWalk ==
  /\ driver.at = "begin"
  /\ driver' = Driver("walk", put, "wait")
  /\ UNCHANGED <<game, guestVars, getoff, drained, flip_pending, batch, gate, queue, mainVars>>

Here == mem[getoff]
AtWord(kinds) == driver.at = "walk" /\ getoff # driver.put /\ Here.kind \in kinds

\* rec_clear: a clear of the display ends a batch that has drawn to it.
EndsBatch == Here.kind = "clear" /\ Draws

WalkEndsBatch ==
  /\ AtWord({"clear"}) /\ EndsBatch
  /\ driver' = Driver("submit", driver.put, "walk")
  /\ UNCHANGED <<game, guestVars, getoff, drained, flip_pending, batch, gate, queue, mainVars>>

GateOf(w) == IF w.kind = "clear" THEN [clear |-> TRUE, flips |-> 0] ELSE gate

WalkRecords ==
  /\ AtWord({"clear", "draw"}) /\ ~EndsBatch
  /\ batch' = Append(batch, Here)
  /\ gate' = GateOf(Here)
  /\ getoff' = getoff + 1
  /\ UNCHANGED <<game, guestVars, drained, flip_pending, driver, queue, mainVars>>

JumpTarget(w) == w.n

WalkJumps ==
  /\ AtWord({"jump"})
  /\ getoff' = JumpTarget(Here)
  /\ UNCHANGED <<game, guestVars, drained, flip_pending, driver, batch, gate, queue, mainVars>>

\* A word the walker does not know is skipped.
WalkSkips ==
  /\ AtWord({"none"})
  /\ getoff' = getoff + 1
  /\ UNCHANGED <<game, guestVars, drained, flip_pending, driver, batch, gate, queue, mainVars>>

\* A flip ends the walk: cellGcmSetFlipCommand on the driver's thread.
WalkFlips ==
  /\ AtWord({"flip"})
  /\ getoff' = getoff + 1
  /\ flip_pending' = TRUE
  /\ driver' = Driver("publish", 0, "wait")
  /\ UNCHANGED <<game, guestVars, drained, batch, gate, queue, mainVars>>

WalkEnds ==
  /\ driver.at = "walk" /\ getoff = driver.put
  /\ driver' = Driver("publish", 0, "wait")
  /\ UNCHANGED <<game, guestVars, getoff, drained, flip_pending, batch, gate, queue, mainVars>>

Publish ==
  /\ driver.at = "publish"
  /\ drained' = getoff
  /\ driver' = Waiting
  /\ UNCHANGED <<game, guestVars, getoff, flip_pending, batch, gate, queue, mainVars>>

-----------------------------------------------------------------------------
(* The main thread *)

\* drain_batches
ExecuteBatch ==
  /\ main = "running" /\ queue > 0
  /\ queue' = queue - 1
  /\ UNCHANGED <<game, guestVars, driverVars, mainVars>>

\* The window is closed, or the guest's program ends: the main thread executes
\* no more.
Leave(closed) ==
  /\ main = "running"
  /\ stopping' = closed
  /\ main' = "leaving"
  /\ UNCHANGED <<game, guestVars, driverVars, queue>>

\* Audio and input are shut down, and the driver is told to stop.
StopDriver ==
  /\ main = "leaving"
  /\ main' = "joining"
  /\ UNCHANGED <<game, guestVars, driverVars, queue, stopping>>

\* The driver looks at s_frame_stop once in its loop, which the refreshes that
\* are made up for only delay.
JoinDriver ==
  /\ main = "joining" /\ driver = Waiting
  /\ main' = "done"
  /\ UNCHANGED <<game, guestVars, driverVars, queue, stopping>>

-----------------------------------------------------------------------------
WalkStep == WalkEndsBatch \/ WalkRecords \/ WalkJumps \/ WalkSkips \/ WalkFlips \/ WalkEnds
DriverStep == Vblank \/ Present \/ Submit \/ BeginWalk \/ WalkStep \/ Publish

GfNext ==
  \/ \E kind \in {"clear", "draw"} : WriteWord(kind)
  \/ WriteFlip \/ Flush \/ Recycle \/ Recycled
  \/ Poll \/ DriverStep
  \/ ExecuteBatch \/ \E closed \in BOOLEAN : Leave(closed)
  \/ StopDriver \/ JoinDriver

\* The driver refreshes and ends what it begins; the main thread executes, and
\* a guest that waits looks again.
GfSpec == /\ GfInit /\ [][GfNext]_gfVars
          /\ WF_gfVars(DriverStep) /\ WF_gfVars(Recycled)
          /\ WF_gfVars(ExecuteBatch) /\ WF_gfVars(StopDriver) /\ WF_gfVars(JoinDriver)

-----------------------------------------------------------------------------
(* Properties *)

GfTypeOK ==
  /\ game \in FrameSetups
  /\ current \in 0 .. RingEnd /\ {put, getoff, drained} \subseteq 0 .. RingEnd
  /\ guestAt \in {"free", "recycling"} /\ number \in 0 .. Numbers - 1
  /\ {flip_pending, stopping} \subseteq BOOLEAN
  /\ queue \in 0 .. QueueDepth
  /\ gate \in [clear : BOOLEAN, flips : 0 .. GatedFlips]
  /\ main \in {"running", "leaving", "joining", "done"}

Submits == driver.at = "submit" /\ batch' # batch /\ ~stopping

\* What is submitted is what the guest wrote, nothing lost, repeated or out of
\* order, although the ring goes round under the driver
\* (cellGcmSys.c:1106-1145).
NothingIsLost == [][game.patient /\ Submits => Made # {}]_gfVars

\* The code says that of every guest (cellGcmSys.c:1127-1128).
NoCommandsLost == [][Submits => Made # {}]_gfVars

\* A guest that clears the display before it draws a frame, or never, sees
\* whole frames: no batch ends in the middle of one
\* (frame_driver.cpp:158-162, cellGcmSys.c:947-951).
FramesAreWhole == [][
  game.patient /\ game.clears # "anywhere" /\ Submits =>
    \E k \in Made \ {0} : meant[k] = Flip]_gfVars

\* A guest that waits for its ring is let go as long as the host goes on, how
\* ever full the queue and whatever the flips it has outstanding.
RecyclesReturn == game.patient =>
  (guestAt = "recycling" ~> (guestAt = "free" \/ main # "running"))

\* The driver can be joined when the guest's program ends, although nobody
\* executes batches any more and a full queue is waited for.  That is so of a
\* guest that never clears the display in the middle of a frame, for which the
\* driver submits at most once after it has found room.  With such a clear
\* present_pending and the walk may each submit after one look at the room
\* (frame_driver.cpp:156-160), and the second waits for ever
\* (rsx_sdl_gpu_backend.c:3608).
DriverEnds == game.clears # "anywhere" =>
  (main = "leaving" ~> main = "done")

\* Neither guest nor host waits for ever on the driver: of the two, the guest
\* waits for it while the host goes on, the host at the end, where the guest
\* has not cleared the display in the middle of a frame.
NobodyWaitsForDriver == RecyclesReturn /\ DriverEnds
=============================================================================
