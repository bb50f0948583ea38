--------------------------- MODULE GraphicsProofs ---------------------------
(***************************************************************************)
(* Proofs about the graphics, for every pipeline and every ring.           *)
(*                                                                         *)
(* KmsPresent.  Two facts carry the proof that nothing is drawn over while *)
(* it is read.  A target that is still downloaded names, in                *)
(* kms_display_reader, a slot that is still taken.  And buffers are shown  *)
(* in turn, while the one that a waiting commit replaces has a release     *)
(* fence: the next one to be drawn into is neither.                        *)
(*                                                                         *)
(* GcmFrames.  The words that were written and not submitted fall in two:  *)
(* those that were walked make the batch, and those that were not are      *)
(* still in the ring, from the driver's position on (NothingOverwritten).  *)
(* The second half is why a guest must wait for the driver: `put` is of    *)
(* this turn of the ring, or the ring is being recycled and the driver has *)
(* the old tail before it (TurnFits).                                      *)
(*                                                                         *)
(* FrameCallbacks.  Ticks are counted, not named: the invariant counts     *)
(* those a running handler took, and will give back but for one.           *)
(***************************************************************************)
EXTENDS KmsPresent, GcmFrames, FrameCallbacks, SequenceTheorems, FiniteSetTheorems, TLAPS

DisplayTypes ==
  /\ next \in Buffers
  /\ {displayed, screen, latched} \subseteq Buffers \cup {None_}
  /\ release \in [Buffers -> BOOLEAN]

Stations == {"render", "blank", "acquire", "download", "target", "stopping", "stopped"}
Copying == {"fence", "release", "copy", "blank", "end"}

KmsTypes ==
  /\ mode \in KmsSetups
  /\ slot \in [SlotsOf(mode) -> [busy : BOOLEAN, reads : TargetsOf(mode) \cup {None_}]]
  /\ write \in SlotsOf(mode)
  /\ waiting \in Seq(SlotsOf(mode))
  /\ target \in TargetsOf(mode)
  /\ reader \in [TargetsOf(mode) -> SlotsOf(mode) \cup {None_}]
  /\ renderer.at \in Stations
  /\ renderer \in [at : Stations, slot : SlotsOf(mode) \cup {None_}]
  /\ renderer.at = "download" => renderer.slot \in SlotsOf(mode)
  /\ worker \in [at : Copying \cup {"idle", "done"}, slot : SlotsOf(mode) \cup {None_},
                 buffer : Buffers \cup {None_}]
  /\ worker.at \in Copying => worker.slot \in SlotsOf(mode)
  /\ DisplayTypes

\* A slot is taken from the download on until its frame is shown, by one frame.
SlotsAreTaken ==
  /\ \A k \in 1 .. Len(waiting) : slot[waiting[k]].busy
  /\ \A k, l \in 1 .. Len(waiting) : waiting[k] = waiting[l] => k = l
  /\ worker.at \in Copying =>
       /\ slot[worker.slot].busy
       /\ \A k \in 1 .. Len(waiting) : waiting[k] # worker.slot
  /\ renderer.at = "download" => ~slot[renderer.slot].busy

\* A target that is read is read into the slot that `reader` names.
ReadersAreKnown ==
  /\ \A i \in SlotsOf(mode) : slot[i].reads # None_ =>
       slot[i].busy /\ reader[slot[i].reads] = i
  /\ worker.at \in {"release", "copy", "blank", "end"} => slot[worker.slot].reads = None_
  /\ renderer.at \in {"render", "download"} => \A i \in SlotsOf(mode) : slot[i].reads # target
  /\ mode.zero => \A i \in SlotsOf(mode) : slot[i].reads = None_

\* The two ways to a display do not mix.
OneWay ==
  /\ mode.zero => /\ renderer.at \notin {"download", "target"} /\ waiting = <<>>
                  /\ worker.at \in {"idle", "done"}
  /\ ~mode.zero => renderer.at \notin {"blank", "acquire"}

\* While a commit waits for the vertical blank, the buffer that it replaces has
\* a release fence.
FenceIsUp ==
  /\ latched # None_ => atomic /\ displayed = latched /\ (screen # None_ => release[screen])
  /\ latched = None_ /\ atomic => screen = displayed

After(b) == (b + 1) % KmsBuffers

\* What was shown last, on the screen or about to be.
Shown == IF latched # None_ THEN latched ELSE screen

\* Buffers are shown in turn: what is drawn into comes after what is shown.
InTurn ==
  /\ ~mode.zero /\ worker.at \in {"release", "copy"} =>
       worker.buffer \in Buffers /\ next = After(worker.buffer)
  /\ Shown # None_ /\ ~mode.zero =>
       (IF worker.at \in {"release", "copy"} THEN worker.buffer ELSE next) = After(Shown)
  /\ Shown # None_ /\ mode.zero =>
       IF renderer.at \in {"blank", "acquire"} THEN target = Shown ELSE target = After(Shown)

KmsInv == KmsTypes /\ SlotsAreTaken /\ ReadersAreKnown /\ OneWay /\ FenceIsUp /\ InTurn /\ NoTearing

(* The buffers of a ring are used in turn. *)
LEMMA Turns ==
  ASSUME NEW n \in Nat \ {0}, NEW b \in 0 .. n - 1
  PROVE  /\ b % n = b
         /\ (b + 1) % n \in 0 .. n - 1 /\ (n >= 2 => (b + 1) % n # b)
<1>0. b % n = b
  OBVIOUS
<1>1. CASE b + 1 < n
  <2>1. (b + 1) % n = b + 1
    BY <1>1
  <2> QED
    BY <2>1, <1>1
<1>2. CASE b + 1 = n
  <2>1. (b + 1) % n = 0
    BY <1>2
  <2> QED
    BY <2>1, <1>2
<1> QED
  BY <1>0, <1>1, <1>2

(* At first every slot, target and buffer is free. *)
LEMMA KmsStarts == KpInit => KmsInv
<1> USE DEF KpInit, Idle
<1>1. ASSUME KpInit PROVE KmsTypes
  BY <1>1, KmsAssumption
    DEF KmsTypes, DisplayTypes, Buffers, SlotsOf, TargetsOf, None_, Stations, Copying
<1>2. ASSUME KpInit PROVE SlotsAreTaken /\ ReadersAreKnown
  BY <1>2 DEF SlotsAreTaken, ReadersAreKnown, Copying, SlotsOf, None_
<1>3. ASSUME KpInit PROVE OneWay /\ FenceIsUp /\ InTurn /\ NoTearing
  BY <1>3, KmsAssumption
    DEF OneWay, FenceIsUp, InTurn, NoTearing, Shown, None_, SlotsOf, TargetsOf
<1> QED
  BY <1>1, <1>2, <1>3 DEF KmsInv

(* What a setup says. *)
LEMMA ModeIs ==
  ASSUME KmsInv
  PROVE  /\ mode.depth \in Nat \ {0} /\ mode.targets \in Nat \ {0}
         /\ KmsBuffers \in Nat /\ KmsBuffers >= 2
         /\ mode.zero => mode.targets = KmsBuffers
  BY KmsAssumption DEF KmsInv, KmsTypes

(* There is a target that is drawn, and a buffer that is copied to. *)
LEMMA DrawnIsSome ==
  ASSUME KmsInv
  PROVE  target # None_ /\ (worker.at = "copy" => worker.buffer # None_)
<1>1. target # None_
  BY ModeIs DEF KmsInv, KmsTypes, TargetsOf, None_
<1>2. worker.at = "copy" => worker.buffer \in Buffers
  BY Zenon DEF KmsInv, InTurn, OneWay
<1> QED
  BY <1>1, <1>2 DEF Buffers, None_

(* However a buffer is shown, it is the one the display comes to. *)
LEMMA DisplayGoesOn ==
  ASSUME KmsInv, NEW b \in Buffers, Shows(b), next' \in Buffers
  PROVE  DisplayTypes' /\ FenceIsUp' /\ Shown' = b
<1> USE DEF KmsInv, KmsTypes, DisplayTypes, FenceIsUp, Shown, None_, Buffers
<1>1. CASE CommitAtomic(b)
  BY <1>1 DEF CommitAtomic, Released
<1>2. CASE SetPlane(b)
  BY <1>2 DEF SetPlane
<1> QED
  BY <1>1, <1>2 DEF Shows

(* The display comes to the buffer it was given. *)
LEMMA BlankKeeps == ASSUME KmsInv, Blank PROVE KmsInv'
<1>1. KmsTypes'
  BY DEF KmsInv, KmsTypes, DisplayTypes, Blank, None_
<1>2. SlotsAreTaken' /\ ReadersAreKnown' /\ OneWay'
  BY DEF KmsInv, SlotsAreTaken, ReadersAreKnown, OneWay, Blank
<1>3. FenceIsUp'
  BY DEF KmsInv, KmsTypes, DisplayTypes, FenceIsUp, Blank, None_, Buffers
<1>4. Shown' = Shown
  BY DEF Shown, Blank
<1>5. InTurn'
  BY <1>4 DEF KmsInv, InTurn, Blank
<1>6. NoTearing'
  BY DrawnIsSome DEF KmsInv, NoTearing, Blank
<1> QED
  BY <1>1, <1>2, <1>3, <1>5, <1>6 DEF KmsInv

(* The renderer has waited for its commit. *)
LEMMA WaitBlankKeeps == ASSUME KmsInv, WaitBlank PROVE KmsInv'
<1> USE DEF WaitBlank, Goes, None_
<1>1. KmsTypes'
  BY ModeIs, Turns
    DEF KmsInv, KmsTypes, DisplayTypes, displayVars, Stations, Copying, SlotsOf,
        TargetsOf, NextTarget
<1>2. SlotsAreTaken'
  BY DEF KmsInv, KmsTypes, SlotsAreTaken, Copying
<1>3. ReadersAreKnown'
  BY DEF KmsInv, KmsTypes, SlotsAreTaken, ReadersAreKnown, SlotsOf, TargetsOf
<1>4. OneWay'
  BY DEF KmsInv, OneWay
<1>5. FenceIsUp'
  BY DEF KmsInv, FenceIsUp, displayVars
<1>6. InTurn'
  BY DEF KmsInv, InTurn, Shown, displayVars, OneWay
<1>7. NoTearing'
  BY DEF KmsInv, KmsTypes, NoTearing, displayVars, OneWay
<1> QED
  BY <1>1, <1>2, <1>3, <1>4, <1>5, <1>6, <1>7 DEF KmsInv

(* The renderer takes the next slot. *)
LEMMA TakeSlotKeeps == ASSUME KmsInv, TakeSlot PROVE KmsInv'
<1> USE DEF TakeSlot, Goes, None_
<1>1. KmsTypes'
  <2>1. write % mode.depth \in SlotsOf(mode) /\ (write + 1) % mode.depth \in SlotsOf(mode)
    BY ModeIs, Turns DEF KmsInv, KmsTypes, SlotsOf
  <2> QED
    BY <2>1
      DEF KmsInv, KmsTypes, DisplayTypes, displayVars, Stations, Copying, SlotsOf,
          TargetsOf
<1>2. SlotsAreTaken'
  BY DEF KmsInv, KmsTypes, SlotsAreTaken, Copying
<1>3. ReadersAreKnown'
  BY DEF KmsInv, KmsTypes, SlotsAreTaken, ReadersAreKnown, SlotsOf, TargetsOf
<1>4. OneWay'
  BY DEF KmsInv, OneWay
<1>5. FenceIsUp'
  BY DEF KmsInv, FenceIsUp, displayVars
<1>6. InTurn'
  BY DEF KmsInv, InTurn, Shown, displayVars, OneWay
<1>7. NoTearing'
  BY DEF KmsInv, KmsTypes, NoTearing, displayVars, OneWay
<1> QED
  BY <1>1, <1>2, <1>3, <1>4, <1>5, <1>6, <1>7 DEF KmsInv

(* The renderer tells the worker to stop. *)
LEMMA StopKeeps == ASSUME KmsInv, Stop PROVE KmsInv'
<1> USE DEF Stop, Goes, None_
<1>1. KmsTypes'
  BY ModeIs, Turns
    DEF KmsInv, KmsTypes, DisplayTypes, displayVars, Stations, Copying, SlotsOf,
        TargetsOf, NextTarget
<1>2. SlotsAreTaken'
  BY DEF KmsInv, KmsTypes, SlotsAreTaken, Copying
<1>3. ReadersAreKnown'
  BY DEF KmsInv, KmsTypes, SlotsAreTaken, ReadersAreKnown, SlotsOf, TargetsOf
<1>4. OneWay'
  BY DEF KmsInv, OneWay
<1>5. FenceIsUp'
  BY DEF KmsInv, FenceIsUp, displayVars
<1>6. InTurn'
  BY DEF KmsInv, InTurn, Shown, displayVars, OneWay
<1>7. NoTearing'
  BY DEF KmsInv, KmsTypes, NoTearing, displayVars, OneWay
<1> QED
  BY <1>1, <1>2, <1>3, <1>4, <1>5, <1>6, <1>7 DEF KmsInv

(* The renderer waits for the worker to end. *)
LEMMA JoinKeeps == ASSUME KmsInv, JoinWorker PROVE KmsInv'
<1> USE DEF JoinWorker, Goes, None_
<1>1. KmsTypes'
  BY ModeIs, Turns
    DEF KmsInv, KmsTypes, DisplayTypes, displayVars, Stations, Copying, SlotsOf,
        TargetsOf, NextTarget
<1>2. SlotsAreTaken'
  BY DEF KmsInv, KmsTypes, SlotsAreTaken, Copying
<1>3. ReadersAreKnown'
  BY DEF KmsInv, KmsTypes, SlotsAreTaken, ReadersAreKnown, SlotsOf, TargetsOf
<1>4. OneWay'
  BY DEF KmsInv, OneWay
<1>5. FenceIsUp'
  BY DEF KmsInv, FenceIsUp, displayVars
<1>6. InTurn'
  BY DEF KmsInv, InTurn, Shown, displayVars, OneWay
<1>7. NoTearing'
  BY DEF KmsInv, KmsTypes, NoTearing, displayVars, OneWay
<1> QED
  BY <1>1, <1>2, <1>3, <1>4, <1>5, <1>6, <1>7 DEF KmsInv

(* The worker ends. *)
LEMMA EndKeeps == ASSUME KmsInv, EndWorker PROVE KmsInv'
<1> USE DEF EndWorker, WorkerGoes, None_
<1>1. KmsTypes'
  BY ModeIs, Turns
    DEF KmsInv, KmsTypes, DisplayTypes, displayVars, Stations, Copying, SlotsOf,
        TargetsOf, NextTarget
<1>2. SlotsAreTaken'
  BY DEF KmsInv, KmsTypes, SlotsAreTaken, Copying
<1>3. ReadersAreKnown'
  BY DEF KmsInv, KmsTypes, SlotsAreTaken, ReadersAreKnown, SlotsOf, TargetsOf
<1>4. OneWay'
  BY DEF KmsInv, OneWay
<1>5. FenceIsUp'
  BY DEF KmsInv, FenceIsUp, displayVars
<1>6. InTurn'
  BY DEF KmsInv, InTurn, Shown, displayVars, OneWay
<1>7. NoTearing'
  BY DEF KmsInv, KmsTypes, NoTearing, displayVars, OneWay
<1> QED
  BY <1>1, <1>2, <1>3, <1>4, <1>5, <1>6, <1>7 DEF KmsInv

(* The worker has waited for its commit. *)
LEMMA FrameShownKeeps == ASSUME KmsInv, FrameShown PROVE KmsInv'
<1> USE DEF FrameShown, WorkerGoes, None_
<1>1. KmsTypes'
  BY ModeIs, Turns
    DEF KmsInv, KmsTypes, DisplayTypes, displayVars, Stations, Copying, SlotsOf,
        TargetsOf, NextTarget
<1>2. SlotsAreTaken'
  BY DEF KmsInv, KmsTypes, SlotsAreTaken, Copying
<1>3. ReadersAreKnown'
  BY DEF KmsInv, KmsTypes, SlotsAreTaken, ReadersAreKnown, SlotsOf, TargetsOf
<1>4. OneWay'
  BY DEF KmsInv, OneWay
<1>5. FenceIsUp'
  BY DEF KmsInv, FenceIsUp, displayVars
<1>6. InTurn'
  BY DEF KmsInv, InTurn, Shown, displayVars, OneWay
<1>7. NoTearing'
  BY DEF KmsInv, KmsTypes, NoTearing, displayVars, OneWay
<1> QED
  BY <1>1, <1>2, <1>3, <1>4, <1>5, <1>6, <1>7 DEF KmsInv

(* A download fails, and its frame is not shown. *)
LEMMA LostKeeps == ASSUME KmsInv, FrameLost PROVE KmsInv'
<1> USE DEF FrameLost, WorkerGoes, None_
<1>1. KmsTypes'
  BY ModeIs, Turns
    DEF KmsInv, KmsTypes, DisplayTypes, displayVars, Stations, Copying, SlotsOf,
        TargetsOf, NextTarget
<1>2. SlotsAreTaken'
  BY DEF KmsInv, KmsTypes, SlotsAreTaken, Copying
<1>3. ReadersAreKnown'
  BY DEF KmsInv, KmsTypes, SlotsAreTaken, ReadersAreKnown, SlotsOf, TargetsOf
<1>4. OneWay'
  BY DEF KmsInv, OneWay
<1>5. FenceIsUp'
  BY DEF KmsInv, FenceIsUp, displayVars
<1>6. InTurn'
  BY DEF KmsInv, InTurn, Shown, displayVars, OneWay
<1>7. NoTearing'
  BY DrawnIsSome DEF KmsInv, KmsTypes, NoTearing, displayVars, OneWay, Copying
<1> QED
  BY <1>1, <1>2, <1>3, <1>4, <1>5, <1>6, <1>7 DEF KmsInv

(* The worker copies the slot to a buffer nobody shows. *)
LEMMA CopyKeeps == ASSUME KmsInv, CopyFrame PROVE KmsInv'
<1> USE DEF CopyFrame, WorkerGoes, None_
<1>1. KmsTypes'
  BY ModeIs, Turns
    DEF KmsInv, KmsTypes, DisplayTypes, displayVars, Stations, Copying, SlotsOf,
        TargetsOf, NextTarget
<1>2. SlotsAreTaken'
  BY DEF KmsInv, KmsTypes, SlotsAreTaken, Copying
<1>3. ReadersAreKnown'
  BY DEF KmsInv, KmsTypes, SlotsAreTaken, ReadersAreKnown, SlotsOf, TargetsOf
<1>4. OneWay'
  BY DEF KmsInv, OneWay
<1>5. FenceIsUp'
  BY DEF KmsInv, FenceIsUp, displayVars
<1>6. InTurn'
  BY DEF KmsInv, InTurn, Shown, displayVars, OneWay
<1>7. NoTearing'
  <2>1. ~mode.zero /\ worker.at = "release" /\ worker.buffer \in Buffers
    BY Zenon DEF KmsInv, OneWay, InTurn
  <2>2. worker.buffer # Shown
    <3>1. CASE Shown # None_
      <4>1. Shown \in Buffers /\ worker.buffer = After(Shown)
        BY <2>1, <3>1 DEF KmsInv, KmsTypes, DisplayTypes, InTurn, Shown
      <4> QED
        BY <4>1, ModeIs, Turns DEF After, Buffers
    <3> QED
      BY <3>1, <2>1 DEF Buffers
  <2>3. ~release[worker.buffer]
    BY DEF MayCopy
  <2>4. worker.buffer \notin {screen, latched}
    BY <2>1, <2>2, <2>3 DEF KmsInv, FenceIsUp, Shown, Buffers
  <2> QED
    BY <2>1, <2>4 DEF KmsInv, KmsTypes, NoTearing, displayVars
<1> QED
  BY <1>1, <1>2, <1>3, <1>4, <1>5, <1>6, <1>7 DEF KmsInv

(* A slot is given back. *)
LEMMA FreeKeeps == ASSUME KmsInv, FreeSlot PROVE KmsInv'
<1> USE DEF FreeSlot, None_, Freed, Idle
<1>1. KmsTypes'
  BY ModeIs, Turns
    DEF KmsInv, KmsTypes, DisplayTypes, displayVars, Stations, Copying, SlotsOf,
        TargetsOf, NextTarget
<1>2. SlotsAreTaken'
  BY DEF KmsInv, KmsTypes, SlotsAreTaken, Copying
<1>3. ReadersAreKnown'
  BY DEF KmsInv, KmsTypes, SlotsAreTaken, ReadersAreKnown, SlotsOf, TargetsOf
<1>4. OneWay'
  BY DEF KmsInv, OneWay
<1>5. FenceIsUp'
  BY DEF KmsInv, FenceIsUp, displayVars
<1>6. InTurn'
  BY DEF KmsInv, InTurn, Shown, displayVars, OneWay
<1>7. NoTearing'
  BY DEF KmsInv, KmsTypes, NoTearing, displayVars, OneWay
<1> QED
  BY <1>1, <1>2, <1>3, <1>4, <1>5, <1>6, <1>7 DEF KmsInv

(* A download is complete. *)
LEMMA DownloadedKeeps == ASSUME KmsInv, Downloaded PROVE KmsInv'
<1> USE DEF Downloaded, None_
<1>1. KmsTypes'
  <2>1. (next + 1) % KmsBuffers \in Buffers
    BY ModeIs, Turns DEF KmsInv, KmsTypes, DisplayTypes, Buffers
  <2> QED
    BY <2>1
      DEF KmsInv, KmsTypes, DisplayTypes, displayVars, Stations, Copying, SlotsOf,
          TargetsOf
<1>2. SlotsAreTaken'
  BY DEF KmsInv, KmsTypes, SlotsAreTaken, Copying
<1>3. ReadersAreKnown'
  BY DEF KmsInv, KmsTypes, SlotsAreTaken, ReadersAreKnown, SlotsOf, TargetsOf
<1>4. OneWay'
  BY DEF KmsInv, OneWay
<1>5. FenceIsUp'
  BY DEF KmsInv, FenceIsUp, displayVars
<1>6. InTurn'
  BY DEF KmsInv, KmsTypes, InTurn, Shown, displayVars, OneWay, After, DisplayTypes
<1>7. NoTearing'
  BY DrawnIsSome DEF KmsInv, KmsTypes, NoTearing, displayVars, OneWay, Copying
<1> QED
  BY <1>1, <1>2, <1>3, <1>4, <1>5, <1>6, <1>7 DEF KmsInv

(* The worker takes the oldest frame. *)
LEMMA TakeFrameKeeps == ASSUME KmsInv, TakeFrame PROVE KmsInv'
<1> USE DEF TakeFrame, None_
<1>1. KmsTypes'
  <2>1. Head(waiting) \in SlotsOf(mode) /\ Tail(waiting) \in Seq(SlotsOf(mode))
    BY DEF KmsInv, KmsTypes
  <2> QED
    BY <2>1
      DEF KmsInv, KmsTypes, DisplayTypes, displayVars, Stations, Copying, SlotsOf,
          TargetsOf
<1>2. SlotsAreTaken'
  <2>1. /\ Len(Tail(waiting)) = Len(waiting) - 1 /\ 1 \in 1 .. Len(waiting) /\ Head(waiting) = waiting[1]
        /\ \A k \in 1 .. Len(Tail(waiting)) : k + 1 \in 1 .. Len(waiting) /\ Tail(waiting)[k] = waiting[k + 1]
    BY DEF KmsInv, KmsTypes
  <2>2. Len(waiting) \in Nat
    BY DEF KmsInv, KmsTypes
  <2> QED
    BY <2>1, <2>2 DEF KmsInv, KmsTypes, SlotsAreTaken, Copying
<1>3. ReadersAreKnown'
  BY DEF KmsInv, KmsTypes, SlotsAreTaken, ReadersAreKnown, SlotsOf, TargetsOf
<1>4. OneWay'
  BY DEF KmsInv, OneWay
<1>5. FenceIsUp'
  BY DEF KmsInv, FenceIsUp, displayVars
<1>6. InTurn'
  BY DEF KmsInv, InTurn, Shown, displayVars, OneWay
<1>7. NoTearing'
  BY DEF KmsInv, KmsTypes, NoTearing, displayVars, OneWay
<1> QED
  BY <1>1, <1>2, <1>3, <1>4, <1>5, <1>6, <1>7 DEF KmsInv

(* A target is handed to the display without a copy. *)
LEMMA PresentKeeps == ASSUME KmsInv, PresentTarget PROVE KmsInv'
<1> USE DEF Goes, None_
<1>0. /\ mode.zero /\ renderer.at = "render" /\ Shows(target)
      /\ \E a \in {"blank", "acquire"} : renderer' = [at |-> a, slot |-> None_]
      /\ UNCHANGED <<mode, slot, write, waiting, target, reader, worker, next>>
  BY Zenon DEF PresentTarget
<1>1. target \in Buffers
  BY <1>0, ModeIs DEF KmsInv, KmsTypes, TargetsOf, Buffers
<1>2. DisplayTypes' /\ FenceIsUp' /\ Shown' = target
  BY <1>0, <1>1, DisplayGoesOn DEF KmsInv, KmsTypes, DisplayTypes
<1>3. KmsTypes'
  BY <1>0, <1>2 DEF KmsInv, KmsTypes, Stations
<1>4. SlotsAreTaken' /\ ReadersAreKnown' /\ OneWay'
  BY <1>0 DEF KmsInv, SlotsAreTaken, ReadersAreKnown, OneWay
<1>5. InTurn'
  BY <1>0, <1>2 DEF KmsInv, InTurn, OneWay
<1>6. NoTearing'
  BY <1>0 DEF KmsInv, NoTearing, OneWay
<1> QED
  BY <1>2, <1>3, <1>4, <1>5, <1>6 DEF KmsInv

(* The worker shows the frame it has copied. *)
LEMMA ShowFrameKeeps == ASSUME KmsInv, ShowFrame PROVE KmsInv'
<1> USE DEF WorkerGoes, None_
<1>0. /\ worker.at = "copy" /\ Shows(worker.buffer)
      /\ \E a \in {"blank", "end"} : worker' = [worker EXCEPT !.at = a]
      /\ UNCHANGED <<mode, slot, write, waiting, target, reader, renderer, next>>
  BY Zenon DEF ShowFrame, WorkerGoes
<1>1. ~mode.zero /\ worker.buffer \in Buffers /\ next = After(worker.buffer)
  BY <1>0, Zenon DEF KmsInv, OneWay, InTurn
<1>2. DisplayTypes' /\ FenceIsUp' /\ Shown' = worker.buffer
  BY <1>0, <1>1, DisplayGoesOn DEF KmsInv, KmsTypes, DisplayTypes
<1>3. KmsTypes'
  BY <1>0, <1>2 DEF KmsInv, KmsTypes, Copying
<1>7. worker'.at \in {"blank", "end"} /\ worker'.slot = worker.slot
  BY <1>0 DEF KmsInv, KmsTypes
<1>4. SlotsAreTaken' /\ ReadersAreKnown' /\ OneWay'
  BY <1>0, <1>1, <1>7 DEF KmsInv, SlotsAreTaken, ReadersAreKnown, OneWay, Copying
<1>5. InTurn'
  BY <1>0, <1>1, <1>2, <1>7 DEF InTurn, After
<1>6. NoTearing'
  BY <1>0, <1>1, <1>7 DEF KmsInv, NoTearing
<1> QED
  BY <1>2, <1>3, <1>4, <1>5, <1>6 DEF KmsInv

(* The next target is one. *)
LEMMA NextTargets ==
  ASSUME KmsInv
  PROVE  NextTarget \in TargetsOf(mode) /\ (mode.zero => NextTarget = After(target))
<1>1. target \in TargetsOf(mode)
  BY DEF KmsInv, KmsTypes
<1> QED
  BY <1>1, ModeIs, Turns DEF NextTarget, TargetsOf, After

(* The renderer goes on to the next target when nobody reads it. *)
LEMMA AcquireKeeps == ASSUME KmsInv, AcquireTarget PROVE KmsInv'
<1> USE DEF AcquireTarget, Goes, None_
<1>1. KmsTypes'
  BY NextTargets
    DEF KmsInv, KmsTypes, DisplayTypes, displayVars, Stations, Copying, SlotsOf, TargetsOf
<1>2. SlotsAreTaken'
  BY DEF KmsInv, KmsTypes, SlotsAreTaken, Copying
<1>3. ReadersAreKnown'
  <2>1. mode.zero /\ target' # None_
    BY NextTargets, ModeIs DEF KmsInv, OneWay, TargetsOf
  <2> QED
    BY <2>1 DEF KmsInv, ReadersAreKnown
<1>4. OneWay'
  BY DEF KmsInv, OneWay
<1>5. FenceIsUp'
  BY DEF KmsInv, FenceIsUp, displayVars
<1>6. InTurn'
  BY NextTargets DEF KmsInv, InTurn, Shown, displayVars, OneWay
<1>7. NoTearing'
  <2>1. mode.zero /\ renderer.at = "acquire" /\ target' = NextTarget /\ NextTarget = After(target)
    BY NextTargets, Zenon DEF KmsInv, OneWay
  <2>2. target \in Buffers
    BY <2>1, ModeIs DEF KmsInv, KmsTypes, TargetsOf, Buffers
  <2>3. target' \in Buffers /\ target' # target
    BY <2>1, <2>2, ModeIs, Turns DEF After, Buffers
  <2>4. target' # Shown
    BY <2>1, <2>3 DEF KmsInv, InTurn, Buffers
  <2>5. target' \notin {screen, latched}
    BY <2>1, <2>3, <2>4 DEF KmsInv, FenceIsUp, Shown, Buffers
  <2> QED
    BY <2>1, <2>5 DEF KmsInv, NoTearing, displayVars, OneWay
<1> QED
  BY <1>1, <1>2, <1>3, <1>4, <1>5, <1>6, <1>7 DEF KmsInv

(* The renderer submits a download, or gives the frame up. *)
LEMMA SubmitKeeps == ASSUME KmsInv, SubmitDownload PROVE KmsInv'
<1> DEFINE i == renderer.slot
<1> USE DEF Goes, None_
<1>0. /\ renderer.at = "download" /\ i \in SlotsOf(mode) /\ ~mode.zero
      /\ UNCHANGED <<mode, write, target, worker, next, displayed, release, atomic, screen, latched>>
  BY Zenon DEF SubmitDownload, KmsInv, KmsTypes, OneWay, displayVars
<1>1. CASE Goes("render", None_) /\ UNCHANGED <<slot, waiting, reader>>
  <2>1. KmsTypes'
    BY <1>0, <1>1 DEF KmsInv, KmsTypes, DisplayTypes, Stations
  <2>2. SlotsAreTaken' /\ ReadersAreKnown' /\ OneWay'
    BY <1>0, <1>1 DEF KmsInv, SlotsAreTaken, ReadersAreKnown, OneWay
  <2>3. FenceIsUp' /\ InTurn' /\ NoTearing'
    BY <1>0, <1>1 DEF KmsInv, FenceIsUp, InTurn, NoTearing, Shown, ReadersAreKnown
  <2> QED
    BY <2>1, <2>2, <2>3 DEF KmsInv
<1>2. CASE /\ slot' = [slot EXCEPT ![i] = [busy |-> TRUE, reads |-> target]]
           /\ waiting' = Append(waiting, i)
           /\ reader' = [reader EXCEPT ![target] = i]
           /\ Goes("target", None_)
  <2>1. KmsTypes'
    BY <1>0, <1>2 DEF KmsInv, KmsTypes, DisplayTypes, Stations
  <2>2. /\ slot'[i].busy /\ slot'[i].reads = target
        /\ \A j \in SlotsOf(mode) : j # i => slot'[j] = slot[j]
        /\ ~slot[i].busy
    BY <1>0, <1>2 DEF KmsInv, KmsTypes, SlotsAreTaken
  <2>3. /\ Len(waiting') = Len(waiting) + 1 /\ waiting'[Len(waiting) + 1] = i
        /\ \A k \in 1 .. Len(waiting) : waiting'[k] = waiting[k] /\ waiting[k] # i
        /\ Len(waiting) \in Nat
    BY <1>2, <2>2 DEF KmsInv, KmsTypes, SlotsAreTaken
  <2>4. worker.at \in Copying => worker.slot \in SlotsOf(mode) /\ worker.slot # i
    BY <2>2 DEF KmsInv, KmsTypes, SlotsAreTaken
  <2>5. SlotsAreTaken'
    <3>1. \A k \in 1 .. Len(waiting') : slot'[waiting'[k]].busy
      BY <2>2, <2>3 DEF KmsInv, KmsTypes, SlotsAreTaken
    <3>2. \A k, l \in 1 .. Len(waiting') : waiting'[k] = waiting'[l] => k = l
      BY <2>3 DEF KmsInv, SlotsAreTaken
    <3>3. worker.at \in Copying =>
            slot'[worker.slot].busy /\ \A k \in 1 .. Len(waiting') : waiting'[k] # worker.slot
      BY <2>2, <2>3, <2>4 DEF KmsInv, SlotsAreTaken
    <3> QED
      BY <1>0, <1>2, <3>1, <3>2, <3>3 DEF SlotsAreTaken
  <2>6. \A j \in SlotsOf(mode) : slot'[j].reads # None_ => slot'[j].busy /\ reader'[slot'[j].reads] = j
    <3> SUFFICES ASSUME NEW j \in SlotsOf(mode), slot'[j].reads # None_
                 PROVE  slot'[j].busy /\ reader'[slot'[j].reads] = j
      OBVIOUS
    <3>1. CASE j = i
      BY <1>2, <2>2, <3>1 DEF KmsInv, KmsTypes
    <3>2. CASE j # i
      <4>1. slot[j].reads # target /\ slot[j].reads \in TargetsOf(mode)
        BY <1>0, <2>2, <3>2 DEF KmsInv, KmsTypes, ReadersAreKnown
      <4> QED
        BY <1>2, <2>2, <3>2, <4>1 DEF KmsInv, KmsTypes, ReadersAreKnown
    <3> QED
      BY <3>1, <3>2
  <2>7. ReadersAreKnown'
    BY <1>0, <1>2, <2>2, <2>4, <2>6 DEF KmsInv, ReadersAreKnown, Copying
  <2>8. OneWay' /\ FenceIsUp' /\ InTurn' /\ NoTearing'
    BY <1>0, <1>2 DEF KmsInv, OneWay, FenceIsUp, InTurn, NoTearing, Shown
  <2> QED
    BY <2>1, <2>5, <2>7, <2>8 DEF KmsInv
<1> QED
  BY <1>1, <1>2, Zenon DEF SubmitDownload

(* The renderer goes on to the next frame. *)
LEMMA NextFrameKeeps == ASSUME KmsInv, NextFrame PROVE KmsInv'
<1> USE DEF NextFrame, Goes, None_
<1>1. KmsTypes'
  BY NextTargets
    DEF KmsInv, KmsTypes, DisplayTypes, displayVars, Stations, Copying, SlotsOf, TargetsOf
<1>2. SlotsAreTaken'
  BY DEF KmsInv, KmsTypes, SlotsAreTaken, Copying
<1>3. ReadersAreKnown'
  <2>1. target' = NextTarget /\ NextTarget \in TargetsOf(mode) /\ NextTarget # None_
    BY NextTargets, ModeIs DEF TargetsOf
  <2>2. \A j \in SlotsOf(mode) : slot[j].reads # NextTarget
    BY <2>1 DEF KmsInv, ReadersAreKnown, MayReuse, SlotsOf
  <2> QED
    BY <2>1, <2>2 DEF KmsInv, ReadersAreKnown
<1>4. OneWay'
  BY DEF KmsInv, OneWay
<1>5. FenceIsUp'
  BY DEF KmsInv, FenceIsUp, displayVars
<1>6. InTurn'
  BY DEF KmsInv, InTurn, Shown, displayVars, OneWay
<1>7. NoTearing'
  BY <1>3 DEF KmsInv, NoTearing, displayVars, OneWay, ReadersAreKnown
<1> QED
  BY <1>1, <1>2, <1>3, <1>4, <1>5, <1>6, <1>7 DEF KmsInv

\* Nothing that is read is drawn over, whatever the depth of the pipeline, the
\* number of targets and that of the buffers, from two on
\* (rsx_sdl_gpu_backend.c:287-291, rsx_kms_present.c:351-353).
THEOREM NothingTears == KpSpec => []NoTearing
<1>1. KmsInv /\ [KpNext]_kpVars => KmsInv'
  <2> SUFFICES ASSUME KmsInv, [KpNext]_kpVars PROVE KmsInv'
    OBVIOUS
  <2>1. CASE UNCHANGED kpVars
    BY <2>1
      DEF kpVars, KmsInv, KmsTypes, DisplayTypes, SlotsAreTaken, ReadersAreKnown, OneWay,
       FenceIsUp, InTurn, Shown, NoTearing
  <2>2. CASE RendererStep
    BY <2>2, PresentKeeps, WaitBlankKeeps, AcquireKeeps, TakeSlotKeeps, SubmitKeeps,
        NextFrameKeeps,
       JoinKeeps, Zenon DEF RendererStep
  <2>3. CASE WorkerStep
    BY <2>3, TakeFrameKeeps, EndKeeps, DownloadedKeeps, CopyKeeps, ShowFrameKeeps,
        FrameShownKeeps,
       FreeKeeps, Zenon DEF WorkerStep
  <2> QED
    BY <2>1, <2>2, <2>3, BlankKeeps, StopKeeps, LostKeeps, Zenon DEF KpNext
<1>2. KmsInv => NoTearing
  BY DEF KmsInv
<1> QED
  BY <1>1, <1>2, KmsStarts, PTL DEF KpSpec

-----------------------------------------------------------------------------
(* The command ring *)

Written == {Flip} \cup [kind : {"clear", "draw"}, n : Nat]

(* Rank and Makes, of any words s and batch b. *)
Places(s, k) == {i \in 1 .. k : s[i] # Flip}
RankOf(s, k) == Cardinality(Places(s, k))
MakesOf(s, k, b) ==
  /\ RankOf(s, k) = Len(b)
  /\ \A i \in 1 .. k : s[i] # Flip => b[RankOf(s, i)] = s[i]

(* The driver has taken the jump of a ring that is being recycled. *)
Jumped == guestAt = "recycling" /\ getoff = 0

(* Words that were written and not walked yet, and walked and not submitted. *)
Unread == IF Jumped THEN 0 ELSE current - getoff
Walked == Len(meant) - Unread

FrameTypes ==
  /\ DOMAIN mem = 0 .. RingEnd
  /\ meant \in Seq(Written) /\ batch \in Seq(Written) /\ frame \in Seq({"clear", "draw"})
  /\ guestAt \in {"free", "recycling"}
  /\ {current, getoff} \subseteq 0 .. RingEnd /\ {put, drained, number} \subseteq Nat
  /\ driver \in [at : {"wait", "present", "submit", "begin", "walk", "publish"}, put : Nat,
                 then : {"wait", "begin", "walk"}]

WillWalk == driver.at = "walk" \/ (driver.at = "submit" /\ driver.then = "walk")

(* The driver walks to a put of this turn of the ring, or takes the jump. *)
TurnFits ==
  /\ guestAt = "free" =>
       /\ drained <= getoff /\ getoff <= put /\ put <= current
       /\ WillWalk => getoff <= driver.put /\ driver.put <= put
  /\ guestAt = "recycling" =>
       /\ put = 0 /\ current = RingEnd /\ mem[RingEnd] = Word("jump", 0)
       /\ drained = 0 => getoff = 0
       /\ WillWalk => driver.put = 0 \/ (0 < getoff /\ getoff <= driver.put /\ driver.put <= RingEnd)

(* What was not walked is still in the ring, and what was is in the batch. *)
NothingOverwritten ==
  /\ Unread <= Len(meant)
  /\ \A i \in 1 .. Unread : meant[Walked + i] = mem[getoff + i - 1]
  /\ MakesOf(meant, Walked, batch)

(* A frame draws, and is cleared before. *)
FramesFit ==
  /\ \A i \in 1 .. Len(meant) - 1 : meant[i] = Flip => meant[i + 1] # Flip
  /\ game.clears # "anywhere" =>
       \A i \in 1 .. Len(meant) - 1 : meant[i + 1].kind = "clear" => meant[i] = Flip
  /\ Len(meant) > 0 => (frame = <<>> <=> meant[Len(meant)] = Flip)

(* A flip that is pending was walked last; a batch is submitted for a flip, or
   for the clear that comes next. *)
SealsFit ==
  /\ flip_pending => driver.at \in {"wait", "present", "publish"}
  /\ flip_pending \/ (driver.at = "submit" /\ driver.then = "begin") => Walked > 0 /\ meant[Walked] = Flip
  /\ driver.at = "submit" => batch # <<>> /\ driver.then \in {"begin", "walk"}
  /\ driver.at = "submit" /\ driver.then = "walk" => getoff # driver.put /\ mem[getoff].kind = "clear"

RingKept == FrameTypes /\ TurnFits /\ NothingOverwritten /\ FramesFit /\ SealsFit

FramesInv == game \in FrameSetups /\ (game.patient => RingKept)

(* Ranks are numbers. *)
LEMMA RankNat ==
  ASSUME NEW s, NEW k, k \in Nat
  PROVE  IsFiniteSet(Places(s, k)) /\ RankOf(s, k) \in Nat
<1>1. IsFiniteSet(1 .. k)
  BY FS_Interval
<1>2. IsFiniteSet(Places(s, k))
  BY <1>1, FS_Subset DEF Places
<1> QED BY <1>2, FS_CardinalityType DEF RankOf

(* No word, no rank. *)
LEMMA RankZero == ASSUME NEW s PROVE RankOf(s, 0) = 0
<1>1. Places(s, 0) = {}
  BY DEF Places
<1> QED BY <1>1, FS_EmptySet DEF RankOf

(* A word counts unless it is a flip. *)
LEMMA RankNext ==
  ASSUME NEW s, NEW k, k \in Nat
  PROVE  RankOf(s, k + 1) = IF s[k + 1] # Flip THEN RankOf(s, k) + 1 ELSE RankOf(s, k)
<1>1. CASE s[k + 1] # Flip
  <2>1. Places(s, k + 1) = Places(s, k) \cup {k + 1} /\ k + 1 \notin Places(s, k)
    BY <1>1 DEF Places
  <2>2. IsFiniteSet(Places(s, k))
    BY RankNat
  <2>3. Cardinality(Places(s, k) \cup {k + 1}) = Cardinality(Places(s, k)) + 1
    BY <2>1, <2>2, FS_AddElement
  <2> QED BY <1>1, <2>1, <2>3 DEF RankOf
<1>2. CASE s[k + 1] = Flip
  <2>1. Places(s, k + 1) = Places(s, k)
    BY <1>2 DEF Places
  <2> QED BY <1>2, <2>1 DEF RankOf
<1> QED BY <1>1, <1>2

(* Ranks grow, and do not where there are only flips. *)
LEMMA RankGrows ==
  ASSUME NEW s, NEW j, NEW k, j \in Nat, k \in Nat, j <= k
  PROVE  /\ RankOf(s, j) <= RankOf(s, k)
         /\ RankOf(s, j) = RankOf(s, k) => \A i \in j + 1 .. k : s[i] = Flip
<1>1. Places(s, j) \in SUBSET Places(s, k)
  BY DEF Places
<1>2. IsFiniteSet(Places(s, k))
  BY RankNat
<1>3. /\ RankOf(s, j) <= RankOf(s, k)
      /\ RankOf(s, k) = RankOf(s, j) => Places(s, k) = Places(s, j)
  BY <1>1, <1>2, FS_Subset DEF RankOf
<1>4. ASSUME Places(s, k) = Places(s, j), NEW i \in j + 1 .. k
      PROVE  s[i] = Flip
  BY <1>4 DEF Places
<1> QED BY <1>3, <1>4

(* Ranks are of the words before. *)
LEMMA RankSame ==
  ASSUME NEW s, NEW t, NEW k, k \in Nat, \A i \in 1 .. k : s[i] = t[i]
  PROVE  \A j \in 0 .. k : RankOf(s, j) = RankOf(t, j)
BY DEF RankOf, Places

(* The rank of a word that counts is a place in the batch. *)
LEMMA RankIsAPlace ==
  ASSUME NEW s, NEW k, k \in Nat, NEW i \in 1 .. k, s[i] # Flip
  PROVE  RankOf(s, i) \in 1 .. RankOf(s, k)
<1>1. PICK j \in Nat : j + 1 = i
  BY i - 1 \in Nat /\ (i - 1) + 1 = i
<1>2. RankOf(s, i) = RankOf(s, j) + 1
  BY <1>1, RankNext
<1>3. RankOf(s, j) \in Nat /\ RankOf(s, k) \in Nat
  BY RankNat
<1>4. RankOf(s, i) <= RankOf(s, k)
  BY RankGrows
<1> QED BY <1>2, <1>3, <1>4

(* Nothing makes nothing. *)
LEMMA MakesNothing == ASSUME NEW s PROVE MakesOf(s, 0, <<>>)
BY RankZero DEF MakesOf

(* A word is recorded. *)
LEMMA MakesMore ==
  ASSUME NEW S, NEW s, NEW k, NEW b, k \in Nat, b \in Seq(S), s[k + 1] \in S,
         MakesOf(s, k, b), s[k + 1] # Flip
  PROVE  MakesOf(s, k + 1, Append(b, s[k + 1]))
<1>1. RankOf(s, k + 1) = Len(b) + 1
  BY RankNext DEF MakesOf
<1> DEFINE c == Append(b, s[k + 1])
<1>2. /\ Len(c) = Len(b) + 1 /\ c[Len(b) + 1] = s[k + 1]
      /\ \A i \in 1 .. Len(b) : c[i] = b[i]
  BY AppendProperties
<1> HIDE DEF c
<1>3. ASSUME NEW i \in 1 .. k + 1, s[i] # Flip
      PROVE  c[RankOf(s, i)] = s[i]
  <2>1. CASE i = k + 1
    BY <1>1, <1>2, <2>1
  <2>2. CASE i # k + 1
    <3>1. i \in 1 .. k
      BY <2>2
    <3>2. RankOf(s, i) \in 1 .. Len(b)
      BY <1>3, <3>1, RankIsAPlace DEF MakesOf
    <3> QED BY <1>2, <1>3, <3>1, <3>2 DEF MakesOf
  <2> QED BY <2>1, <2>2
<1>4. MakesOf(s, k + 1, c)
  BY <1>1, <1>2, <1>3 DEF MakesOf
<1> QED BY <1>4 DEF c

(* A flip is not. *)
LEMMA MakesPastFlip ==
  ASSUME NEW s, NEW k, NEW b, k \in Nat, MakesOf(s, k, b), s[k + 1] = Flip
  PROVE  MakesOf(s, k + 1, b)
<1>1. RankOf(s, k + 1) = Len(b)
  BY RankNext DEF MakesOf
<1>2. \A i \in 1 .. k + 1 : s[i] # Flip => i \in 1 .. k
  OBVIOUS
<1> QED BY <1>1, <1>2 DEF MakesOf

(* What comes behind does not matter. *)
LEMMA MakesSame ==
  ASSUME NEW s, NEW t, NEW k, NEW b, k \in Nat, \A i \in 1 .. k : s[i] = t[i], MakesOf(s, k, b)
  PROVE  MakesOf(t, k, b)
<1>1. \A j \in 0 .. k : RankOf(s, j) = RankOf(t, j)
  BY RankSame
<1>2. k \in 0 .. k /\ \A i \in 1 .. k : i \in 0 .. k
  OBVIOUS
<1> QED BY <1>1, <1>2 DEF MakesOf

(* Where two lengths make a batch there are flips between. *)
LEMMA MakesOnce ==
  ASSUME NEW s, NEW j, NEW k, NEW b, j \in Nat, k \in Nat, j < k,
         MakesOf(s, j, b), MakesOf(s, k, b)
  PROVE  s[j + 1] = Flip
<1>1. \A i \in j + 1 .. k : s[i] = Flip
  BY RankGrows DEF MakesOf
<1> QED BY <1>1

-----------------------------------------------------------------------------
(* Makes, of what is meant now. *)
LEMMA MakesIs == ASSUME NEW k, MakesOf(meant, k, batch) PROVE Makes(k)
BY DEF MakesOf, RankOf, Places, Makes, Rank

(* Makes is about these words and this batch. *)
LEMMA MakesIsOf == ASSUME NEW k, Makes(k) PROVE MakesOf(meant, k, batch)
BY DEF MakesOf, RankOf, Places, Makes, Rank

(* The numbers of the ring. *)
LEMMA RingNumbers ==
  ASSUME RingKept
  PROVE  /\ RingEnd \in Nat \ {0} /\ current \in 0 .. RingEnd /\ getoff \in 0 .. RingEnd
         /\ Len(meant) \in Nat /\ Unread \in 0 .. Len(meant) /\ Walked \in 0 .. Len(meant)
         /\ Walked + Unread = Len(meant)
<1>1. RingEnd \in Nat \ {0} /\ current \in 0 .. RingEnd /\ getoff \in 0 .. RingEnd
  BY FramesAssumption DEF RingKept, FrameTypes
<1>2. Len(meant) \in Nat
  BY LenProperties DEF RingKept, FrameTypes
<1>3. Unread \in Nat
  BY <1>1 DEF RingKept, FrameTypes, TurnFits, Unread, Jumped
<1> QED BY <1>1, <1>2, <1>3 DEF RingKept, NothingOverwritten, Walked

(* The word the walker is at was written and not walked, or is the jump. *)
LEMMA HereIs ==
  ASSUME RingKept, WillWalk, getoff # driver.put
  PROVE  \/ /\ Unread > 0 /\ ~Jumped /\ getoff < current
            /\ mem[getoff] = meant[Walked + 1] /\ mem[getoff] \in Written
            /\ guestAt = "free" => getoff < driver.put
            /\ guestAt = "recycling" => 0 < getoff /\ (driver.put = 0 \/ getoff < driver.put)
         \/ /\ guestAt = "recycling" /\ getoff = RingEnd /\ mem[getoff] = Word("jump", 0)
            /\ driver.put = 0 /\ Unread = 0
<1>1. /\ RingEnd \in Nat \ {0} /\ current \in 0 .. RingEnd /\ getoff \in 0 .. RingEnd
      /\ Len(meant) \in Nat /\ Unread \in 0 .. Len(meant) /\ Walked \in 0 .. Len(meant)
      /\ Walked + Unread = Len(meant)
  BY RingNumbers
<1>2. guestAt \in {"free", "recycling"} /\ driver.put \in Nat /\ put \in Nat
  BY DEF RingKept, FrameTypes
<1>3. CASE getoff < current /\ ~Jumped
  <2>1. Unread > 0
    BY <1>1, <1>3 DEF Unread
  <2>2. mem[getoff] = meant[Walked + 1]
    BY <1>1, <2>1, getoff + 1 - 1 = getoff DEF RingKept, NothingOverwritten
  <2>3. meant[Walked + 1] \in Written
    BY <1>1, <2>1 DEF RingKept, FrameTypes
  <2>4. guestAt = "free" => getoff < driver.put
    BY <1>1, <1>2 DEF RingKept, TurnFits
  <2>5. guestAt = "recycling" => 0 < getoff /\ (driver.put = 0 \/ getoff < driver.put)
    BY <1>1, <1>2, <1>3 DEF RingKept, TurnFits, Jumped
  <2> QED BY <1>3, <2>1, <2>2, <2>3, <2>4, <2>5
<1>4. CASE ~(getoff < current /\ ~Jumped)
  <2>1. guestAt = "recycling"
    BY <1>1, <1>2, <1>4 DEF RingKept, TurnFits, Jumped
  <2>2. getoff # 0 /\ driver.put = 0 /\ getoff = RingEnd
    BY <1>1, <1>2, <1>4, <2>1 DEF RingKept, TurnFits, Jumped
  <2>3. mem[getoff] = Word("jump", 0) /\ Unread = 0
    BY <1>1, <2>1, <2>2 DEF RingKept, TurnFits, Unread, Jumped
  <2> QED BY <2>1, <2>2, <2>3
<1> QED BY <1>3, <1>4

(* Kinds of words are different. *)
LEMMA WrittenKinds ==
  ASSUME NEW w \in Written
  PROVE  w.kind \in {"flip", "clear", "draw"} /\ (w = Flip <=> w.kind = "flip")
BY DEF Written, Flip, Word

(* At the start nothing is written. *)
LEMMA InitFrames == GfInit => FramesInv
<1> SUFFICES ASSUME GfInit PROVE FramesInv
  OBVIOUS
<1>1. RingEnd \in Nat \ {0}
  BY FramesAssumption
<1>2. FrameTypes
  BY <1>1 DEF GfInit, FrameTypes, Waiting, Driver
<1>3. Unread = 0 /\ Walked = 0
  BY DEF GfInit, Unread, Walked
<1>4. NothingOverwritten
  BY <1>3, MakesNothing DEF GfInit, NothingOverwritten
<1>5. TurnFits
  BY DEF GfInit, TurnFits, WillWalk, Waiting, Driver
<1>6. FramesFit /\ SealsFit
  BY DEF GfInit, FramesFit, SealsFit, Waiting, Driver
<1> QED BY <1>2, <1>4, <1>5, <1>6 DEF GfInit, FramesInv, RingKept

-----------------------------------------------------------------------------
(* The guest writes a word behind the others. *)
LEMMA WritesKeep ==
  ASSUME RingKept, NEW w \in Written, Writes(w),
         frame' \in Seq({"clear", "draw"}), number' \in Nat, frame' = <<>> <=> w = Flip,
         w = Flip => frame # <<>>,
         w.kind = "clear" /\ game.clears # "anywhere" => frame = <<>>
  PROVE  RingKept'
<1>1. /\ RingEnd \in Nat \ {0} /\ current \in 0 .. RingEnd /\ getoff \in 0 .. RingEnd
      /\ Len(meant) \in Nat /\ Unread \in 0 .. Len(meant) /\ Walked \in 0 .. Len(meant)
      /\ Walked + Unread = Len(meant)
  BY RingNumbers
<1>2. /\ guestAt = "free" /\ current < RingEnd /\ current' = current + 1
      /\ mem' = [mem EXCEPT ![current] = w] /\ meant' = Append(meant, w)
      /\ UNCHANGED <<game, guestAt, put, getoff, drained, flip_pending, driver, batch>>
  BY DEF Writes, driverVars
<1>3. /\ meant \in Seq(Written) /\ meant' \in Seq(Written) /\ Len(meant') = Len(meant) + 1
      /\ meant'[Len(meant) + 1] = w /\ \A i \in 1 .. Len(meant) : meant'[i] = meant[i]
  BY <1>2, AppendProperties DEF RingKept, FrameTypes
<1>4. Unread = current - getoff /\ Unread' = Unread + 1 /\ Walked' = Walked
  BY <1>1, <1>2, <1>3 DEF Unread, Jumped, Walked
<1>5. FrameTypes'
  BY <1>1, <1>2, <1>3 DEF RingKept, FrameTypes
<1>6. TurnFits'
  <2>1. put \in Nat /\ drained \in Nat /\ driver.put \in Nat
    BY DEF RingKept, FrameTypes
  <2> QED BY <1>1, <1>2, <2>1 DEF RingKept, TurnFits, WillWalk
<1>7. NothingOverwritten'
  <2>1. MakesOf(meant', Walked, batch)
    <3>1. \A i \in 1 .. Walked : meant[i] = meant'[i]
      BY <1>1, <1>3
    <3>2. PICK k \in Nat : k = Walked
      BY <1>1
    <3> QED BY <3>1, <3>2, MakesSame DEF RingKept, NothingOverwritten
  <2>2. ASSUME NEW i \in 1 .. Unread + 1
        PROVE  meant'[Walked + i] = mem'[getoff + i - 1]
    <3>1. CASE i = Unread + 1
      <4>1. getoff + i - 1 = current /\ Walked + i = Len(meant) + 1
        BY <1>1, <1>4, <3>1
      <4>2. mem'[current] = w
        BY <1>1, <1>2 DEF RingKept, FrameTypes
      <4> QED BY <1>3, <4>1, <4>2
    <3>2. CASE i # Unread + 1
      <4>1. i \in 1 .. Unread /\ Walked + i \in 1 .. Len(meant)
        BY <1>1, <3>2
      <4>2. getoff + i - 1 \in 0 .. RingEnd /\ getoff + i - 1 # current
        BY <1>1, <1>2, <1>4, <4>1
      <4>3. mem'[getoff + i - 1] = mem[getoff + i - 1]
        BY <1>2, <4>2 DEF RingKept, FrameTypes
      <4> QED BY <1>3, <4>1, <4>3 DEF RingKept, NothingOverwritten
    <3> QED BY <3>1, <3>2
  <2>3. Unread' <= Len(meant')
    BY <1>1, <1>3, <1>4
  <2>4. MakesOf(meant', Walked', batch')
    BY <1>2, <1>4, <2>1
  <2>5. \A i \in 1 .. Unread' : meant'[Walked' + i] = mem'[getoff' + i - 1]
    BY <1>2, <1>4, <2>2
  <2> QED BY <2>3, <2>4, <2>5 DEF NothingOverwritten
<1>8. FramesFit'
  <2>1. w.kind = "clear" => w # Flip
    BY WrittenKinds
  <2>2. ASSUME NEW i \in 1 .. Len(meant') - 1
        PROVE  /\ meant'[i] = Flip => meant'[i + 1] # Flip
               /\ game.clears # "anywhere" => (meant'[i + 1].kind = "clear" => meant'[i] = Flip)
    <3>1. CASE i = Len(meant)
      <4>1. meant'[i] = meant[i] /\ meant'[i + 1] = w /\ Len(meant) > 0
        BY <1>1, <1>3, <2>2, <3>1
      <4> QED BY <3>1, <4>1 DEF RingKept, FramesFit
    <3>2. CASE i # Len(meant)
      <4>1. i \in 1 .. Len(meant) - 1 /\ i \in 1 .. Len(meant) /\ i + 1 \in 1 .. Len(meant)
        BY <1>1, <1>3, <3>2
      <4>2. meant'[i] = meant[i] /\ meant'[i + 1] = meant[i + 1]
        BY <1>3, <4>1
      <4> QED BY <4>1, <4>2 DEF RingKept, FramesFit
    <3> QED BY <3>1, <3>2
  <2> QED BY <1>1, <1>2, <1>3, <2>2 DEF FramesFit
<1>9. SealsFit'
  <2>1. Walked > 0 => meant'[Walked] = meant[Walked]
    BY <1>1, <1>3
  <2>2. driver.at = "submit" /\ driver.then = "walk" => getoff < current
    BY <1>1, <1>2 DEF RingKept, FrameTypes, TurnFits, WillWalk, SealsFit
  <2>3. getoff < current => mem'[getoff] = mem[getoff]
    BY <1>1, <1>2 DEF RingKept, FrameTypes
  <2> QED BY <1>2, <1>4, <2>1, <2>2, <2>3 DEF RingKept, SealsFit
<1> QED BY <1>5, <1>6, <1>7, <1>8, <1>9 DEF RingKept

(* The guest's other steps move no word. *)
LEMMA GuestKeeps ==
  ASSUME RingKept, game.patient, Flush \/ Recycle \/ Recycled
  PROVE  RingKept'
<1>1. /\ RingEnd \in Nat \ {0} /\ current \in 0 .. RingEnd /\ getoff \in 0 .. RingEnd
      /\ Len(meant) \in Nat /\ Unread \in 0 .. Len(meant) /\ Walked \in 0 .. Len(meant)
      /\ Walked + Unread = Len(meant)
  BY RingNumbers
<1>2. UNCHANGED <<game, number, frame, meant, getoff, drained, flip_pending, driver, batch>>
  BY DEF Flush, Recycle, Recycled, driverVars
<1>3. put \in Nat /\ drained \in Nat /\ driver.put \in Nat /\ guestAt \in {"free", "recycling"}
  BY DEF RingKept, FrameTypes
<1>4. Unread' = Unread /\ Walked' = Walked
  <2>1. Unread' = Unread
    BY <1>1, <1>2, <1>3 DEF Flush, Recycle, Recycled, RingKept, TurnFits, Unread, Jumped, HasTurned, IsDrained
  <2> QED BY <1>2, <2>1 DEF Walked
<1>5. \A i \in 0 .. RingEnd : i # RingEnd => mem'[i] = mem[i]
  BY <1>1 DEF Flush, Recycle, Recycled, RingKept, FrameTypes
<1>6. FrameTypes'
  <2>1. DOMAIN mem' = 0 .. RingEnd /\ current' \in 0 .. RingEnd /\ put' \in Nat
    BY <1>1, <1>3 DEF Flush, Recycle, Recycled, RingKept, FrameTypes
  <2>2. guestAt' \in {"free", "recycling"}
    BY <1>3 DEF Flush, Recycle, Recycled
  <2> QED BY <1>1, <1>2, <1>3, <2>1, <2>2 DEF RingKept, FrameTypes
<1>7. TurnFits'
  <2>1. CASE Flush
    BY <1>1, <1>2, <1>3, <2>1 DEF RingKept, TurnFits, WillWalk, Flush
  <2>2. CASE Recycle
    <3>1. mem'[RingEnd] = Word("jump", 0)
      BY <1>1, <2>2 DEF Recycle, RingKept, FrameTypes
    <3>2. 0 < getoff /\ drained # 0
      BY <1>1, <1>3, <2>2 DEF Recycle, RingKept, TurnFits, HasTurned
    <3> QED BY <1>1, <1>2, <1>3, <2>2, <3>1, <3>2 DEF RingKept, TurnFits, WillWalk, Recycle
  <2>3. CASE Recycled
    BY <1>1, <1>2, <1>3, <2>3 DEF RingKept, TurnFits, WillWalk, Recycled, IsDrained
  <2> QED BY <2>1, <2>2, <2>3
<1>8. NothingOverwritten'
  <2>1. ASSUME NEW i \in 1 .. Unread
        PROVE  mem'[getoff + i - 1] = mem[getoff + i - 1]
    <3>1. getoff + i - 1 \in 0 .. RingEnd /\ getoff + i - 1 # RingEnd
      BY <1>1 DEF Unread
    <3> QED BY <1>5, <3>1
  <2>2. \A i \in 1 .. Unread : meant[Walked + i] = mem'[getoff + i - 1]
    BY <2>1 DEF RingKept, NothingOverwritten
  <2>3. \A i \in 1 .. Unread' : meant'[Walked' + i] = mem'[getoff' + i - 1]
    BY <1>2, <1>4, <2>2
  <2>4. Unread' <= Len(meant') /\ MakesOf(meant', Walked', batch')
    BY <1>1, <1>2, <1>4 DEF RingKept, NothingOverwritten
  <2> QED BY <2>3, <2>4 DEF NothingOverwritten
<1>9. FramesFit'
  BY <1>2 DEF RingKept, FramesFit
<1>10. SealsFit'
  <2>1. ASSUME driver.at = "submit", driver.then = "walk"
        PROVE  mem'[getoff] = mem[getoff]
    <3>1. mem[getoff].kind = "clear" /\ getoff # driver.put /\ WillWalk
      BY <2>1 DEF RingKept, SealsFit, WillWalk
    <3>2. getoff # RingEnd
      BY <1>1, <3>1, HereIs DEF Word
    <3> QED BY <1>1, <1>5, <3>2
  <2> QED BY <1>2, <1>4, <2>1 DEF RingKept, SealsFit
<1> QED BY <1>6, <1>7, <1>8, <1>9, <1>10 DEF RingKept

(* Steps of the driver and the main thread that walk no word. *)
LEMMA IdleKeep ==
  ASSUME RingKept, UNCHANGED <<game, guestVars, getoff, batch>>,
         drained' = drained \/ drained' = getoff,
         driver' \in [at : {"wait", "present", "submit", "begin", "walk", "publish"}, put : Nat,
                      then : {"wait", "begin", "walk"}],
         driver'.at # "submit", driver'.at = "walk" => driver'.put = put \/ (WillWalk /\ driver'.put = driver.put),
         flip_pending' => flip_pending /\ driver'.at \in {"wait", "present", "publish"}
  PROVE  RingKept'
<1>1. /\ RingEnd \in Nat \ {0} /\ current \in 0 .. RingEnd /\ getoff \in 0 .. RingEnd
      /\ Len(meant) \in Nat /\ Unread \in 0 .. Len(meant) /\ Walked \in 0 .. Len(meant)
      /\ Walked + Unread = Len(meant)
  BY RingNumbers
<1>2. UNCHANGED <<mem, current, guestAt, number, put, frame, meant>>
  BY DEF guestVars
<1>3. put \in Nat /\ drained \in Nat /\ driver.put \in Nat /\ guestAt \in {"free", "recycling"}
  BY DEF RingKept, FrameTypes
<1>4. Unread' = Unread /\ Walked' = Walked
  BY <1>2 DEF Unread, Walked, Jumped
<1>5. FrameTypes'
  BY <1>1, <1>2 DEF RingKept, FrameTypes
<1>6. TurnFits'
  <2>1. WillWalk' => driver'.put = put \/ (WillWalk /\ driver'.put = driver.put)
    BY DEF WillWalk
  <2> HIDE DEF WillWalk
  <2> QED BY <1>1, <1>2, <1>3, <2>1 DEF RingKept, TurnFits
<1>7. NothingOverwritten'
  BY <1>2, <1>4 DEF RingKept, NothingOverwritten
<1>8. FramesFit' /\ SealsFit'
  BY <1>2, <1>4 DEF RingKept, FramesFit, SealsFit
<1> QED BY <1>5, <1>6, <1>7, <1>8 DEF RingKept

(* The walker goes on behind a word. *)
LEMMA StepsOn ==
  ASSUME RingKept, driver.at = "walk", getoff # driver.put, mem[getoff].kind # "jump",
         UNCHANGED <<game, guestVars, drained>>, getoff' = getoff + 1
  PROVE  /\ Unread > 0 /\ mem[getoff] = meant[Walked + 1] /\ mem[getoff] \in Written
         /\ Unread' = Unread - 1 /\ Walked' = Walked + 1
         /\ getoff' \in 0 .. RingEnd
         /\ \A i \in 1 .. Unread' : meant'[Walked' + i] = mem'[getoff' + i - 1]
         /\ driver'.put = driver.put \/ ~WillWalk' => TurnFits'
<1>1. /\ RingEnd \in Nat \ {0} /\ current \in 0 .. RingEnd /\ getoff \in 0 .. RingEnd
      /\ Len(meant) \in Nat /\ Unread \in 0 .. Len(meant) /\ Walked \in 0 .. Len(meant)
      /\ Walked + Unread = Len(meant)
  BY RingNumbers
<1>2. UNCHANGED <<mem, current, guestAt, number, put, frame, meant>>
  BY DEF guestVars
<1>3. put \in Nat /\ drained \in Nat /\ driver.put \in Nat /\ guestAt \in {"free", "recycling"}
  BY DEF RingKept, FrameTypes
<1>4. WillWalk
  BY DEF WillWalk
<1>5. /\ Unread > 0 /\ ~Jumped /\ getoff < current
      /\ mem[getoff] = meant[Walked + 1] /\ mem[getoff] \in Written
      /\ guestAt = "free" => getoff < driver.put
      /\ guestAt = "recycling" => 0 < getoff /\ (driver.put = 0 \/ getoff < driver.put)
  BY <1>4, HereIs DEF Word
<1>6. Unread' = Unread - 1 /\ Walked' = Walked + 1
  <2>1. Unread = current - getoff /\ Unread' = current - (getoff + 1)
    BY <1>1, <1>2, <1>5 DEF Unread, Jumped
  <2> QED BY <1>1, <1>2, <2>1 DEF Walked
<1>7. ASSUME NEW i \in 1 .. Unread - 1
      PROVE  meant[Walked + 1 + i] = mem[getoff + 1 + i - 1]
  <2>1. i + 1 \in 1 .. Unread /\ Walked + 1 + i = Walked + (i + 1) /\ getoff + 1 + i - 1 = getoff + (i + 1) - 1
    BY <1>1
  <2> QED BY <2>1 DEF RingKept, NothingOverwritten
<1>8. \A i \in 1 .. Unread' : meant'[Walked' + i] = mem'[getoff' + i - 1]
  BY <1>2, <1>6, <1>7
<1>9. ASSUME driver'.put = driver.put \/ ~WillWalk' PROVE TurnFits'
  <2> HIDE DEF WillWalk
  <2> QED BY <1>1, <1>2, <1>3, <1>4, <1>5, <1>9 DEF RingKept, TurnFits
<1> QED BY <1>1, <1>5, <1>6, <1>8, <1>9

(* A word is recorded. *)
LEMMA RecordsKeep ==
  ASSUME RingKept, WalkRecords
  PROVE  RingKept'
<1>1. /\ RingEnd \in Nat \ {0} /\ current \in 0 .. RingEnd /\ getoff \in 0 .. RingEnd
      /\ Len(meant) \in Nat /\ Unread \in 0 .. Len(meant) /\ Walked \in 0 .. Len(meant)
      /\ Walked + Unread = Len(meant)
  BY RingNumbers
<1>2. /\ driver.at = "walk" /\ getoff # driver.put /\ mem[getoff].kind \in {"clear", "draw"}
      /\ getoff' = getoff + 1 /\ batch' = Append(batch, mem[getoff])
      /\ UNCHANGED <<game, guestVars, drained, flip_pending, driver>>
  BY DEF WalkRecords, AtWord, Here
<1>3. /\ Unread > 0 /\ mem[getoff] = meant[Walked + 1] /\ mem[getoff] \in Written
      /\ Unread' = Unread - 1 /\ Walked' = Walked + 1 /\ getoff' \in 0 .. RingEnd
      /\ \A i \in 1 .. Unread' : meant'[Walked' + i] = mem'[getoff' + i - 1]
      /\ TurnFits'
  BY <1>2, StepsOn
<1>4. batch' \in Seq(Written) /\ batch' # <<>>
  BY <1>2, <1>3, AppendProperties DEF RingKept, FrameTypes
<1>5. UNCHANGED <<mem, current, guestAt, number, put, frame, meant>>
  BY <1>2 DEF guestVars
<1>6. FrameTypes'
  BY <1>2, <1>3, <1>4, <1>5 DEF RingKept, FrameTypes
<1>7. MakesOf(meant, Walked + 1, batch')
  <2>1. mem[getoff] # Flip
    BY <1>2, <1>3, WrittenKinds
  <2>2. PICK k \in Nat : k = Walked
    BY <1>1
  <2>3. meant[k + 1] # Flip /\ meant[k + 1] \in Written /\ MakesOf(meant, k, batch) /\ batch \in Seq(Written)
    BY <1>3, <2>1, <2>2 DEF RingKept, NothingOverwritten, FrameTypes
  <2>4. MakesOf(meant, k + 1, Append(batch, meant[k + 1]))
    BY <2>3, MakesMore
  <2> QED BY <1>2, <1>3, <2>2, <2>4
<1>8. NothingOverwritten'
  <2>1. MakesOf(meant', Walked', batch')
    BY <1>3, <1>5, <1>7
  <2>2. Unread' <= Len(meant')
    BY <1>1, <1>3, <1>5
  <2> QED BY <1>3, <2>1, <2>2 DEF NothingOverwritten
<1>9. FramesFit'
  BY <1>2, <1>5 DEF RingKept, FramesFit
<1>10. SealsFit'
  BY <1>2 DEF RingKept, SealsFit
<1> QED BY <1>3, <1>6, <1>8, <1>9, <1>10 DEF RingKept

(* A flip ends the walk, and no word is skipped. *)
LEMMA FlipsKeep ==
  ASSUME RingKept, WalkFlips \/ WalkSkips
  PROVE  RingKept'
<1>1. /\ RingEnd \in Nat \ {0} /\ current \in 0 .. RingEnd /\ getoff \in 0 .. RingEnd
      /\ Len(meant) \in Nat /\ Unread \in 0 .. Len(meant) /\ Walked \in 0 .. Len(meant)
      /\ Walked + Unread = Len(meant)
  BY RingNumbers
<1>2. /\ driver.at = "walk" /\ getoff # driver.put /\ mem[getoff].kind \in {"flip", "none"}
      /\ getoff' = getoff + 1
      /\ UNCHANGED <<game, guestVars, drained, batch>>
  BY DEF WalkFlips, WalkSkips, AtWord, Here
<1>3. /\ Unread > 0 /\ mem[getoff] = meant[Walked + 1] /\ mem[getoff] \in Written
      /\ Unread' = Unread - 1 /\ Walked' = Walked + 1 /\ getoff' \in 0 .. RingEnd
      /\ \A i \in 1 .. Unread' : meant'[Walked' + i] = mem'[getoff' + i - 1]
      /\ driver'.put = driver.put \/ ~WillWalk' => TurnFits'
  BY <1>2, StepsOn
<1>4. mem[getoff].kind = "flip" /\ mem[getoff] = Flip
  BY <1>2, <1>3, WrittenKinds
<1>5. flip_pending' = TRUE /\ driver' = Driver("publish", 0, "wait")
  BY <1>4 DEF WalkFlips, WalkSkips, AtWord, Here
<1>6. UNCHANGED <<mem, current, guestAt, number, put, frame, meant>>
  BY <1>2 DEF guestVars
<1>7. FrameTypes'
  BY <1>2, <1>3, <1>5, <1>6 DEF RingKept, FrameTypes, Driver
<1>8. MakesOf(meant, Walked + 1, batch)
  <2>1. PICK k \in Nat : k = Walked
    BY <1>1
  <2> QED BY <1>3, <1>4, <2>1, MakesPastFlip DEF RingKept, NothingOverwritten
<1>9. NothingOverwritten'
  <2>1. MakesOf(meant', Walked', batch')
    BY <1>2, <1>3, <1>6, <1>8
  <2>2. Unread' <= Len(meant')
    BY <1>1, <1>3, <1>6
  <2> QED BY <1>3, <2>1, <2>2 DEF NothingOverwritten
<1>10. FramesFit'
  BY <1>2, <1>6 DEF RingKept, FramesFit
<1>11. SealsFit'
  <2>1. driver'.at = "publish"
    BY <1>5 DEF Driver
  <2>2. Walked' > 0
    BY <1>1, <1>3
  <2>3. meant'[Walked'] = Flip
    BY <1>3, <1>4, <1>6
  <2> QED BY <2>1, <2>2, <2>3 DEF SealsFit
<1>12. TurnFits'
  BY <1>3, <1>5 DEF WillWalk, Driver
<1> QED BY <1>7, <1>9, <1>10, <1>11, <1>12 DEF RingKept

(* The jump is taken when the last word before it was walked. *)
LEMMA JumpsKeep ==
  ASSUME RingKept, WalkJumps
  PROVE  RingKept'
<1>1. /\ RingEnd \in Nat \ {0} /\ current \in 0 .. RingEnd /\ getoff \in 0 .. RingEnd
      /\ Len(meant) \in Nat /\ Unread \in 0 .. Len(meant) /\ Walked \in 0 .. Len(meant)
      /\ Walked + Unread = Len(meant)
  BY RingNumbers
<1>2. /\ WillWalk /\ driver.at = "walk" /\ getoff # driver.put /\ mem[getoff].kind = "jump"
      /\ getoff' = mem[getoff].n
      /\ UNCHANGED <<game, guestVars, drained, flip_pending, driver, batch>>
  BY DEF WalkJumps, AtWord, Here, JumpTarget, WillWalk
<1>3. mem[getoff] \notin Written
  BY <1>2, WrittenKinds
<1>4. /\ guestAt = "recycling" /\ getoff = RingEnd /\ mem[getoff] = Word("jump", 0)
      /\ driver.put = 0 /\ Unread = 0
  BY <1>2, <1>3, HereIs
<1>5. getoff' = 0
  BY <1>2, <1>4 DEF Word
<1>6. UNCHANGED <<mem, current, guestAt, number, put, frame, meant>>
  BY <1>2 DEF guestVars
<1>7. Unread' = 0 /\ Walked' = Walked
  BY <1>1, <1>4, <1>5, <1>6 DEF Unread, Jumped, Walked
<1>8. FrameTypes'
  BY <1>1, <1>2, <1>5, <1>6 DEF RingKept, FrameTypes
<1>9. TurnFits'
  BY <1>2, <1>4, <1>5, <1>6 DEF RingKept, TurnFits, WillWalk
<1>10. NothingOverwritten'
  BY <1>1, <1>2, <1>6, <1>7 DEF RingKept, NothingOverwritten
<1>11. FramesFit' /\ SealsFit'
  BY <1>2, <1>6, <1>7 DEF RingKept, FramesFit, SealsFit
<1> QED BY <1>8, <1>9, <1>10, <1>11 DEF RingKept

(* A batch is submitted for the flip that was walked last, or the clear that is next. *)
LEMMA EndsKeep ==
  ASSUME RingKept,
         \/ WalkEndsBatch
         \/ Present /\ flip_pending /\ driver' = Driver("submit", 0, "begin") /\ Draws
  PROVE  RingKept'
<1>1. UNCHANGED <<game, mem, current, guestAt, number, put, frame, meant, getoff, drained, batch>>
  BY DEF WalkEndsBatch, Present, guestVars
<1>2. batch # <<>>
  BY EmptySeq DEF WalkEndsBatch, EndsBatch, Draws
<1>3. Unread' = Unread /\ Walked' = Walked
  BY <1>1 DEF Unread, Walked, Jumped
<1>4. FrameTypes'
  BY <1>1 DEF RingKept, FrameTypes, WalkEndsBatch, Present, Driver
<1>5. NothingOverwritten' /\ FramesFit'
  BY <1>1, <1>3 DEF RingKept, NothingOverwritten, FramesFit
<1>6. CASE WalkEndsBatch
  <2>1. /\ driver.at = "walk" /\ driver' = Driver("submit", driver.put, "walk") /\ flip_pending' = flip_pending
        /\ getoff # driver.put /\ mem[getoff].kind = "clear"
    BY <1>6 DEF WalkEndsBatch, AtWord, EndsBatch, Here
  <2>2. TurnFits'
    BY <1>1, <2>1 DEF RingKept, TurnFits, WillWalk, Driver
  <2>3. SealsFit'
    BY <1>1, <1>2, <1>3, <2>1 DEF RingKept, SealsFit, Driver
  <2> QED BY <1>4, <1>5, <2>2, <2>3 DEF RingKept
<1>7. CASE Present /\ flip_pending /\ driver' = Driver("submit", 0, "begin")
  <2>1. TurnFits'
    BY <1>1, <1>7 DEF RingKept, TurnFits, WillWalk, Driver
  <2>2. flip_pending' = FALSE
    BY <1>7 DEF Present
  <2>3. SealsFit'
    BY <1>1, <1>2, <1>3, <1>7, <2>2 DEF RingKept, SealsFit, Driver
  <2> QED BY <1>4, <1>5, <2>1, <2>3 DEF RingKept
<1> QED BY <1>6, <1>7

(* The batch is the walked words, and no more: the next word is no flip. *)
LEMMA MadeIs ==
  ASSUME RingKept, driver.at = "submit"
  PROVE  Made # {} /\ Max(Made) = Walked
<1>1. /\ RingEnd \in Nat \ {0} /\ current \in 0 .. RingEnd /\ getoff \in 0 .. RingEnd
      /\ Len(meant) \in Nat /\ Unread \in 0 .. Len(meant) /\ Walked \in 0 .. Len(meant)
      /\ Walked + Unread = Len(meant)
  BY RingNumbers
<1>2. PICK k \in Nat : k = Walked
  BY <1>1
<1>3. k \in Made
  BY <1>1, <1>2, MakesIs DEF RingKept, NothingOverwritten, Made
<1>4. ASSUME NEW j \in Made, j > k PROVE FALSE
  <2>1. j \in Nat /\ j <= Len(meant) /\ MakesOf(meant, j, batch) /\ MakesOf(meant, k, batch)
    BY <1>1, <1>2, <1>4, MakesIsOf DEF Made, RingKept, NothingOverwritten
  <2>2. meant[k + 1] = Flip
    BY <1>4, <2>1, MakesOnce
  <2>3. Unread > 0 /\ k \in 0 .. Len(meant) - 1
    BY <1>1, <1>2, <1>4, <2>1
  <2>4. CASE driver.then = "begin"
    <3>1. k > 0 /\ meant[k] = Flip
      BY <1>2, <2>4 DEF RingKept, SealsFit
    <3>2. k \in 1 .. Len(meant) - 1
      BY <2>3, <3>1
    <3> QED BY <2>2, <3>1, <3>2 DEF RingKept, FramesFit
  <2>5. CASE driver.then = "walk"
    <3>1. WillWalk /\ getoff # driver.put /\ mem[getoff].kind = "clear"
      BY <2>5 DEF RingKept, SealsFit, WillWalk
    <3>2. mem[getoff] = meant[k + 1]
      BY <1>2, <2>3, <3>1, HereIs
    <3> QED BY <2>2, <3>1, <3>2 DEF Flip, Word
  <2> QED BY <2>4, <2>5 DEF RingKept, SealsFit
<1>5. \A j \in Made : j \in Nat /\ k >= j
  BY <1>1, <1>4 DEF Made
<1>6. Max(Made) = k
  <2>1. \A x \in Made : (\A j \in Made : x >= j) => x = k
    BY <1>3, <1>5
  <2> QED BY <1>3, <1>5, <2>1 DEF Max
<1> QED BY <1>2, <1>3, <1>6

(* The words that were submitted are done with. *)
LEMMA SubmitsKeep ==
  ASSUME RingKept, Submit
  PROVE  RingKept'
<1>1. /\ RingEnd \in Nat \ {0} /\ current \in 0 .. RingEnd /\ getoff \in 0 .. RingEnd
      /\ Len(meant) \in Nat /\ Unread \in 0 .. Len(meant) /\ Walked \in 0 .. Len(meant)
      /\ Walked + Unread = Len(meant)
  BY RingNumbers
<1>2. /\ driver.at = "submit" /\ driver.then \in {"begin", "walk"} /\ ~flip_pending
  BY DEF Submit, RingKept, SealsFit
<1>3. /\ batch' = <<>> /\ driver' = Driver(driver.then, driver.put, "wait")
      /\ meant' = SubSeq(meant, 1 + Walked, Len(meant))
      /\ UNCHANGED <<game, mem, current, guestAt, number, frame, put, getoff, drained, flip_pending>>
  BY <1>2, MadeIs DEF Submit
<1>4. /\ meant' \in Seq(Written) /\ Len(meant') = Unread
      /\ \A i \in 1 .. Unread : meant'[i] = meant[Walked + i]
  <2>1. \A i \in 1 + Walked .. Len(meant) : meant[i] \in Written
    BY <1>1 DEF RingKept, FrameTypes
  <2>2. PICK m \in Int, n \in Int : m = 1 + Walked /\ n = Len(meant)
    BY <1>1
  <2>3. /\ SubSeq(meant, m, n) \in Seq(Written)
        /\ Len(SubSeq(meant, m, n)) = IF m <= n THEN n - m + 1 ELSE 0
        /\ \A i \in 1 .. n - m + 1 : SubSeq(meant, m, n)[i] = meant[m + i - 1]
    BY <2>1, <2>2, SubSeqProperties
  <2>4. n - m + 1 = Unread /\ Unread = IF m <= n THEN n - m + 1 ELSE 0
    BY <1>1, <2>2
  <2>5. \A i \in 1 .. Unread : m + i - 1 = Walked + i
    BY <1>1, <2>2
  <2>6. meant' = SubSeq(meant, m, n)
    BY <1>3, <2>2
  <2>7. \A i \in 1 .. Unread : meant'[i] = meant[Walked + i]
    BY <2>3, <2>4, <2>5, <2>6
  <2> QED BY <2>3, <2>4, <2>6, <2>7
<1>5. Unread' = Unread /\ Walked' = 0
  <2>1. Unread' = Unread
    BY <1>3 DEF Unread, Jumped
  <2> QED BY <1>1, <1>4, <2>1 DEF Walked
<1>6. FrameTypes'
  BY <1>2, <1>3, <1>4 DEF RingKept, FrameTypes, Driver
<1>7. TurnFits'
  BY <1>2, <1>3 DEF RingKept, TurnFits, WillWalk, Driver
<1>8. NothingOverwritten'
  <2>1. MakesOf(meant', Walked', batch')
    BY <1>3, <1>5, MakesNothing
  <2>2. ASSUME NEW i \in 1 .. Unread
        PROVE  meant'[0 + i] = mem[getoff + i - 1]
    BY <1>4 DEF RingKept, NothingOverwritten
  <2>3. Unread' <= Len(meant')
    BY <1>1, <1>4, <1>5
  <2>4. \A i \in 1 .. Unread' : meant'[Walked' + i] = mem'[getoff' + i - 1]
    <3>1. Unread' = Unread /\ Walked' = 0 /\ mem' = mem /\ getoff' = getoff
      BY <1>3, <1>5
    <3> QED BY <2>2, <3>1
  <2> QED BY <2>1, <2>3, <2>4 DEF NothingOverwritten
<1>9. FramesFit'
  <2>1. ASSUME NEW i \in 1 .. Len(meant') - 1
        PROVE  /\ meant'[i] = Flip => meant'[i + 1] # Flip
               /\ game.clears # "anywhere" => (meant'[i + 1].kind = "clear" => meant'[i] = Flip)
    <3>1. i \in 1 .. Unread /\ i + 1 \in 1 .. Unread
      BY <1>1, <1>4
    <3>2. meant'[i] = meant[Walked + i] /\ meant'[i + 1] = meant[Walked + (i + 1)]
      BY <1>4, <3>1
    <3>3. Walked + i \in 1 .. Len(meant) - 1 /\ Walked + (i + 1) = Walked + i + 1
      BY <1>1, <3>1
    <3> QED BY <3>2, <3>3 DEF RingKept, FramesFit
  <2>2. Len(meant') > 0 => meant'[Len(meant')] = meant[Len(meant)] /\ Len(meant) > 0
    BY <1>1, <1>4
  <2> QED BY <1>3, <2>1, <2>2 DEF RingKept, FramesFit
<1>10. SealsFit'
  BY <1>2, <1>3 DEF SealsFit, Driver
<1> QED BY <1>6, <1>7, <1>8, <1>9, <1>10 DEF RingKept

(* It does not matter what the main thread does. *)
LEMMA StutterKeeps ==
  ASSUME RingKept, UNCHANGED <<game, guestVars, driverVars>>
  PROVE  RingKept'
<1>1. UNCHANGED <<game, mem, current, guestAt, number, put, frame, meant, getoff, drained, flip_pending,
                  driver, batch>>
  BY DEF guestVars, driverVars
<1>2. Unread' = Unread /\ Walked' = Walked
  BY <1>1 DEF Unread, Walked, Jumped
<1>3. FrameTypes' /\ TurnFits'
  BY <1>1 DEF RingKept, FrameTypes, TurnFits, WillWalk
<1>4. NothingOverwritten' /\ FramesFit' /\ SealsFit'
  BY <1>1, <1>2 DEF RingKept, NothingOverwritten, FramesFit, SealsFit
<1> QED BY <1>3, <1>4 DEF RingKept

(* What happens between walks. *)
LEMMA IdleStepsKeep ==
  ASSUME RingKept,
         \/ Poll \/ Vblank \/ BeginWalk \/ WalkEnds \/ Publish
         \/ (Present /\ ~(flip_pending /\ ~Held /\ Draws))
         \/ ExecuteBatch \/ (\E closed \in BOOLEAN : Leave(closed)) \/ StopDriver \/ JoinDriver
  PROVE  RingKept'
<1>1. put \in Nat /\ driver.put \in Nat
  BY DEF RingKept, FrameTypes
<1>2. CASE Poll \/ Vblank \/ BeginWalk \/ WalkEnds \/ Publish \/ (Present /\ ~(flip_pending /\ ~Held /\ Draws))
  <2>1. UNCHANGED <<game, guestVars, getoff, batch>> /\ (drained' = drained \/ drained' = getoff)
    BY <1>2 DEF Poll, Vblank, BeginWalk, WalkEnds, Publish, Present
  <2>2. \/ driver' = Driver("begin", 0, "wait") /\ ~flip_pending'
        \/ driver' = Driver("present", 0, "wait") /\ flip_pending' = flip_pending
        \/ driver' = Driver("walk", put, "wait") /\ driver.at = "begin" /\ flip_pending' = flip_pending
        \/ driver' = Driver("publish", 0, "wait") /\ flip_pending' = flip_pending
        \/ driver' = Driver("wait", 0, "wait") /\ flip_pending' = flip_pending
    BY <1>2 DEF Poll, MayPoll, Vblank, BeginWalk, WalkEnds, Publish, Present, Waiting
  <2>3. driver' \in [at : {"wait", "present", "submit", "begin", "walk", "publish"}, put : Nat,
                     then : {"wait", "begin", "walk"}]
    BY <1>1, <2>2 DEF Driver
  <2>4. driver'.at # "submit" /\ (driver'.at = "walk" => driver'.put = put)
    BY <2>2 DEF Driver
  <2>5. flip_pending' => flip_pending /\ driver'.at \in {"wait", "present", "publish"}
    <3>1. driver.at = "begin" => ~flip_pending
      BY DEF RingKept, SealsFit
    <3>2. flip_pending' => /\ flip_pending
                           /\ driver' \in {Driver("present", 0, "wait"), Driver("publish", 0, "wait"),
                                          Driver("wait", 0, "wait")}
      BY <2>2, <3>1
    <3> QED BY <3>2 DEF Driver
  <2> QED BY <2>1, <2>3, <2>4, <2>5, IdleKeep
<1>3. CASE ExecuteBatch \/ (\E closed \in BOOLEAN : Leave(closed)) \/ StopDriver \/ JoinDriver
  <2>1. UNCHANGED <<game, guestVars, driverVars>>
    BY <1>3 DEF ExecuteBatch, Leave, StopDriver, JoinDriver
  <2> QED BY <2>1, StutterKeeps
<1> QED BY <1>2, <1>3

(* Every step keeps the ring of a guest that waits for the driver. *)
LEMMA NextFrames == FramesInv /\ [GfNext]_gfVars => FramesInv'
<1> SUFFICES ASSUME FramesInv, [GfNext]_gfVars PROVE FramesInv'
  OBVIOUS
<1>1. game' = game
  BY DEF GfNext, WriteWord, WriteFlip, Writes, Flush, Recycle, Recycled, Poll, DriverStep, Vblank, Present,
     Submit, BeginWalk, WalkStep, WalkEndsBatch, WalkRecords, WalkJumps, WalkSkips, WalkFlips, WalkEnds,
     Publish, ExecuteBatch, Leave, StopDriver, JoinDriver, gfVars
<1> SUFFICES ASSUME game.patient PROVE RingKept'
  BY <1>1 DEF FramesInv
<1>2. RingKept
  BY DEF FramesInv
<1>3. CASE \E kind \in {"clear", "draw"} : WriteWord(kind)
  <2>1. PICK kind \in {"clear", "draw"} : WriteWord(kind)
    BY <1>3
  <2>2. number \in Nat /\ Numbers \in Nat \ {0} /\ frame \in Seq({"clear", "draw"})
    BY <1>2, FramesAssumption DEF RingKept, FrameTypes
  <2>3. PICK w : w = Word(kind, number)
    OBVIOUS
  <2>4. w \in Written /\ w # Flip /\ w.kind = kind
    BY <2>2, <2>3 DEF Written, Flip, Word
  <2>5. frame' \in Seq({"clear", "draw"}) /\ frame' # <<>>
    BY <2>1, <2>2, AppendProperties DEF WriteWord
  <2>6. number' \in Nat
    BY <2>1, <2>2 DEF WriteWord
  <2>7. w.kind = "clear" /\ game.clears # "anywhere" => frame = <<>>
    BY <2>1, <2>4 DEF WriteWord, MayClear
  <2>8. Writes(w)
    BY <2>1, <2>3 DEF WriteWord
  <2> QED BY <1>2, <2>4, <2>5, <2>6, <2>7, <2>8, WritesKeep
<1>4. CASE WriteFlip
  <2>1. Writes(Flip) /\ frame' = <<>> /\ frame # <<>> /\ number' = number
    BY <1>4 DEF WriteFlip
  <2>2. Flip \in Written /\ Flip.kind # "clear" /\ <<>> \in Seq({"clear", "draw"}) /\ number \in Nat
    BY <1>2 DEF Written, Flip, Word, RingKept, FrameTypes
  <2>3. PICK w : w = Flip
    OBVIOUS
  <2> QED BY <1>2, <2>1, <2>2, <2>3, WritesKeep
<1>5. CASE Flush \/ Recycle \/ Recycled
  BY <1>2, <1>5, GuestKeeps
<1>6. CASE \/ Poll \/ Vblank \/ BeginWalk \/ WalkEnds \/ Publish
           \/ ExecuteBatch \/ (\E closed \in BOOLEAN : Leave(closed)) \/ StopDriver \/ JoinDriver
  BY <1>2, <1>6, IdleStepsKeep
<1>7. CASE Present
  BY <1>2, <1>7, IdleStepsKeep, EndsKeep DEF Present
<1>13. CASE UNCHANGED gfVars
  BY <1>2, <1>13, StutterKeeps DEF gfVars, guestVars, driverVars
<1>8. CASE WalkEndsBatch
  BY <1>2, <1>8, EndsKeep
<1>9. CASE WalkRecords
  BY <1>2, <1>9, RecordsKeep
<1>10. CASE WalkFlips \/ WalkSkips
  BY <1>2, <1>10, FlipsKeep
<1>11. CASE WalkJumps
  BY <1>2, <1>11, JumpsKeep
<1>12. CASE Submit
  BY <1>2, <1>12, SubmitsKeep
<1> QED BY <1>3, <1>4, <1>5, <1>6, <1>7, <1>8, <1>9, <1>10, <1>11, <1>12, <1>13 DEF GfNext, DriverStep, WalkStep

(* A guest that waits until the driver has turned with it loses no word: every *)
(* batch is what it wrote, once and in order, for any ring, any depth of the   *)
(* queue and any guest, although the ring goes round under the driver          *)
(* (cellGcmSys.c:1106-1145).                                                   *)
THEOREM WordsAreKept == GfSpec => NothingIsLost
<1>1. FramesInv /\ [GfNext]_gfVars => [game.patient /\ Submits => Made # {}]_gfVars
  BY MadeIs DEF FramesInv, Submits
<1> QED BY <1>1, InitFrames, NextFrames, PTL DEF GfSpec, NothingIsLost

(* If it also clears the display before it draws a frame, or never, no batch   *)
(* ends within a frame: what is submitted ends with a flip                     *)
(* (frame_driver.cpp:158-162, cellGcmSys.c:947-951).                           *)
THEOREM FramesStayWhole == GfSpec => FramesAreWhole
<1>1. ASSUME FramesInv, game.patient, game.clears # "anywhere", driver.at = "submit"
      PROVE  \E k \in Made \ {0} : meant[k] = Flip
  <2>1. RingKept
    BY <1>1 DEF FramesInv
  <2>2. /\ RingEnd \in Nat \ {0} /\ current \in 0 .. RingEnd /\ getoff \in 0 .. RingEnd
        /\ Len(meant) \in Nat /\ Unread \in 0 .. Len(meant) /\ Walked \in 0 .. Len(meant)
        /\ Walked + Unread = Len(meant)
    BY <2>1, RingNumbers
  <2>3. PICK k \in Nat : k = Walked
    BY <2>2
  <2>4. k \in Made
    BY <2>1, <2>2, <2>3, MakesIs DEF RingKept, NothingOverwritten, Made
  <2>5. k > 0
    <3>1. Len(batch) > 0
      BY <1>1, <2>1, EmptySeq DEF RingKept, SealsFit, FrameTypes
    <3> QED BY <2>1, <2>3, <3>1, RankZero DEF RingKept, NothingOverwritten, MakesOf
  <2>6. CASE driver.then = "begin"
    <3>1. meant[k] = Flip
      BY <1>1, <2>1, <2>3, <2>6 DEF RingKept, SealsFit
    <3> QED BY <2>4, <2>5, <3>1
  <2>7. CASE driver.then = "walk"
    <3>1. WillWalk /\ getoff # driver.put /\ mem[getoff].kind = "clear"
      BY <1>1, <2>1, <2>7 DEF RingKept, SealsFit, WillWalk
    <3>2. mem[getoff] = meant[k + 1] /\ Unread > 0
      BY <2>1, <2>3, <3>1, HereIs DEF Word
    <3>3. k \in 1 .. Len(meant) - 1
      BY <2>2, <2>3, <2>5, <3>2
    <3>4. meant[k] = Flip
      BY <1>1, <2>1, <3>1, <3>2, <3>3 DEF RingKept, FramesFit
    <3> QED BY <2>4, <2>5, <3>4
  <2> QED BY <1>1, <2>1, <2>6, <2>7 DEF RingKept, SealsFit
<1>2. FramesInv /\ [GfNext]_gfVars =>
        [game.patient /\ game.clears # "anywhere" /\ Submits =>
           \E k \in Made \ {0} : meant[k] = Flip]_gfVars
  BY <1>1 DEF Submits
<1> QED BY <1>2, InitFrames, NextFrames, PTL DEF GfSpec, FramesAreWhole

-----------------------------------------------------------------------------
(* Ticks *)

Ticking == [at : {"outside", "flips", "word"} \cup Kinds, took : Nat]

CountTypes ==
  /\ pending \in [Kinds -> Nat] /\ ticks \in [Kinds -> 0 .. MaxTicks] /\ delivered \in [Kinds -> Nat]
  /\ pump \in [CallbackThreads -> Ticking]

(* A handler runs for a tick at least, and for no more than there were. *)
HandlersTick == \A t \in PumpThreads : pump[t].at \in Kinds => pump[t].took \in 1 .. MaxTicks

TicksInv == CountTypes /\ HandlersTick /\ TicksAreKept

CallbacksInv == ~Coalesce => TicksInv

(* As many ticks of a handler as it took. *)
Batch(t, n) == {t} \X (1 .. n)

(* A batch has one element for each tick. *)
LEMMA BatchCounts ==
  ASSUME NEW t, NEW n \in Nat
  PROVE  IsFiniteSet(Batch(t, n)) /\ Cardinality(Batch(t, n)) = n
<1>1. IsFiniteSet(1 .. n) /\ Cardinality(1 .. n) = n
  BY FS_Interval
<1>2. IsFiniteSet({t}) /\ Cardinality({t}) = 1
  BY FS_Singleton
<1> QED BY <1>1, <1>2, FS_Product DEF Batch

(* What handlers hold back can be counted. *)
LEMMA HeldIsFinite ==
  ASSUME NEW k
  PROVE  IsFiniteSet(HeldBack(k)) /\ Cardinality(HeldBack(k)) \in Nat
<1>1. IsFiniteSet(1 .. MaxTicks)
  BY FS_Interval, CallbacksAssumption
<1>2. IsFiniteSet(PumpThreads \X (1 .. MaxTicks))
  BY <1>1, FS_Product, CallbacksAssumption
<1>3. HeldBack(k) \subseteq PumpThreads \X (1 .. MaxTicks)
  BY DEF HeldBack
<1> QED BY <1>2, <1>3, FS_Subset, FS_CardinalityType

(* A handler that is entered holds back what it took ... *)
LEMMA HeldGrows ==
  ASSUME TicksInv, NEW t \in PumpThreads, NEW k \in Kinds, NEW n \in 1 .. MaxTicks,
         pump[t].at \notin Kinds, pump' = [pump EXCEPT ![t] = [at |-> k, took |-> n]]
  PROVE  Cardinality(HeldBack(k)') = Cardinality(HeldBack(k)) + n
<1>1. HeldBack(k)' = HeldBack(k) \cup Batch(t, n) /\ HeldBack(k) \cap Batch(t, n) = {}
  BY CallbacksAssumption DEF HeldBack, Batch, TicksInv, CountTypes, CallbackThreads
<1>2. n \in Nat
  BY CallbacksAssumption
<1>3. Cardinality(HeldBack(k) \cup Batch(t, n)) = Cardinality(HeldBack(k)) + Cardinality(Batch(t, n)) - Cardinality({})
  BY <1>1, <1>2, HeldIsFinite, BatchCounts, FS_Union
<1> QED BY <1>1, <1>2, <1>3, HeldIsFinite, BatchCounts, FS_EmptySet

(* ... and gives it up when it returns. *)
LEMMA HeldShrinks ==
  ASSUME TicksInv, NEW t \in PumpThreads, NEW k \in Kinds, NEW a, a \notin Kinds,
         pump[t].at = k, pump' = [pump EXCEPT ![t] = [at |-> a, took |-> 0]]
  PROVE  Cardinality(HeldBack(k)) = Cardinality(HeldBack(k)') + pump[t].took
<1>1. pump[t].took \in 1 .. MaxTicks
  BY DEF TicksInv, HandlersTick
<1>2. PICK n \in Nat : n = pump[t].took /\ n <= MaxTicks
  BY <1>1, CallbacksAssumption
<1>3. HeldBack(k) = HeldBack(k)' \cup Batch(t, n) /\ HeldBack(k)' \cap Batch(t, n) = {}
  BY <1>2, CallbacksAssumption DEF HeldBack, Batch, TicksInv, CountTypes, CallbackThreads
<1>4. IsFiniteSet(HeldBack(k)') /\ Cardinality(HeldBack(k)') \in Nat
  <2>1. HeldBack(k)' \subseteq HeldBack(k)
    BY <1>3
  <2> QED BY <2>1, HeldIsFinite, FS_Subset, FS_CardinalityType
<1>5. Cardinality(HeldBack(k)' \cup Batch(t, n)) = Cardinality(HeldBack(k)') + Cardinality(Batch(t, n)) - Cardinality({})
  BY <1>2, <1>3, <1>4, BatchCounts, FS_Union
<1> QED BY <1>2, <1>3, <1>4, <1>5, BatchCounts, FS_EmptySet

(* Nothing is held back by who is in no handler of this kind. *)
LEMMA HeldSame ==
  ASSUME TicksInv, NEW t \in CallbackThreads, NEW k \in Kinds, NEW r,
         pump' = [pump EXCEPT ![t] = r], t \in PumpThreads => pump[t].at # k /\ r.at # k
  PROVE  HeldBack(k)' = HeldBack(k)
BY DEF HeldBack, TicksInv, CountTypes, CallbackThreads

(* Taking a count moves it to the handler, or drops it. *)
LEMMA TakeKeeps ==
  ASSUME TicksInv, ~Coalesce, NEW t \in PumpThreads, NEW k \in Kinds,
         \/ k = "vblank" /\ Take(t, "outside", k, "flips")
         \/ k = "flip" /\ Take(t, "flips", k, "outside")
  PROVE  TicksInv'
<1>1. /\ pump[t].at \notin Kinds /\ pump[t].at \in {"outside", "flips"}
      /\ pending' = [pending EXCEPT ![k] = 0] /\ delivered' = delivered
  BY DEF Take, Kinds
<1>2. PICK n \in Nat : n = pending[k]
  BY DEF TicksInv, CountTypes
<1>3. /\ pending[k] \in Nat /\ delivered[k] \in Nat /\ ticks[k] \in Nat /\ ticks[k] <= MaxTicks
      /\ ticks[k] = delivered[k] + pending[k] + Cardinality(HeldBack(k))
      /\ Cardinality(HeldBack(k)) \in Nat
  BY HeldIsFinite, CallbacksAssumption DEF TicksInv, CountTypes, TicksAreKept
<1>4. n <= ticks[k] /\ ticks[k] - n \in 0 .. MaxTicks /\ n <= MaxTicks
  BY <1>2, <1>3, CallbacksAssumption
<1>5. CASE n > 0 /\ handler[k]
  <2>1. pump' = [pump EXCEPT ![t] = [at |-> k, took |-> n]] /\ ticks' = ticks
    BY <1>2, <1>5 DEF Take
  <2>2. n \in 1 .. MaxTicks
    BY <1>4, <1>5
  <2>3. CountTypes' /\ HandlersTick'
    BY <1>1, <2>1, <2>2, CallbacksAssumption DEF TicksInv, CountTypes, HandlersTick, Ticking, CallbackThreads
  <2>4. ASSUME NEW j \in Kinds PROVE ticks'[j] = delivered'[j] + pending'[j] + Cardinality(HeldBack(j)')
    <3>1. CASE j = k
      <4>1. Cardinality(HeldBack(k)') = Cardinality(HeldBack(k)) + n
        BY <1>1, <2>1, <2>2, HeldGrows
      <4>2. pending'[k] = 0 /\ ticks'[k] = ticks[k] /\ delivered'[k] = delivered[k]
        BY <1>1, <2>1 DEF TicksInv, CountTypes
      <4> QED BY <1>2, <1>3, <3>1, <4>1, <4>2
    <3>2. CASE j # k
      <4>1. HeldBack(j)' = HeldBack(j)
        BY <1>1, <2>1, <3>2, HeldSame DEF CallbackThreads
      <4>2. pending'[j] = pending[j] /\ ticks'[j] = ticks[j] /\ delivered'[j] = delivered[j]
        BY <1>1, <2>1, <3>2 DEF TicksInv, CountTypes
      <4> QED BY <4>1, <4>2 DEF TicksInv, TicksAreKept
    <3> QED BY <3>1, <3>2
  <2> QED BY <2>3, <2>4 DEF TicksInv, TicksAreKept
<1>6. CASE ~(n > 0 /\ handler[k])
  <2>1. PICK r \in {[at |-> "outside", took |-> 0], [at |-> "flips", took |-> 0]} :
          pump' = [pump EXCEPT ![t] = r] /\ ticks' = [ticks EXCEPT ![k] = @ - n]
    BY <1>2, <1>6 DEF Take
  <2>2. r \in Ticking /\ r.at \notin Kinds
    BY DEF Ticking, Kinds
  <2>3. CountTypes' /\ HandlersTick'
    BY <1>1, <1>4, <2>1, <2>2 DEF TicksInv, CountTypes, HandlersTick, CallbackThreads
  <2>4. ASSUME NEW j \in Kinds PROVE ticks'[j] = delivered'[j] + pending'[j] + Cardinality(HeldBack(j)')
    <3>1. HeldBack(j)' = HeldBack(j)
      BY <1>1, <2>1, <2>2, HeldSame DEF CallbackThreads
    <3>2. CASE j = k
      <4>1. pending'[k] = 0 /\ ticks'[k] = ticks[k] - n /\ delivered'[k] = delivered[k]
        BY <1>1, <2>1 DEF TicksInv, CountTypes
      <4> QED BY <1>2, <1>3, <3>1, <3>2, <4>1
    <3>3. CASE j # k
      <4>1. pending'[j] = pending[j] /\ ticks'[j] = ticks[j] /\ delivered'[j] = delivered[j]
        BY <1>1, <2>1, <3>3 DEF TicksInv, CountTypes
      <4> QED BY <3>1, <4>1 DEF TicksInv, TicksAreKept
    <3> QED BY <3>2, <3>3
  <2> QED BY <2>3, <2>4 DEF TicksInv, TicksAreKept
<1> QED BY <1>5, <1>6

(* A handler delivers one tick and gives back the others. *)
LEMMA ReturnKeeps ==
  ASSUME TicksInv, ~Coalesce, NEW t \in PumpThreads, NEW k \in Kinds, NEW to \in {"outside", "flips"}, Return(t, k, to)
  PROVE  TicksInv'
<1>1. PICK n \in 1 .. MaxTicks : n = pump[t].took
  BY DEF Return, TicksInv, HandlersTick
<1>0. n \in Nat /\ n > 0 /\ pending[k] \in Nat
  BY <1>1, CallbacksAssumption DEF TicksInv, CountTypes
<1>8. GivenBack(k, n) = pending[k] + (n - 1)
  BY <1>0 DEF GivenBack
<1>2. /\ pump[t].at = k /\ ticks' = ticks
      /\ pending' = [pending EXCEPT ![k] = pending[k] + (n - 1)]
      /\ delivered' = [delivered EXCEPT ![k] = @ + 1]
      /\ pump' = [pump EXCEPT ![t] = [at |-> to, took |-> 0]]
  BY <1>1, <1>8 DEF Return
<1>3. n \in Nat /\ n - 1 \in Nat
  BY <1>1, CallbacksAssumption
<1>4. CountTypes' /\ HandlersTick'
  BY <1>2, <1>3 DEF TicksInv, CountTypes, HandlersTick, Ticking, CallbackThreads, Kinds
<1>5. ASSUME NEW j \in Kinds PROVE ticks'[j] = delivered'[j] + pending'[j] + Cardinality(HeldBack(j)')
  <2>0. /\ ticks[j] = delivered[j] + pending[j] + Cardinality(HeldBack(j))
        /\ pending[j] \in Nat /\ delivered[j] \in Nat /\ Cardinality(HeldBack(j)) \in Nat
    BY HeldIsFinite DEF TicksInv, CountTypes, TicksAreKept
  <2>1. CASE j = k
    <3>1. Cardinality(HeldBack(k)) = Cardinality(HeldBack(k)') + n
      BY <1>1, <1>2, HeldShrinks DEF Kinds
    <3>2. pending'[k] = pending[k] + (n - 1) /\ delivered'[k] = delivered[k] + 1 /\ ticks'[k] = ticks[k]
      BY <1>2 DEF TicksInv, CountTypes
    <3>3. Cardinality(HeldBack(k)') \in Int
      <4>1. HeldBack(k)' \subseteq HeldBack(k)
        BY <1>2 DEF HeldBack, TicksInv, CountTypes, CallbackThreads, Kinds
      <4> QED BY <4>1, HeldIsFinite, FS_Subset, FS_CardinalityType
    <3> QED BY <1>3, <2>0, <2>1, <3>1, <3>2, <3>3
  <2>2. CASE j # k
    <3>1. HeldBack(j)' = HeldBack(j)
      BY <1>2, <2>2, HeldSame DEF CallbackThreads, Kinds
    <3>2. pending'[j] = pending[j] /\ delivered'[j] = delivered[j] /\ ticks'[j] = ticks[j]
      BY <1>2, <2>2 DEF TicksInv, CountTypes
    <3> QED BY <2>0, <3>1, <3>2
  <2> QED BY <2>1, <2>2
<1> QED BY <1>4, <1>5 DEF TicksInv, TicksAreKept

(* Ticks, handlers that are set, and the frame driver. *)
LEMMA DriverTicks ==
  ASSUME TicksInv, ~Coalesce, (\E k \in Kinds : SetHandler(k) \/ Tick(k)) \/ FlipWord \/ FlipWordDone
  PROVE  TicksInv'
<1>1. CASE \E k \in Kinds : SetHandler(k)
  BY <1>1 DEF SetHandler, TicksInv, CountTypes, HandlersTick, TicksAreKept, HeldBack
<1>2. ASSUME NEW k \in Kinds, Tick(k) PROVE TicksInv'
  <2>1. /\ ticks[k] < MaxTicks /\ pump' = pump /\ delivered' = delivered
        /\ pending' = [pending EXCEPT ![k] = @ + 1] /\ ticks' = [ticks EXCEPT ![k] = @ + 1]
    BY <1>2 DEF Tick
  <2>2. CountTypes' /\ HandlersTick'
    BY <2>1, CallbacksAssumption DEF TicksInv, CountTypes, HandlersTick
  <2>3. ASSUME NEW j \in Kinds PROVE ticks'[j] = delivered'[j] + pending'[j] + Cardinality(HeldBack(j)')
    <3>1. HeldBack(j)' = HeldBack(j)
      BY <2>1 DEF HeldBack
    <3>2. /\ ticks[j] = delivered[j] + pending[j] + Cardinality(HeldBack(j))
          /\ pending[j] \in Nat /\ delivered[j] \in Nat /\ Cardinality(HeldBack(j)) \in Nat
      BY HeldIsFinite DEF TicksInv, CountTypes, TicksAreKept
    <3>3. /\ pending'[j] = pending[j] + (IF j = k THEN 1 ELSE 0) /\ ticks'[j] = ticks[j] + (IF j = k THEN 1 ELSE 0)
          /\ delivered'[j] = delivered[j]
      BY <2>1, <3>2 DEF TicksInv, CountTypes
    <3> QED BY <3>1, <3>2, <3>3
  <2> QED BY <2>2, <2>3 DEF TicksInv, TicksAreKept
<1>3. CASE FlipWord \/ FlipWordDone
  <2>1. PICK r \in {[at |-> "word", took |-> 0], [at |-> "outside", took |-> 0]} :
          pump' = [pump EXCEPT ![FrameDriver] = r] /\ UNCHANGED <<pending, ticks, delivered>>
    BY <1>3 DEF FlipWord, FlipWordDone, Outside
  <2>2. FrameDriver \in CallbackThreads /\ FrameDriver \notin PumpThreads /\ r \in Ticking
    BY CallbacksAssumption DEF CallbackThreads, Ticking
  <2>3. CountTypes' /\ HandlersTick'
    BY <2>1, <2>2 DEF TicksInv, CountTypes, HandlersTick, CallbackThreads
  <2>4. \A k \in Kinds : HeldBack(k)' = HeldBack(k)
    BY <2>1, <2>2, HeldSame
  <2> QED BY <2>1, <2>3, <2>4 DEF TicksInv, TicksAreKept
<1> QED BY <1>1, <1>2, <1>3

(* Every step keeps count. *)
LEMMA NextTicks == CallbacksInv /\ [FcNext]_fcVars => CallbacksInv'
<1> SUFFICES ASSUME ~Coalesce, TicksInv, [FcNext]_fcVars PROVE TicksInv'
  BY DEF CallbacksInv
<1>1. CASE UNCHANGED fcVars
  BY <1>1 DEF fcVars, TicksInv, CountTypes, HandlersTick, TicksAreKept, HeldBack
<1>2. ASSUME NEW t \in PumpThreads, HleCall(t) \/ PumpFlips(t) PROVE TicksInv'
  BY <1>2, TakeKeeps DEF HleCall, PumpFlips, Kinds
<1>3. ASSUME NEW t \in PumpThreads, HandlerReturns(t) PROVE TicksInv'
  BY <1>3, ReturnKeeps DEF HandlerReturns, Kinds
<1> QED BY <1>1, <1>2, <1>3, DriverTicks DEF FcNext, PumpStep

(* No tick is lost and none delivered twice, for any number of threads and of *)
(* ticks: whoever takes a whole count delivers one of it and gives the others *)
(* back, whatever was counted meanwhile (cellGcmSys.c:590-597,                *)
(* ppu_hle.cpp:645-673).                                                      *)
THEOREM TicksStayKept == FcSpec => []TicksAreKept
<1>1. FcInit => CallbacksInv
  <2> SUFFICES ASSUME FcInit PROVE TicksInv
    BY DEF CallbacksInv
  <2>1. \A k \in Kinds : HeldBack(k) = {}
    BY DEF FcInit, HeldBack, CallbackThreads, Outside, Kinds
  <2>2. CountTypes /\ HandlersTick
    BY CallbacksAssumption DEF FcInit, CountTypes, HandlersTick, CallbackThreads, Outside, Ticking, Kinds
  <2> QED BY <2>1, <2>2, FS_EmptySet DEF FcInit, TicksInv, TicksAreKept
<1>2. CallbacksInv => TicksAreKept
  BY DEF CallbacksInv, TicksInv, TicksAreKept
<1> QED BY <1>1, <1>2, NextTicks, PTL DEF FcSpec
=============================================================================
