----------------------------- MODULE KmsPresent -----------------------------
(***************************************************************************)
(* Presentation without a window system                                    *)
(* (ps3recomp/libs/video/rsx_sdl_gpu_backend.c and rsx_kms_present.c).     *)
(*                                                                         *)
(* The main thread renders a frame into a target and either hands it to    *)
(* the display itself (zero copy), or starts its download into a slot,     *)
(* from where a worker copies it to a buffer of the display.  A commit     *)
(* replaces what the display shows at the next vertical blank, and its     *)
(* fence tells when the buffer it replaced is no longer read.              *)
(***************************************************************************)
EXTENDS Integers, Sequences, FiniteSetsExt

CONSTANTS
  KmsSetups,  \* zero copy or not, TAIKO_KMS_PIPELINE_DEPTH (1 .. 3), targets
              \* (3 with zero copy, else 2), and atomic_wait
  KmsBuffers  \* KMS_BUFFERS: 3

ASSUME KmsAssumption ==
  /\ KmsSetups \subseteq [zero : BOOLEAN, depth : Nat \ {0}, targets : Nat \ {0}, wait : BOOLEAN]
  /\ KmsBuffers \in Nat /\ KmsBuffers >= 2
  /\ \A m \in KmsSetups : m.zero => m.targets = KmsBuffers

VARIABLES
  mode,      \* the member of KmsSetups this behaviour is about
  slot,      \* kms_slots: busy, and the target whose download still runs
  write,     \* kms_write
  waiting,   \* kms_pending: the slots handed to the worker
  target,    \* kms_display_index
  reader,    \* kms_display_reader: the slot a target was last read into
  renderer,  \* the main thread: where it is, and the slot it uses
  worker,    \* the worker: where it is, its slot and its buffer
  next,      \* s_kms.next
  displayed, \* s_kms.displayed
  release,   \* which buffers have a release fence that has not signalled
  atomic,    \* s_kms.atomic
  screen, latched  \* external: the buffer the display reads, and the one it
                   \* reads from the next vertical blank on

kpVars == <<mode, slot, write, waiting, target, reader, renderer, worker, next,
            displayed, release, atomic, screen, latched>>

None_ == -1
Buffers == 0 .. KmsBuffers - 1
SlotsOf(m) == 0 .. m.depth - 1
TargetsOf(m) == 0 .. m.targets - 1
Idle == [at |-> "idle", slot |-> None_, buffer |-> None_]

KpInit ==
  /\ mode \in KmsSetups
  /\ slot = [i \in SlotsOf(mode) |-> [busy |-> FALSE, reads |-> None_]]
  /\ write = 0 /\ waiting = <<>>
  /\ target = 0 /\ reader = [t \in TargetsOf(mode) |-> None_]
  /\ renderer = [at |-> "render", slot |-> None_]
  /\ worker = Idle
  /\ next = 0 /\ displayed = None_
  /\ release = [b \in Buffers |-> FALSE]
  /\ atomic = TRUE
  /\ screen = None_ /\ latched = None_

-----------------------------------------------------------------------------
(* The display *)

displayVars == <<displayed, release, atomic, screen, latched>>

\* The next vertical blank: a commit takes effect and its fence signals.
Blank ==
  /\ latched # None_
  /\ screen' = latched /\ latched' = None_
  /\ release' = [b \in Buffers |-> FALSE]
  /\ UNCHANGED <<mode, slot, write, waiting, target, reader, renderer, worker, next, displayed, atomic>>

\* The new commit's fence releases the buffer that it replaces.
Released == IF displayed = None_ THEN release ELSE [release EXCEPT ![displayed] = TRUE]

\* kms_atomic_set_plane: the display takes one commit at a time, so a second
\* one waits for the fence of the first.
CommitAtomic(b) ==
  /\ atomic /\ latched = None_
  /\ latched' = b
  /\ release' = Released
  /\ displayed' = b
  /\ UNCHANGED <<atomic, screen>>

\* A commit that fails: the fence of the last one is waited for, and from then
\* on planes are set by a call that returns when the display has changed.
SetPlane(b) ==
  /\ latched = None_
  /\ atomic' = FALSE
  /\ screen' = b
  /\ UNCHANGED <<displayed, release, latched>>

Shows(b) == CommitAtomic(b) \/ SetPlane(b)

-----------------------------------------------------------------------------
(* The main thread *)

Goes(station, s) == renderer' = [at |-> station, slot |-> s]

NextTarget == (target + 1) % mode.targets

\* present_display_kms, zero copy: a frame is committed where it was rendered.
PresentTarget ==
  /\ renderer.at = "render" /\ mode.zero
  /\ Shows(target)
  /\ Goes(IF mode.wait /\ atomic' THEN "blank" ELSE "acquire", None_)
  /\ UNCHANGED <<mode, slot, write, waiting, target, reader, worker, next>>

\* atomic_wait: the commit is waited for.
WaitBlank ==
  /\ renderer.at = "blank" /\ latched = None_
  /\ Goes("acquire", None_)
  /\ UNCHANGED <<mode, slot, write, waiting, target, reader, worker, next, displayVars>>

\* rsx_kms_present_acquire_dmabuf waits for the next target's release.  Left out:
\* when that fails, or the commit, the renderer goes on in the target it has
\* (rsx_sdl_gpu_backend.c:2824-2842).
AcquireTarget ==
  /\ renderer.at = "acquire" /\ ~release[NextTarget]
  /\ target' = NextTarget
  /\ Goes("render", None_)
  /\ UNCHANGED <<mode, slot, write, waiting, reader, worker, next, displayVars>>

\* The next slot, when it is free and the worker is not too far behind.
TakeSlot ==
  LET i == write % mode.depth IN
  /\ renderer.at = "render" /\ ~mode.zero
  /\ ~slot[i].busy /\ Len(waiting) < mode.depth
  /\ write' = (write + 1) % mode.depth
  /\ Goes("download", i)
  /\ UNCHANGED <<mode, slot, waiting, target, reader, worker, next, displayVars>>

\* kms_submit_download; a frame that cannot be downloaded is given up.
SubmitDownload ==
  LET i == renderer.slot IN
  /\ renderer.at = "download"
  /\ \/ /\ slot' = [slot EXCEPT ![i] = [busy |-> TRUE, reads |-> target]]
        /\ waiting' = Append(waiting, i)
        /\ reader' = [reader EXCEPT ![target] = i]
        /\ Goes("target", None_)
     \/ Goes("render", None_) /\ UNCHANGED <<slot, waiting, reader>>
  /\ UNCHANGED <<mode, write, target, worker, next, displayVars>>

\* Rendering on without looking who reads the target.
MutMayReuse(t) == TRUE

\* The slot the target was last read into has been presented.
MayReuse(t) == reader[t] # None_ => ~slot[reader[t]].busy

NextFrame ==
  /\ renderer.at = "target" /\ MayReuse(NextTarget)
  /\ target' = NextTarget
  /\ Goes("render", None_)
  /\ UNCHANGED <<mode, slot, write, waiting, reader, worker, next, displayVars>>

\* kms_stop_worker, between two frames.
Stop ==
  /\ renderer.at = "render"
  /\ Goes("stopping", None_)
  /\ UNCHANGED <<mode, slot, write, waiting, target, reader, worker, next, displayVars>>

JoinWorker ==
  /\ renderer.at = "stopping" /\ worker.at = "done"
  /\ Goes("stopped", None_)
  /\ UNCHANGED <<mode, slot, write, waiting, target, reader, worker, next, displayVars>>

-----------------------------------------------------------------------------
(* The worker, kms_copy_worker *)

WorkerGoes(from, to) == worker.at = from /\ worker' = [worker EXCEPT !.at = to]

TakeFrame ==
  /\ worker.at = "idle" /\ waiting # <<>>
  /\ worker' = [at |-> "fence", slot |-> Head(waiting), buffer |-> None_]
  /\ waiting' = Tail(waiting)
  /\ UNCHANGED <<mode, slot, write, target, reader, renderer, next, displayVars>>

\* It ends when it is told to and has nothing left to show.
EndWorker ==
  /\ renderer.at = "stopping" /\ waiting = <<>>
  /\ WorkerGoes("idle", "done")
  /\ UNCHANGED <<mode, slot, write, waiting, target, reader, renderer, next, displayVars>>

\* The download is complete; the display's buffers are used in turn.
Downloaded ==
  /\ worker.at = "fence"
  /\ worker' = [worker EXCEPT !.at = "release", !.buffer = next]
  /\ slot' = [slot EXCEPT ![worker.slot].reads = None_]
  /\ next' = (next + 1) % KmsBuffers
  /\ UNCHANGED <<mode, write, waiting, target, reader, renderer, displayVars>>

MayCopy(b) == ~release[b]

\* rsx_kms_present_frame waits for the buffer and copies into it.
CopyFrame ==
  /\ WorkerGoes("release", "copy")
  /\ MayCopy(worker.buffer)
  /\ UNCHANGED <<mode, slot, write, waiting, target, reader, renderer, next, displayVars>>

ShowFrame ==
  /\ worker.at = "copy"
  /\ Shows(worker.buffer)
  /\ WorkerGoes("copy", IF mode.wait /\ atomic' THEN "blank" ELSE "end")
  /\ UNCHANGED <<mode, slot, write, waiting, target, reader, renderer, next>>

\* A download that fails: the frame is not shown.  That a frame cannot be shown
\* after its copy, when the call that sets a plane fails too, is left out: it
\* moves `next` on, and the third in a row is copied over the frame on screen.
FrameLost ==
  /\ WorkerGoes("fence", "end")
  /\ slot' = [slot EXCEPT ![worker.slot].reads = None_]
  /\ UNCHANGED <<mode, write, waiting, target, reader, renderer, next, displayVars>>

\* atomic_wait: the worker too waits for its commit.
FrameShown ==
  /\ latched = None_
  /\ WorkerGoes("blank", "end")
  /\ UNCHANGED <<mode, slot, write, waiting, target, reader, renderer, next, displayVars>>

\* A slot that stays taken when its frame was shown.
MutFreed(i) == slot

Freed(i) == [slot EXCEPT ![i].busy = FALSE]

FreeSlot ==
  /\ worker.at = "end"
  /\ slot' = Freed(worker.slot)
  /\ worker' = Idle
  /\ UNCHANGED <<mode, write, waiting, target, reader, renderer, next, displayVars>>

-----------------------------------------------------------------------------
RendererStep ==
  PresentTarget \/ WaitBlank \/ AcquireTarget \/ TakeSlot \/ SubmitDownload \/ NextFrame \/ JoinWorker

WorkerStep ==
  TakeFrame \/ EndWorker \/ Downloaded \/ CopyFrame \/ ShowFrame \/ FrameShown \/ FreeSlot

KpNext == Blank \/ RendererStep \/ Stop \/ WorkerStep \/ FrameLost

KpSpec == /\ KpInit /\ [][KpNext]_kpVars
          /\ WF_kpVars(Blank) /\ WF_kpVars(RendererStep) /\ WF_kpVars(WorkerStep)

-----------------------------------------------------------------------------
(* Properties *)

KpTypeOK ==
  /\ mode \in KmsSetups
  /\ \A i \in SlotsOf(mode) : slot[i].busy \in BOOLEAN /\ slot[i].reads \in TargetsOf(mode) \cup {None_}
  /\ write \in SlotsOf(mode) /\ next \in Buffers
  /\ target \in TargetsOf(mode)
  /\ \A i \in 1 .. Len(waiting) : slot[waiting[i]].busy
  /\ {displayed, screen, latched} \subseteq Buffers \cup {None_}

\* Nothing that is read is drawn over: no target while it is downloaded, and no
\* buffer of the display while it is shown or about to be, however far the
\* worker is behind, after downloads that failed, and when commits fall back to
\* setting planes (rsx_sdl_gpu_backend.c:287-291, rsx_kms_present.c:351-353).
NoTearing ==
  /\ renderer.at = "render" /\ ~mode.zero =>
       \A i \in SlotsOf(mode) : slot[i].reads # target
  /\ renderer.at = "render" /\ mode.zero => target \notin {screen, latched}
  /\ worker.at = "copy" => worker.buffer \notin {screen, latched}

\* The main thread waits for a slot, a target, the display or the worker's end.
HeldUp == \/ renderer.at # "render"
          \/ ~mode.zero /\ (slot[write % mode.depth].busy \/ Len(waiting) >= mode.depth)

\* The main thread is never held up for good, as long as the display goes on:
\* the worker gives every slot back, and no two wait for each other
\* (rsx_sdl_gpu_backend.c:2694-2808, rsx_kms_present.c:682-696).
RendererGoesOn == HeldUp ~> (~HeldUp \/ renderer.at = "stopped")
=============================================================================
