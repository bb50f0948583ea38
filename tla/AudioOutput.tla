---------------------------- MODULE AudioOutput ----------------------------
(***************************************************************************)
(* The life of cellAudio's output: cellAudioInit and cellAudioQuit, the    *)
(* host's shutdown, the mixer thread and the SDL sink it plays to          *)
(* (ps3recomp/libs/audio/cellAudio.c and audio_sink.c).                    *)
(*                                                                         *)
(* The mixer is paced by the device: it waits until the sink's queue has   *)
(* room, and gives the device up for a clock of its own when that lasts a  *)
(* second, or the sink fails.  The device may stop taking blocks for good. *)
(***************************************************************************)
EXTENDS Naturals

CONSTANTS
  Prebuffer,  \* s_sdl_prebuffer_blocks: 2 .. 32
  GuestCaller, HostCaller,
  MaxInits    \* bound: calls of cellAudioInit that go through

ASSUME OutputAssumption == Prebuffer \in Nat \ {0} /\ MaxInits \in Nat
ASSUME CallersAssumption == GuestCaller # HostCaller

VARIABLES
  audio_initialized,
  shutdown,    \* s_host_output_shutdown: 0 open, 1 being closed, 2 closed
  null_clock, sink_initialized,
  thread,      \* s_mix_thread_running and s_mix_thread_started
  sink,        \* the stream: [open, submitted, resumed, queued]
  mixer,       \* where the mixer thread is; "none" when there is none
  caller,      \* where a calling thread is
  inits        \* calls of cellAudioInit that went through

aoVars == <<audio_initialized, shutdown, null_clock, sink_initialized, thread, sink,
            mixer, caller, inits>>

AudioCallers == {GuestCaller, HostCaller}
NoSink == [open |-> FALSE, submitted |-> 0, resumed |-> FALSE, queued |-> 0]

AoInit ==
  /\ audio_initialized = FALSE
  /\ shutdown = 0
  /\ null_clock = FALSE
  /\ sink_initialized = FALSE
  /\ thread = [running |-> FALSE, started |-> FALSE]
  /\ sink = NoSink
  /\ mixer = "none"
  /\ caller = [c \in AudioCallers |-> "idle"]
  /\ inits = 0

Goes(c, from, to) ==
  /\ caller[c] = from
  /\ caller' = [caller EXCEPT ![c] = to]

-----------------------------------------------------------------------------
(* cellAudioInit, by the guest *)

InitBegin ==
  /\ ~audio_initialized
  /\ inits < MaxInits
  /\ Goes(GuestCaller, "idle", "opening")
  /\ inits' = inits + 1
  /\ null_clock' = FALSE
  /\ shutdown' = 0
  /\ UNCHANGED <<audio_initialized, sink_initialized, thread, sink, mixer>>

\* audio_sink_init; a sink that fails or is turned off means the null clock.
InitSink ==
  /\ Goes(GuestCaller, "opening", "starting")
  /\ \/ /\ sink' = [NoSink EXCEPT !.open = TRUE]
        /\ sink_initialized' = TRUE
        /\ UNCHANGED null_clock
     \/ /\ sink' = NoSink
        /\ sink_initialized' = FALSE
        /\ null_clock' = TRUE
  /\ UNCHANGED <<audio_initialized, shutdown, thread, mixer, inits>>

\* audio_start_mix_thread; Init goes on when no thread could be started.
InitStart ==
  /\ Goes(GuestCaller, "starting", "ready")
  /\ \/ /\ thread' = [running |-> TRUE, started |-> TRUE]
        /\ mixer' = "top"
     \/ /\ thread' = [thread EXCEPT !.running = FALSE]
        /\ UNCHANGED mixer
  /\ UNCHANGED <<audio_initialized, shutdown, null_clock, sink_initialized, sink, inits>>

InitEnd ==
  /\ Goes(GuestCaller, "ready", "idle")
  /\ audio_initialized' = TRUE
  /\ UNCHANGED <<shutdown, null_clock, sink_initialized, thread, sink, mixer, inits>>

-----------------------------------------------------------------------------
(* cellAudioQuit, by the guest, and cellAudioHostShutdown, by the host *)

ShutdownBegin(c) ==
  /\ audio_initialized
  /\ Goes(c, "idle", "stopping")
  /\ UNCHANGED <<audio_initialized, shutdown, null_clock, sink_initialized, thread, sink, mixer, inits>>

\* audio_stop_mix_thread tells the mixer to end before it waits for it.
ToldToStop == [thread EXCEPT !.running = FALSE]

\* audio_stop_host_output: the first caller closes, the others wait for it.
StopHostOutput(c) ==
  /\ IF shutdown = 0
       THEN /\ Goes(c, "stopping", "joining")
            /\ shutdown' = 1
            /\ thread' = IF thread.started THEN ToldToStop ELSE thread
       ELSE /\ Goes(c, "stopping", "waiting")
            /\ UNCHANGED <<shutdown, thread>>
  /\ UNCHANGED <<audio_initialized, null_clock, sink_initialized, sink, mixer, inits>>

Wait(c) ==
  /\ shutdown # 1
  /\ Goes(c, "waiting", "stopped")
  /\ UNCHANGED <<audio_initialized, shutdown, null_clock, sink_initialized, thread, sink, mixer, inits>>

\* Closing the stream without waiting for the mixer.
MutMayJoin == TRUE

\* pthread_join.  On Windows the wait ends after two seconds and the output is
\* closed anyway (cellAudio.c:914), which is left out.
MayJoin == thread.started => mixer = "done"

Join(c) ==
  /\ MayJoin
  /\ Goes(c, "joining", "closing")
  /\ thread' = [thread EXCEPT !.started = FALSE]
  /\ mixer' = IF mixer = "done" THEN "none" ELSE mixer
  /\ UNCHANGED <<audio_initialized, shutdown, null_clock, sink_initialized, sink, inits>>

\* audio_sink_shutdown, and the output is closed.
Close(c) ==
  /\ Goes(c, "closing", "stopped")
  /\ sink' = IF sink_initialized THEN NoSink ELSE sink
  /\ sink_initialized' = FALSE
  /\ shutdown' = 2
  /\ UNCHANGED <<audio_initialized, null_clock, thread, mixer, inits>>

\* Quit also destroys the mutex and clears the ports.
ShutdownEnd(c) ==
  /\ Goes(c, "stopped", "idle")
  /\ audio_initialized' = (audio_initialized /\ c # GuestCaller)
  /\ UNCHANGED <<shutdown, null_clock, sink_initialized, thread, sink, mixer, inits>>

-----------------------------------------------------------------------------
(* The mixer thread *)

Mixer(from, to) == mixer = from /\ mixer' = to

\* The sink failed: the mixer closes it and keeps time itself.
DeviceLost ==
  /\ sink' = NoSink
  /\ sink_initialized' = FALSE
  /\ null_clock' = TRUE

Loop ==
  /\ \/ ~thread.running /\ Mixer("top", "done")
     \/ thread.running /\ Mixer("top", IF null_clock THEN "mixing" ELSE "waiting")
  /\ UNCHANGED <<audio_initialized, shutdown, null_clock, sink_initialized, thread, sink, caller, inits>>

\* The sink takes a block: it has not begun to play, or its queue has room.
Room == ~sink.resumed \/ sink.queued <= Prebuffer - 1

\* audio_sink_wait_for_block
WaitForBlock ==
  /\ sink.open /\ Room
  /\ Mixer("waiting", "mixing")
  /\ UNCHANGED <<audio_initialized, shutdown, null_clock, sink_initialized, thread, sink, caller, inits>>

\* Waiting for the device without a deadline.
MutWaitFailed == FALSE

\* It returns 0 after a second, on an error, or when the mixer is to stop.
WaitFailed == sink.open => sink.resumed

WaitEnds ==
  /\ WaitFailed
  /\ IF thread.running
       THEN Mixer("waiting", "mixing") /\ DeviceLost
       ELSE Mixer("waiting", "done") /\ UNCHANGED <<null_clock, sink_initialized, sink>>
  /\ UNCHANGED <<audio_initialized, shutdown, thread, caller, inits>>

\* audio_sink_submit starts the device when the prebuffer is full.
Submitted ==
  [sink EXCEPT !.submitted = IF @ < Prebuffer THEN @ + 1 ELSE @,
               !.resumed = @ \/ sink.submitted + 1 >= Prebuffer,
               !.queued = @ + 1]

SubmitBlock ==
  /\ Mixer("mixing", "notifying")
  /\ \/ null_clock /\ UNCHANGED <<null_clock, sink_initialized, sink>>
     \/ ~null_clock /\ sink' = Submitted /\ UNCHANGED <<null_clock, sink_initialized>>
     \/ ~null_clock /\ DeviceLost
  /\ UNCHANGED <<audio_initialized, shutdown, thread, caller, inits>>

\* audio_notify_event_queues, and the rest of the period.
NotifyAndSleep ==
  /\ Mixer("notifying", "top")
  /\ UNCHANGED <<audio_initialized, shutdown, null_clock, sink_initialized, thread, sink, caller, inits>>

\* The device plays a block; it may stop doing so.
DevicePlays ==
  /\ sink.open /\ sink.resumed /\ sink.queued > 0
  /\ sink' = [sink EXCEPT !.queued = @ - 1]
  /\ UNCHANGED <<audio_initialized, shutdown, null_clock, sink_initialized, thread, mixer, caller, inits>>

-----------------------------------------------------------------------------
MixerStep == Loop \/ WaitForBlock \/ WaitEnds \/ SubmitBlock \/ NotifyAndSleep

CallerStep(c) ==
  StopHostOutput(c) \/ Wait(c) \/ Join(c) \/ Close(c) \/ ShutdownEnd(c)

InitStep == InitSink \/ InitStart \/ InitEnd

AoNext ==
  \/ InitBegin \/ InitStep
  \/ \E c \in AudioCallers : ShutdownBegin(c) \/ CallerStep(c)
  \/ MixerStep \/ DevicePlays

AoSpec == /\ AoInit /\ [][AoNext]_aoVars
          /\ WF_aoVars(MixerStep) /\ WF_aoVars(InitStep)
          /\ \A c \in AudioCallers : WF_aoVars(CallerStep(c))

-----------------------------------------------------------------------------
(* Properties *)

AoTypeOK ==
  /\ shutdown \in 0 .. 2
  /\ {audio_initialized, null_clock, sink_initialized} \subseteq BOOLEAN
  /\ sink.queued \in 0 .. Prebuffer /\ sink.submitted \in 0 .. Prebuffer
  /\ mixer \in {"none", "top", "waiting", "mixing", "notifying", "done"}
  /\ sink_initialized => sink.open

\* Once a shutdown has closed the output it stays closed: there is no mixer
\* and no stream, and no caller closes the stream under a mixer, although
\* guest and host may both be shutting down and the mixer itself may be
\* closing the stream (cellAudio.c:924-940).
ClosedIsQuiet ==
  /\ shutdown = 2 => mixer = "none" /\ ~sink.open
  /\ \A c \in AudioCallers : caller[c] = "closing" => mixer = "none"

\* As long as nobody stops it the mixer goes on notifying the guest, whether
\* or not the device still takes blocks (cellAudio.c:757-786).
ClockGoesOn ==
  mixer # "none" ~> (mixer = "notifying" \/ ~thread.running)

\* A call that shuts the output down returns, also when the device has
\* stopped and when another call is doing the same (cellAudio.c:908-940).
ShutdownReturns == \A c \in AudioCallers : caller[c] # "idle" ~> caller[c] = "idle"
=============================================================================
