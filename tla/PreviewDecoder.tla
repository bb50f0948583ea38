--------------------------- MODULE PreviewDecoder ---------------------------
(***************************************************************************)
(* Songs that the guest plays (src/taiko_atrac.cpp).  A decoder is given a *)
(* song whole; a preview of song selection is decoded by a worker thread,  *)
(* which is told of the newest request only, while the guest plays         *)
(* silence.  Decoders are replaced, moved and deleted meanwhile.           *)
(***************************************************************************)
EXTENDS Naturals

CONSTANTS
  Handles,     \* decoders of the guest
  Songs,       \* songs there are
  BadSongs,    \* those of them that cannot be decoded
  PlayThreads, \* guest threads; calls for one decoder come one after another
  MaxSets,     \* bound: calls of SetData
  None         \* no song, no handle

ASSUME PreviewAssumption == BadSongs \subseteq Songs /\ None \notin Songs \cup Handles

VARIABLES
  decoders,  \* g_decoders
  cache,     \* songs in the cache of decoded PCM
  lastGen,   \* g_decoder_generation: generations given out
  setting,   \* a guest thread between its generation and the end of SetData
  pending,   \* pending_: the job the worker takes next
  current,   \* active_cancelled_: the generation of the job that is decoded; 0 is none
  cancelled, \* generations whose jobs are cancelled
  worker,    \* the worker: where it is, and its job
  stopping,  \* stopping_
  newest     \* history: the generation that was enqueued last; 0 is none

pvVars == <<decoders, cache, lastGen, setting, pending, current, cancelled, worker, stopping, newest>>
queueVars == <<pending, current, cancelled, stopping, newest>>

NoJob == [gen |-> 0, handle |-> None, song |-> None]
Absent == [gen |-> 0, song |-> None, pcm |-> None, async_pending |-> FALSE,
           reset_requested |-> FALSE, cursor |-> "start"]
AtHome == [at |-> "guest", job |-> NoJob, outcome |-> "none"]

PvInit ==
  /\ decoders = [h \in Handles |-> Absent]
  /\ cache = {} /\ lastGen = 0
  /\ setting = [t \in PlayThreads |-> AtHome]
  /\ pending = NoJob /\ current = 0 /\ cancelled = {}
  /\ worker = [at |-> "wait", job |-> NoJob]
  /\ stopping = FALSE /\ newest = 0

IsAtHome(t) == setting[t] = AtHome

\* Nobody is in a call for this decoder.
IsFree(h) == \A t \in PlayThreads : setting[t].job.handle # h

-----------------------------------------------------------------------------
(* cellAtracSetDataAndGetMemSize *)

Kinds == {"preview", "sync", "unresolved"}

\* What becomes of a song: it is in the cache or decoded at once, left to the
\* worker, or not to be had.
Outcome(song, kind) ==
  CASE kind = "unresolved" -> "none"
    [] song \in cache -> "ready"
    [] kind = "preview" -> "queued"
    [] OTHER -> IF song \in BadSongs THEN "none" ELSE "ready"

\* The song is resolved, decoded if it is wanted at once, and a generation is
\* drawn; no lock is held yet.
SetData(t, h, song, kind) ==
  LET outcome == Outcome(song, kind) IN
  /\ IsAtHome(t) /\ IsFree(h) /\ lastGen < MaxSets
  /\ lastGen' = lastGen + 1
  /\ cache' = IF outcome = "ready" THEN cache \cup {song} ELSE cache
  /\ setting' = [setting EXCEPT ![t] =
       [at |-> "drawn", outcome |-> outcome,
        job |-> [gen |-> lastGen + 1, handle |-> h, song |-> song]]]
  /\ UNCHANGED <<decoders, worker, queueVars>>

\* The new state takes the place of the old one.
Install(t) ==
  LET job == setting[t].job
      outcome == setting[t].outcome
  IN
  /\ setting[t].at = "drawn"
  /\ decoders' = [decoders EXCEPT ![job.handle] =
       [Absent EXCEPT !.gen = job.gen, !.song = job.song,
                      !.pcm = IF outcome = "ready" THEN job.song ELSE None,
                      !.async_pending = outcome = "queued"]]
  /\ setting' = [setting EXCEPT ![t] =
       IF outcome = "queued" THEN [@ EXCEPT !.at = "queue"] ELSE AtHome]
  /\ UNCHANGED <<cache, lastGen, worker, queueVars>>

\* A job that waits stays the next one.
MutTakenUp(job) == IF pending = NoJob THEN job ELSE pending

\* What is to be decoded next is what was asked for last.
TakenUp(job) == job

\* enqueue: jobs that run or wait are cancelled.
Enqueue(t) ==
  /\ setting[t].at = "queue"
  /\ cancelled' = cancelled \cup ({current, pending.gen} \ {0})
  /\ pending' = TakenUp(setting[t].job)
  /\ newest' = setting[t].job.gen
  /\ setting' = [setting EXCEPT ![t] = AtHome]
  /\ UNCHANGED <<decoders, cache, lastGen, current, worker, stopping>>

-----------------------------------------------------------------------------
(* Other calls of the guest, each under g_decoder_mutex *)

\* cellAtracDeleteDecoder
Delete(h) ==
  /\ IsFree(h) /\ decoders[h] # Absent
  /\ decoders' = [decoders EXCEPT ![h] = Absent]
  /\ UNCHANGED <<cache, lastGen, setting, worker, queueVars>>

\* cellAtracResetPlayPosition: to the cue of a preview.
ResetPlayPosition(h) ==
  LET d == decoders[h] IN
  /\ IsFree(h) /\ d # Absent
  /\ decoders' = [decoders EXCEPT ![h] =
       [d EXCEPT !.reset_requested = TRUE,
                 !.cursor = IF d.async_pending THEN @ ELSE IF d.pcm = None THEN "start" ELSE "cue"]]
  /\ UNCHANGED <<cache, lastGen, setting, worker, queueVars>>

\* cellAtracDecode: silence while there is nothing to play, and the cursor stays.
Decode(h) ==
  /\ IsFree(h) /\ decoders[h].pcm # None
  /\ decoders' = [decoders EXCEPT ![h].cursor =
       CASE @ = "start" -> "after start" [] @ = "cue" -> "after cue" [] OTHER -> @]
  /\ UNCHANGED <<cache, lastGen, setting, worker, queueVars>>

-----------------------------------------------------------------------------
(* The worker *)

Job == worker.job

\* A decoder of this handle that waits for a decode.
MutIsWanted(job) == decoders[job.handle].async_pending

\* current, and the test before publishing.
IsWanted(job) ==
  LET d == decoders[job.handle] IN d.gen = job.gen /\ d.async_pending

TakeJob ==
  /\ worker.at = "wait" /\ ~stopping /\ pending # NoJob
  /\ worker' = [at |-> "check", job |-> pending]
  /\ pending' = NoJob
  /\ current' = pending.gen
  /\ UNCHANGED <<decoders, cache, lastGen, setting, cancelled, stopping, newest>>

\* A job that nobody wants any more is not decoded.
CheckJob ==
  /\ worker.at = "check"
  /\ worker' = [worker EXCEPT !.at = IF IsWanted(Job) THEN "decode" ELSE "finish"]
  /\ UNCHANGED <<decoders, cache, lastGen, setting, queueVars>>

\* decode_riff fails, or sees between two packets that it is cancelled; or the
\* song is decoded and was not cancelled before its end.
DecodeJob ==
  /\ worker.at = "decode"
  /\ \/ /\ Job.song \in BadSongs \/ Job.gen \in cancelled
        /\ worker' = [worker EXCEPT !.at = "finish"]
        /\ UNCHANGED cache
     \/ /\ Job.song \notin BadSongs /\ Job.gen \notin cancelled
        /\ worker' = [worker EXCEPT !.at = "publish"]
        /\ cache' = cache \cup {Job.song}
  /\ UNCHANGED <<decoders, lastGen, setting, queueVars>>

\* Where the guest has put the cue meanwhile.
First(d) == IF d.reset_requested THEN "cue" ELSE d.cursor

\* The PCM goes to the decoder that it was made for.
Publish ==
  LET h == Job.handle IN
  /\ worker.at = "publish"
  /\ decoders' = IF IsWanted(Job)
       THEN [decoders EXCEPT ![h] = [@ EXCEPT !.pcm = Job.song, !.cursor = First(decoders[h]),
                                              !.async_pending = FALSE]]
       ELSE decoders
  /\ worker' = [worker EXCEPT !.at = "finish"]
  /\ UNCHANGED <<cache, lastGen, setting, queueVars>>

\* finish
FinishJob ==
  /\ worker.at = "finish"
  /\ current' = IF current = Job.gen THEN 0 ELSE current
  /\ worker' = [at |-> "wait", job |-> NoJob]
  /\ UNCHANGED <<decoders, cache, lastGen, setting, pending, cancelled, stopping, newest>>

\* The program ends: the destructor cancels everything and joins the worker.
StopWorker ==
  /\ ~stopping /\ stopping' = TRUE
  /\ cancelled' = cancelled \cup ({current, pending.gen} \ {0})
  /\ UNCHANGED <<decoders, cache, lastGen, setting, pending, current, worker, newest>>

EndWorker ==
  /\ stopping /\ worker.at = "wait"
  /\ worker' = [worker EXCEPT !.at = "gone"]
  /\ UNCHANGED <<decoders, cache, lastGen, setting, queueVars>>

-----------------------------------------------------------------------------
WorkerStep == TakeJob \/ CheckJob \/ DecodeJob \/ Publish \/ FinishJob \/ EndWorker
SetDataStep(t) == Install(t) \/ Enqueue(t)

PvNext ==
  \/ \E t \in PlayThreads :
       \/ SetDataStep(t)
       \/ \E h \in Handles, s \in Songs, k \in Kinds : SetData(t, h, s, k)
  \/ \E h \in Handles : Delete(h) \/ ResetPlayPosition(h) \/ Decode(h)
  \/ WorkerStep \/ StopWorker

\* The worker and a call that has begun are scheduled; decoding a song ends.
PvSpec ==
  /\ PvInit /\ [][PvNext]_pvVars
  /\ WF_pvVars(WorkerStep) /\ \A t \in PlayThreads : WF_pvVars(SetDataStep(t))

-----------------------------------------------------------------------------
(* Properties *)

PvTypeOK ==
  /\ \A h \in Handles :
       /\ decoders[h].gen \in 0 .. lastGen
       /\ {decoders[h].song, decoders[h].pcm} \subseteq Songs \cup {None}
       /\ decoders[h].cursor \in {"start", "cue", "after start", "after cue"}
  /\ current \in 0 .. lastGen /\ cancelled \subseteq 1 .. lastGen
  /\ worker.at \in {"wait", "check", "decode", "publish", "finish", "gone"}

\* A decoder never plays a song it was given before, whatever decode of it is
\* still running when the decoder is given another or its handle comes again
\* (the generation of a job, taiko_atrac.cpp:770-773).
NoStalePreview == \A h \in Handles : decoders[h].pcm \in {None, decoders[h].song}

\* A song that the guest has moved to its cue is played from there, whether the
\* worker or the guest came first (taiko_atrac.cpp:777-779, 1374-1384).
CueIsKept == \A h \in Handles :
  decoders[h].reset_requested /\ decoders[h].pcm # None =>
    decoders[h].cursor \in {"cue", "after cue"}

\* What is played is what was asked for: the song that the decoder has now, from
\* the cue that was set for it, in whatever order requests, resets and deletes
\* of the guest meet a decode that takes seconds.
PlaysWhatWasAsked == NoStalePreview /\ CueIsKept

NewestWaits == newest # 0 /\ \E h \in Handles :
  decoders[h].gen = newest /\ decoders[h].async_pending /\ decoders[h].song \notin BadSongs

\* The preview that was asked for last is decoded and handed over, unless its
\* song is bad, its decoder is gone or the program ends ("Keep only its newest
\* request", taiko_atrac.cpp:714-716): what is cancelled is what came before.
NewestPreviewArrives == NewestWaits ~> (~NewestWaits \/ stopping)
=============================================================================
