---------------------------- MODULE HostProofs ----------------------------
(***************************************************************************)
(* Proofs about what runs beside the guest, for all values of the          *)
(* constants: the backup of the I/O board's memory (UsioBackup), the card  *)
(* that is handed out (CardPairing), the song that is played               *)
(* (PreviewDecoder), strikes of the drums (DrumInput), the life of the     *)
(* audio output (AudioOutput), timers (SysTimer).                          *)
(***************************************************************************)
EXTENDS UsioBackup, CardPairing, PreviewDecoder, DrumInput, AudioOutput, SysTimer,
        Integers, FiniteSetTheorems, TLAPS

-----------------------------------------------------------------------------
(* UsioBackup *)

Replaces(s) == running /\ s \in {"rename", "again"}

\* A backup that is whole is the memory of the last save that succeeded; what
\* takes its name is whole and of now; no backup is torn, and one that is
\* away was never there or has been removed, which only happens where rename
\* does not replace.
BackupInv ==
  /\ replaces \in BOOLEAN
  /\ ~running => save = "no"
  /\ file.at = "whole" => file = Whole(kept)
  /\ Replaces(save) => tmp = Whole(sram)
  /\ file.at \in {"absent", "whole"}
  /\ ~gone /\ file.at = "absent" => kept = Filled(Blank)
  /\ gone => ~replaces

(* At first the page is there and nothing else. *)
LEMMA BackupStarts == UbInit => BackupInv
  BY BackupAssumption DEF UbInit, BackupInv, Replaces, Missing

(* The steps of a save, those that fail among them. *)
LEMMA SaveKeeps ==
  ASSUME BackupInv,
         OpenTmp \/ CannotOpen \/ WriteTmp \/ CannotWrite \/ Rename \/ RemoveOld
           \/ RenameAgain \/ CannotReplace
  PROVE  BackupInv'
<1> USE DEF BackupInv, Replaces, SaveStep, Whole, Missing, Torn
<1>1. CASE OpenTmp
  BY <1>1 DEF OpenTmp, Opened
<1>2. CASE CannotOpen
  BY <1>2 DEF CannotOpen
<1>3. CASE WriteTmp
  BY <1>3 DEF WriteTmp
<1>4. CASE CannotWrite
  BY <1>4 DEF CannotWrite
<1>5. CASE Rename
  BY <1>5 DEF Rename, Replaced
<1>6. CASE RemoveOld
  <2>1. ~replaces /\ running /\ save = "rename" /\ save' = "again"
        /\ UNCHANGED <<replaces, running, sram, tmp, kept>>
    BY <1>6 DEF RemoveOld
  <2>2. CASE file' = Missing /\ gone' = (gone \/ file.at # "absent")
    <3>1. file'.at = "absent"
      BY <2>2
    <3>2. ~gone' => ~gone /\ file.at = "absent"
      BY <2>2, Zenon
    <3> QED
      BY <2>1, <3>1, <3>2
  <2>3. CASE UNCHANGED <<file, gone>>
    BY <2>1, <2>3
  <2> QED
    BY <1>6, <2>2, <2>3 DEF RemoveOld
<1>7. CASE RenameAgain
  BY <1>7 DEF RenameAgain, Replaced
<1>8. CASE CannotReplace
  BY <1>8 DEF CannotReplace
<1> QED
  BY <1>1, <1>2, <1>3, <1>4, <1>5, <1>6, <1>7, <1>8

(* Each step keeps the page or its backup, the end of the program too. *)
LEMMA BackupKeeps == BackupInv /\ [UbNext]_ubVars => BackupInv'
<1> SUFFICES ASSUME BackupInv, [UbNext]_ubVars
             PROVE  BackupInv'
  OBVIOUS
<1>1. CASE Start
  BY <1>1 DEF Start, Saves, BackupInv, Replaces
<1>2. CASE Crash
  BY <1>2 DEF Crash, BackupInv, Replaces
<1>3. ASSUME NEW p \in Pages, NEW r \in Records, NEW n \in 1 .. MaxPackets, WriteCommand(p, r, n)
      PROVE  BackupInv'
  BY <1>3 DEF WriteCommand, Serves, BackupInv, Replaces
<1>4. CASE WritePacket
  BY <1>4 DEF WritePacket, Serves, Saves, BackupInv, Replaces
<1>5. CASE Erase
  BY <1>5 DEF Erase, Serves, Saves, BackupInv, Replaces
<1>6. CASE UNCHANGED ubVars
  BY <1>6 DEF ubVars, BackupInv, Replaces
<1> QED
  BY <1>1, <1>2, <1>3, <1>4, <1>5, <1>6, SaveKeeps DEF UbNext

\* What a start does with what it finds, in a state that the invariant allows.
LEMMA StartsFind ==
  ASSUME BackupInv, [UbNext]_ubVars, running', ~running
  PROVE  sram' = kept \/ (sram' = Filled(Blank) /\ (Archives(kept) => gone))
<1>1. Start
  BY
    DEF UbNext, Crash, WriteCommand, WritePacket, Erase, Serves, OpenTmp, CannotOpen,
        WriteTmp,
         CannotWrite, Rename, RemoveOld, RenameAgain, CannotReplace, SaveStep, ubVars
<1>2. CASE file.at = "whole"
  BY <1>1, <1>2 DEF Start, BackupInv, Whole
<1>3. CASE file.at # "whole"
  BY <1>1, <1>3 DEF Start, BackupInv
<1> QED
  BY <1>2, <1>3

\* For every number of pages, packets and starts: a start finds the memory of
\* the last save that succeeded, unless a later one removed its backup and came
\* to nothing (save_backup, load_backup).
THEOREM BackupsSurvive == UbSpec => BackupSurvives
<1>1. BackupInv /\ [UbNext]_ubVars =>
        [running' /\ ~running =>
           \/ sram' = kept
           \/ sram' = Filled(Blank) /\ (Archives(kept) => gone)]_ubVars
  BY StartsFind
<1> QED
  BY <1>1, BackupStarts, BackupKeeps, PTL DEF UbSpec, BackupSurvives

(* Where rename replaces, it never is another. *)
LEMMA ReplacesAlways == UbSpec /\ Renames = {TRUE} => []replaces
<1>1. UbInit /\ Renames = {TRUE} => replaces
  BY DEF UbInit
<1>2. replaces /\ [UbNext]_ubVars => replaces'
  BY DEF UbNext, Start, Crash, WriteCommand, WritePacket, Erase, OpenTmp, CannotOpen,
         WriteTmp, CannotWrite, Rename, RemoveOld, RenameAgain, CannotReplace, SaveStep,
         ubVars
<1> QED
  BY <1>1, <1>2, PTL DEF UbSpec

\* For every number of pages, packets and starts, where rename replaces: a start
\* finds the memory of the last save that succeeded, without an exception.
THEOREM BackupsSurviveAnywhere == UbSpec /\ Renames = {TRUE} => BackupSurvivesAnywhere
<1>1. BackupInv /\ replaces /\ [UbNext]_ubVars =>
        [running' /\ ~running =>
           \/ sram' = kept
           \/ sram' = Filled(Blank) /\ ~Archives(kept)]_ubVars
  BY StartsFind DEF BackupInv
<1> QED
  BY <1>1, BackupStarts, BackupKeeps, ReplacesAlways, PTL
    DEF UbSpec, BackupSurvivesAnywhere

-----------------------------------------------------------------------------
(* CardPairing *)

\* What fields hold; [f EXCEPT !.g = v] says nothing of an f without a domain.
CardTypes ==
  /\ presented \in [Commands -> Nat]
  /\ pairing \in [session : BOOLEAN, ack : Commands \cup {0}, last : Commands \cup {0}]
  /\ server \in [session : BOOLEAN, claim : Commands \cup {0}]
  /\ asking \in [at : {"rest", "active", "ask", "answered", "close"},
                 answer : {"none", "closed", "active", "claimed"}, command : Commands \cup {0}]

\* A command that has been carried out and is still with the server is the one
\* the cabinet remembers; an answer on its way hands out what the server still
\* has or what the cabinet remembers; and where it makes the cabinet forget,
\* the server has nothing that was carried out.
Handed ==
  /\ pairing.ack = pairing.last
  /\ server.claim # 0 /\ presented[server.claim] > 0 => pairing.last = server.claim
  /\ asking.at = "answered" =>
       /\ asking.answer = "claimed" => asking.command # 0
       /\ asking.command # 0 => asking.command \in {server.claim, pairing.last}
       /\ asking.answer = "closed" => server.claim = 0 \/ presented[server.claim] = 0

CardInv == CardTypes /\ (~closeLost => Handed /\ \A c \in Commands : presented[c] <= 1)

(* At first no card is chosen. *)
LEMMA CardStarts == CpInit => CardInv
  BY DEF CpInit, CardInv, CardTypes, Handed, Commands, NoPairing, Resting

(* The server is asked, or forgets the session. *)
LEMMA ServerKeeps ==
  ASSUME CardInv, SessionExpires \/ \E c \in Commands : Claim(c)
  PROVE  CardInv'
<1> USE DEF CardInv, CardTypes, Handed, Commands, readerVars, netVars
<1>1. CASE SessionExpires
  BY <1>1 DEF SessionExpires
<1>2. ASSUME NEW c \in Commands, Claim(c)
      PROVE  CardInv'
  BY <1>2 DEF Claim
<1> QED
  BY <1>1, <1>2

(* The reader asks for what was chosen. *)
LEMMA AskKeeps ==
  ASSUME CardInv, NEW late \in BOOLEAN, Ask(late)
  PROVE  CardInv'
<1> USE DEF CardInv, readerVars, netVars
<1>1. CardTypes'
  BY DEF CardTypes, Ask, Unacknowledged
<1>2. UNCHANGED <<pairing, presented, closeLost>>
  BY DEF Ask
<1>3. server'.claim = Unacknowledged
  BY DEF Ask
<1>4. asking'.command \in {server.claim, Unacknowledged}
  BY DEF Ask
<1>5. asking'.answer = "claimed" => asking'.command # 0
  BY DEF Ask
<1>6. ~closeLost => Handed'
  BY <1>2, <1>3, <1>4, <1>5 DEF Handed, Unacknowledged, CardTypes
<1> QED
  BY <1>1, <1>2, <1>6

(* The reader takes an answer, unless it has had it. *)
LEMMA ApplyKeeps ==
  ASSUME CardInv, Apply
  PROVE  CardInv'
<1> USE DEF CardInv, CardTypes, Handed, readerVars, netVars
<1>1. UNCHANGED <<server, closeLost>> /\ asking' = Resting /\ asking.at = "answered"
  BY DEF Apply
<1>2. CASE asking.answer = "closed"
  <2>1. pairing' = NoPairing /\ UNCHANGED readerVars
    BY <1>2 DEF Apply
  <2>2. CardTypes'
    BY <1>1, <2>1 DEF NoPairing, Resting
  <2>3. ~closeLost => Handed'
    BY <1>1, <1>2, <2>1 DEF NoPairing, Resting
  <2> QED
    BY <1>1, <2>1, <2>2, <2>3
<1>3. CASE asking.answer = "claimed" /\ IsNew(asking.command)
  <2>1. /\ pairing' = [session |-> TRUE, ack |-> asking.command, last |-> asking.command]
        /\ PresentCard(asking.command)
    BY <1>3 DEF Apply
  <2>2. presented' \in {presented, [presented EXCEPT ![asking.command] = @ + 1]}
    BY <2>1 DEF PresentCard
  <2>3. CardTypes'
    BY <1>1, <2>1, <2>2 DEF Resting
  <2>4. ASSUME ~closeLost
        PROVE  Handed' /\ \A c \in Commands : presented'[c] <= 1
    <3>1. asking.command \in Commands /\ asking.command = server.claim
      BY <1>1, <1>3, <2>4 DEF IsNew
    <3>2. presented[asking.command] = 0
      BY <1>3, <2>4, <3>1 DEF IsNew, Commands
    <3>3. \A c \in Commands : presented'[c] <= 1
      BY <2>2, <2>4, <3>1, <3>2
    <3> QED
      BY <1>1, <2>1, <3>1, <3>3 DEF Resting
  <2> QED
    BY <1>1, <2>3, <2>4
<1>4. CASE ~(asking.answer = "closed" \/ (asking.answer = "claimed" /\ IsNew(asking.command)))
  <2>1. pairing' = [pairing EXCEPT !.session = TRUE] /\ UNCHANGED readerVars
    BY <1>4 DEF Apply
  <2> QED
    BY <1>1, <2>1 DEF Resting
<1> QED
  BY <1>2, <1>3, <1>4

(* A session is closed, and its answers with it. *)
LEMMA CloseKeeps ==
  ASSUME CardInv, NEW lost \in BOOLEAN, CloseSession(lost)
  PROVE  CardInv'
<1> USE DEF CardInv, CardTypes, Handed, NoPairing, Resting, readerVars, netVars
<1>1. pairing' = NoPairing /\ asking' = Resting /\ UNCHANGED readerVars
  BY DEF CloseSession
<1>2. CASE lost
  <2>1. closeLost' = TRUE /\ UNCHANGED server
    BY <1>2, Zenon DEF CloseSession
  <2> QED
    BY <1>1, <2>1
<1>3. CASE ~lost
  <2>1. /\ server' = [session |-> FALSE, claim |-> Unacknowledged]
        /\ UNCHANGED closeLost
    BY <1>3, Zenon DEF CloseSession
  <2>2. CardTypes'
    BY <1>1, <2>1 DEF Unacknowledged
  <2>3. ~closeLost => Handed'
    BY <1>1, <2>1 DEF Unacknowledged, Commands
  <2> QED
    BY <1>1, <2>1, <2>2, <2>3
<1> QED
  BY <1>2, <1>3

(* Each step keeps a card from being given twice. *)
LEMMA CardKeeps == CardInv /\ [CpNext]_cpVars => CardInv'
<1> SUFFICES ASSUME CardInv, [CpNext]_cpVars
             PROVE  CardInv'
  OBVIOUS
<1> USE DEF CardInv, CardTypes, Handed, readerVars, netVars
<1>1. CASE Second \/ PollReader
  BY <1>1 DEF Second, PollReader
<1>2. CASE LookAtReader \/ LookForCard
  BY <1>2 DEF LookAtReader, LookForCard
<1>3. CASE AskLost \/ AnswerLost
  BY <1>3 DEF AskLost, AnswerLost, Resting
<1>4. CASE UNCHANGED cpVars
  BY <1>4 DEF cpVars
<1> QED
  BY <1>1, <1>2, <1>3, <1>4, ServerKeeps, AskKeeps, ApplyKeeps, CloseKeeps DEF CpNext

\* For every number of cards and of lost messages, and whatever the seconds of
\* a poll and of a card are: a card is put on the reader once, if no request
\* that closes a session is lost (apply, pairing_request).
THEOREM CardsAreOnce == CpSpec => []EachCardOnce
<1>1. CardInv => EachCardOnce
  BY DEF CardInv, EachCardOnce
<1> QED
  BY <1>1, CardStarts, CardKeeps, PTL DEF CpSpec

-----------------------------------------------------------------------------
(* PreviewDecoder *)

Jobs == [gen : Nat, handle : Handles \cup {None}, song : Songs \cup {None}]
DecoderStates ==
  [gen : Nat, song : Songs \cup {None}, pcm : Songs \cup {None}, async_pending : BOOLEAN,
   reset_requested : BOOLEAN, cursor : {"start", "cue", "after start", "after cue"}]

PreviewTypes ==
  /\ decoders \in [Handles -> DecoderStates]
  /\ setting \in [PlayThreads -> [at : {"guest", "drawn", "queue"}, job : Jobs,
                                  outcome : {"none", "ready", "queued"}]]
  /\ lastGen \in Nat
  /\ pending \in Jobs
  /\ worker \in [at : {"wait", "check", "decode", "publish", "finish", "gone"}, job : Jobs]

\* What a decoder that is told what to play has to play.
Plays(d) ==
  /\ d.pcm \in {None, d.song}
  /\ d.async_pending => d.pcm = None
  /\ d.reset_requested /\ d.pcm # None => d.cursor \in {"cue", "after cue"}

\* Who has a generation, and with which song.
With(x) == <<x.gen, x.song>>
Carried ==
  {With(NoJob), With(pending), With(worker.job)}
    \cup {With(decoders[h]) : h \in Handles} \cup {With(setting[t].job) : t \in PlayThreads}

\* A generation that was given out stands for one song.
OneSong == \A a, b \in Carried : a[1] \in 0 .. lastGen /\ (a[1] = b[1] => a[2] = b[2])

PreviewInv == PreviewTypes /\ OneSong /\ \A h \in Handles : Plays(decoders[h])

(* At first no song is set. *)
LEMMA PreviewStarts == PvInit => PreviewInv
<1> SUFFICES ASSUME PvInit
             PROVE  PreviewInv
  OBVIOUS
<1> USE DEF PvInit
<1>1. PreviewTypes
  BY DEF PreviewTypes, Jobs, DecoderStates, NoJob, Absent, AtHome
<1>2. Carried \subseteq {<<0, None>>}
  BY DEF Carried, With, NoJob, Absent, AtHome
<1>3. OneSong
  BY <1>2 DEF OneSong
<1>4. \A h \in Handles : Plays(decoders[h])
  BY DEF Plays, Absent
<1> QED
  BY <1>1, <1>3, <1>4 DEF PreviewInv

\* A step that gives out no generation.
LEMMA NobodyNew ==
  ASSUME OneSong, UNCHANGED lastGen, Carried' \subseteq Carried
  PROVE  OneSong'
  BY DEF OneSong

\* A step that changes one decoder.
LEMMA OneDecoder ==
  ASSUME PreviewInv, NEW h, NEW d \in DecoderStates, Plays(d), With(d) \in Carried,
         decoders' = [decoders EXCEPT ![h] = d]
  PROVE  /\ decoders' \in [Handles -> DecoderStates]
         /\ \A g \in Handles : Plays(decoders'[g])
         /\ \A g \in Handles : With(decoders'[g]) \in Carried
<1>1. \A g \in Handles : decoders'[g] \in {d, decoders[g]}
  BY DEF PreviewInv, PreviewTypes
<1>2. \A g \in Handles : Plays(decoders'[g])
  BY <1>1 DEF PreviewInv
<1>3. \A g \in Handles : With(decoders'[g]) \in Carried
  BY <1>1 DEF Carried
<1> QED
  BY <1>2, <1>3 DEF PreviewInv, PreviewTypes

(* A guest thread begins to set a song. *)
LEMMA SetDataKeeps ==
  ASSUME PreviewInv, NEW t \in PlayThreads, NEW h \in Handles, NEW song \in Songs, NEW k \in Kinds,
         SetData(t, h, song, k)
  PROVE  PreviewInv'
<1> DEFINE job == [gen |-> lastGen + 1, handle |-> h, song |-> song]
<1>1. /\ setting' = [setting EXCEPT ![t] = [at |-> "drawn", outcome |-> Outcome(song, k), job |-> job]]
      /\ lastGen' = lastGen + 1
      /\ UNCHANGED <<decoders, pending, worker>>
  BY DEF SetData, queueVars
<1>2. Outcome(song, k) \in {"none", "ready", "queued"}
  BY DEF Outcome
<1>3. job \in Jobs
  BY DEF PreviewInv, PreviewTypes, Jobs
<1>4. PreviewTypes'
  BY <1>1, <1>2, <1>3 DEF PreviewInv, PreviewTypes
<1>5. Carried' \subseteq Carried \cup {<<lastGen + 1, song>>}
  <2>1. \A u \in PlayThreads : setting'[u].job \in {job, setting[u].job}
    BY <1>1 DEF PreviewInv, PreviewTypes
  <2> QED
    BY <1>1, <2>1 DEF Carried, With
<1>6. OneSong'
  BY <1>1, <1>5 DEF OneSong, PreviewInv, PreviewTypes
<1> QED
  BY <1>1, <1>4, <1>6 DEF PreviewInv

(* A decoder gets its song. *)
LEMMA InstallKeeps ==
  ASSUME PreviewInv, NEW t \in PlayThreads, Install(t)
  PROVE  PreviewInv'
<1> DEFINE job == setting[t].job
           outcome == setting[t].outcome
           d == [Absent EXCEPT !.gen = job.gen, !.song = job.song,
                               !.pcm = IF outcome = "ready" THEN job.song ELSE None,
                               !.async_pending = outcome = "queued"]
<1>1. /\ decoders' = [decoders EXCEPT ![job.handle] = d]
      /\ setting' = [setting EXCEPT ![t] =
           IF outcome = "queued" THEN [setting[t] EXCEPT !.at = "queue"] ELSE AtHome]
      /\ UNCHANGED <<lastGen, pending, worker>>
  BY DEF Install, queueVars
<1>2. d \in DecoderStates
  BY DEF PreviewInv, PreviewTypes, Jobs, DecoderStates, Absent
<1>3. Plays(d)
  BY DEF Plays, Absent
<1>4. With(d) \in Carried
  BY DEF Carried, With, Absent
<1>5. /\ decoders' \in [Handles -> DecoderStates]
      /\ \A g \in Handles : Plays(decoders'[g])
      /\ \A g \in Handles : With(decoders'[g]) \in Carried
  BY <1>1, <1>2, <1>3, <1>4, OneDecoder
<1>6. PreviewTypes'
  BY <1>1, <1>5 DEF PreviewInv, PreviewTypes, AtHome, NoJob, Jobs
<1>7. \A u \in PlayThreads : setting'[u].job \in {NoJob, setting[u].job}
  BY <1>1 DEF PreviewInv, PreviewTypes, AtHome
<1>8. Carried' \subseteq Carried
  BY <1>1, <1>5, <1>7 DEF Carried
<1> QED
  BY <1>1, <1>5, <1>6, <1>8, NobodyNew DEF PreviewInv

(* The worker gets the last request. *)
LEMMA EnqueueKeeps ==
  ASSUME PreviewInv, NEW t \in PlayThreads, Enqueue(t)
  PROVE  PreviewInv'
<1>1. /\ pending' = setting[t].job
      /\ setting' = [setting EXCEPT ![t] = AtHome]
      /\ UNCHANGED <<decoders, lastGen, worker>>
  BY DEF Enqueue, TakenUp
<1>2. PreviewTypes'
  BY <1>1 DEF PreviewInv, PreviewTypes, AtHome, NoJob, Jobs
<1>3. \A u \in PlayThreads : setting'[u].job \in {NoJob, setting[u].job}
  BY <1>1 DEF PreviewInv, PreviewTypes, AtHome
<1>4. Carried' \subseteq Carried
  BY <1>1, <1>3 DEF Carried
<1> QED
  BY <1>1, <1>2, <1>4, NobodyNew DEF PreviewInv

\* The guest deletes, moves or decodes, or the worker publishes: one decoder
\* gets a state that carries nothing new.
LEMMA DecoderKeeps ==
  ASSUME PreviewInv, NEW h, NEW d \in DecoderStates, Plays(d), With(d) \in Carried,
         decoders' = [decoders EXCEPT ![h] = d],
         worker' \in {worker, [worker EXCEPT !.at = "finish"]},
         UNCHANGED <<lastGen, setting, pending>>
  PROVE  PreviewInv'
<1>1. /\ decoders' \in [Handles -> DecoderStates]
      /\ \A g \in Handles : Plays(decoders'[g])
      /\ \A g \in Handles : With(decoders'[g]) \in Carried
  BY OneDecoder
<1>2. worker' \in [at : {"wait", "check", "decode", "publish", "finish", "gone"}, job : Jobs]
      /\ worker'.job = worker.job
  BY DEF PreviewInv, PreviewTypes
<1>3. PreviewTypes'
  BY <1>1, <1>2 DEF PreviewInv, PreviewTypes
<1>4. Carried' \subseteq Carried
  BY <1>1, <1>2 DEF Carried
<1> QED
  BY <1>1, <1>3, <1>4, NobodyNew DEF PreviewInv

\* The worker takes, keeps or drops a job.
LEMMA WorkerKeeps ==
  ASSUME PreviewInv, UNCHANGED <<decoders, lastGen, setting>>,
         pending' \in {pending, NoJob},
         worker' \in [at : {"wait", "check", "decode", "publish", "finish", "gone"},
                      job : {worker.job, pending, NoJob}]
  PROVE  PreviewInv'
<1>1. worker'.job \in {worker.job, pending, NoJob}
  OBVIOUS
<1>2. NoJob \in Jobs
  BY DEF NoJob, Jobs
<1>3. PreviewTypes'
  BY <1>2 DEF PreviewInv, PreviewTypes
<1>4. Carried' \subseteq Carried
  BY <1>1 DEF Carried
<1> QED
  BY <1>3, <1>4, NobodyNew DEF PreviewInv

(* The other calls of the guest. *)
LEMMA GuestKeeps ==
  ASSUME PreviewInv, NEW h \in Handles, Delete(h) \/ ResetPlayPosition(h) \/ Decode(h)
  PROVE  PreviewInv'
<1>1. /\ decoders[h] \in DecoderStates
      /\ Plays(decoders[h])
      /\ With(decoders[h]) \in Carried
  BY DEF PreviewInv, PreviewTypes, Carried
<1>2. CASE Delete(h)
  <2>1. Absent \in DecoderStates /\ Plays(Absent) /\ With(Absent) \in Carried
    BY DEF DecoderStates, Absent, Plays, With, Carried, NoJob
  <2> QED
    BY <1>2, <2>1, DecoderKeeps DEF Delete, queueVars
<1>3. CASE ResetPlayPosition(h)
  <2> DEFINE c == IF decoders[h].async_pending THEN decoders[h].cursor
                  ELSE IF decoders[h].pcm = None THEN "start" ELSE "cue"
             d == [decoders[h] EXCEPT !.reset_requested = TRUE, !.cursor = c]
  <2>1. decoders' = [decoders EXCEPT ![h] = d] /\ UNCHANGED <<lastGen, setting, pending, worker>>
    BY <1>3 DEF ResetPlayPosition, queueVars
  <2>2. c \in {"start", "cue", "after start", "after cue"}
    BY <1>1 DEF DecoderStates
  <2>3. d \in DecoderStates
    BY <1>1, <2>2 DEF DecoderStates
  <2>4. Plays(d)
    BY <1>1 DEF Plays, DecoderStates
  <2>5. With(d) \in Carried
    BY <1>1 DEF With, DecoderStates
  <2> QED
    BY <2>1, <2>3, <2>4, <2>5, DecoderKeeps
<1>4. CASE Decode(h)
  <2> DEFINE old == decoders[h].cursor
             c == CASE old = "start" -> "after start" [] old = "cue" -> "after cue" [] OTHER -> old
             d == [decoders[h] EXCEPT !.cursor = c]
  <2>1. decoders' = [decoders EXCEPT ![h] = d] /\ UNCHANGED <<lastGen, setting, pending, worker>>
    BY <1>1, <1>4 DEF Decode, queueVars, DecoderStates
  <2>2. c \in {"start", "cue", "after start", "after cue"}
    BY <1>1 DEF DecoderStates
  <2>3. old \in {"cue", "after cue"} => c \in {"cue", "after cue"}
    OBVIOUS
  <2>4. d \in DecoderStates
    BY <1>1, <2>2 DEF DecoderStates
  <2>5. Plays(d)
    BY <1>1, <2>3 DEF Plays, DecoderStates
  <2>6. With(d) \in Carried
    BY <1>1 DEF With, DecoderStates
  <2> QED
    BY <2>1, <2>4, <2>5, <2>6, DecoderKeeps
<1> QED
  BY <1>2, <1>3, <1>4

(* The worker publishes what it has decoded, if it is still asked for. *)
LEMMA PublishKeeps ==
  ASSUME PreviewInv, Publish
  PROVE  PreviewInv'
<1>1. /\ worker' = [worker EXCEPT !.at = "finish"]
      /\ UNCHANGED <<lastGen, setting, pending>>
  BY DEF Publish, queueVars
<1>2. CASE UNCHANGED decoders
  BY <1>1, <1>2, WorkerKeeps DEF PreviewInv, PreviewTypes
<1>3. CASE decoders' # decoders
  <2> DEFINE h == Job.handle
             d == [decoders[h] EXCEPT !.pcm = Job.song, !.cursor = First(decoders[h]),
                                      !.async_pending = FALSE]
  <2>1. decoders' = [decoders EXCEPT ![h] = d] /\ decoders[h].gen = Job.gen
    BY <1>3 DEF Publish, IsWanted
  <2>2. h \in Handles
    BY <1>3, <2>1 DEF PreviewInv, PreviewTypes
  <2>3. /\ decoders[h] \in DecoderStates /\ Job \in Jobs
        /\ Plays(decoders[h])
        /\ With(decoders[h]) \in Carried /\ With(Job) \in Carried
    BY <2>2 DEF PreviewInv, PreviewTypes, Carried, Job
  <2>4. decoders[h].song = Job.song
    BY <2>1, <2>3 DEF PreviewInv, OneSong, With
  <2>5. d \in DecoderStates
    BY <2>3 DEF DecoderStates, Jobs, First
  <2>6. Plays(d)
    BY <2>3, <2>4 DEF Plays, DecoderStates, First
  <2>7. With(d) \in Carried
    BY <2>3 DEF With, DecoderStates
  <2> QED
    BY <1>1, <2>1, <2>5, <2>6, <2>7, DecoderKeeps
<1> QED
  BY <1>2, <1>3

(* Each step keeps the decoders right. *)
LEMMA PreviewKeeps == PreviewInv /\ [PvNext]_pvVars => PreviewInv'
<1> SUFFICES ASSUME PreviewInv, [PvNext]_pvVars
             PROVE  PreviewInv'
  OBVIOUS
<1>1. worker \in [at : {"wait", "check", "decode", "publish", "finish", "gone"}, job : Jobs]
  BY DEF PreviewInv, PreviewTypes
<1>2. CASE TakeJob
  BY <1>1, <1>2, WorkerKeeps DEF TakeJob
<1>3. CASE CheckJob
  BY <1>1, <1>3, WorkerKeeps DEF CheckJob, queueVars
<1>4. CASE DecodeJob
  BY <1>1, <1>4, WorkerKeeps DEF DecodeJob, queueVars
<1>5. CASE FinishJob
  BY <1>1, <1>5, WorkerKeeps DEF FinishJob
<1>6. CASE EndWorker
  BY <1>1, <1>6, WorkerKeeps DEF EndWorker, queueVars
<1>7. CASE StopWorker
  BY <1>1, <1>7, WorkerKeeps DEF StopWorker
<1>8. CASE UNCHANGED pvVars
  BY <1>1, <1>8, WorkerKeeps DEF pvVars
<1> QED
  BY <1>2, <1>3, <1>4, <1>5, <1>6, <1>7, <1>8, SetDataKeeps, InstallKeeps, EnqueueKeeps,
     GuestKeeps, PublishKeeps DEF PvNext, WorkerStep, SetDataStep

\* For every number of decoders, songs and guest threads: a decoder plays the
\* song it was given last, from the cue that was set for it (enqueue, publish,
\* cellAtracSetDataAndGetMemSize).
THEOREM PreviewsAreRight == PvSpec => []PlaysWhatWasAsked
<1>1. PreviewInv => PlaysWhatWasAsked
  BY DEF PreviewInv, Plays, PlaysWhatWasAsked, NoStalePreview, CueIsKept
<1> QED
  BY <1>1, PreviewStarts, PreviewKeeps, PTL DEF PvSpec

-----------------------------------------------------------------------------
(* DrumInput *)

In(a, set) == IF a \in set THEN 1 ELSE 0

DiTypes ==
  /\ held \in [Devices -> SUBSET Actions]
  /\ edge \in [Devices \cup {"one"} -> SUBSET Actions]
  /\ levels \subseteq Actions /\ rising \subseteq Actions /\ cached \subseteq Actions
  /\ heard \in [Actions -> Nat] /\ strikes \in [Actions -> Nat]

\* Strikes of `a` that may still be told: of the sampler's devices those it has
\* not seen; of the event loop's those that went into a level that was up.
Owed(a) ==
  IF host # "sampler" THEN In(a, held["keys"]) + In(a, held["pads"]) - In(a, levels)
  ELSE IF a \notin levels THEN In(a, held["keys"]) + In(a, held["pads"])
  ELSE In(a, held["pads"] \ cached)

\* Every report of an action, and every edge on its way to one, has a strike.
Accounted ==
  \A a \in Actions : heard[a] + In(a, rising) + In(a, edge["one"]) + Owed(a) <= strikes[a]

\* A level has a device that is down, as far as its host knows.
LevelsAreHeld ==
  /\ host = "sampler" => cached \subseteq levels
  /\ host # "sampler" => levels \subseteq held["keys"] \cup held["pads"]

StrikeInv ==
  host # "kms" => /\ DiTypes /\ Accounted /\ LevelsAreHeld
                  /\ edge["keys"] = {} /\ edge["pads"] = {}

(* At first nothing is held. *)
LEMMA InputStarts == DiInit => StrikeInv
<1> SUFFICES ASSUME DiInit PROVE StrikeInv
  OBVIOUS
<1>1. DiTypes
  BY DEF DiInit, DiTypes
<1>2. Accounted
  BY DEF DiInit, Accounted, Owed, In, Devices
<1> QED
  BY <1>1, <1>2 DEF DiInit, StrikeInv, LevelsAreHeld, Devices

(* Something is struck. *)
LEMMA StrikeKeeps ==
  ASSUME StrikeInv, host # "kms", NEW d \in Devices, NEW a \in Actions, Strike(d, a)
  PROVE  StrikeInv'
<1>0. /\ DiTypes /\ Accounted /\ LevelsAreHeld /\ edge["keys"] = {} /\ edge["pads"] = {}
  BY DEF StrikeInv
<1>1. /\ host' = host /\ cached' = cached /\ rising' = rising /\ heard' = heard
      /\ a \notin held[d] /\ held' = [held EXCEPT ![d] = @ \cup {a}]
      /\ strikes' = [strikes EXCEPT ![a] = @ + 1]
      /\ edge["one"] = {}
  BY DEF Strike, Follow, Idle, Thread, boardVars
<1>2. CASE host = "sampler"
  <2>1. levels' = levels /\ edge' = edge
    BY <1>2 DEF Strike, Follow
  <2>2. DiTypes' /\ LevelsAreHeld'
    BY <1>0, <1>1, <1>2, <2>1 DEF DiTypes, LevelsAreHeld
  <2>3. Accounted'
    BY <1>0, <1>1, <1>2, <2>1 DEF DiTypes, Accounted, Owed, In, Devices
  <2> QED
    BY <1>0, <1>1, <2>1, <2>2, <2>3 DEF StrikeInv
<1>3. CASE host # "sampler"
  <2>1. levels' = levels \cup {a} /\ edge' = [edge EXCEPT !["one"] = {a} \ levels]
    BY <1>3 DEF Strike, Follow, Press, Rises, Thread
  <2>2. DiTypes' /\ LevelsAreHeld' /\ edge'["keys"] = {} /\ edge'["pads"] = {}
    BY <1>0, <1>1, <1>3, <2>1 DEF DiTypes, LevelsAreHeld, Devices
  <2>3. Accounted'
    BY <1>0, <1>1, <1>3, <2>1 DEF DiTypes, Accounted, Owed, In, Devices
  <2> QED
    BY <1>0, <1>1, <2>1, <2>2, <2>3 DEF StrikeInv
<1> QED
  BY <1>2, <1>3

(* Something is let go. *)
LEMMA LiftKeeps ==
  ASSUME StrikeInv, host # "kms", NEW d \in Devices, NEW released, Lift(d, released)
  PROVE  StrikeInv'
<1>0. /\ DiTypes /\ Accounted /\ LevelsAreHeld /\ edge["keys"] = {} /\ edge["pads"] = {}
  BY DEF StrikeInv
<1>1. /\ host' = host /\ cached' = cached /\ rising' = rising /\ heard' = heard /\ edge' = edge
      /\ released \subseteq held[d] /\ held' = [held EXCEPT ![d] = @ \ released]
      /\ strikes' = strikes
      /\ levels' = IF host = "sampler" THEN levels ELSE levels \ released
  BY DEF Lift, Follow, Release, boardVars
<1>2. DiTypes'
  BY <1>0, <1>1 DEF DiTypes
<1>3. LevelsAreHeld'
  BY <1>0, <1>1 DEF DiTypes, LevelsAreHeld, Devices
<1>4. Accounted'
  BY <1>0, <1>1 DEF DiTypes, Accounted, Owed, In, Devices
<1> QED
  BY <1>0, <1>1, <1>2, <1>3, <1>4 DEF StrikeInv

(* A trigger moves. *)
LEMMA MoveKeeps ==
  ASSUME StrikeInv, host # "kms", NEW a \in Actions, TriggerMoves(a)
  PROVE  StrikeInv'
<1>0. /\ DiTypes /\ Accounted /\ LevelsAreHeld /\ edge["keys"] = {} /\ edge["pads"] = {}
  BY DEF StrikeInv
<1>1. /\ host' = host /\ cached' = cached /\ rising' = rising /\ heard' = heard
      /\ a \in held["pads"] /\ host # "sampler" /\ UNCHANGED <<held, strikes>>
      /\ edge["one"] = {}
      /\ levels' = levels \cup {a} /\ edge' = [edge EXCEPT !["one"] = {a} \ levels]
  BY DEF TriggerMoves, Follow, Idle, Thread, Press, Rises, boardVars
<1>2. DiTypes' /\ LevelsAreHeld' /\ edge'["keys"] = {} /\ edge'["pads"] = {}
  BY <1>0, <1>1 DEF DiTypes, LevelsAreHeld, Devices
<1>3. Accounted'
  BY <1>0, <1>1 DEF DiTypes, Accounted, Owed, In, Devices
<1> QED
  BY <1>2, <1>3 DEF StrikeInv

(* The devices are sampled. *)
LEMMA SampleKeeps ==
  ASSUME StrikeInv, host # "kms", NEW fresh \in BOOLEAN, Sample(fresh)
  PROVE  StrikeInv'
<1> DEFINE pads == IF fresh THEN held["pads"] ELSE cached
           now == held["keys"] \cup pads
<1>0. /\ DiTypes /\ Accounted /\ LevelsAreHeld /\ edge["keys"] = {} /\ edge["pads"] = {}
  BY DEF StrikeInv
<1>1. /\ host' = host /\ rising' = rising /\ heard' = heard /\ UNCHANGED <<held, strikes>>
      /\ host = "sampler" /\ edge["one"] = {}
      /\ cached' = pads /\ levels' = now /\ edge' = [edge EXCEPT !["one"] = now \ levels]
  BY Zenon DEF Sample, Idle, UpdateLevels, boardVars
<1>2. pads = held["pads"] \/ pads = cached
  BY Zenon
<1> HIDE DEF pads
<1>3. DiTypes' /\ LevelsAreHeld' /\ edge'["keys"] = {} /\ edge'["pads"] = {}
  BY <1>0, <1>1, <1>2 DEF DiTypes, LevelsAreHeld, Devices
<1>4. Accounted'
  <2>1. CASE pads = held["pads"]
    BY <1>0, <1>1, <2>1 DEF DiTypes, Accounted, LevelsAreHeld, Owed, In, Devices
  <2>2. CASE pads = cached
    BY <1>0, <1>1, <2>2 DEF DiTypes, Accounted, LevelsAreHeld, Owed, In, Devices
  <2> QED
    BY <1>2, <2>1, <2>2
<1> QED
  BY <1>3, <1>4 DEF StrikeInv

(* Edges are latched. *)
LEMMA LatchKeeps ==
  ASSUME StrikeInv, host # "kms", NEW w \in DOMAIN edge, Latch(w)
  PROVE  StrikeInv'
<1>0. /\ DiTypes /\ Accounted /\ LevelsAreHeld /\ edge["keys"] = {} /\ edge["pads"] = {}
  BY DEF StrikeInv
<1>1. w = "one" /\ rising' = rising \cup edge["one"] /\ edge' = [edge EXCEPT !["one"] = {}]
      /\ UNCHANGED <<host, held, cached, strikes, levels, heard>>
  BY <1>0 DEF Latch, Idle, DiTypes, Devices, deviceVars, boardVars
<1>2. DiTypes' /\ LevelsAreHeld' /\ edge'["keys"] = {} /\ edge'["pads"] = {}
  BY <1>0, <1>1 DEF DiTypes, LevelsAreHeld, Devices
<1>3. Accounted'
  BY <1>0, <1>1 DEF DiTypes, Accounted, Owed, In, Devices
<1> QED
  BY <1>2, <1>3 DEF StrikeInv

(* A report takes what was struck. *)
LEMMA ReportKeeps ==
  ASSUME StrikeInv, host # "kms", Report
  PROVE  StrikeInv'
<1> DEFINE struck == IF poll.on THEN Taken ELSE {}
<1>0. /\ DiTypes /\ Accounted /\ LevelsAreHeld /\ edge["keys"] = {} /\ edge["pads"] = {}
  BY DEF StrikeInv
<1>1. /\ rising' = {} /\ heard' = [a \in Actions |-> heard[a] + In(a, struck)]
      /\ UNCHANGED <<host, held, cached, strikes, levels, edge>>
  BY Zenon DEF Report, In, deviceVars
<1>2. struck \subseteq rising
  BY Zenon DEF Taken
<1> HIDE DEF struck
<1>3. DiTypes'
  BY <1>0, <1>1 DEF DiTypes, In
<1>4. Accounted'
  BY <1>0, <1>1, <1>2 DEF DiTypes, Accounted, Owed, In, Devices
<1> QED
  BY <1>0, <1>1, <1>3, <1>4 DEF StrikeInv, LevelsAreHeld

\* A strike is told to the game once, whichever of the two devices it came
\* from, whatever else is down and however often a position is told again, but
\* where the display is driven without a window system
\* (tests/taiko_host_input_tests.cpp:24).
THEOREM StrikesHaveNoGhosts == DiSpec => []NoGhostStrikes
<1>1. StrikeInv /\ [DiNext]_diVars => StrikeInv'
  <2> SUFFICES ASSUME StrikeInv, [DiNext]_diVars PROVE StrikeInv'
    OBVIOUS
  <2>1. host' = host
    BY Zenon
      DEF DiNext, diVars, Strike, Lift, TriggerMoves, Follow, Sample, InputThread, Latch,
          Reports,
       LoadLevels, Report, EndInput, deviceVars
  <2>2. CASE host = "kms"
    BY <2>1, <2>2 DEF StrikeInv
  <2>3. ASSUME host # "kms", UNCHANGED <<host, held, cached, levels, rising, edge, strikes, heard>>
        PROVE  StrikeInv'
    BY <2>3 DEF StrikeInv, DiTypes, Accounted, LevelsAreHeld, Owed
  <2>4. CASE host # "kms" /\ (LoadLevels \/ EndInput \/ UNCHANGED diVars)
    BY <2>3, <2>4, Zenon DEF LoadLevels, EndInput, deviceVars, boardVars, diVars
  <2> QED
    BY <2>2, <2>4, StrikeKeeps, LiftKeeps, MoveKeeps, SampleKeeps, LatchKeeps,
        ReportKeeps, Zenon
    DEF DiNext, InputThread, Reports
<1>2. StrikeInv => NoGhostStrikes
  <2> SUFFICES ASSUME StrikeInv, host # "kms", NEW a \in Actions
               PROVE  heard[a] + Pending(a) <= strikes[a]
    BY DEF NoGhostStrikes
  <2>1. /\ DiTypes /\ Accounted /\ LevelsAreHeld /\ edge["keys"] = {} /\ edge["pads"] = {}
    BY DEF StrikeInv
  <2>2. Owed(a) >= 0
    BY <2>1 DEF DiTypes, LevelsAreHeld, Owed, In
  <2>3. a \in UNION {edge[w] : w \in DOMAIN edge} => a \in edge["one"]
    BY <2>1 DEF DiTypes, Devices
  <2>4. Pending(a) <= In(a, rising) + In(a, edge["one"])
    BY <2>3 DEF Pending, In
  <2>5. heard[a] + In(a, rising) + In(a, edge["one"]) + Owed(a) <= strikes[a]
    BY <2>1 DEF Accounted
  <2> QED
    BY <2>1, <2>2, <2>4, <2>5 DEF DiTypes, Owed, Pending, In
<1> QED
  BY <1>1, <1>2, InputStarts, PTL DEF DiSpec

-----------------------------------------------------------------------------
(* AudioOutput *)

Opening == {"opening", "starting", "ready"}
Closing == {"joining", "closing"}

CallTypes ==
  /\ shutdown \in 0 .. 2 /\ inits \in Nat
  /\ caller \in [AudioCallers -> {"idle", "stopping", "waiting", "stopped"} \cup Opening \cup Closing]

ThreadType == thread \in [running : BOOLEAN, started : BOOLEAN]

SinkStates == [open : BOOLEAN, submitted : Nat, resumed : BOOLEAN, queued : Int]
SinkType == sink \in SinkStates

\* The thread is known, and so is the stream.
NothingUnknown ==
  /\ thread.started <=> mixer # "none"
  /\ sink.open => sink_initialized

\* Nobody shuts down what was not opened, and the guest opens it alone.
OpenedAlone ==
  /\ inits = 0 => /\ ~audio_initialized /\ shutdown = 0 /\ mixer = "none"
                  /\ caller[GuestCaller] = "idle" /\ caller[HostCaller] = "idle"
  /\ caller[GuestCaller] \in Opening =>
       ~audio_initialized /\ shutdown = 0 /\ caller[HostCaller] = "idle"
  /\ caller[GuestCaller] \in {"opening", "starting"} => mixer = "none"
  /\ caller[HostCaller] \notin Opening

\* One caller closes, and then the output is closed.
ClosedOnce ==
  /\ \A c \in AudioCallers : caller[c] \in Closing => shutdown = 1
  /\ ~(caller[GuestCaller] \in Closing /\ caller[HostCaller] \in Closing)

AoInv == CallTypes /\ ThreadType /\ SinkType /\ NothingUnknown /\ OpenedAlone /\ ClosedOnce /\ ClosedIsQuiet

(* A closed sink and a thread are of their types. *)
LEMMA Fits ==
  ASSUME NEW b \in BOOLEAN, NEW c \in BOOLEAN
  PROVE  /\ [open |-> b, submitted |-> 0, resumed |-> c, queued |-> 0] \in SinkStates
         /\ [running |-> b, started |-> c] \in [running : BOOLEAN, started : BOOLEAN]
  BY DEF SinkStates

(* So is no sink, and one just opened. *)
LEMMA NoSinkFits == NoSink \in SinkStates /\ [NoSink EXCEPT !.open = TRUE] \in SinkStates
<1> DEFINE t == TRUE
           f == FALSE
<1>1. NoSink = [open |-> f, submitted |-> 0, resumed |-> f, queued |-> 0]
  BY Zenon DEF NoSink
<1>2. t \in BOOLEAN /\ f \in BOOLEAN
  BY Zenon
<1>3. [NoSink EXCEPT !.open = TRUE] = [NoSink EXCEPT !.open = t]
  BY Zenon
<1> HIDE DEF t, f
<1>4. [NoSink EXCEPT !.open = t] = [open |-> t, submitted |-> 0, resumed |-> f, queued |-> 0]
  BY <1>1
<1>5. /\ [open |-> f, submitted |-> 0, resumed |-> f, queued |-> 0] \in SinkStates
      /\ [open |-> t, submitted |-> 0, resumed |-> f, queued |-> 0] \in SinkStates
  BY <1>2, Fits
<1>6. NoSink \in SinkStates
  BY <1>1, <1>5, Zenon
<1> QED
  BY <1>3, <1>4, <1>5, <1>6

(* So is a sink with a block more. *)
LEMMA SubmittedFits ==
  ASSUME SinkType, OutputAssumption
  PROVE  Submitted \in SinkStates /\ Submitted.open = sink.open
<1>1. (sink.resumed \/ sink.submitted + 1 >= Prebuffer) \in BOOLEAN
  BY Zenon
<1>2. (IF sink.submitted < Prebuffer THEN sink.submitted + 1 ELSE sink.submitted) \in Nat
  BY DEF SinkType, SinkStates
<1> DEFINE r == sink.resumed \/ sink.submitted + 1 >= Prebuffer
           n == IF sink.submitted < Prebuffer THEN sink.submitted + 1 ELSE sink.submitted
           q == sink.queued + 1
<1>3. Submitted = [sink EXCEPT !.submitted = n, !.resumed = r, !.queued = q]
  BY Zenon DEF Submitted
<1>4. r \in BOOLEAN /\ n \in Nat /\ q \in Int
  <2>1. q \in Int
    BY DEF SinkType, SinkStates
  <2> QED
    BY <1>1, <1>2, <2>1, Zenon
<1> HIDE DEF r, n, q
<1>5. [sink EXCEPT !.submitted = n, !.resumed = r, !.queued = q] \in SinkStates
  BY <1>4 DEF SinkType, SinkStates
<1>6. [sink EXCEPT !.submitted = n, !.resumed = r, !.queued = q].open = sink.open
  BY DEF SinkType, SinkStates
<1> QED
  BY <1>3, <1>5, <1>6, Zenon

(* At first there is no output. *)
LEMMA OutputStarts == AoInit => AoInv
<1> SUFFICES ASSUME AoInit PROVE AoInv
  OBVIOUS
<1> USE DEF AoInit, NoSink, Opening, Closing, AudioCallers
<1>1. CallTypes /\ ThreadType /\ SinkType
  BY DEF CallTypes, ThreadType, SinkType, SinkStates
<1>2. NothingUnknown /\ OpenedAlone /\ ClosedOnce /\ ClosedIsQuiet
  BY DEF NothingUnknown, OpenedAlone, ClosedOnce, ClosedIsQuiet
<1> QED
  BY <1>1, <1>2 DEF AoInv

\* The guest opens the output.
LEMMA OpeningKeeps ==
  ASSUME AoInv, MaxInits <= 1,
         InitBegin \/ InitSink \/ InitStart \/ InitEnd
  PROVE  AoInv'
<1> USE CallersAssumption, OutputAssumption
  DEF Goes, Mixer, ToldToStop, MayJoin, Opening, Closing, AudioCallers, AoInv
<1>1. CASE InitBegin
  <2>1. CallTypes'
    BY <1>1 DEF InitBegin, CallTypes
  <2>2. ThreadType'
    BY <1>1 DEF InitBegin, ThreadType
  <2>3. SinkType'
    BY <1>1 DEF InitBegin, SinkType
  <2>4. NothingUnknown' /\ OpenedAlone' /\ ClosedOnce' /\ ClosedIsQuiet'
    BY <1>1
      DEF InitBegin, CallTypes, ThreadType, SinkType, SinkStates, NothingUnknown,
          OpenedAlone, ClosedOnce, ClosedIsQuiet
  <2> QED
    BY <2>1, <2>2, <2>3, <2>4
<1>2. CASE InitSink
  <2>1. CallTypes'
    BY <1>2 DEF InitSink, CallTypes
  <2>2. ThreadType'
    BY <1>2 DEF InitSink, ThreadType
  <2>3. SinkType'
    BY <1>2, NoSinkFits, SubmittedFits, Zenon DEF InitSink, SinkType, DeviceLost
  <2>4. NothingUnknown' /\ OpenedAlone' /\ ClosedOnce' /\ ClosedIsQuiet'
    BY <1>2
      DEF InitSink, NoSink, DeviceLost, CallTypes, ThreadType, SinkType, SinkStates,
          NothingUnknown, OpenedAlone, ClosedOnce, ClosedIsQuiet
  <2> QED
    BY <2>1, <2>2, <2>3, <2>4
<1>3. CASE InitStart
  <2>1. CallTypes'
    BY <1>3 DEF InitStart, CallTypes
  <2>2. ThreadType'
    <3>1. \/ thread' = [running |-> TRUE, started |-> TRUE]
          \/ thread' = [thread EXCEPT !.running = FALSE]
      BY <1>3, Zenon DEF InitStart
    <3>2. [running |-> TRUE, started |-> TRUE] \in [running : BOOLEAN, started : BOOLEAN]
      BY Fits, Zenon
    <3>3. [thread EXCEPT !.running = FALSE] \in [running : BOOLEAN, started : BOOLEAN]
      BY DEF ThreadType
    <3> QED
      BY <3>1, <3>2, <3>3, Zenon DEF ThreadType
  <2>3. SinkType'
    BY <1>3 DEF InitStart, SinkType
  <2>4. NothingUnknown' /\ OpenedAlone' /\ ClosedOnce' /\ ClosedIsQuiet'
    BY <1>3
      DEF InitStart, CallTypes, ThreadType, SinkType, SinkStates, NothingUnknown,
          OpenedAlone, ClosedOnce, ClosedIsQuiet
  <2> QED
    BY <2>1, <2>2, <2>3, <2>4
<1>4. CASE InitEnd
  <2>1. CallTypes'
    BY <1>4 DEF InitEnd, CallTypes
  <2>2. ThreadType'
    BY <1>4 DEF InitEnd, ThreadType
  <2>3. SinkType'
    BY <1>4 DEF InitEnd, SinkType
  <2>4. NothingUnknown' /\ OpenedAlone' /\ ClosedOnce' /\ ClosedIsQuiet'
    BY <1>4
      DEF InitEnd, CallTypes, ThreadType, SinkType, SinkStates, NothingUnknown,
          OpenedAlone, ClosedOnce, ClosedIsQuiet
  <2> QED
    BY <2>1, <2>2, <2>3, <2>4
<1> QED
  BY <1>1, <1>2, <1>3, <1>4

\* The mixer thread and the device go on.
LEMMA MixerKeeps ==
  ASSUME AoInv, MaxInits <= 1,
         Loop \/ WaitForBlock \/ WaitEnds \/ SubmitBlock \/ NotifyAndSleep \/ DevicePlays
  PROVE  AoInv'
<1> USE CallersAssumption, OutputAssumption
  DEF Goes, Mixer, ToldToStop, MayJoin, Opening, Closing, AudioCallers, AoInv
<1>1. CASE Loop
  <2>1. CallTypes'
    BY <1>1 DEF Loop, CallTypes
  <2>2. ThreadType'
    BY <1>1 DEF Loop, ThreadType
  <2>3. SinkType'
    BY <1>1 DEF Loop, SinkType
  <2>4. NothingUnknown' /\ OpenedAlone' /\ ClosedOnce' /\ ClosedIsQuiet'
    BY <1>1
      DEF Loop, CallTypes, ThreadType, SinkType, SinkStates, NothingUnknown, OpenedAlone,
          ClosedOnce, ClosedIsQuiet
  <2> QED
    BY <2>1, <2>2, <2>3, <2>4
<1>2. CASE WaitForBlock
  <2>1. CallTypes'
    BY <1>2 DEF WaitForBlock, CallTypes
  <2>2. ThreadType'
    BY <1>2 DEF WaitForBlock, ThreadType
  <2>3. SinkType'
    BY <1>2 DEF WaitForBlock, SinkType
  <2>4. NothingUnknown' /\ OpenedAlone' /\ ClosedOnce' /\ ClosedIsQuiet'
    BY <1>2
      DEF WaitForBlock, CallTypes, ThreadType, SinkType, SinkStates, NothingUnknown,
          OpenedAlone, ClosedOnce, ClosedIsQuiet
  <2> QED
    BY <2>1, <2>2, <2>3, <2>4
<1>3. CASE WaitEnds
  <2>1. CallTypes'
    BY <1>3 DEF WaitEnds, CallTypes
  <2>2. ThreadType'
    BY <1>3 DEF WaitEnds, ThreadType
  <2>3. SinkType'
    BY <1>3, NoSinkFits, SubmittedFits, Zenon DEF WaitEnds, SinkType, DeviceLost
  <2>4. NothingUnknown' /\ OpenedAlone' /\ ClosedOnce' /\ ClosedIsQuiet'
    BY <1>3
      DEF WaitEnds, NoSink, DeviceLost, CallTypes, ThreadType, SinkType, SinkStates,
          NothingUnknown, OpenedAlone, ClosedOnce, ClosedIsQuiet
  <2> QED
    BY <2>1, <2>2, <2>3, <2>4
<1>4. CASE SubmitBlock
  <2>1. CallTypes'
    BY <1>4 DEF SubmitBlock, CallTypes
  <2>2. ThreadType'
    BY <1>4 DEF SubmitBlock, ThreadType
  <2>3. SinkType'
    BY <1>4, NoSinkFits, SubmittedFits, Zenon DEF SubmitBlock, SinkType, DeviceLost
  <2>4. NothingUnknown' /\ OpenedAlone' /\ ClosedOnce' /\ ClosedIsQuiet'
    BY <1>4, SubmittedFits
      DEF SubmitBlock, NoSink, DeviceLost, CallTypes, ThreadType, SinkType, SinkStates,
          NothingUnknown, OpenedAlone, ClosedOnce, ClosedIsQuiet
  <2> QED
    BY <2>1, <2>2, <2>3, <2>4
<1>5. CASE NotifyAndSleep
  <2>1. CallTypes'
    BY <1>5 DEF NotifyAndSleep, CallTypes
  <2>2. ThreadType'
    BY <1>5 DEF NotifyAndSleep, ThreadType
  <2>3. SinkType'
    BY <1>5 DEF NotifyAndSleep, SinkType
  <2>4. NothingUnknown' /\ OpenedAlone' /\ ClosedOnce' /\ ClosedIsQuiet'
    BY <1>5
      DEF NotifyAndSleep, CallTypes, ThreadType, SinkType, SinkStates, NothingUnknown,
          OpenedAlone, ClosedOnce, ClosedIsQuiet
  <2> QED
    BY <2>1, <2>2, <2>3, <2>4
<1>6. CASE DevicePlays
  <2>1. CallTypes'
    BY <1>6 DEF DevicePlays, CallTypes
  <2>2. ThreadType'
    BY <1>6 DEF DevicePlays, ThreadType
  <2>3. SinkType'
    BY <1>6 DEF DevicePlays, SinkType, SinkStates
  <2>4. NothingUnknown' /\ OpenedAlone' /\ ClosedOnce' /\ ClosedIsQuiet'
    BY <1>6
      DEF DevicePlays, CallTypes, ThreadType, SinkType, SinkStates, NothingUnknown,
          OpenedAlone, ClosedOnce, ClosedIsQuiet
  <2> QED
    BY <2>1, <2>2, <2>3, <2>4
<1> QED
  BY <1>1, <1>2, <1>3, <1>4, <1>5, <1>6

\* Guest and host shut it down.
LEMMA ClosingKeeps ==
  ASSUME AoInv, MaxInits <= 1, NEW c \in AudioCallers,
         ShutdownBegin(c) \/ StopHostOutput(c) \/ Wait(c) \/ Join(c) \/ Close(c) \/ ShutdownEnd(c)
  PROVE  AoInv'
<1> USE CallersAssumption, OutputAssumption
  DEF Goes, Mixer, ToldToStop, MayJoin, Opening, Closing, AudioCallers, AoInv
<1>1. CASE ShutdownBegin(c)
  <2>1. CallTypes'
    BY <1>1 DEF ShutdownBegin, CallTypes
  <2>2. ThreadType'
    BY <1>1 DEF ShutdownBegin, ThreadType
  <2>3. SinkType'
    BY <1>1 DEF ShutdownBegin, SinkType
  <2>4. NothingUnknown' /\ OpenedAlone' /\ ClosedOnce' /\ ClosedIsQuiet'
    BY <1>1
      DEF ShutdownBegin, CallTypes, ThreadType, SinkType, SinkStates, NothingUnknown,
          OpenedAlone, ClosedOnce, ClosedIsQuiet
  <2> QED
    BY <2>1, <2>2, <2>3, <2>4
<1>2. CASE StopHostOutput(c)
  <2>1. CallTypes'
    BY <1>2 DEF StopHostOutput, CallTypes
  <2>2. ThreadType'
    BY <1>2 DEF StopHostOutput, ThreadType
  <2>3. SinkType'
    BY <1>2 DEF StopHostOutput, SinkType
  <2>4. NothingUnknown' /\ OpenedAlone' /\ ClosedOnce' /\ ClosedIsQuiet'
    BY <1>2
      DEF StopHostOutput, CallTypes, ThreadType, SinkType, SinkStates, NothingUnknown,
          OpenedAlone, ClosedOnce, ClosedIsQuiet
  <2> QED
    BY <2>1, <2>2, <2>3, <2>4
<1>3. CASE Wait(c)
  <2>1. CallTypes'
    BY <1>3 DEF Wait, CallTypes
  <2>2. ThreadType'
    BY <1>3 DEF Wait, ThreadType
  <2>3. SinkType'
    BY <1>3 DEF Wait, SinkType
  <2>4. NothingUnknown' /\ OpenedAlone' /\ ClosedOnce' /\ ClosedIsQuiet'
    BY <1>3
      DEF Wait, CallTypes, ThreadType, SinkType, SinkStates, NothingUnknown, OpenedAlone,
          ClosedOnce, ClosedIsQuiet
  <2> QED
    BY <2>1, <2>2, <2>3, <2>4
<1>4. CASE Join(c)
  <2>1. CallTypes'
    BY <1>4 DEF Join, CallTypes
  <2>2. ThreadType'
    BY <1>4 DEF Join, ThreadType
  <2>3. SinkType'
    BY <1>4 DEF Join, SinkType
  <2>4. NothingUnknown' /\ OpenedAlone' /\ ClosedOnce' /\ ClosedIsQuiet'
    BY <1>4
      DEF Join, CallTypes, ThreadType, SinkType, SinkStates, NothingUnknown, OpenedAlone,
          ClosedOnce, ClosedIsQuiet
  <2> QED
    BY <2>1, <2>2, <2>3, <2>4
<1>5. CASE Close(c)
  <2>1. CallTypes'
    BY <1>5 DEF Close, CallTypes
  <2>2. ThreadType'
    BY <1>5 DEF Close, ThreadType
  <2>3. SinkType'
    BY <1>5, NoSinkFits DEF Close, SinkType
  <2>4. NothingUnknown' /\ OpenedAlone' /\ ClosedOnce' /\ ClosedIsQuiet'
    BY <1>5
      DEF Close, NoSink, DeviceLost, CallTypes, ThreadType, SinkType, SinkStates,
          NothingUnknown, OpenedAlone, ClosedOnce, ClosedIsQuiet
  <2> QED
    BY <2>1, <2>2, <2>3, <2>4
<1>6. CASE ShutdownEnd(c)
  <2>1. CallTypes'
    BY <1>6 DEF ShutdownEnd, CallTypes
  <2>2. ThreadType'
    BY <1>6 DEF ShutdownEnd, ThreadType
  <2>3. SinkType'
    BY <1>6 DEF ShutdownEnd, SinkType
  <2>4. NothingUnknown' /\ OpenedAlone' /\ ClosedOnce' /\ ClosedIsQuiet'
    BY <1>6
      DEF ShutdownEnd, CallTypes, ThreadType, SinkType, SinkStates, NothingUnknown,
          OpenedAlone, ClosedOnce, ClosedIsQuiet
  <2> QED
    BY <2>1, <2>2, <2>3, <2>4
<1> QED
  BY <1>1, <1>2, <1>3, <1>4, <1>5, <1>6

\* An output that is opened once at most stays closed when it was closed, by
\* guest or host, and no stream is closed under the mixer: whatever the device
\* does, and however many blocks are queued before it starts
\* (cellAudio.c:924-940).
THEOREM OutputsStayClosed == AoSpec /\ MaxInits <= 1 => []ClosedIsQuiet
<1> SUFFICES ASSUME MaxInits <= 1 PROVE AoSpec => []ClosedIsQuiet
  OBVIOUS
<1>1. AoInv /\ [AoNext]_aoVars => AoInv'
  <2> SUFFICES ASSUME AoInv, [AoNext]_aoVars PROVE AoInv'
    OBVIOUS
  <2>1. CASE UNCHANGED aoVars
    BY <2>1
      DEF aoVars, AoInv, CallTypes, ThreadType, SinkType, NothingUnknown, OpenedAlone,
          ClosedOnce, ClosedIsQuiet
  <2> QED
    BY <2>1, OpeningKeeps, MixerKeeps, ClosingKeeps, Zenon
      DEF AoNext, InitStep, MixerStep, CallerStep
<1>2. AoInv => ClosedIsQuiet
  BY DEF AoInv
<1> QED
  BY <1>1, <1>2, OutputStarts, PTL DEF AoSpec

-----------------------------------------------------------------------------
(* SysTimer *)

TimerStates ==
  [active : BOOLEAN, running : BOOLEAN, queue : TimerQueues \cup {0}, stop_flag : BOOLEAN]

TimerTypes ==
  /\ timer \in [Timers -> TimerStates]
  /\ ticker \in [Timers -> [at : {"none", "loop", "asleep", "sending", "pushing", "done"},
                            queue : TimerQueues \cup {0}]]
  /\ stopper \in [TimerCallers -> [at : {"idle", "flag", "join"}, timer : Timers \cup {0},
                                   destroys : BOOLEAN]]

\* What stands between a start and the end of the timer's thread.
Settled(t, c) ==
  /\ timer[t].running => timer[t].active /\ stopper[c].timer # t
  /\ ~timer[t].running /\ stopper[c].timer # t => ticker[t].at \in {"none", "done"}

TimerInv == TimerTypes /\ \A c \in TimerCallers :
  TimerCallers = {c} => \A t \in Timers : Settled(t, c)

(* At first there is no timer. *)
LEMMA TimersStart == TmInit => TimerInv
  BY TimerAssumption
    DEF TmInit, TimerInv, TimerTypes, TimerStates, Settled, Unused, NoThread, NoCall

\* A timer with another flag, and a table with another timer.
LEMMA Flags ==
  ASSUME NEW d \in TimerStates, NEW b \in BOOLEAN
  PROVE  {[d EXCEPT !.active = b], [d EXCEPT !.running = b], [d EXCEPT !.stop_flag = b]}
           \subseteq TimerStates
  BY DEF TimerStates

(* A change of one timer. *)
LEMMA OneTimer ==
  ASSUME timer \in [Timers -> TimerStates], NEW t, NEW d, t \in Timers => d \in TimerStates,
         timer' = [timer EXCEPT ![t] = d]
  PROVE  timer' \in [Timers -> TimerStates]
  OBVIOUS

\* A call, by the only caller there is.
LEMMA CallsAreTyped ==
  ASSUME TimerTypes, NEW c \in TimerCallers, NEW t \in Timers,
         \/ TimerCreate(c) \/ TimerStart(c, t) \/ StopperStep(c)
         \/ \E d \in BOOLEAN : TimerStop(c, t, d)
         \/ \E q \in TimerQueues \cup {0} : TimerConnect(c, t, q)
  PROVE  TimerTypes'
<1> USE DEF TimerTypes
<1>1. CASE TimerCreate(c)
  <2>1. [Unused EXCEPT !.active = TRUE] \in TimerStates
    BY DEF TimerStates, Unused
  <2>2. PICK n : timer' = [timer EXCEPT ![n] = [Unused EXCEPT !.active = TRUE]]
    BY <1>1, Zenon DEF TimerCreate
  <2>3. UNCHANGED <<ticker, stopper>>
    BY <1>1 DEF TimerCreate
  <2> QED
    BY <2>1, <2>2, <2>3
<1>2. CASE TimerStart(c, t)
  <2>1. timer[t] \in TimerStates
    OBVIOUS
  <2>2. Started(t) \in TimerStates
    BY <2>1 DEF Started, TimerStates
  <2>3. /\ timer' = [timer EXCEPT ![t] = Started(t)]
        /\ ticker' = [ticker EXCEPT ![t] = [at |-> "loop", queue |-> 0]]
        /\ stopper' = stopper
    BY <1>2, Zenon DEF TimerStart
  <2> QED
    BY <2>2, <2>3
<1>3. CASE SetStopFlag(c)
  <2> DEFINE u == stopper[c].timer
  <2>1. /\ timer' = [timer EXCEPT ![u] = [timer[u] EXCEPT !.stop_flag = TRUE]]
        /\ stopper' = [stopper EXCEPT ![c].at = "join"]
        /\ ticker' = ticker
    BY <1>3, Zenon DEF SetStopFlag
  <2>2. timer' \in [Timers -> TimerStates]
    BY <2>1, OneTimer, Flags
  <2> QED
    BY <2>1, <2>2
<1>4. CASE JoinTicker(c)
  <2> DEFINE u == stopper[c].timer
             b == timer[u].active /\ ~stopper[c].destroys
  <2>1. /\ timer' = [timer EXCEPT ![u] = [timer[u] EXCEPT !.active = b]]
        /\ stopper' = [stopper EXCEPT ![c] = NoCall]
        /\ ticker' = ticker
    BY <1>4, Zenon DEF JoinTicker
  <2>2. b \in BOOLEAN
    BY Zenon
  <2>3. timer' \in [Timers -> TimerStates]
    <3> HIDE DEF b
    <3> QED
      BY <2>1, <2>2, OneTimer, Flags
  <2> QED
    BY <2>1, <2>3 DEF NoCall
<1>5. ASSUME NEW d \in BOOLEAN, TimerStop(c, t, d)
      PROVE  TimerTypes'
  <2> DEFINE b == timer[t].active /\ ~d
  <2>1. b \in BOOLEAN
    BY Zenon
  <2>2. \/ timer' = [timer EXCEPT ![t] = [timer[t] EXCEPT !.running = FALSE]]
        \/ timer' = [timer EXCEPT ![t] = [timer[t] EXCEPT !.active = b]]
    BY <1>5, Zenon DEF TimerStop
  <2>3. ticker' = ticker /\ (\/ stopper' = [stopper EXCEPT ![c] = [at |-> "flag", timer |-> t, destroys |-> d]]
                             \/ stopper' = stopper)
    BY <1>5, Zenon DEF TimerStop
  <2>4. timer' \in [Timers -> TimerStates]
    <3> HIDE DEF b
    <3> QED
      BY <2>1, <2>2, OneTimer, Flags
  <2> QED
    BY <2>3, <2>4
<1>6. ASSUME NEW q \in TimerQueues \cup {0}, TimerConnect(c, t, q)
      PROVE  TimerTypes'
  <2>1. [timer[t] EXCEPT !.queue = q] \in TimerStates
    BY DEF TimerStates
  <2>2. timer' = [timer EXCEPT ![t] = [timer[t] EXCEPT !.queue = q]] /\ UNCHANGED <<ticker, stopper>>
    BY <1>6, Zenon DEF TimerConnect
  <2> QED
    BY <2>1, <2>2
<1> QED
  BY <1>1, <1>2, <1>3, <1>4, <1>5, <1>6 DEF StopperStep

\* The first of the free slots is one of them.
LEMMA FirstOfThem ==
  ASSUME NEW S, S \subseteq Nat, S # {}
  PROVE  Min(S) \in S
<1>1. PICK x \in S : \A y \in S : <<y, x>> \notin OpToRel(<, Nat)
  BY NatLessThanWellFounded, WFMin, Zenon
<1>2. \A y \in S : ~(y < x)
  BY <1>1, Zenon DEF OpToRel
<1>3. \A y \in S : x <= y
  BY <1>2
<1> QED
  BY <1>3 DEF Min

\* A caller that is in no call works on no timer.
LEMMA IdleHasNoTimer ==
  ASSUME NEW c, IsIdle(c)
  PROVE  stopper[c].timer = 0
<1>1. stopper[c] = NoCall
  BY Zenon DEF IsIdle
<1> QED
  BY <1>1 DEF NoCall

\* What the single caller's step does to a timer.
LEMMA CallsSettle ==
  ASSUME TimerTypes, NEW c \in TimerCallers, NEW t \in Timers, NEW x \in Timers, Settled(x, c),
         \/ TimerCreate(c) \/ TimerStart(c, t) \/ StopperStep(c)
         \/ \E d \in BOOLEAN : TimerStop(c, t, d)
         \/ \E q \in TimerQueues \cup {0} : TimerConnect(c, t, q)
  PROVE  Settled(x, c)'
<1> USE TimerAssumption DEF Settled
<1>0. x # 0 /\ timer[x] \in TimerStates /\ stopper[c].timer \in Timers \cup {0}
  BY DEF TimerTypes
<1>1. CASE TimerCreate(c)
  <2>1. PICK n : /\ n \in Timers => ~timer[n].active
                 /\ timer' = [timer EXCEPT ![n] = [Unused EXCEPT !.active = TRUE]]
    <3> DEFINE free == {u \in Timers : ~timer[u].active}
    <3>1. /\ free # {}
          /\ timer' = [timer EXCEPT ![Min(free)] = [Unused EXCEPT !.active = TRUE]]
      BY <1>1, Zenon DEF TimerCreate
    <3>2. Min(free) \in free
      BY <3>1, FirstOfThem
    <3> QED
      BY <3>1, <3>2, Zenon
  <2>2. stopper[c].timer = 0 /\ UNCHANGED <<ticker, stopper>>
    <3>1. IsIdle(c) /\ UNCHANGED <<ticker, queued, stopper>>
      BY <1>1, Zenon DEF TimerCreate
    <3> QED
      BY <3>1, IdleHasNoTimer
  <2>3. CASE x = n
    <3>1. timer'[x].running = FALSE
      BY <2>1, <2>3 DEF TimerTypes, Unused
    <3>2. ~timer[x].running
      BY <2>1, <2>3
    <3> QED
      BY <1>0, <2>2, <3>1, <3>2
  <2>4. CASE x # n
    BY <2>1, <2>2, <2>4 DEF TimerTypes
  <2> QED
    BY <2>3, <2>4
<1>2. CASE TimerStart(c, t)
  <2>0. IsIdle(c) /\ stopper' = stopper
    BY <1>2, Zenon DEF TimerStart
  <2>1. /\ stopper[c].timer = 0 /\ stopper' = stopper
        /\ timer[t].active
        /\ timer' = [timer EXCEPT ![t] = [timer[t] EXCEPT !.running = TRUE, !.stop_flag = FALSE]]
        /\ ticker' = [ticker EXCEPT ![t] = [at |-> "loop", queue |-> 0]]
    BY <1>2, <2>0, IdleHasNoTimer, Zenon DEF TimerStart, Started
  <2>2. CASE x = t
    <3>1. timer'[x].running = TRUE /\ timer'[x].active = timer[x].active
      BY <1>0, <2>1, <2>2 DEF TimerTypes, TimerStates
    <3> QED
      BY <1>0, <2>1, <2>2, <3>1
  <2>3. CASE x # t
    BY <2>1, <2>3 DEF TimerTypes
  <2> QED
    BY <2>2, <2>3
<1>3. CASE SetStopFlag(c)
  <2> DEFINE u == stopper[c].timer
  <2>1. /\ timer' = [timer EXCEPT ![u] = [timer[u] EXCEPT !.stop_flag = TRUE]]
        /\ stopper' = [stopper EXCEPT ![c].at = "join"]
        /\ ticker' = ticker
    BY <1>3, Zenon DEF SetStopFlag
  <2>2. stopper'[c].timer = stopper[c].timer
    BY <2>1 DEF TimerTypes
  <2>3. timer'[x].running = timer[x].running /\ timer'[x].active = timer[x].active
    BY <1>0, <2>1 DEF TimerTypes, TimerStates
  <2> QED
    BY <2>1, <2>2, <2>3
<1>4. CASE JoinTicker(c)
  <2> DEFINE u == stopper[c].timer
             b == timer[u].active /\ ~stopper[c].destroys
  <2>1. /\ timer' = [timer EXCEPT ![u] = [timer[u] EXCEPT !.active = b]]
        /\ stopper' = [stopper EXCEPT ![c] = NoCall]
        /\ ticker' = ticker /\ ticker[u].at = "done"
    BY <1>4, Zenon DEF JoinTicker, Ended
  <2>2. stopper'[c].timer = 0
    BY <2>1 DEF TimerTypes, NoCall
  <2>3. timer'[x].running = timer[x].running /\ (x # u => timer'[x] = timer[x])
    <3> HIDE DEF b
    <3> QED
      BY <1>0, <2>1 DEF TimerTypes, TimerStates
  <2> QED
    BY <1>0, <2>1, <2>2, <2>3
<1>5. ASSUME NEW d \in BOOLEAN, TimerStop(c, t, d)
      PROVE  Settled(x, c)'
  <2>0. IsIdle(c) /\ ticker' = ticker /\ timer[t].active
    BY <1>5, Zenon DEF TimerStop
  <2>1. stopper[c].timer = 0 /\ ticker' = ticker
    BY <2>0, IdleHasNoTimer
  <2>2. CASE timer[t].running
    <3>1. /\ timer' = [timer EXCEPT ![t] = [timer[t] EXCEPT !.running = FALSE]]
          /\ stopper' = [stopper EXCEPT ![c] = [at |-> "flag", timer |-> t, destroys |-> d]]
      BY <1>5, <2>2, Zenon DEF TimerStop
    <3>2. stopper'[c].timer = t
      BY <3>1 DEF TimerTypes
    <3>3. (x = t => timer'[x].running = FALSE) /\ (x # t => timer'[x] = timer[x])
      BY <1>0, <3>1 DEF TimerTypes, TimerStates
    <3> QED
      BY <1>0, <2>1, <3>2, <3>3
  <2>3. CASE ~timer[t].running
    <3> DEFINE b == timer[t].active /\ ~d
    <3>1. timer' = [timer EXCEPT ![t] = [timer[t] EXCEPT !.active = b]] /\ stopper' = stopper
      BY <1>5, <2>3, Zenon DEF TimerStop
    <3>2. timer'[x].running = timer[x].running /\ (x # t => timer'[x] = timer[x])
      <4> HIDE DEF b
      <4> QED
        BY <1>0, <3>1 DEF TimerTypes, TimerStates
    <3> QED
      BY <1>0, <2>1, <2>3, <3>1, <3>2
  <2> QED
    BY <2>2, <2>3
<1>6. ASSUME NEW q \in TimerQueues \cup {0}, TimerConnect(c, t, q)
      PROVE  Settled(x, c)'
  <2>1. timer' = [timer EXCEPT ![t] = [timer[t] EXCEPT !.queue = q]] /\ UNCHANGED <<ticker, stopper>>
    BY <1>6, Zenon DEF TimerConnect
  <2>2. timer'[x].running = timer[x].running /\ timer'[x].active = timer[x].active
    BY <1>0, <2>1 DEF TimerTypes, TimerStates
  <2> QED
    BY <2>1, <2>2
<1> QED
  BY <1>1, <1>2, <1>3, <1>4, <1>5, <1>6 DEF StopperStep

\* A timer's thread leaves the timers and the calls alone, and one that has
\* ended, or was never begun, takes no step.
LEMMA TickersSettle ==
  ASSUME TimerTypes, NEW t \in Timers,
         TickerStep(t) \/ TickerWake(t, FALSE)
  PROVE  /\ TimerTypes'
         /\ \A c \in TimerCallers, x \in Timers : Settled(x, c) => Settled(x, c)'
<1>1. UNCHANGED <<timer, stopper>>
  BY Zenon DEF TickerStep, TickerLoop, TickerWake, LookUpQueue, PushTick
<1>2. ticker[t].at \notin {"none", "done"}
  BY DEF TickerStep, TickerLoop, TickerWake, LookUpQueue, PushTick, Step
<1>3. \/ \E a \in {"loop", "asleep", "sending", "done"} : ticker' = [ticker EXCEPT ![t].at = a]
      \/ \E q \in TimerQueues \cup {0}, a \in {"loop", "pushing"} :
           ticker' = [ticker EXCEPT ![t] = [at |-> a, queue |-> q]]
  <2>1. CASE TickerLoop(t) \/ \E e \in BOOLEAN : TickerWake(t, e)
    BY <2>1, Zenon DEF TickerLoop, TickerWake, Step
  <2>2. CASE LookUpQueue(t)
    <3>1. timer[t].queue \in TimerQueues \cup {0}
      BY DEF TimerTypes, TimerStates
    <3> QED
      BY <2>2, <3>1, Zenon DEF LookUpQueue
  <2>3. CASE PushTick(t)
    BY <2>3, Zenon DEF PushTick
  <2> QED
    BY <2>1, <2>2, <2>3, Zenon DEF TickerStep
<1>4. TimerTypes'
  BY <1>1, <1>3 DEF TimerTypes
<1>5. \A x \in Timers : x # t => ticker'[x] = ticker[x]
  BY <1>3 DEF TimerTypes
<1> QED
  BY <1>1, <1>2, <1>4, <1>5 DEF Settled

(* Each step keeps the timers. *)
LEMMA TimersSettle == TimerInv /\ [TmNext]_tmVars => TimerInv'
<1> SUFFICES ASSUME TimerInv, [TmNext]_tmVars PROVE TimerInv'
  OBVIOUS
<1>1. ASSUME NEW c \in TimerCallers, NEW t \in Timers,
             \/ TimerCreate(c) \/ TimerStart(c, t) \/ StopperStep(c)
             \/ \E d \in BOOLEAN : TimerStop(c, t, d)
             \/ \E q \in TimerQueues \cup {0} : TimerConnect(c, t, q)
      PROVE  TimerInv'
  <2>1. TimerTypes'
    BY <1>1, CallsAreTyped, Zenon DEF TimerInv
  <2>2. ASSUME NEW e \in TimerCallers, TimerCallers = {e}, NEW x \in Timers
        PROVE  Settled(x, e)'
    <3>1. e = c /\ TimerTypes /\ Settled(x, c)
      BY <2>2, Zenon DEF TimerInv
    <3> QED
      BY <1>1, <3>1, CallsSettle, Zenon
  <2> QED
    BY <2>1, <2>2, Zenon DEF TimerInv
<1>2. ASSUME NEW t \in Timers, TickerStep(t) \/ TickerWake(t, FALSE)
      PROVE  TimerInv'
  BY <1>2, TickersSettle, Zenon DEF TimerInv
<1>3. ASSUME UNCHANGED <<timer, ticker, stopper>>
      PROVE  TimerInv'
  BY <1>3 DEF TimerInv, TimerTypes, Settled
<1>4. CASE \E q \in TimerQueues : TakeTick(q)
  BY <1>4, <1>3, Zenon DEF TakeTick
<1>5. ASSUME NEW c \in TimerCallers, TimerCreate(c) \/ StopperStep(c)
      PROVE  TimerInv'
  BY <1>5, <1>1, TimerAssumption, Zenon
<1> QED
  BY <1>1, <1>2, <1>3, <1>4, <1>5, Zenon DEF TmNext, tmVars

\* With one guest thread at the timers, a timer that does not run and is in no
\* call has no thread (sys_timer.c:552-588).
THEOREM TimersAreQuiet == TmSpec => []StoppedIsQuiet
<1>1. TimerInv => StoppedIsQuiet
  <2> SUFFICES ASSUME TimerInv, Cardinality(TimerCallers) = 1, NEW t \in Timers,
                      ~timer[t].running, \A c \in TimerCallers : stopper[c].timer # t
               PROVE  ticker[t].at \in {"none", "done"}
    BY DEF StoppedIsQuiet
  <2>1. PICK c : TimerCallers = {c}
    BY TimerAssumption, FS_Singleton, Zenon
  <2>2. c \in TimerCallers /\ Settled(t, c)
    BY <2>1 DEF TimerInv
  <2> QED
    BY <2>2 DEF Settled
<1> QED
  BY <1>1, TimersStart, TimersSettle, PTL DEF TmSpec
=============================================================================
