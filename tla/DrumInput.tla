----------------------------- MODULE DrumInput -----------------------------
(***************************************************************************)
(* The player's input (src/taiko_host_input.cpp), from the host threads    *)
(* that see devices change (src/taiko_usio.cpp on Windows,                 *)
(* ps3recomp/libs/video/rsx_sdl_gpu_backend.c with SDL) to the reports of  *)
(* the virtual I/O board.  Levels and rising edges are words of atomic     *)
(* bits; a strike is an exchange of the first and, a step later, an or of  *)
(* the second.  Players have words of their own: this is one of them.      *)
(***************************************************************************)
EXTENDS Naturals, FiniteSets

CONSTANTS
  Drums, Coins, Tests, Buttons,  \* the actions a device can stand for
  InputHosts,   \* of "sampler" (Windows), "events" (SDL), "kms" (SDL without a window system)
  HitHold,      \* hit_hold: reports for which a drum's reading falls
  MaxStrikes    \* bound: strikes altogether

Actions == Drums \cup Coins \cup Tests \cup Buttons

VARIABLES
  host,      \* which threads there are; never changes
  held,      \* what is down on each device
  cached,    \* controllers: the pad as the sampler last saw it
  active,    \* s_active
  levels,    \* s_levels
  rising,    \* s_rising
  edge,      \* edges a thread has seen and not yet latched
  poll,      \* the guest's report: whether it is being built, and what it loaded
  board,     \* coin_counter, test_on, hit_cooldown
  frame,     \* last_frame: readings of the drums, buttons, and the edges it reports
  strikes,   \* history: times each action went down on a device
  heard      \* history: reports of an edge of each action

diVars == <<host, held, cached, active, levels, rising, edge, poll, board, frame, strikes, heard>>
deviceVars == <<host, held, cached, strikes>>
boardVars == <<poll, board, frame, heard>>

Devices == {"keys", "pads"}

\* The thread that handles a device: evdev_input_thread or the render thread;
\* or one thread for both.
Thread(d) == IF host = "kms" THEN d ELSE "one"

Idle(w) == edge[w] = {}

NewBoard == [coins |-> 0, test |-> FALSE, cooldown |-> [d \in Drums |-> 0]]
NoPoll == [at |-> "guest", on |-> FALSE, levels |-> {}]
NoReport == [reading |-> [d \in Drums |-> 0], buttons |-> {}, struck |-> {}]

\* start_input_sampler has run, and nothing is down.
DiInit ==
  /\ host \in InputHosts
  /\ held = [d \in Devices |-> {}] /\ cached = {}
  /\ active = TRUE
  /\ levels = {} /\ rising = {}
  /\ edge = [w \in Devices \cup {"one"} |-> {}]
  /\ poll = NoPoll
  /\ board = NewBoard /\ frame = NoReport
  /\ strikes = [a \in Actions |-> 0] /\ heard = [a \in Actions |-> 0]

-----------------------------------------------------------------------------
(* taiko_host_input.cpp, the side of the hosts *)

\* taiko_host_input_update_levels: the levels are exchanged for the new ones.
UpdateLevels(w, now) ==
  /\ levels' = now
  /\ edge' = [edge EXCEPT ![w] = now \ levels]

\* Every down is an edge, also of what is down already.
MutRises(pressed) == pressed

Rises(pressed) == pressed \ levels

\* taiko_host_input_press
Press(w, pressed) ==
  /\ levels' = levels \cup pressed
  /\ edge' = [edge EXCEPT ![w] = Rises(pressed)]

\* taiko_host_input_release
Release(released) ==
  /\ levels' = levels \ released
  /\ UNCHANGED edge

\* latch: the edges are added to those that no report has taken.
Latch(w) ==
  /\ ~Idle(w)
  /\ rising' = rising \cup edge[w]
  /\ edge' = [edge EXCEPT ![w] = {}]
  /\ UNCHANGED <<deviceVars, active, levels, boardVars>>

-----------------------------------------------------------------------------
(* Devices, and the threads that follow them *)

\* What the thread of a device does when the device has changed: the sampler
\* nothing yet, the thread of the keyboards publishes them all, the event loop
\* presses or releases what changed.
Follow(d, pressed, released) ==
  /\ Idle(Thread(d))
  /\ IF host = "sampler" THEN UNCHANGED <<levels, edge>>
     ELSE IF host = "kms" /\ d = "keys" THEN UpdateLevels(Thread(d), held'[d])
     ELSE IF released = {} THEN Press(Thread(d), pressed)
     ELSE Release(released)
  /\ UNCHANGED <<host, cached, active, rising, boardVars>>

Struck == {s \in Actions \X (1 .. MaxStrikes) : s[2] <= strikes[s[1]]}

\* A key or a button goes down.
Strike(d, a) ==
  /\ Cardinality(Struck) < MaxStrikes
  /\ a \notin held[d]
  /\ held' = [held EXCEPT ![d] = @ \cup {a}]
  /\ strikes' = [strikes EXCEPT ![a] = @ + 1]
  /\ Follow(d, {a}, {})

\* It goes up; or the device is unplugged, and all of it does.
Lift(d, released) ==
  /\ released # {} /\ released \subseteq held[d]
  /\ held' = [held EXCEPT ![d] = @ \ released]
  /\ UNCHANGED strikes
  /\ Follow(d, {}, released)

\* A trigger that is down moves: SDL tells the position again.
TriggerMoves(a) ==
  /\ host # "sampler" /\ a \in held["pads"]
  /\ UNCHANGED <<held, strikes>>
  /\ Follow("pads", {a}, {})

\* A round of the sampler, of which every fourth asks the controllers too.
Sample(fresh) ==
  LET pads == IF fresh THEN held["pads"] ELSE cached IN
  /\ host = "sampler" /\ active /\ Idle("one")
  /\ cached' = pads
  /\ UpdateLevels("one", held["keys"] \cup pads)
  /\ UNCHANGED <<host, held, active, rising, boardVars, strikes>>

-----------------------------------------------------------------------------
(* A report: taiko_host_input_consume, then build_input_frames *)

\* The guest reads the player register, and the levels are loaded.
LoadLevels ==
  /\ poll.at = "guest"
  /\ poll' = [at |-> "levels", on |-> active, levels |-> levels]
  /\ UNCHANGED <<deviceVars, active, levels, rising, edge, board, frame, heard>>

\* Edges of what is up again by now are forgotten.
MutTaken == rising \cap poll.levels

\* The edges that the exchange gives; without a provider nothing counts.
Taken == rising

\* The edges are exchanged for none, and the report is built from both.  On
\* Windows a report without the sampler polls the devices itself
\* (taiko_usio.cpp:954-961), which is left out.
Report ==
  LET struck == IF poll.on THEN Taken ELSE {}
      cooldown == [d \in Drums |-> IF d \in struck THEN HitHold ELSE board.cooldown[d]]
  IN
  /\ poll.at = "levels"
  /\ rising' = {}
  /\ board' = [coins |-> board.coins + (IF struck \cap Coins # {} THEN 1 ELSE 0),
               test |-> board.test # (struck \cap Tests # {}),
               cooldown |-> [d \in Drums |-> IF cooldown[d] > 0 THEN cooldown[d] - 1 ELSE 0]]
  /\ frame' = [reading |-> cooldown,
               buttons |-> IF poll.on THEN poll.levels \cap Buttons ELSE {},
               struck |-> struck]
  /\ heard' = [a \in Actions |-> heard[a] + (IF a \in struck THEN 1 ELSE 0)]
  /\ poll' = NoPoll
  /\ UNCHANGED <<deviceVars, active, levels, edge>>

\* hle_end, or the end of the event loop; the sampler is joined before.
EndInput ==
  /\ host = "sampler" => Idle("one")
  /\ active /\ active' = FALSE
  /\ UNCHANGED <<deviceVars, levels, rising, edge, boardVars>>

-----------------------------------------------------------------------------
InputThread == \E w \in DOMAIN edge : Latch(w)
Reports == LoadLevels \/ Report

DiNext ==
  \/ \E d \in Devices : \/ \E a \in Actions : Strike(d, a) \/ Lift(d, {a})
                        \/ Lift(d, held[d])
  \/ \E a \in Actions : TriggerMoves(a)
  \/ \E fresh \in BOOLEAN : Sample(fresh)
  \/ InputThread \/ Reports \/ EndInput

\* A thread that has seen an edge latches it; the guest goes on asking for
\* reports, as taiko_usio.cpp:176-178 says it does, 60 times a second.
DiSpec == DiInit /\ [][DiNext]_diVars /\ WF_diVars(InputThread) /\ WF_diVars(Reports)

-----------------------------------------------------------------------------
(* Properties *)

DiTypeOK ==
  /\ host \in InputHosts /\ active \in BOOLEAN
  /\ {levels, rising, cached, poll.levels} \cup {held[d] : d \in Devices} \subseteq SUBSET Actions
  /\ \A d \in Drums : board.cooldown[d] \in 0 .. HitHold /\ frame.reading[d] \in 0 .. HitHold

Pending(a) == IF a \in rising \cup UNION {edge[w] : w \in DOMAIN edge} THEN 1 ELSE 0

\* A strike is told to the game once: an action was reported no more often than
\* it went down on some device, whatever else is down on the two devices and
\* however often a position is told again ("one latched edge for repeated
\* down", tests/taiko_host_input_tests.cpp:24).  Where the display is driven
\* without a window system it does not hold: StrikesAreOnce.
NoGhostStrikes == host # "kms" =>
  \A a \in Actions : heard[a] + Pending(a) <= strikes[a]

\* The same of every host.  The keyboard thread exchanges the whole word, and
\* with it what the pads have down; a trigger that moves is struck again.
StrikesAreOnce == \A a \in Actions : heard[a] + Pending(a) <= strikes[a]

\* A strike that a thread saw is in a report, also when it is over before the
\* guest asks ("latches every rising edge until build_input_frames consumes
\* it", taiko_usio.cpp:172), unless the provider has ended.
StrikesAreHeard == \A a \in Drums \cup Coins :
  (\E w \in DOMAIN edge : a \in edge[w]) ~> (a \in frame.struck \/ ~active)
=============================================================================
