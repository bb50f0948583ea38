------------------------------ MODULE MCAudio ------------------------------
(***************************************************************************)
(* The host threads that push events to the guest, for TLC: the ports of   *)
(* cellAudio and their notifications, the life of the audio output, and    *)
(* the periodic timers.  A behaviour is about one of them, chosen in its   *)
(* first state.                                                            *)
(***************************************************************************)
EXTENDS AudioRing, AudioOutput, SysTimer

CONSTANT AudioCases

VARIABLE case

mcVars == <<case, arVars, aoVars, tmVars>>

Setup(kind, nblocks, lookahead, room, bound) ==
  [kind |-> kind, nblocks |-> nblocks, lookahead |-> lookahead, room |-> room, bound |-> bound]

\* The smallest, the usual and the largest lookahead, in rings that are long
\* enough to go round; a guest that does anything, with queues that overflow.
PunctualAndWild ==
  {Setup("punctual", {8}, a, 8, 18) : a \in {1, 30}}
  \cup {Setup("punctual", {16}, 4, 8, 18), Setup("any", {8}, 2, 1, 10)}
Restarts == {Setup("restarts", {8}, 2, 8, 4)}

MCInit ==
  /\ case \in AudioCases /\ ArInit /\ AoInit /\ TmInit
  /\ case # "ring" => setup = CHOOSE s \in AudioSetups : TRUE

MCNext ==
  /\ UNCHANGED case
  /\ \/ case = "ring"   /\ ArNext /\ UNCHANGED <<aoVars, tmVars>>
     \/ case = "output" /\ AoNext /\ UNCHANGED <<arVars, tmVars>>
     \/ case = "timer"  /\ TmNext /\ UNCHANGED <<arVars, aoVars>>

InOutput(A) == case = "output" /\ A /\ UNCHANGED <<case, arVars, tmVars>>
InTimer(A) == case = "timer" /\ A /\ UNCHANGED <<case, arVars, aoVars>>

MCSpec ==
  /\ MCInit /\ [][MCNext]_mcVars
  /\ WF_mcVars(InOutput(MixerStep)) /\ WF_mcVars(InOutput(InitStep))
  /\ \A c \in AudioCallers : WF_mcVars(InOutput(CallerStep(c)))
  /\ \A t \in Timers : /\ WF_mcVars(InTimer(TickerStep(t)))
                       /\ SF_mcVars(InTimer(TickerWake(t, TRUE)))
  /\ \A c \in TimerCallers : WF_mcVars(InTimer(StopperStep(c)))

-----------------------------------------------------------------------------
\* The states of all three are well formed.
AudioTypeOK == ArTypeOK /\ AoTypeOK /\ TmTypeOK

\* No host thread of these is left behind: the mixer goes on whatever its
\* device does, a shutdown returns, a timer that runs ticks period after period
\* and a stop of it returns (cellAudio.c:757-786, 908-940, sys_timer.c:304-331,
\* 552-588).
HostThreadsGoOn == ClockGoesOn /\ ShutdownReturns /\ TimersTick /\ StopsReturn
=============================================================================
