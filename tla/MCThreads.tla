----------------------------- MODULE MCThreads -----------------------------
(***************************************************************************)
(* PPU threads and the reservations of their contexts for TLC.  A behaviour *)
(* is about one of them, chosen in its first state.                        *)
(***************************************************************************)
EXTENDS PpuThread, Reservation

CONSTANTS r1, r2, ThreadCases

VARIABLE case

mtVars == <<case, ptVars, rvVars>>

Guest(lifted, spans, starts) == [lifted |-> lifted, spans |-> spans, starts |-> starts]

\* One word and both words of a doubleword; words of two blocks; one word and
\* a thread more than there are contexts, which starts where another ended.
RuntimeForm == {Guest(FALSE, {{16}, {16, 20}}, 2), Guest(FALSE, {{16}, {32}}, 2),
                Guest(FALSE, {{16}}, 3)}
LiftersForm == {Guest(TRUE, {{16}}, 2)}

MCInit ==
  /\ case \in ThreadCases /\ PtInit /\ RvInit
  /\ case # "reservation" => guest = CHOOSE g \in ResvSetups : TRUE

MCNext ==
  /\ UNCHANGED case
  /\ \/ case = "thread"      /\ PtNext /\ UNCHANGED rvVars
     \/ case = "reservation" /\ RvNext /\ UNCHANGED ptVars

MCSpec ==
  /\ MCInit /\ [][MCNext]_mtVars
  /\ \A h \in Hosts : WF_mtVars(case = "thread" /\ (Finish(h) \/ Vanish(h)) /\ UNCHANGED <<case, rvVars>>)
  /\ \A c \in Callers : WF_mtVars(case = "thread" /\ (Collect(c) \/ Joined(c)) /\ UNCHANGED <<case, rvVars>>)
  /\ \A c \in Contexts : WF_mtVars(case = "reservation" /\ RvContinue(c) /\ UNCHANGED <<case, ptVars>>)

-----------------------------------------------------------------------------
\* The states of both are well formed.
ThreadsTypeOK == PtTypeOK /\ RvTypeOK
=============================================================================
