----------------------------- MODULE MCSignals -----------------------------
(***************************************************************************)
(* Event flags, semaphores and reader-writer locks for TLC.  They share     *)
(* nothing, so a behaviour is about one of them, chosen in its first state: *)
(* the others do not start.                                                *)
(***************************************************************************)
EXTENDS EventFlag, Semaphore, RwLock

CONSTANTS w1, w2, s1, Cases

VARIABLE case

mcVars == <<case, fVars, semVars, rwVars>>

W(bits, mode, clear, timed) == [bits |-> bits, mode |-> mode, clear |-> clear, timed |-> timed]

\* AND and OR waits with every clear mode, timed and not.
SomeWants == {W({1, 2}, "and", "bits", FALSE), W({1}, "or", "bits", FALSE),
              W({1, 2}, "or", "all", TRUE), W({2}, "and", "keep", TRUE)}

AllSetups == [windows : BOOLEAN, deadlines : BOOLEAN]

MCInit ==
  /\ case \in Cases /\ FlagInit /\ SemInit /\ RwInit
  /\ case # "sema" => setup = CHOOSE s \in Setups : TRUE
  /\ case # "rw" => srw

MCNext ==
  /\ UNCHANGED case
  /\ \/ case = "flag"     /\ FlagNext        /\ UNCHANGED <<semVars, rwVars>>
     \/ case = "sema"     /\ SemNext         /\ UNCHANGED <<fVars, rwVars>>
     \/ case = "rw"       /\ RwNext          /\ UNCHANGED <<fVars, semVars>>

MCSpec ==
  /\ MCInit /\ [][MCNext]_mcVars
  /\ \A t \in Threads :
       WF_mcVars(case = "flag" /\ Continue(t) /\ UNCHANGED <<case, semVars, rwVars>>)
  /\ \A t \in Callers :
       WF_mcVars(case = "sema" /\ SemContinue(t) /\ UNCHANGED <<case, fVars, rwVars>>)

-----------------------------------------------------------------------------
\* The states of the three are well formed.
SignalsTypeOK == FlagTypeOK /\ SemTypeOK /\ RwTypeOK
=============================================================================
