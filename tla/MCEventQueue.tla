---------------------------- MODULE MCEventQueue ----------------------------
(***************************************************************************)
(* EventQueue for TLC.  The guest that destroys queues at any time has one  *)
(* of them, which two receivers share; the one that destroys only what      *)
(* nobody uses has two, of one event each, and a port, but sends less.      *)
(***************************************************************************)
EXTENDS EventQueue

CONSTANTS FewEvents, OneQueue  \* what the tidy guest sends; the queue of the other

Sent == Len(meant) + Cardinality({t \in Threads : at[t] = "pushing"})

\* The guests keep to what they have.
WithinMeans ==
  IF tidy THEN Sent <= FewEvents /\ \A q \in Queues : capacity[q] <= 1
  ELSE /\ \A q \in Queues : active[q] => q = OneQueue
       /\ \A p \in Ports : ~port[p].active

MCSpec == /\ EqInit /\ [][EqNext /\ WithinMeans']_vars
          /\ \A t \in Threads : WF_vars(Continue(t) /\ UNCHANGED tidy)
=============================================================================
