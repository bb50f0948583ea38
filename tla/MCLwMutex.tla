----------------------------- MODULE MCLwMutex -----------------------------
(***************************************************************************)
(* LwMutex for TLC.  A behaviour is one of several small cases, each with  *)
(* its own setup and its own bounds.                                       *)
(***************************************************************************)
EXTENDS LwMutex

CONSTANTS t1, t2, t3

Case(sites, locks, waits) ==
  [sites |-> sites, locksExpire |-> locks, waitsExpire |-> waits, strays |-> FALSE]

\* Two threads nest, wait and signal; every site is guarded, deadlines pass.
Nested == Case({"alloc", "strict"}, TRUE, TRUE)
\* The lwmutex turns from unserialized to serialized under way, and threads
\* unlock what they have not locked.
Mixed == [Case({"plain", "alloc"}, TRUE, TRUE) EXCEPT !.strays = TRUE]
\* The same of two threads that nest, and of one that waits.
Layers == [Case({"plain", "alloc", "strict"}, TRUE, TRUE) EXCEPT !.strays = TRUE]
\* No holder outlasts the acquire deadline; t1 waits on the lwcond.
Prompt == Case({"alloc", "strict"}, FALSE, TRUE)
\* Two threads wait on the lwcond, the third signals, and no deadline helps.
Patient == Case({"alloc", "strict"}, FALSE, FALSE)
\* Strict sites only.
Strict == Case({"strict"}, TRUE, TRUE)

AllCases == {Nested, Mixed, Layers, Prompt, Patient, Strict}
StrictCase == {Strict}

\* Bounds: who takes part, how deep they nest, who waits, and the signals.
WithinMeans ==
  LET team == IF setup \in {Nested, Layers, Patient} THEN {t1, t2} ELSE Threads
      deep == IF setup \in {Nested, Layers} THEN 2 ELSE 1
      wait == CASE setup \in {Nested, Patient} -> {t1, t2}
                [] setup = Mixed -> {}
                [] OTHER -> {t1}
      send == CASE setup \in {Mixed, Layers} -> 0 [] setup = Patient -> 2 [] OTHER -> 1
      idle == IF setup = Patient THEN {"guest", "wake_one", "wake_all"} ELSE {"guest"}
  IN  /\ \A t \in Threads \ team : at[t] \in idle
      /\ \A t \in Threads :
           Len(inside[t]) <= IF at[t] \in {"lock", "try"} THEN deep - 1 ELSE deep
      /\ \A t \in Threads \ wait : at[t] # "cond"
      /\ sequence <= send

MCSpec ==
  /\ LwInit /\ [][LwNext /\ WithinMeans']_lwVars
  /\ \A t \in Threads :
       WF_lwVars(setup = Patient /\ LwGoOn(t))

-----------------------------------------------------------------------------
\* Where no deadline helps a waiter.
BroadcastWakesHere == setup = Patient => BroadcastWakes
=============================================================================
