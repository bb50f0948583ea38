----------------------------- MODULE MCSysMutex -----------------------------
(***************************************************************************)
(* SysMutex, DrawQueue and CellSync for TLC.  A behaviour is one of several *)
(* cases, chosen in its first state: the draw queue of the guest (the      *)
(* constants of the cfg), threads that call what they like on the build    *)
(* with critical sections or the one with pthreads, or threads that share  *)
(* an object of the cellSync library.                                      *)
(***************************************************************************)
EXTENDS DrawQueue, CellSync

CONSTANTS c1, Cases

VARIABLE case

mcVars == <<case, dqVars, syncVars>>

\* The objects of the cellSync library, in guest memory at a multiple of 4 GiB;
\* the users of a barrier all wait, or all ask.
Object(kind, who, waits) == [kind |-> kind, users |-> who, aligned |-> TRUE, waits |-> waits]
SyncObjects == {Object("queue", Workers, {})}
                 \cup {Object(k, Users, {}) : k \in {"mutex", "rwm"}}
                 \cup {Object("barrier", Users, {w}) : w \in {"wait", "try"}}

\* Windows: threads nest, re-enter with trylock and destroy what they like.
Critical == INSTANCE SysMutex WITH Conds <- {c1, Gate}, Windows <- TRUE,
  Recursive <- TRUE, TryAgain <- TRUE, MayDestroy <- TRUE, MaxNest <- 2
\* POSIX with the mutexes that are not recursive.
Plain == INSTANCE SysMutex WITH Conds <- {c1, Gate}, Windows <- FALSE,
  Recursive <- FALSE, TryAgain <- FALSE, MayDestroy <- FALSE, MaxNest <- 1
\* POSIX with a recursive mutex that is re-entered by lock.
Nesting == INSTANCE SysMutex WITH Windows <- FALSE,
  Recursive <- TRUE, TryAgain <- FALSE, MayDestroy <- FALSE, MaxNest <- 2

MCInit ==
  /\ case \in Cases
  /\ RolesInit /\ SyncInit
  /\ case # "sync" => object = Object("mutex", Users, {})
  /\ CASE case = "critical" -> Critical!SmInit
       [] case = "plain"    -> Plain!SmInit
       [] case = "nesting"  -> Nesting!SmInit
       [] OTHER             -> SmInit

MCNext ==
  /\ UNCHANGED case
  /\ \/ case = "draw" /\ DqNext /\ UNCHANGED syncVars
     \/ case = "sync" /\ SyncNext /\ UNCHANGED dqVars
     \/ /\ UNCHANGED <<step, counts, syncVars>>
        /\ \/ case = "critical" /\ Critical!SmNext
           \/ case = "plain"    /\ Plain!SmNext
           \/ case = "nesting"  /\ Nesting!SmNext

Progress(t) ==
  /\ UNCHANGED case
  /\ \/ case = "draw" /\ Turn(t) /\ UNCHANGED syncVars
     \/ case = "sync" /\ SyncContinue(t) /\ UNCHANGED dqVars
     \/ /\ UNCHANGED <<step, counts, syncVars>>
        /\ \/ case = "critical" /\ Critical!Continue(t)
           \/ case = "plain"    /\ Plain!Continue(t)
           \/ case = "nesting"  /\ Nesting!Continue(t)

MCSpec == MCInit /\ [][MCNext]_mcVars /\ \A t \in Threads : WF_mcVars(Progress(t))
=============================================================================
