----------------------------- MODULE DrawQueue -----------------------------
(***************************************************************************)
(* The guest's NU::Draw request manager as sys_cond.c describes its user   *)
(* of condition 5 (sys_cond_signal): one mutex and ONE cond on which the   *)
(* workers wait for requests and the main thread for their completion.     *)
(* The guest's code is not part of the repository; this is the protocol    *)
(* its author gives as the reason for making that signal a broadcast,      *)
(* composed with the mutex and cond of module SysMutex.                    *)
(***************************************************************************)
EXTENDS SysMutex

CONSTANTS Main, Workers, \* the guest threads
          Gate,          \* the cond they share
          MaxRequests    \* bound: requests posted

ASSUME RolesAssumption == Main \notin Workers /\ Threads = {Main} \cup Workers
ASSUME GateAssumption == Gate \in Conds /\ MaxRequests \in Nat

VARIABLES step,            \* where a thread is in the protocol
          posted, finished \* requests

counts == <<posted, finished>>
dqVars == <<smVars, step, counts>>

RolesInit == /\ step = [t \in Threads |-> "out"]
             /\ posted = 0 /\ finished = 0

DqInit == SmInit /\ RolesInit

Inside(t) == at[t] = "idle" /\ nest[t] = 1

To(t, next) == step' = [step EXCEPT ![t] = next]

\* Both roles enter by locking, once the main thread has a request to post.
Come(t) ==
  /\ step[t] = "out"
  /\ t = Main => posted < MaxRequests
  /\ Lock(t) /\ ~timed'[t]
  /\ To(t, IF t = Main THEN "post" ELSE "work")
  /\ UNCHANGED counts

Post == /\ step[Main] = "post" /\ Inside(Main)
        /\ posted' = posted + 1
        /\ To(Main, "tell")
        /\ UNCHANGED <<smVars, finished>>

\* A worker finishes a request; until there is one it waits.
Work(t) ==
  /\ step[t] = "work" /\ Inside(t)
  /\ IF finished < posted
     THEN finished' = finished + 1 /\ To(t, "tell") /\ UNCHANGED <<smVars, posted>>
     ELSE CondWait(t, Gate) /\ ~timed'[t] /\ UNCHANGED <<step, counts>>

\* Whoever changed something signals the cond.
Tell(t) ==
  /\ step[t] = "tell" /\ Inside(t)
  /\ To(t, IF t = Main THEN "await" ELSE "leave")
  /\ IF Sleepers(Gate) = {} THEN UNCHANGED smVars ELSE CondSignal(t, Gate)
  /\ UNCHANGED counts

\* The main thread waits until everything it posted is done.
Await == /\ step[Main] = "await" /\ Inside(Main)
         /\ IF finished = posted
            THEN To(Main, "leave") /\ UNCHANGED smVars
            ELSE CondWait(Main, Gate) /\ ~timed'[Main] /\ UNCHANGED step
         /\ UNCHANGED counts

Depart(t) ==
  /\ step[t] = "leave" /\ Unlock(t)
  /\ To(t, "out")
  /\ UNCHANGED counts

Host(t) == Continue(t) /\ UNCHANGED <<step, counts>>

Turn(t) == \/ Come(t) \/ Tell(t) \/ Depart(t) \/ Host(t)
           \/ t \in Workers /\ Work(t)
           \/ t = Main /\ (Post \/ Await)

DqNext == \E t \in Threads : Turn(t)

DqSpec == /\ DqInit /\ [][DqNext]_dqVars
          /\ \A t \in Threads : WF_dqVars(Turn(t))

-----------------------------------------------------------------------------
\* Frame submission does not freeze (sys_cond.c:308): the main thread always
\* gets its completion.
SubmissionGoesOn == step[Main] = "await" ~> step[Main] = "out"
=============================================================================
