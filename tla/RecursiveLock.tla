--------------------------- MODULE RecursiveLock ---------------------------
(***************************************************************************)
(* What a guest program is promised by a recursive lock of the LV2 kernel, *)
(* whatever host primitive backs it: a thread whose acquire has succeeded  *)
(* keeps every other thread out until as many releases have followed.      *)
(***************************************************************************)
EXTENDS Naturals

CONSTANT Threads

VARIABLE level  \* level[t]: acquires of t that succeeded and are not released

LockInit == level = [t \in Threads |-> 0]

Excludes(t) == \A u \in Threads \ {t} : level[u] = 0

(* t enters, or re-enters, the lock. *)
Acquire(t) ==
  /\ Excludes(t)
  /\ level' = [level EXCEPT ![t] = @ + 1]

(* One level of t is released. *)
Release(t) ==
  /\ level[t] > 0
  /\ level' = [level EXCEPT ![t] = @ - 1]

(* A wait on a condition variable drops every level at once ... *)
ReleaseAll(t) ==
  /\ level[t] > 0
  /\ level' = [level EXCEPT ![t] = 0]

(* ... and takes them back before it returns. *)
Reacquire(t) ==
  /\ Excludes(t)
  /\ level[t] = 0
  /\ level' = [level EXCEPT ![t] = level'[t]]
  /\ level'[t] \in Nat

LockNext ==
  \E t \in Threads : Acquire(t) \/ Release(t) \/ ReleaseAll(t) \/ Reacquire(t)

LockSpec == LockInit /\ [][LockNext]_level
=============================================================================
