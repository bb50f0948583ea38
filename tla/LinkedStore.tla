---------------------------- MODULE LinkedStore ----------------------------
(***************************************************************************)
(* What load-and-reserve and store-conditional promise: a conditional      *)
(* store succeeds only if nothing has been stored to the words since they  *)
(* were loaded with reservation, not even the value they had.  A           *)
(* reservation may be lost for no reason.                                  *)
(***************************************************************************)
EXTENDS Naturals

CONSTANTS Parties, Cells, Contents

VARIABLES
  memory,   \* contents of the cells
  link      \* what each party has loaded with reservation, << >> for nothing

lsVars == <<memory, link>>

Unlinked == [c \in {} |-> 0]

LsInit == memory \in [Cells -> Contents] /\ link = [p \in Parties |-> Unlinked]

Load(p, S) ==
  /\ link' = [link EXCEPT ![p] = [c \in S |-> memory[c]]]
  /\ UNCHANGED memory

Lose(p) == link' = [link EXCEPT ![p] = Unlinked] /\ UNCHANGED memory

\* new is stored, and whoever has a cell of it reserved loses the reservation.
StoreConditional(p, new) ==
  /\ DOMAIN new = DOMAIN link[p] /\ DOMAIN new # {}
  /\ memory' = [c \in Cells |-> IF c \in DOMAIN new THEN new[c] ELSE memory[c]]
  /\ link' = [q \in Parties |-> IF DOMAIN link[q] \cap DOMAIN new = {} THEN link[q] ELSE Unlinked]

LsNext ==
  \E p \in Parties :
     \/ Lose(p)
     \/ \E S \in SUBSET Cells : Load(p, S) \/ \E new \in [S -> Contents] : StoreConditional(p, new)

LinkedStoreSpec == LsInit /\ [][LsNext]_lsVars
=============================================================================
