----------------------------- MODULE SharedLock -----------------------------
(***************************************************************************)
(* What a reader-writer lock promises: readers share it, a writer has it   *)
(* alone, and nobody gives it back but who has it.                         *)
(***************************************************************************)
EXTENDS Naturals

CONSTANT Parties

VARIABLES reads, writing  \* levels each party reads at; the parties that write

slVars == <<reads, writing>>

SlInit == reads = [p \in Parties |-> 0] /\ writing = {}

Unread(S) == \A p \in S : reads[p] = 0

Read(p) == /\ writing = {}
           /\ reads' = [reads EXCEPT ![p] = @ + 1] /\ UNCHANGED writing
EndRead(p) == /\ reads[p] > 0
              /\ reads' = [reads EXCEPT ![p] = @ - 1] /\ UNCHANGED writing
Write(p) == /\ writing = {} /\ Unread(Parties)
            /\ writing' = {p} /\ UNCHANGED reads
EndWrite(p) == /\ p \in writing
               /\ writing' = writing \ {p} /\ UNCHANGED reads

SlNext == \E p \in Parties : Read(p) \/ EndRead(p) \/ Write(p) \/ EndWrite(p)

SharedLockSpec == SlInit /\ [][SlNext]_slVars
=============================================================================
