---------------------------- MODULE TokenCounter ----------------------------
(***************************************************************************)
(* What a counting semaphore promises: a wait that succeeds takes one      *)
(* token, a post adds its tokens at once and never passes the maximum, and *)
(* between a create and the next no token appears or disappears otherwise. *)
(***************************************************************************)
EXTENDS Integers

CONSTANTS MaxTokens, PostSizes

VARIABLES tokens, put, got  \* tokens now; posted and taken since the create

tcVars == <<tokens, put, got>>

Fresh(n) == tokens = n /\ put = 0 /\ got = 0

TcInit == Fresh(0)

Create == \E n \in 0 .. MaxTokens : Fresh(n)'

Take == /\ tokens > 0
        /\ tokens' = tokens - 1 /\ got' = got + 1
        /\ UNCHANGED put

Put(n) == /\ tokens + n <= MaxTokens
          /\ tokens' = tokens + n /\ put' = put + n
          /\ UNCHANGED got

CounterSpec == TcInit /\ [][Create \/ Take \/ \E n \in PostSizes : Put(n)]_tcVars
=============================================================================
