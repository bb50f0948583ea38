---------------------------- MODULE Reservation ----------------------------
(***************************************************************************)
(* lwarx/stwcx. and ldarx/stdcx. on host atomics.  The runtime's form       *)
(* (ps3recomp/runtime/ppu/ppu_memory.h over ppu_loader.cpp) compares and    *)
(* swaps under a lock of the 16-byte block and then breaks the reservations *)
(* of every context in a registry; the form the lifter emits into the       *)
(* translated code (ps3recomp/tools/ppu_lifter.py) only compares and swaps. *)
(* Each action is one access to what other threads see.  The guest is any   *)
(* program that gives a conditional store the width of its load.  Plain     *)
(* stores (PPU_RESV_STORE) and PPU_RESV_OFF are left out.                   *)
(***************************************************************************)
EXTENDS Naturals, FiniteSets, FiniteSetsExt

CONSTANTS
  Contexts,   \* the ppu_context of each thread descriptor
  Words,      \* addresses of words, multiples of 4 and not 0
  Contents,   \* what a word may hold
  ResvMax,    \* PPU_RESV_MAX
  ResvSetups, \* [lifted : is it the lifter's form, spans : the operands of the guest,
              \*  starts : bound, how often threads start]
  NoContext   \* a free slot of the registry, a lock nobody holds

ASSUME ResvAssumption ==
  /\ Words \subseteq Nat \ {0} /\ ResvMax \in Nat
  /\ ResvSetups \subseteq [lifted : BOOLEAN, spans : SUBSET ((SUBSET Words) \ {{}}), starts : Nat]
  /\ NoContext \notin Contexts /\ Contents # {}

VARIABLES
  word,                      \* guest memory
  reserveAddr, reserveValue, reserveValid, \* of each context
  registry, registered,      \* g_resv_ctxs, g_resv_ctx_n
  locks,                     \* g_resv_locks: the holder
  at,                        \* where the thread of a context is
  new,                       \* its operand: what it stores, or the span it loads
  scan,                      \* the scan of ppu_resv_break: addresses, index, count
  stale,                     \* history: were reserved words stored to since
  guest                      \* the setup, chosen once

contextVars == <<reserveAddr, reserveValue, reserveValid>>
rvVars == <<word, contextVars, registry, registered, locks, at, new, scan, stale, guest>>

Nothing == [w \in {} |-> 0]
NoScan == [addrs |-> {}, i |-> 0, n |-> 0]
Broken == 0       \* PPU_RESV_INVALID, or the 0 of a cleared context: the address of nothing
Addr(S) == Min(S)
Held(S) == [w \in S |-> word[w]]
Lock(S) == (Addr(S) \div 16) % 1024
Blocks == {Lock({w}) : w \in Words}

RvInit ==
  /\ guest \in ResvSetups
  /\ word = [w \in Words |-> CHOOSE v \in Contents : TRUE]
  /\ reserveAddr = [c \in Contexts |-> Broken]
  /\ reserveValue = [c \in Contexts |-> Nothing]
  /\ reserveValid = [c \in Contexts |-> FALSE]
  /\ registry = [i \in 0 .. ResvMax - 1 |-> NoContext] /\ registered = 0
  /\ locks = [b \in Blocks |-> NoContext]
  /\ at = [c \in Contexts |-> "off"]
  /\ new = [c \in Contexts |-> Nothing]
  /\ scan = [c \in Contexts |-> NoScan]
  /\ stale = [c \in Contexts |-> FALSE]

Goes(c, from, to) == at[c] = from /\ at' = [at EXCEPT ![c] = to]

-----------------------------------------------------------------------------
(* A thread starts on a cleared context and joins the registry, first the  *)
(* count and then the entry; it ends without leaving it.                   *)

RvStart(c) ==
  /\ registered < guest.starts
  /\ Goes(c, "off", "enrol")
  /\ registered' = registered + 1
  /\ scan' = [scan EXCEPT ![c] = [NoScan EXCEPT !.i = registered]]
  /\ reserveAddr' = [reserveAddr EXCEPT ![c] = Broken]
  /\ reserveValue' = [reserveValue EXCEPT ![c] = Nothing]
  /\ reserveValid' = [reserveValid EXCEPT ![c] = FALSE]
  /\ stale' = [stale EXCEPT ![c] = FALSE]
  /\ UNCHANGED <<word, registry, locks, new, guest>>

Enrol(c) ==
  /\ Goes(c, "enrol", "runs")
  /\ registry' = [i \in DOMAIN registry |-> IF i = scan[c].i THEN c ELSE registry[i]]
  /\ scan' = [scan EXCEPT ![c] = NoScan]
  /\ UNCHANGED <<word, contextVars, registered, locks, new, stale, guest>>

RvEnd(c) ==
  /\ Goes(c, "runs", "off")
  /\ UNCHANGED <<word, contextVars, registry, registered, locks, new, scan, stale, guest>>

-----------------------------------------------------------------------------
(* ppu_lwarx, ppu_ldarx: the value is loaded before the address is noted.  *)

LoadWord(c, S) ==
  /\ Goes(c, "runs", "reserve")
  /\ new' = [new EXCEPT ![c] = Held(S)]
  /\ UNCHANGED <<word, contextVars, registry, registered, locks, scan, stale, guest>>

Reserve(c) ==
  /\ Goes(c, "reserve", "runs")
  /\ reserveAddr' = [reserveAddr EXCEPT ![c] = Addr(DOMAIN new[c])]
  /\ reserveValue' = [reserveValue EXCEPT ![c] = new[c]]
  /\ reserveValid' = [reserveValid EXCEPT ![c] = TRUE]
  /\ new' = [new EXCEPT ![c] = Nothing]
  /\ stale' = [stale EXCEPT ![c] = FALSE]
  /\ UNCHANGED <<word, registry, registered, locks, scan, guest>>

-----------------------------------------------------------------------------
(* ppu_stwcx, ppu_stdcx; ppu_res_stwcx, ppu_res_stdcx.                     *)

\* The instruction is over; the lifter's form also clears the address.
Drops(c) ==
  /\ reserveValid' = [reserveValid EXCEPT ![c] = FALSE]
  /\ reserveValue' = [reserveValue EXCEPT ![c] = Nothing]
  /\ reserveAddr' = IF guest.lifted THEN [reserveAddr EXCEPT ![c] = Broken] ELSE reserveAddr
  /\ new' = [new EXCEPT ![c] = Nothing]

Forgets(c) == stale' = [stale EXCEPT ![c] = FALSE]

Matches(c, S) == reserveAddr[c] = Addr(S)

\* No reservation, or another address.
StoreElsewhere(c, S) ==
  /\ at[c] = "runs" /\ ~(reserveValid[c] /\ Matches(c, S))
  /\ Drops(c) /\ Forgets(c)
  /\ UNCHANGED <<word, registry, registered, locks, at, scan, guest>>

StoreReserved(c, S) ==
  /\ reserveValid[c] /\ Matches(c, S) /\ DOMAIN reserveValue[c] = S
  /\ Goes(c, "runs", IF guest.lifted THEN "swap" ELSE "lock")
  /\ \E f \in [S -> Contents] : new' = [new EXCEPT ![c] = f]
  /\ UNCHANGED <<word, contextVars, registry, registered, locks, scan, stale, guest>>

LockBlock(c) ==
  /\ Goes(c, "lock", "swap")
  /\ locks[Lock(DOMAIN new[c])] = NoContext
  /\ locks' = [locks EXCEPT ![Lock(DOMAIN new[c])] = c]
  /\ UNCHANGED <<word, contextVars, registry, registered, new, scan, stale, guest>>

(* Mutant of MaySwap: the reservation is not looked at again under the lock. *)
MutMaySwap(c) == Held(DOMAIN new[c]) = reserveValue[c]

\* The second look at the reservation, and the compare.
MaySwap(c) ==
  /\ guest.lifted \/ Matches(c, DOMAIN new[c])
  /\ Held(DOMAIN new[c]) = reserveValue[c]

Stored(c) == [w \in Words |-> IF w \in DOMAIN new[c] THEN new[c][w] ELSE word[w]]
SwapGoesTo == IF guest.lifted THEN "runs" ELSE "break"

Overlaps(d, c) == reserveValid[d] /\ DOMAIN reserveValue[d] \cap DOMAIN new[c] # {}

\* A store of two words breaks the reservations of both addresses.
Swap(c) ==
  /\ Goes(c, "swap", SwapGoesTo)
  /\ MaySwap(c)
  /\ word' = Stored(c)
  /\ IF guest.lifted THEN Drops(c) /\ UNCHANGED scan
     ELSE /\ scan' = [scan EXCEPT ![c] = [addrs |-> DOMAIN new[c], i |-> 0, n |-> registered]]
          /\ UNCHANGED <<contextVars, new>>
  /\ stale' = [d \in Contexts |-> d # c /\ (stale[d] \/ Overlaps(d, c))]
  /\ UNCHANGED <<registry, registered, locks, guest>>

\* What a compare that fails goes on with: the lock is given back.
AfterMiss == IF guest.lifted THEN "runs" ELSE "unlock"

(* Mutant of Miss: a compare that fails breaks the reservations too. *)
MutMiss(c) ==
  /\ Goes(c, "swap", SwapGoesTo)
  /\ ~MaySwap(c)
  /\ scan' = [scan EXCEPT ![c] = [addrs |-> DOMAIN new[c], i |-> 0, n |-> registered]]
  /\ Forgets(c)
  /\ UNCHANGED <<word, contextVars, new, registry, registered, locks, guest>>

Miss(c) ==
  /\ Goes(c, "swap", AfterMiss)
  /\ ~MaySwap(c)
  /\ IF guest.lifted THEN Drops(c) ELSE UNCHANGED <<contextVars, new>>
  /\ Forgets(c)
  /\ UNCHANGED <<word, registry, registered, locks, scan, guest>>

\* ppu_resv_break: the entry looked at, and whether its reservation is on the word.
Entry(c) == registry[scan[c].i]
Scanning(c) == scan[c].addrs # {} /\ scan[c].i < scan[c].n /\ scan[c].i < ResvMax
Breaks(c) == Entry(c) # NoContext /\ reserveAddr[Entry(c)] = Addr(scan[c].addrs)
Further(c) == [scan EXCEPT ![c].i = @ + 1]

LookPast(c) ==
  /\ at[c] = "break" /\ Scanning(c) /\ ~Breaks(c)
  /\ scan' = Further(c)
  /\ UNCHANGED <<word, contextVars, registry, registered, locks, at, new, stale, guest>>

LookAt(c) ==
  /\ Scanning(c) /\ Breaks(c)
  /\ Goes(c, "break", "clobber")
  /\ UNCHANGED <<word, contextVars, registry, registered, locks, new, scan, stale, guest>>

Clobber(c) ==
  /\ Goes(c, "clobber", "break")
  /\ reserveAddr' = [reserveAddr EXCEPT ![Entry(c)] = Broken]
  /\ scan' = Further(c)
  /\ UNCHANGED <<word, reserveValue, reserveValid, registry, registered, locks, new, stale, guest>>

\* The scan for the second word, or the end.
NextWord(c) ==
  /\ at[c] = "break" /\ scan[c].addrs # {} /\ ~Scanning(c)
  /\ scan' = [scan EXCEPT ![c] = [addrs |-> @.addrs \ {Addr(@.addrs)}, i |-> 0, n |-> registered]]
  /\ UNCHANGED <<word, contextVars, registry, registered, locks, at, new, stale, guest>>

Unlock(c) ==
  /\ at[c] \in {"break", "unlock"} /\ scan[c].addrs = {}
  /\ at' = [at EXCEPT ![c] = "runs"]
  /\ locks' = [locks EXCEPT ![Lock(DOMAIN new[c])] = NoContext]
  /\ scan' = [scan EXCEPT ![c] = NoScan]
  /\ Drops(c) /\ Forgets(c)
  /\ UNCHANGED <<word, registry, registered, guest>>

-----------------------------------------------------------------------------
RvContinue(c) ==
  \/ Enrol(c) \/ Reserve(c) \/ LockBlock(c) \/ Swap(c) \/ Miss(c)
  \/ LookPast(c) \/ LookAt(c) \/ Clobber(c) \/ NextWord(c) \/ Unlock(c)

RvNext ==
  \E c \in Contexts :
     \/ RvStart(c) \/ RvEnd(c) \/ RvContinue(c)
     \/ \E S \in guest.spans : LoadWord(c, S) \/ StoreElsewhere(c, S) \/ StoreReserved(c, S)

\* Host threads are scheduled.
RvSpec == RvInit /\ [][RvNext]_rvVars /\ \A c \in Contexts : WF_rvVars(RvContinue(c))

-----------------------------------------------------------------------------
RvPhases == {"off", "enrol", "runs", "reserve", "lock", "swap", "break", "clobber", "unlock"}

\* The variables are well formed, and a lock is held by who is past it.
RvTypeOK ==
  /\ word \in [Words -> Contents] /\ at \in [Contexts -> RvPhases]
  /\ reserveAddr \in [Contexts -> Words \cup {Broken}]
  /\ reserveValid \in [Contexts -> BOOLEAN]
  /\ registry \in [0 .. ResvMax - 1 -> Contexts \cup {NoContext}] /\ registered \in 0 .. guest.starts
  /\ \A c \in Contexts :
       /\ DOMAIN new[c] \in guest.spans \cup {{}} /\ DOMAIN reserveValue[c] \in guest.spans \cup {{}}
       /\ \A b \in Blocks : locks[b] = c =>
            at[c] \in {"swap", "break", "clobber", "unlock"} /\ Lock(DOMAIN new[c]) = b

\* Who is still to be reached by a scan for the word it has reserved.
Reached(u, c) ==
  /\ at[u] \in {"break", "clobber"}
  /\ \E a \in scan[u].addrs :
       /\ reserveAddr[c] = a
       /\ \E i \in DOMAIN registry :
            /\ registry[i] = c /\ i < scan[u].n
            /\ a = Addr(scan[u].addrs) => i >= scan[u].i

\* The reservation of c still stands.
Linked(c) ==
  /\ at[c] \in {"runs", "reserve", "lock", "swap"} /\ reserveValid[c]
  /\ Matches(c, DOMAIN reserveValue[c]) /\ Held(DOMAIN reserveValue[c]) = reserveValue[c]
  /\ \A u \in Contexts : ~Reached(u, c)

Promised == INSTANCE LinkedStore WITH
  Parties <- Contexts, Cells <- Words, memory <- word,
  link <- [c \in Contexts |-> IF Linked(c) THEN reserveValue[c] ELSE Nothing]

\* A conditional store that succeeds has had nothing stored under it since its
\* load, not even the same value: no stale pop of a free list succeeds.
ImplementsLinkedStore == Promised!LinkedStoreSpec

Succeeds == \E c \in Contexts : at[c] = "swap" /\ MaySwap(c) /\ at'[c] = SwapGoesTo
\* ppu_loader.cpp: the stale stwcx of a free-list pop fails when a pop and a
\* push have put the old head back.
StaleStoresFail == [][\A c \in Contexts : Swap(c) => ~stale[c]]_rvVars

Storing(c) == at[c] \in {"lock", "swap"}

\* While conditional stores are tried, some succeed: they cannot keep breaking
\* each other's reservations in turn, and no lock of a block stays taken.
StoresGoOn == []<>(\E c \in Contexts : Storing(c)) => []<><<Succeeds>>_rvVars
=============================================================================
