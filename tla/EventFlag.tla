----------------------------- MODULE EventFlag -----------------------------
(***************************************************************************)
(* Event flags (ps3recomp/runtime/syscalls/sys_event.c): a word of bits     *)
(* that threads wait on.  A set wakes everybody and each waiter tests the   *)
(* word again when it gets the lock: what it was woken for may be gone by   *)
(* then.  A pattern is the set of its bits.  Every call looks at "active"   *)
(* before it takes the lock of the flag and is cut there; a wait on no bits *)
(* returns at once without touching the flag and is left out.               *)
(***************************************************************************)
EXTENDS Naturals, FiniteSets

CONSTANTS
  Flags,       \* ids: table slots
  Bits,        \* bits of a pattern (64)
  Waiters,     \* threads that wait
  Setters,     \* threads that set, clear, create and destroy
  Wants,       \* waits asked for: [bits, mode, clear, timed]
  MaxRaises,   \* bound: times a bit rises
  MaxCreates,  \* bound: times a slot is filled
  Quiet        \* the guest destroys only flags nobody uses

Modes  == {"and", "or"}
Clears == {"keep", "bits", "all"}
Want   == [bits : (SUBSET Bits) \ {{}}, mode : Modes, clear : Clears, timed : BOOLEAN]

ASSUME FlagIdsAssumption == Flags \subseteq Nat \ {0}
ASSUME FlagThreadsAssumption == Waiters \cap Setters = {}
ASSUME WantsAssumption == Wants \subseteq Want
ASSUME FlagBoundsAssumption == {MaxRaises, MaxCreates} \subseteq Nat
ASSUME FlagQuietAssumption == Quiet \in BOOLEAN

VARIABLES
  active, pattern,  \* g_sys_event_flags
  at, on,           \* where a thread is, and the flag it works on
  want,             \* what it waits for
  change,           \* what a setter is about to do: <<kind, bits>>
  created,          \* history: times a slot was filled
  raised, taken     \* history: times a bit rose, or a clearing wait took it

NoWant == [bits |-> {}, mode |-> "or", clear |-> "keep", timed |-> FALSE]
NoChange == <<"none", {}>>
Threads == Waiters \cup Setters

threadVars == <<at, on, want, change>>
flagVars   == <<active, pattern, created, raised, taken>>
fVars      == <<flagVars, threadVars>>

FlagInit ==
  /\ active = [f \in Flags |-> FALSE]
  /\ pattern = [f \in Flags |-> {}]
  /\ at = [t \in Threads |-> "idle"]
  /\ on = [t \in Threads |-> 0]
  /\ want = [t \in Waiters |-> NoWant]
  /\ change = [t \in Setters |-> NoChange]
  /\ created = [f \in Flags |-> 0]
  /\ raised = [f \in Flags |-> [b \in Bits |-> 0]]
  /\ taken = [f \in Flags |-> [b \in Bits |-> 0]]

Asleep(f) == {t \in Waiters : at[t] = "asleep" /\ on[t] = f}

Leave(t) ==
  /\ at' = [at EXCEPT ![t] = "idle"]
  /\ on' = [on EXCEPT ![t] = 0]
  /\ want' = [u \in Waiters |-> IF u = t THEN NoWant ELSE want[u]]
  /\ change' = [u \in Setters |-> IF u = t THEN NoChange ELSE change[u]]

\* Bits rise in a pattern; the history counts each rise.
Raise(f, new) ==
  /\ pattern' = [pattern EXCEPT ![f] = new]
  /\ raised' = [raised EXCEPT ![f] =
       [b \in Bits |-> @[b] + (IF b \in new \ pattern[f] THEN 1 ELSE 0)]]

-----------------------------------------------------------------------------
\* Nobody keeps the table lock in a destroy that waits.
TableFree == \A u \in Threads : at[u] # "destroying"

\* sys_event_flag_create fills the first free slot.
FlagCreate(t, f, init) ==
  /\ TableFree
  /\ at[t] = "idle"
  /\ ~active[f]
  /\ \A g \in Flags : g < f => active[g]
  /\ created[f] < MaxCreates
  /\ created' = [created EXCEPT ![f] = @ + 1]
  /\ active' = [active EXCEPT ![f] = TRUE]
  /\ pattern' = [pattern EXCEPT ![f] = init]
  /\ raised' = [raised EXCEPT ![f] = [b \in Bits |-> IF b \in init THEN 1 ELSE 0]]
  /\ taken' = [taken EXCEPT ![f] = [b \in Bits |-> 0]]
  /\ UNCHANGED threadVars

\* sys_event_flag_destroy wakes nobody.  Destroying a condition variable under
\* waiters is undefined: it may return, and they sleep on, or, as in glibc, wait
\* for them with the table lock held.
FlagDestroy(t, f) ==
  /\ TableFree
  /\ at[t] = "idle"
  /\ active[f]
  /\ Quiet => \A u \in Threads : on[u] # f
  /\ \/ /\ active' = [active EXCEPT ![f] = FALSE]
        /\ at' = [u \in Threads |-> IF u \in Asleep(f) THEN "orphan" ELSE at[u]]
        /\ UNCHANGED on
     \/ /\ Asleep(f) # {}
        /\ at' = [at EXCEPT ![t] = "destroying"]
        /\ on' = [on EXCEPT ![t] = f]
        /\ UNCHANGED active
  /\ UNCHANGED <<pattern, created, raised, taken, want, change>>

\* The condition variable has lost its last waiter: the destroy goes on.
FlagDestroyed(t) ==
  /\ at[t] = "destroying"
  /\ Asleep(on[t]) = {}
  /\ active' = [active EXCEPT ![on[t]] = FALSE]
  /\ Leave(t)
  /\ UNCHANGED <<pattern, created, raised, taken>>

-----------------------------------------------------------------------------
\* flag_check
Met(f, w) == IF w.mode = "and" THEN w.bits \subseteq pattern[f]
             ELSE w.bits \cap pattern[f] # {}

\* The condition of the loop of a wait.
MustWait(f, w) == ~Met(f, w) /\ active[f]

\* Clearing only what an AND wait was satisfied by.
MutRemainsOrKeeps(f, w) == IF w.mode = "or" THEN pattern[f]
                           ELSE pattern[f] \ w.bits

\* What a satisfied wait leaves of the pattern.
Remains(f, w) == CASE w.clear = "keep" -> pattern[f]
                   [] w.clear = "bits" -> pattern[f] \ w.bits
                   [] w.clear = "all"  -> {}

\* The end of a wait that returns CELL_OK.
Satisfy(t, f) ==
  /\ pattern' = [pattern EXCEPT ![f] = Remains(f, want[t])]
  /\ taken' = [taken EXCEPT ![f] = [b \in Bits |-> @[b] +
       (IF want[t].clear # "keep" /\ b \in want[t].bits \cap pattern[f] THEN 1 ELSE 0)]]
  /\ Leave(t)
  /\ UNCHANGED <<active, created, raised>>

\* sys_event_flag_wait and sys_event_flag_trywait up to the lock.
Wait(t, f, w) ==
  /\ at[t] = "idle"
  /\ active[f]
  /\ at' = [at EXCEPT ![t] = "entering"]
  /\ on' = [on EXCEPT ![t] = f]
  /\ want' = [want EXCEPT ![t] = w]
  /\ UNCHANGED <<flagVars, change>>

TryWait(t, f, w) ==
  /\ at[t] = "idle"
  /\ active[f]
  /\ at' = [at EXCEPT ![t] = "trying"]
  /\ on' = [on EXCEPT ![t] = f]
  /\ want' = [want EXCEPT ![t] = w]
  /\ UNCHANGED <<flagVars, change>>

\* The loop of a wait: a flag that is gone ends it as if it were satisfied.
WaitLoop(t) ==
  LET f == on[t] IN
  /\ at[t] = "entering"
  /\ IF MustWait(f, want[t])
     THEN /\ \/ at' = [at EXCEPT ![t] = "asleep"]
             \/ want[t].timed /\ at' = [at EXCEPT ![t] = "expired"]
          /\ UNCHANGED <<flagVars, on, want, change>>
     ELSE Satisfy(t, f)

\* EBUSY unless the pattern matches; active is not looked at again.
TryWaitEnd(t) ==
  LET f == on[t] IN
  /\ at[t] = "trying"
  /\ IF Met(f, want[t]) THEN Satisfy(t, f)
     ELSE Leave(t) /\ UNCHANGED flagVars

SpuriousWake(t) ==
  /\ at[t] = "asleep"
  /\ at' = [at EXCEPT ![t] = "entering"]
  /\ UNCHANGED <<flagVars, on, want, change>>

\* The timeout passes during the sleep: ETIMEDOUT, whatever the pattern is
\* when the lock is back.
WaitExpire(t) ==
  /\ at[t] \in {"asleep", "orphan"}
  /\ want[t].timed
  /\ at' = [at EXCEPT ![t] = "expired"]
  /\ UNCHANGED <<flagVars, on, want, change>>

WaitTimedOut(t) ==
  /\ at[t] = "expired"
  /\ Leave(t)
  /\ UNCHANGED flagVars

-----------------------------------------------------------------------------
\* sys_event_flag_set and sys_event_flag_clear up to the lock.
Change(t, f, kind, bits) ==
  /\ at[t] = "idle"
  /\ active[f]
  /\ at' = [at EXCEPT ![t] = "changing"]
  /\ on' = [on EXCEPT ![t] = f]
  /\ change' = [change EXCEPT ![t] = <<kind, bits>>]
  /\ UNCHANGED <<flagVars, want>>

\* Waking one waiter instead of all.
MutWokenOne(f) == IF Asleep(f) = {} THEN {} ELSE {CHOOSE t \in Asleep(f) : TRUE}

\* Who a set wakes.
Woken(f) == Asleep(f)

Set(t) ==
  LET f == on[t] IN
  /\ at[t] = "changing" /\ change[t][1] = "set"
  /\ Raise(f, pattern[f] \cup change[t][2])
  /\ at' = [u \in Threads |-> IF u = t THEN "idle"
              ELSE IF u \in Woken(f) THEN "entering" ELSE at[u]]
  /\ on' = [on EXCEPT ![t] = 0]
  /\ change' = [change EXCEPT ![t] = NoChange]
  /\ UNCHANGED <<active, created, taken, want>>

\* The bits of the argument are the ones that stay; nobody is woken.
Clear(t) ==
  LET f == on[t] IN
  /\ at[t] = "changing" /\ change[t][1] = "clear"
  /\ pattern' = [pattern EXCEPT ![f] = @ \cap change[t][2]]
  /\ Leave(t)
  /\ UNCHANGED <<active, created, raised, taken>>

-----------------------------------------------------------------------------
Continue(t) == \/ Set(t) \/ Clear(t) \/ FlagDestroyed(t)
               \/ /\ t \in Waiters
                  /\ \/ WaitLoop(t) \/ TryWaitEnd(t)
                     \/ WaitExpire(t) \/ WaitTimedOut(t)

MayRaise(f) == \A b \in Bits : raised[f][b] < MaxRaises

FlagNext ==
  \/ \E t \in Threads : Continue(t)
  \/ \E t \in Waiters :
       \/ SpuriousWake(t)
       \/ \E f \in Flags, w \in Wants : Wait(t, f, w) \/ TryWait(t, f, w)
  \/ \E t \in Setters, f \in Flags, bits \in SUBSET Bits :
       \/ FlagCreate(t, f, bits)
       \/ MayRaise(f) /\ Change(t, f, "set", bits)
       \/ Change(t, f, "clear", bits)
  \/ \E t \in Setters, f \in Flags : FlagDestroy(t, f)

FlagSpec == FlagInit /\ [][FlagNext]_fVars

\* The host scheduler runs every thread that can go on.
FlagFairSpec == FlagSpec /\ \A t \in Threads : WF_fVars(Continue(t))

-----------------------------------------------------------------------------
(* Properties *)

\* The shape of the state; a thread sleeps only on a flag that exists.
FlagTypeOK ==
  /\ active \in [Flags -> BOOLEAN]
  /\ pattern \in [Flags -> SUBSET Bits]
  /\ at \in [Threads -> {"idle", "entering", "asleep", "expired", "orphan",
                         "trying", "changing", "destroying"}]
  /\ on \in [Threads -> Flags \cup {0}]
  /\ \A t \in Threads : at[t] = "idle" <=> on[t] = 0
  /\ \A t \in Waiters : at[t] = "idle" <=> want[t] = NoWant
  /\ \A t \in Waiters : at[t] = "asleep" => active[on[t]]

\* Nobody sleeps on a pattern that satisfies it: a set wakes everybody, and
\* no other change of the pattern can make a wait true.
SleepersUnsatisfied == \A f \in Flags : active[f] =>
  \A t \in Asleep(f) : ~Met(f, want[t])

\* A rise of a bit satisfies at most one wait that clears it, so a bit passed
\* with set and a clearing wait is a token only one thread has.
RaiseTakenOnce == \A f \in Flags, b \in Bits : taken[f][b] <= raised[f][b]

\* A waiter whose bits stay set does not wait forever.
SteadyBitsRelease == \A t \in Waiters :
  ~ <>[](at[t] \in {"entering", "asleep"} /\ Met(on[t], want[t]))
=============================================================================
