----------------------------- MODULE Semaphore -----------------------------
(***************************************************************************)
(* Counting semaphores (ps3recomp/runtime/syscalls/sys_semaphore.c).  On    *)
(* POSIX "value" is the semaphore and threads sleep on a condition          *)
(* variable; on Windows a kernel semaphore holds the tokens and "value" is a *)
(* second count beside it, changed before the kernel's by a post and after  *)
(* it by a wait.  A call on a semaphore that does not exist returns ESRCH,  *)
(* and get_value only reads: neither changes the state.                     *)
(***************************************************************************)
EXTENDS Integers, FiniteSets

CONSTANTS
  Callers,     \* guest threads
  Setups,      \* builds, and whether waits may have a timeout
  MaxValue,    \* max_value of the semaphore
  Starts,      \* initial values it is created with
  Counts,      \* counts posted
  MaxPosted    \* bound: tokens posted in the life of the semaphore

ASSUME SemCallersAssumption == IsFiniteSet(Callers)
ASSUME SemMaxAssumption == MaxValue \in Nat \ {0} /\ MaxPosted \in Nat
ASSUME SemStartsAssumption == Starts \subseteq 0 .. MaxValue
ASSUME SemCountsAssumption == Counts \subseteq Nat \ {0}
ASSUME SemSetupsAssumption == Setups \subseteq [windows : BOOLEAN, deadlines : BOOLEAN]

VARIABLES
  setup,                 \* the build and the guest, chosen once
  alive, value, handle,  \* g_sys_semaphores, and the kernel semaphore
  doing, dated, adding,  \* where a caller is; has it a timeout; what it posts
  posted, drawn          \* history: tokens posted and taken since the create

callVars == <<doing, dated, adding>>
semVars  == <<setup, alive, value, handle, callVars, posted, drawn>>

SemInit ==
  /\ setup \in Setups
  /\ alive = FALSE /\ value = 0 /\ handle = 0
  /\ doing = [t \in Callers |-> "idle"]
  /\ dated = [t \in Callers |-> FALSE]
  /\ adding = [t \in Callers |-> 0]
  /\ posted = 0 /\ drawn = 0

Doing(s) == {t \in Callers : doing[t] = s}

Goes(t, s) == doing' = [doing EXCEPT ![t] = s]

\* The count a wait looks at.
Tokens == IF setup.windows THEN handle ELSE value

-----------------------------------------------------------------------------
\* sys_semaphore_create; a slot is filled again when nobody is in a call.
SemCreate(n) ==
  /\ ~alive /\ Doing("idle") = Callers
  /\ alive' = TRUE /\ value' = n
  /\ handle' = IF setup.windows THEN n ELSE 0
  /\ posted' = 0 /\ drawn' = 0
  /\ UNCHANGED <<setup, callVars>>

\* sys_semaphore_destroy of a semaphore nobody uses.
SemDestroy ==
  /\ alive /\ Doing("idle") = Callers
  /\ alive' = FALSE
  /\ UNCHANGED <<setup, value, handle, callVars, posted, drawn>>

-----------------------------------------------------------------------------
\* A woken wait tests the count again.
MaySleep == Tokens <= 0

\* A wait gets its token; on Windows the second count is still to follow.
Draw(t) ==
  /\ drawn' = drawn + 1
  /\ IF setup.windows
     THEN handle' = handle - 1 /\ Goes(t, "counting") /\ UNCHANGED value
     ELSE value' = value - 1 /\ Goes(t, "idle") /\ UNCHANGED handle
  /\ dated' = [dated EXCEPT ![t] = FALSE]
  /\ UNCHANGED <<setup, alive, adding, posted>>

SemWait(t, d) ==
  /\ alive /\ doing[t] = "idle"
  /\ IF Tokens > 0 THEN Draw(t)
     ELSE /\ Goes(t, "asleep") /\ dated' = [dated EXCEPT ![t] = d]
          /\ UNCHANGED <<setup, alive, value, handle, adding, posted, drawn>>

\* EBUSY without a token.
SemTryWait(t) ==
  /\ alive /\ doing[t] = "idle"
  /\ Tokens > 0
  /\ Draw(t)

\* The kernel gives a waiting thread a token.
KernelWake(t) ==
  /\ setup.windows
  /\ doing[t] = "asleep" /\ handle > 0
  /\ Draw(t)

\* The end of a wait on Windows.
Uncount(t) ==
  /\ doing[t] = "counting"
  /\ value' = value - 1
  /\ Goes(t, "idle")
  /\ UNCHANGED <<setup, alive, handle, dated, adding, posted, drawn>>

\* The loop of a wait on POSIX after pthread_cond_wait.
Retest(t) ==
  /\ doing[t] = "woken"
  /\ IF MaySleep
     THEN Goes(t, "asleep") /\ UNCHANGED <<setup, alive, value, handle, dated, adding, posted, drawn>>
     ELSE Draw(t)

SpuriousSignal(t) ==
  /\ ~setup.windows
  /\ doing[t] = "asleep"
  /\ Goes(t, "woken")
  /\ UNCHANGED <<setup, alive, value, handle, dated, adding, posted, drawn>>

\* ETIMEDOUT, which on POSIX may be the return of a thread that was signalled
\* when its deadline passed: value is not looked at again.
SemExpire(t) ==
  /\ dated[t] /\ doing[t] \in {"asleep", "woken"}
  /\ Goes(t, "idle")
  /\ dated' = [dated EXCEPT ![t] = FALSE]
  /\ UNCHANGED <<setup, alive, value, handle, adding, posted, drawn>>

-----------------------------------------------------------------------------
\* One signal for the whole post.
MutSignals(n) == 1

\* pthread_cond_signal is called as often as tokens were posted.
Signals(n) == n

\* Who n signals may wake.
Wakeable(n) ==
  LET asleep == Doing("asleep") IN
  {w \in SUBSET asleep :
     Cardinality(w) = IF n < Cardinality(asleep) THEN n ELSE Cardinality(asleep)}

\* sys_semaphore_post; EINVAL, and no change, above the maximum.
SemPost(t, n) ==
  /\ alive /\ doing[t] = "idle"
  /\ value + n <= MaxValue
  /\ value' = value + n
  /\ IF setup.windows
     THEN /\ Goes(t, "releasing") /\ adding' = [adding EXCEPT ![t] = n]
          /\ UNCHANGED posted
     ELSE /\ \E w \in Wakeable(Signals(n)) :
               doing' = [u \in Callers |-> IF u \in w THEN "woken" ELSE doing[u]]
          /\ posted' = posted + n
          /\ UNCHANGED adding
  /\ UNCHANGED <<setup, alive, handle, dated, drawn>>

\* A release of one token, whatever was posted.
MutRelease(t) ==
  /\ doing[t] = "releasing"
  /\ handle' = handle + 1
  /\ posted' = posted + adding[t]
  /\ adding' = [adding EXCEPT ![t] = 0]
  /\ Goes(t, "idle")
  /\ UNCHANGED <<setup, alive, value, dated, drawn>>

\* ReleaseSemaphore, which fails and adds nothing above the maximum; the code
\* does not look at its result.
Release(t) ==
  /\ doing[t] = "releasing"
  /\ handle' = IF handle + adding[t] <= MaxValue THEN handle + adding[t] ELSE handle
  /\ posted' = posted + adding[t]
  /\ adding' = [adding EXCEPT ![t] = 0]
  /\ Goes(t, "idle")
  /\ UNCHANGED <<setup, alive, value, dated, drawn>>

-----------------------------------------------------------------------------
SemContinue(t) == KernelWake(t) \/ Uncount(t) \/ Retest(t) \/ SemExpire(t) \/ Release(t)

SemNext ==
  \/ SemDestroy
  \/ \E n \in Starts : SemCreate(n)
  \/ \E t \in Callers :
       \/ SemContinue(t) \/ SpuriousSignal(t) \/ SemTryWait(t)
       \/ \E d \in {FALSE, setup.deadlines} : SemWait(t, d)
       \/ \E n \in Counts : posted + n <= MaxPosted /\ SemPost(t, n)

SemSpec == SemInit /\ [][SemNext]_semVars

\* The host scheduler runs every thread that can go on.
SemFairSpec == SemSpec /\ \A t \in Callers : WF_semVars(SemContinue(t))

-----------------------------------------------------------------------------
(* Properties *)

\* The shape of the state; only a sleeper has a deadline, only a post a count.
SemTypeOK ==
  /\ alive \in BOOLEAN
  /\ value \in 0 .. MaxValue /\ handle \in 0 .. MaxValue
  /\ doing \in [Callers -> {"idle", "asleep"} \cup
       (IF setup.windows THEN {"counting", "releasing"} ELSE {"woken"})]
  /\ \A t \in Callers : dated[t] => doing[t] \in {"asleep", "woken"}
  /\ \A t \in Callers : adding[t] > 0 <=> doing[t] = "releasing"

\* One pair for each token that value counts and the semaphore has yet to get.
Announced == {p \in Callers \X (1 .. MaxValue) : p[2] <= adding[p[1]]}

\* The two counts of the Windows build differ by exactly the calls that are
\* between them, whatever the threads interleave, so ReleaseSemaphore never
\* passes the maximum and drops a post.
CountsAgree == setup.windows =>
  value = handle + Cardinality(Doing("counting")) + Cardinality(Announced)

\* Every post adds its tokens, and every wait that succeeds has taken one.
Counter == INSTANCE TokenCounter
  WITH MaxTokens <- MaxValue, PostSizes <- Counts,
       tokens <- IF alive THEN Tokens ELSE 0,
       put <- IF alive THEN posted ELSE 0, got <- IF alive THEN drawn ELSE 0
SemImplementsCounter == Counter!CounterSpec

\* A thread does not sleep forever while the semaphore has tokens, unless
\* deadlines are used on POSIX (see DecrementsUnlessZero).
Stranded == Tokens > 0 /\ \E t \in Callers : doing[t] = "asleep" /\ ~dated[t]
NoTokenStranded == ~ <>[](Stranded /\ (setup.windows \/ ~setup.deadlines))

\* A wait blocks only if the count is zero (docs/SYSCALLS.md:232).
DecrementsUnlessZero == ~ <>[]Stranded
=============================================================================
