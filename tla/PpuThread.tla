----------------------------- MODULE PpuThread -----------------------------
(***************************************************************************)
(* The life of PPU threads (ps3recomp/runtime/syscalls/sys_ppu_thread.c and *)
(* ppu_thread_lifecycle.h).  A descriptor in a table is the guest's thread; *)
(* it holds the registers and the guest stack that the host thread runs on, *)
(* and it must not be given out again before that thread has let go of it.  *)
(* Every step of the code is taken under s_table_lock but Collect.  A handle *)
(* that POSIX leaves in a descriptor when it is closed is never read again, *)
(* and is 0 here as on Windows.  The queries, priorities and names, and the *)
(* diagnostic start gate (YDKJ_THREADGATE) are left out.                    *)
(***************************************************************************)
EXTENDS Naturals, FiniteSets

CONSTANTS
  Slots,   \* descriptors, without slot 0 that stands for the first thread
  Hosts,   \* bound: host threads; one is used again when all is over for it
  Values   \* what r3 may hold

ASSUME PtIdsAssumption == Slots \subseteq Nat \ {0} /\ Hosts \subseteq Nat \ {0}
ASSUME PtValuesAssumption == Values \subseteq Nat /\ 0 \in Values

VARIABLES
  state, joinable, initialized, exitStatus, hostThread, \* g_ppu_threads
  objects,     \* are the finish event, or mutex and condition, there
  phase, slot, \* where a host thread is, and the descriptor it runs on
  r3,          \* its register at the end
  handle,      \* is the host's handle to it still to be closed
  said,        \* history: what its guest means to report
  call, awaits, result,  \* a caller in a join: where, whom it waits for, status
  faults       \* history: what was done to an object that was not there

slotVars == <<state, joinable, initialized, exitStatus, hostThread, objects>>
hostVars == <<phase, slot, r3, handle, said>>
joinVars == <<call, awaits, result>>
ptVars   == <<slotVars, hostVars, joinVars, faults>>

Main == 0
Callers == Hosts \cup {Main}

PtInit ==
  /\ state = [s \in Slots |-> "free"]
  /\ joinable = [s \in Slots |-> FALSE]
  /\ initialized = [s \in Slots |-> FALSE]
  /\ exitStatus = [s \in Slots |-> 0]
  /\ hostThread = [s \in Slots |-> 0]
  /\ objects = [s \in Slots |-> FALSE]
  /\ phase = [h \in Hosts |-> "none"]
  /\ slot = [h \in Hosts |-> 0]
  /\ r3 = [h \in Hosts |-> 0]
  /\ handle = [h \in Hosts |-> FALSE]
  /\ said = [h \in Hosts |-> 0]
  /\ call = [c \in Callers |-> "none"]
  /\ awaits = [c \in Callers |-> 0]
  /\ result = [c \in Callers |-> 0]
  /\ faults = {}

\* A guest thread that can make a call.
Runs(c) == call[c] = "none" /\ (c # Main => phase[c] = "running")

\* The fault of using or destroying what is not there.
Fault(what, there) == faults' = IF there THEN faults ELSE faults \cup {what}

-----------------------------------------------------------------------------
\* sys_ppu_thread_create: the first free descriptor (EAGAIN if there is none);
\* a thread that is not joinable gets neither completion objects nor a handle.
\* If the host cannot start a thread the descriptor is free again, in the
\* same step.  Host ids differ in nothing, and the least new one is taken.
Create(c, j, s, h) ==
  /\ Runs(c)
  /\ state[s] = "free" /\ \A p \in Slots : p < s => state[p] # "free"
  /\ phase[h] = "none" /\ \A g \in Hosts : g < h => phase[g] # "none"
  /\ state' = [state EXCEPT ![s] = IF j THEN "running" ELSE "detached"]
  /\ joinable' = [joinable EXCEPT ![s] = j]
  /\ initialized' = [initialized EXCEPT ![s] = j]
  /\ exitStatus' = [exitStatus EXCEPT ![s] = 0]
  /\ hostThread' = [hostThread EXCEPT ![s] = IF j THEN h ELSE 0]
  /\ objects' = [objects EXCEPT ![s] = j]
  /\ phase' = [phase EXCEPT ![h] = "running"]
  /\ slot' = [slot EXCEPT ![h] = s]
  /\ handle' = [handle EXCEPT ![h] = j]
  /\ UNCHANGED <<r3, said, joinVars, faults>>

\* ppu_thread_state_after_guest_exit
AfterGuestExit(st) == st

\* Every thread that ends is finished.
MutAfterHostExit(st) == "finished"

\* ppu_thread_state_after_host_exit
AfterHostExit(st) == CASE st = "detached" -> "free"
                       [] st = "joining"  -> "joining"
                       [] OTHER           -> "finished"

\* sys_ppu_thread_exit: the guest code goes on until the lifted entry returns.
\* As a syscall it returns CELL_OK in r3 (lv2_try_syscall), as an import of
\* sysPrxForUser it leaves r3 (hle_ppu_thread_exit).
Exit(h, v, syscall) ==
  LET s == slot[h]  signals == state[s] # "detached" /\ initialized[s] IN
  /\ Runs(h)
  /\ exitStatus' = [exitStatus EXCEPT ![s] = v]
  /\ state' = [state EXCEPT ![s] = AfterGuestExit(@)]
  /\ r3' = [r3 EXCEPT ![h] = IF syscall THEN 0 ELSE v]
  /\ said' = [said EXCEPT ![h] = v]
  /\ phase' = [phase EXCEPT ![h] = "unwinding"]
  /\ Fault("exit signals", signals => objects[s])
  /\ UNCHANGED <<joinable, initialized, hostThread, objects, slot, handle, joinVars>>

\* The entry of a thread returns without an exit.
Return(h, v) ==
  /\ Runs(h)
  /\ r3' = [r3 EXCEPT ![h] = v]
  /\ said' = [said EXCEPT ![h] = v]
  /\ phase' = [phase EXCEPT ![h] = "unwinding"]
  /\ UNCHANGED <<slotVars, slot, handle, joinVars, faults>>

\* The completion objects of a thread that was detached while it ran.
Reaps(s) == state[s] = "detached" /\ initialized[s]

\* The end of ppu_host_thread_proc: the last time it touches its descriptor.
Finish(h) ==
  LET s == slot[h] IN
  /\ phase[h] = "unwinding"
  /\ exitStatus' = [exitStatus EXCEPT ![s] = r3[h]]
  /\ state' = [state EXCEPT ![s] = AfterHostExit(@)]
  /\ IF state[s] = "detached"
     THEN /\ objects' = [objects EXCEPT ![s] = @ /\ ~Reaps(s)]
          /\ initialized' = [initialized EXCEPT ![s] = FALSE]
          /\ hostThread' = [hostThread EXCEPT ![s] = 0]
          /\ Fault("finish destroys", Reaps(s) => objects[s])
     ELSE /\ Fault("finish signals", initialized[s] => objects[s])
          /\ UNCHANGED <<objects, initialized, hostThread>>
  /\ phase' = [phase EXCEPT ![h] = "returning"]
  /\ UNCHANGED <<joinable, slot, r3, handle, said, joinVars>>

\* The host thread is gone.
Vanish(h) ==
  /\ phase[h] = "returning"
  /\ phase' = [phase EXCEPT ![h] = "gone"]
  /\ UNCHANGED <<slotVars, slot, r3, handle, said, joinVars, faults>>

\* The host may use an id again when its thread is gone, its handle is closed
\* and nobody waits for it.
Recycle(h) ==
  /\ phase[h] = "gone" /\ ~handle[h] /\ \A c \in Callers : awaits[c] # h
  /\ phase' = [phase EXCEPT ![h] = "none"]
  /\ slot' = [slot EXCEPT ![h] = 0]
  /\ r3' = [r3 EXCEPT ![h] = 0]
  /\ said' = [said EXCEPT ![h] = 0]
  /\ UNCHANGED <<slotVars, handle, joinVars, faults>>

-----------------------------------------------------------------------------
\* Without the reservation of a thread that is joined.
MutMayJoin(s) == state[s] \notin {"free", "detached"}

\* No reason to refuse a join: ESRCH for a free descriptor, EINVAL for a thread
\* that is detached or that somebody joins.
MayJoin(s) == joinable[s] /\ state[s] \notin {"free", "detached", "joining"}

\* sys_ppu_thread_join up to the wait; a thread does not join itself.
Join(c, s) ==
  /\ Runs(c) /\ (c # Main => slot[c] # s)
  /\ MayJoin(s)
  /\ joinable' = [joinable EXCEPT ![s] = FALSE]
  /\ state' = [state EXCEPT ![s] = "joining"]
  /\ call' = [call EXCEPT ![c] = "waits"]
  /\ awaits' = [awaits EXCEPT ![c] = hostThread[s]]
  /\ UNCHANGED <<initialized, exitStatus, hostThread, objects, hostVars, result, faults>>

\* What the wait of a join waits for: WaitForSingleObject, pthread_join.
Ended(h) == phase[h] = "gone"

\* Outside s_table_lock: the status is read, handle and objects are destroyed.
Collect(c) ==
  LET h == awaits[c]  s == slot[h] IN
  /\ call[c] = "waits" /\ Ended(h)
  /\ result' = [result EXCEPT ![c] = exitStatus[s]]
  /\ handle' = [handle EXCEPT ![h] = FALSE]
  /\ objects' = [objects EXCEPT ![s] = FALSE]
  /\ Fault("join destroys", handle[h] /\ objects[s])
  /\ call' = [call EXCEPT ![c] = "collected"]
  /\ UNCHANGED <<state, joinable, initialized, exitStatus, hostThread,
                 phase, slot, r3, said, awaits>>

\* The end of a join.
Joined(c) ==
  LET s == slot[awaits[c]] IN
  /\ call[c] = "collected"
  /\ initialized' = [initialized EXCEPT ![s] = FALSE]
  /\ hostThread' = [hostThread EXCEPT ![s] = 0]
  /\ state' = [state EXCEPT ![s] = "free"]
  /\ call' = [call EXCEPT ![c] = "none"]
  /\ awaits' = [awaits EXCEPT ![c] = 0]
  /\ result' = [result EXCEPT ![c] = 0]
  /\ UNCHANGED <<joinable, exitStatus, objects, hostVars, faults>>

\* sys_ppu_thread_detach, of a thread that runs or has finished.
Detach(c, s) ==
  LET h == hostThread[s]  finished == state[s] = "finished" IN
  /\ Runs(c)
  /\ joinable[s] /\ state[s] \in {"running", "finished"}
  /\ handle' = [handle EXCEPT ![h] = FALSE]
  /\ hostThread' = [hostThread EXCEPT ![s] = 0]
  /\ state' = [state EXCEPT ![s] = IF finished THEN "free" ELSE "detached"]
  /\ joinable' = [joinable EXCEPT ![s] = @ /\ finished]
  /\ initialized' = [initialized EXCEPT ![s] = @ /\ ~finished]
  /\ objects' = [objects EXCEPT ![s] = @ /\ ~finished]
  /\ Fault("detach destroys", handle[h] /\ (finished => objects[s]))
  /\ UNCHANGED <<exitStatus, phase, slot, r3, said, joinVars>>

-----------------------------------------------------------------------------
PtNext ==
  \/ \E c \in Callers :
       \/ Collect(c) \/ Joined(c)
       \/ \E j \in BOOLEAN, s \in Slots, h \in Hosts : Create(c, j, s, h)
       \/ \E s \in Slots : Join(c, s) \/ Detach(c, s)
  \/ \E h \in Hosts :
       \/ Finish(h) \/ Vanish(h) \/ Recycle(h)
       \/ \E v \in Values : Return(h, v) \/ \E sc \in BOOLEAN : Exit(h, v, sc)

PtSpec == PtInit /\ [][PtNext]_ptVars

\* The host runs its threads, and guest code that has exited does return; a
\* guest may run as long as it likes before.
PtFairSpec ==
  /\ PtSpec
  /\ \A h \in Hosts : WF_ptVars(Finish(h) \/ Vanish(h))
  /\ \A c \in Callers : WF_ptVars(Collect(c) \/ Joined(c))

-----------------------------------------------------------------------------
(* Properties *)

OnDescriptor(s) == {h \in Hosts : phase[h] \in {"running", "unwinding"} /\ slot[h] = s}

\* The shape of the state: a descriptor is reserved by the one join that waits
\* for its thread.
PtTypeOK ==
  /\ state \in [Slots -> {"free", "running", "finished", "detached", "joining"}]
  /\ joinable \in [Slots -> BOOLEAN] /\ initialized \in [Slots -> BOOLEAN]
  /\ exitStatus \in [Slots -> Values] /\ hostThread \in [Slots -> Hosts \cup {0}]
  /\ phase \in [Hosts -> {"none", "running", "unwinding", "returning", "gone"}]
  /\ call \in [Callers -> {"none", "waits", "collected"}]
  /\ \A h \in Hosts : slot[h] = 0 <=> phase[h] = "none"
  /\ \A c \in Callers : awaits[c] = 0 <=> call[c] = "none"
  /\ \A s \in Slots :
       Cardinality({c \in Callers : awaits[c] # 0 /\ slot[awaits[c]] = s})
         = (IF state[s] = "joining" THEN 1 ELSE 0)

\* No two host threads run on one descriptor, its registers and its stack, and
\* none runs on a descriptor that is free (sys_ppu_thread.c:143).
OneThreadPerDescriptor == \A s \in Slots :
  Cardinality(OnDescriptor(s)) <= (IF state[s] = "free" THEN 0 ELSE 1)

\* The completion objects and the handle of a thread are never used when they
\* are gone, nor destroyed twice (sys_ppu_thread.c:168).
NoFaults == faults = {}

\* A free descriptor leaves nothing behind: its objects and the handles of its
\* threads are closed.
FreeLeavesNothing == \A s \in Slots : state[s] = "free" =>
  ~objects[s] /\ \A h \in Hosts : slot[h] = s => ~handle[h]

\* A join returns the r3 the joined thread ended with, not that of a thread
\* that had or got the descriptor.
JoinReturnsR3 == \A c \in Callers :
  call[c] = "collected" => result[c] = r3[awaits[c]]

\* A descriptor serves one thread at a time: one host thread is on it, what it
\* closed nobody uses, and its status goes to the join of that thread.
DescriptorsAreSafe == OneThreadPerDescriptor /\ NoFaults /\ JoinReturnsR3

\* A join stores the exit code (docs/SYSCALLS.md:140).
JoinStoresExitCode == \A c \in Callers :
  call[c] = "collected" => result[c] = said[awaits[c]]

\* When the guest of a thread that is detached or joined has returned, the
\* descriptor becomes free (sys_ppu_thread.c:255).
DescriptorsComeBack == \A s \in Slots :
  ~ <>[](/\ state[s] # "free" /\ ~joinable[s]
         /\ \A h \in OnDescriptor(s) : phase[h] = "unwinding")
=============================================================================
