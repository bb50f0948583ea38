-------------------------- MODULE PpuThreadProofs --------------------------
(***************************************************************************)
(* Proofs about PpuThread for any table of descriptors and any host ids:    *)
(* descriptor, completion objects, handle and exit status outlive the host  *)
(* thread that uses them, and no longer.  Three parties may be the last to  *)
(* let go of a descriptor -- the end of the host thread, a join, a detach -- *)
(* and the inductive invariant says for each state of the descriptor whose  *)
(* turn it is: which host thread runs on it, who waits for that thread, and  *)
(* what is still there.                                                    *)
(*                                                                         *)
(* The rest is about Reservation: for any threads, words and spans that are  *)
(* always reserved under one address, the runtime's conditional store is     *)
(* what LinkedStore promises.                                              *)
(***************************************************************************)
EXTENDS PpuThread, Reservation, TLAPS, FiniteSetTheorems, WellFoundedInduction

On(h) == phase[h] \in {"running", "unwinding"}
Backed(s) == state[s] \in {"running", "finished", "joining"}

Types ==
  /\ state \in [Slots -> {"free", "running", "finished", "detached", "joining"}]
  /\ joinable \in [Slots -> BOOLEAN]
  /\ initialized \in [Slots -> BOOLEAN]
  /\ exitStatus \in [Slots -> Values]
  /\ hostThread \in [Slots -> Hosts \cup {0}]
  /\ objects \in [Slots -> BOOLEAN]
  /\ phase \in [Hosts -> {"none", "running", "unwinding", "returning", "gone"}]
  /\ slot \in [Hosts -> Slots \cup {0}]
  /\ r3 \in [Hosts -> Values]
  /\ handle \in [Hosts -> BOOLEAN]
  /\ call \in [Callers -> {"none", "waits", "collected"}]
  /\ awaits \in [Callers -> Hosts \cup {0}]
  /\ result \in [Callers -> Values]
  /\ \A h \in Hosts : slot[h] = 0 <=> phase[h] = "none"
  /\ \A c \in Callers : awaits[c] = 0 <=> call[c] = "none"

(* What a descriptor says of itself. *)
SlotsFit == \A s \in Slots :
  /\ Backed(s) <=> hostThread[s] # 0
  /\ Backed(s) => slot[hostThread[s]] = s /\ initialized[s]
  /\ state[s] = "free" => ~objects[s] /\ ~initialized[s]
  /\ state[s] \in {"running", "finished"} => objects[s]
  /\ state[s] = "detached" => initialized[s] = objects[s]
  /\ state[s] = "running" => On(hostThread[s])
  /\ state[s] = "finished" => ~On(hostThread[s])

(* One thread runs on a descriptor that is in use. *)
ThreadsFit ==
  /\ \A h \in Hosts : On(h) =>
       /\ state[slot[h]] \in {"running", "detached", "joining"}
       /\ Backed(slot[h]) => hostThread[slot[h]] = h
  /\ \A g, h \in Hosts : On(g) /\ On(h) /\ slot[g] = slot[h] => g = h

(* A handle is open while a thread can be joined, and until it was. *)
HandlesFit ==
  /\ \A h \in Hosts : handle[h] => slot[h] # 0 /\ hostThread[slot[h]] = h
  /\ \A s \in Slots : state[s] \in {"running", "finished"} => handle[hostThread[s]]

(* A caller in a join has reserved the descriptor it will free. *)
CallersFit == \A c \in Callers : awaits[c] # 0 =>
  /\ slot[awaits[c]] # 0 /\ state[slot[awaits[c]]] = "joining"
  /\ hostThread[slot[awaits[c]]] = awaits[c]
  /\ call[c] = "waits" => handle[awaits[c]] /\ objects[slot[awaits[c]]]
  /\ call[c] = "collected" =>
       /\ ~handle[awaits[c]] /\ ~objects[slot[awaits[c]]]
       /\ phase[awaits[c]] = "gone" /\ result[c] = r3[awaits[c]]

(* Nobody else has, and a reserved descriptor has a caller. *)
OneCaller == \A c, d \in Callers : awaits[c] # 0 /\ awaits[c] = awaits[d] => c = d
JoiningHasCaller == \A s \in Slots : state[s] = "joining" =>
  \E c \in Callers : awaits[c] = hostThread[s]

JoinsFit == CallersFit /\ OneCaller /\ JoiningHasCaller

(* The exit status stays as the thread that ended left it. *)
StatusFits == \A s \in Slots :
  Backed(s) /\ ~On(hostThread[s]) => exitStatus[s] = r3[hostThread[s]]

(* The inductive invariant. *)
IInv == Types /\ SlotsFit /\ ThreadsFit /\ HandlesFit /\ JoinsFit /\ StatusFits /\ NoFaults

USE PtIdsAssumption, PtValuesAssumption DEF Main, Callers

(* At first every descriptor is free and no thread runs. *)
LEMMA InitInv == PtInit => IInv
<1> SUFFICES ASSUME PtInit PROVE IInv
  OBVIOUS
<1> USE DEF PtInit
<1>1. Types
  BY DEF Types
<1>2. SlotsFit /\ ThreadsFit /\ HandlesFit /\ JoinsFit /\ StatusFits /\ NoFaults
  BY DEF SlotsFit, ThreadsFit, HandlesFit, JoinsFit, CallersFit, OneCaller, JoiningHasCaller,
         StatusFits, NoFaults, Backed, On
<1> QED
  BY <1>1, <1>2 DEF IInv

(* A thread starts on a descriptor that nobody is on. *)
LEMMA CreateInv ==
  ASSUME IInv, NEW c \in Callers, NEW j \in BOOLEAN, NEW s \in Slots, NEW h \in Hosts,
         Create(c, j, s, h)
  PROVE  IInv'
<1> USE DEF IInv, Create, Runs, Fault, NoFaults, slotVars, hostVars, joinVars, On, Backed
<1>1. Types'
  BY DEF Types
<1>2. SlotsFit'
  BY DEF Types, SlotsFit
<1>3. ThreadsFit'
  BY DEF Types, SlotsFit, ThreadsFit
<1>4. HandlesFit'
  BY DEF Types, SlotsFit, HandlesFit
<1>5. JoinsFit'
  <2>1. CallersFit'
    BY DEF Types, SlotsFit, JoinsFit, CallersFit
  <2>2. OneCaller'
    BY DEF Types, JoinsFit, OneCaller
  <2>3. JoiningHasCaller'
    BY DEF Types, SlotsFit, JoinsFit, JoiningHasCaller
  <2> QED
    BY <2>1, <2>2, <2>3 DEF JoinsFit
<1>6. StatusFits'
  BY DEF Types, SlotsFit, StatusFits
<1>7. NoFaults'
  BY DEF Types, SlotsFit
<1> QED
  BY <1>1, <1>2, <1>3, <1>4, <1>5, <1>6, <1>7

(* While a thread runs, its descriptor knows it, and what it signals is there. *)
LEMMA OnFacts ==
  ASSUME IInv, NEW h \in Hosts, On(h)
  PROVE  /\ h # 0 /\ slot[h] \in Slots
         /\ state[slot[h]] \in {"running", "detached", "joining"}
         /\ state[slot[h]] = "detached" => initialized[slot[h]] = objects[slot[h]]
         /\ state[slot[h]] # "detached" => hostThread[slot[h]] = h /\ objects[slot[h]]
<1>1. h # 0 /\ slot[h] # 0 /\ slot[h] \in Slots
  BY DEF IInv, Types, On
<1>2. /\ state[slot[h]] \in {"running", "detached", "joining"}
      /\ state[slot[h]] # "detached" => hostThread[slot[h]] = h
  BY <1>1 DEF IInv, ThreadsFit, Backed
<1>3. ASSUME state[slot[h]] = "joining"  PROVE objects[slot[h]]
  <2>1. PICK c \in Callers : awaits[c] = h
    BY <1>1, <1>2, <1>3 DEF IInv, JoinsFit, JoiningHasCaller
  <2>2. call[c] = "waits"
    <3>1. call[c] # "none"
      BY <1>1, <2>1 DEF IInv, Types
    <3>2. call[c] # "collected"
      BY <1>1, <2>1 DEF IInv, JoinsFit, CallersFit, OneCaller, JoiningHasCaller, On
    <3> QED
      BY <3>1, <3>2 DEF IInv, Types
  <2> QED
    BY <1>1, <2>1, <2>2 DEF IInv, JoinsFit, CallersFit, OneCaller, JoiningHasCaller
<1> QED
  BY <1>1, <1>2, <1>3 DEF IInv, SlotsFit

(* The guest of h ends: its thread is the one its descriptor knows of. *)
LEMMA EndsInv ==
  ASSUME IInv, NEW h \in Hosts, NEW v \in Values, phase[h] = "running",
         phase' = [phase EXCEPT ![h] = "unwinding"], r3' = [r3 EXCEPT ![h] = v],
         \/ exitStatus' = exitStatus
         \/ \E w \in Values : exitStatus' = [exitStatus EXCEPT ![slot[h]] = w],
         UNCHANGED <<state, joinable, initialized, hostThread, objects, slot, handle,
                     joinVars, faults>>
  PROVE  IInv'
<1> USE DEF IInv, joinVars, On, Backed
<1>1. Types'
  BY DEF Types
<1>2. SlotsFit'
  BY DEF Types, SlotsFit
<1>3. ThreadsFit'
  BY DEF Types, SlotsFit, ThreadsFit
<1>4. HandlesFit'
  BY DEF Types, SlotsFit, HandlesFit
<1>5. JoinsFit'
  <2>1. CallersFit'
    BY DEF Types, SlotsFit, JoinsFit, CallersFit
  <2>2. OneCaller'
    BY DEF Types, JoinsFit, OneCaller
  <2>3. JoiningHasCaller'
    BY DEF Types, SlotsFit, JoinsFit, JoiningHasCaller
  <2> QED
    BY <2>1, <2>2, <2>3 DEF JoinsFit
<1>6. StatusFits'
  BY DEF Types, SlotsFit, ThreadsFit, StatusFits
<1> QED
  BY <1>1, <1>2, <1>3, <1>4, <1>5, <1>6 DEF NoFaults

(* A thread returns from its entry point. *)
LEMMA ReturnInv ==
  ASSUME IInv, NEW h \in Hosts, NEW v \in Values, Return(h, v)
  PROVE  IInv'
  BY EndsInv DEF Return, Runs, IInv, slotVars

(* A thread ends by sys_ppu_thread_exit. *)
LEMMA ExitInv ==
  ASSUME IInv, NEW h \in Hosts, NEW v \in Values, NEW sc \in BOOLEAN, Exit(h, v, sc)
  PROVE  IInv'
<1>1. phase[h] = "running" /\ slot[h] \in Slots
  BY DEF Exit, Runs, IInv, Types
<1>2. state' = state
  BY <1>1 DEF Exit, AfterGuestExit, IInv, Types
<1>3. (state[slot[h]] # "detached" /\ initialized[slot[h]]) => objects[slot[h]]
  BY <1>1, OnFacts DEF On
<1>4. faults' = faults
  BY <1>3 DEF Exit, Fault
<1>5. \E w \in Values : r3' = [r3 EXCEPT ![h] = w]
  BY DEF Exit
<1> QED
  BY <1>1, <1>2, <1>4, <1>5, EndsInv DEF Exit

(* The host thread lets go: a detached descriptor is free ... *)
LEMMA FinishDetachedInv ==
  ASSUME IInv, NEW h \in Hosts, Finish(h), state[slot[h]] = "detached"
  PROVE  IInv'
<1> DEFINE s == slot[h]
<1>a. s \in Slots /\ phase[h] = "unwinding" /\ initialized[s] = objects[s]
  BY OnFacts DEF Finish, On
<1>1. /\ state' = [state EXCEPT ![s] = "free"]
      /\ objects' = [objects EXCEPT ![s] = FALSE]
      /\ initialized' = [initialized EXCEPT ![s] = FALSE]
      /\ hostThread' = [hostThread EXCEPT ![s] = 0]
      /\ exitStatus' = [exitStatus EXCEPT ![s] = r3[h]]
      /\ phase' = [phase EXCEPT ![h] = "returning"]
      /\ faults' = faults
      /\ UNCHANGED <<joinable, slot, r3, handle, call, awaits, result>>
  BY <1>a DEF Finish, AfterHostExit, Reaps, Fault, joinVars, IInv, Types
<1>b. hostThread' = hostThread /\ hostThread[s] = 0
  <2>1. hostThread[s] = 0
    BY <1>a DEF IInv, SlotsFit, Backed
  <2> QED
    BY <1>1, <2>1 DEF IInv, Types
<1> USE DEF IInv, On, Backed
<1>2. Types'
  BY <1>a, <1>b, <1>1 DEF Types
<1>3. SlotsFit'
  BY <1>a, <1>b, <1>1 DEF Types, SlotsFit
<1>4. ThreadsFit'
  BY <1>a, <1>b, <1>1 DEF Types, SlotsFit, ThreadsFit
<1>5. HandlesFit'
  BY <1>a, <1>b, <1>1 DEF Types, SlotsFit, HandlesFit
<1>6. JoinsFit'
  <2>1. CallersFit'
    BY <1>a, <1>b, <1>1 DEF Types, SlotsFit, JoinsFit, CallersFit
  <2>2. OneCaller'
    BY <1>a, <1>b, <1>1 DEF Types, JoinsFit, OneCaller
  <2>3. JoiningHasCaller'
    BY <1>a, <1>b, <1>1 DEF Types, SlotsFit, JoinsFit, JoiningHasCaller
  <2> QED
    BY <2>1, <2>2, <2>3 DEF JoinsFit
<1>7. StatusFits'
  BY <1>a, <1>b, <1>1 DEF Types, SlotsFit, StatusFits
<1> QED
  BY <1>a, <1>1, <1>2, <1>3, <1>4, <1>5, <1>6, <1>7 DEF NoFaults

(* ... and another waits for its join or detach. *)
LEMMA FinishOtherInv ==
  ASSUME IInv, NEW h \in Hosts, Finish(h), state[slot[h]] # "detached"
  PROVE  IInv'
<1> DEFINE s == slot[h]
<1>a. /\ s \in Slots /\ phase[h] = "unwinding" /\ objects[s]
      /\ state[s] \in {"running", "joining"} /\ hostThread[s] = h
  BY OnFacts DEF Finish, On
<1>1. /\ state' = [state EXCEPT ![s] = IF state[s] = "joining" THEN "joining" ELSE "finished"]
      /\ exitStatus' = [exitStatus EXCEPT ![s] = r3[h]]
      /\ phase' = [phase EXCEPT ![h] = "returning"]
      /\ faults' = faults
      /\ UNCHANGED <<joinable, initialized, hostThread, objects, slot, r3, handle,
                     call, awaits, result>>
  BY <1>a DEF Finish, AfterHostExit, Fault, joinVars, IInv, Types
<1> USE DEF IInv, On, Backed
<1>2. Types'
  BY <1>a, <1>1 DEF Types
<1>3. SlotsFit'
  BY <1>a, <1>1 DEF Types, SlotsFit
<1>4. ThreadsFit'
  BY <1>a, <1>1 DEF Types, SlotsFit, ThreadsFit
<1>5. HandlesFit'
  BY <1>a, <1>1 DEF Types, SlotsFit, HandlesFit
<1>6. JoinsFit'
  <2>1. CallersFit'
    BY <1>a, <1>1 DEF Types, SlotsFit, JoinsFit, CallersFit
  <2>2. OneCaller'
    BY <1>a, <1>1 DEF Types, JoinsFit, OneCaller
  <2>3. JoiningHasCaller'
    BY <1>a, <1>1 DEF Types, SlotsFit, JoinsFit, JoiningHasCaller
  <2> QED
    BY <2>1, <2>2, <2>3 DEF JoinsFit
<1>7. StatusFits'
  BY <1>a, <1>1 DEF Types, SlotsFit, StatusFits
<1> QED
  BY <1>a, <1>1, <1>2, <1>3, <1>4, <1>5, <1>6, <1>7 DEF NoFaults

(* A host thread is gone, its handle and its descriptor stay. *)
LEMMA VanishInv ==
  ASSUME IInv, NEW h \in Hosts, Vanish(h)
  PROVE  IInv'
<1> USE DEF IInv, Vanish, slotVars, joinVars, On, Backed
<1>1. Types'
  BY DEF Types
<1>2. SlotsFit'
  BY DEF Types, SlotsFit
<1>3. ThreadsFit'
  BY DEF Types, SlotsFit, ThreadsFit
<1>4. HandlesFit'
  BY DEF Types, SlotsFit, HandlesFit
<1>5. JoinsFit'
  <2>1. CallersFit'
    BY DEF Types, SlotsFit, JoinsFit, CallersFit
  <2>2. OneCaller'
    BY DEF Types, JoinsFit, OneCaller
  <2>3. JoiningHasCaller'
    BY DEF Types, SlotsFit, JoinsFit, JoiningHasCaller
  <2> QED
    BY <2>1, <2>2, <2>3 DEF JoinsFit
<1>6. StatusFits'
  BY DEF Types, SlotsFit, StatusFits
<1> QED
  BY <1>1, <1>2, <1>3, <1>4, <1>5, <1>6 DEF NoFaults

(* An id is used again only when no descriptor and no join knows of it. *)
LEMMA RecycleInv ==
  ASSUME IInv, NEW h \in Hosts, Recycle(h)
  PROVE  IInv'
<1>a. \A s \in Slots : hostThread[s] # h
  <2> SUFFICES ASSUME NEW s \in Slots, hostThread[s] = h PROVE FALSE
    OBVIOUS
  <2>1. h # 0 /\ Backed(s) /\ ~handle[h] /\ \A c \in Callers : awaits[c] # h
    BY DEF Recycle, IInv, SlotsFit
  <2> QED
    BY <2>1 DEF IInv, HandlesFit, JoinsFit, CallersFit, OneCaller, JoiningHasCaller, Backed
<1>b. /\ ~handle[h] /\ \A c \in Callers : awaits[c] # h
       /\ phase' = [phase EXCEPT ![h] = "none"]
       /\ slot' = [slot EXCEPT ![h] = 0]
       /\ r3' = [r3 EXCEPT ![h] = 0]
       /\ UNCHANGED <<slotVars, handle, joinVars, faults>>
  BY DEF Recycle
<1>c. \A s \in Slots : hostThread[s] # 0 => slot'[hostThread[s]] = slot[hostThread[s]]
                                /\ phase'[hostThread[s]] = phase[hostThread[s]]
                                /\ r3'[hostThread[s]] = r3[hostThread[s]]
  <2>1. \A s \in Slots : hostThread[s] # 0 => hostThread[s] \in Hosts \ {h}
    BY <1>a DEF IInv, Types
  <2> QED
    BY <1>b, <2>1 DEF IInv, Types
<1>d. \A c \in Callers : awaits[c] # 0 => slot'[awaits[c]] = slot[awaits[c]]
                                /\ phase'[awaits[c]] = phase[awaits[c]]
                                /\ r3'[awaits[c]] = r3[awaits[c]]
  <2>1. ASSUME NEW c \in Callers, awaits[c] # 0 PROVE awaits[c] \in Hosts \ {h}
    <3>1. awaits[c] \in Hosts \cup {0}
      BY Zenon DEF IInv, Types
    <3> QED BY <1>b, <2>1, <3>1
  <2>2. DOMAIN slot = Hosts /\ DOMAIN phase = Hosts /\ DOMAIN r3 = Hosts
    BY DEF IInv, Types
  <2>3. \A g \in Hosts \ {h} : slot'[g] = slot[g] /\ phase'[g] = phase[g] /\ r3'[g] = r3[g]
    BY <1>b, <2>2
  <2> QED
    BY <2>1, <2>3
<1> USE DEF IInv, slotVars, joinVars, On, Backed
<1>1. Types'
  BY <1>a, <1>b DEF Types
<1>2. SlotsFit'
  BY <1>a, <1>b, <1>c, <1>d DEF Types, SlotsFit
<1>3. ThreadsFit'
  BY <1>a, <1>b, <1>c, <1>d DEF Types, SlotsFit, ThreadsFit
<1>4. HandlesFit'
  BY <1>a, <1>b, <1>c, <1>d DEF Types, SlotsFit, HandlesFit
<1>5. JoinsFit'
  <2>1. CallersFit'
    BY <1>a, <1>b, <1>c, <1>d DEF Types, SlotsFit, JoinsFit, CallersFit
  <2>2. OneCaller'
    BY <1>a, <1>b, <1>c, <1>d DEF Types, JoinsFit, OneCaller
  <2>3. JoiningHasCaller'
    BY <1>a, <1>b, <1>c, <1>d DEF Types, SlotsFit, JoinsFit, JoiningHasCaller
  <2> QED
    BY <2>1, <2>2, <2>3 DEF JoinsFit
<1>6. StatusFits'
  BY <1>a, <1>b, <1>c, <1>d DEF Types, SlotsFit, StatusFits
<1> QED
  BY <1>a, <1>b, <1>1, <1>2, <1>3, <1>4, <1>5, <1>6 DEF NoFaults

(* A join reserves the descriptor. *)
LEMMA JoinInv ==
  ASSUME IInv, NEW c \in Callers, NEW s \in Slots, Join(c, s)
  PROVE  IInv'
<1>a. /\ state[s] \in {"running", "finished"} /\ call[c] = "none"
      /\ hostThread[s] \in Hosts /\ hostThread[s] # 0 /\ slot[hostThread[s]] = s
      /\ handle[hostThread[s]] /\ objects[s] /\ initialized[s]
      /\ \A d \in Callers : awaits[d] # hostThread[s]
  BY DEF Join, Runs, MayJoin, IInv, Types, SlotsFit, HandlesFit, JoinsFit, CallersFit, Backed
<1>b. /\ joinable' = [joinable EXCEPT ![s] = FALSE]
       /\ state' = [state EXCEPT ![s] = "joining"]
       /\ call' = [call EXCEPT ![c] = "waits"]
       /\ awaits' = [awaits EXCEPT ![c] = hostThread[s]]
       /\ UNCHANGED <<initialized, exitStatus, hostThread, objects, hostVars, result, faults>>
  BY DEF Join
<1> USE DEF IInv, hostVars, On, Backed
<1>1. Types'
  BY <1>a, <1>b DEF Types
<1>2. SlotsFit'
  BY <1>a, <1>b DEF Types, SlotsFit
<1>3. ThreadsFit'
  BY <1>a, <1>b DEF Types, SlotsFit, ThreadsFit
<1>4. HandlesFit'
  BY <1>a, <1>b DEF Types, SlotsFit, HandlesFit
<1>5. JoinsFit'
  <2>1. CallersFit'
    BY <1>a, <1>b DEF Types, SlotsFit, JoinsFit, CallersFit
  <2>2. OneCaller'
    BY <1>a, <1>b DEF Types, JoinsFit, OneCaller
  <2>3. JoiningHasCaller'
    BY <1>a, <1>b DEF Types, SlotsFit, JoinsFit, JoiningHasCaller
  <2> QED
    BY <2>1, <2>2, <2>3 DEF JoinsFit
<1>6. StatusFits'
  BY <1>a, <1>b DEF Types, SlotsFit, StatusFits
<1> QED
  BY <1>a, <1>b, <1>1, <1>2, <1>3, <1>4, <1>5, <1>6 DEF NoFaults

(* The thread that is joined is gone, and nobody else closes what it left. *)
LEMMA CollectInv ==
  ASSUME IInv, NEW c \in Callers, Collect(c)
  PROVE  IInv'
<1> DEFINE h == awaits[c]
           s == slot[h]
<1>a. /\ call[c] = "waits" /\ h \in Hosts /\ h # 0 /\ s \in Slots /\ phase[h] = "gone"
      /\ state[s] = "joining" /\ hostThread[s] = h /\ handle[h] /\ objects[s]
      /\ exitStatus[s] = r3[h]
  <2>1. call[c] = "waits" /\ h \in Hosts /\ h # 0 /\ s \in Slots \cup {0}
    <3>1. call[c] = "waits" /\ awaits[c] \in Hosts \cup {0} /\ (awaits[c] = 0 <=> call[c] = "none")
      BY Zenon DEF Collect, IInv, Types
    <3>2. slot \in [Hosts -> Slots \cup {0}]
      BY DEF IInv, Types
    <3> QED BY <3>1, <3>2
  <2>2. phase[h] = "gone"
    BY DEF Collect, Ended
  <2>3. s # 0 /\ state[s] = "joining" /\ hostThread[s] = h /\ handle[h] /\ objects[s]
    BY <2>1 DEF IInv, JoinsFit, CallersFit
  <2>4. exitStatus[s] = r3[h]
    BY <2>1, <2>2, <2>3 DEF IInv, StatusFits, Backed, On
  <2> QED
    BY <2>1, <2>2, <2>3, <2>4
<1>b. /\ result' = [result EXCEPT ![c] = r3[h]]
       /\ handle' = [handle EXCEPT ![h] = FALSE]
       /\ objects' = [objects EXCEPT ![s] = FALSE]
       /\ call' = [call EXCEPT ![c] = "collected"]
       /\ faults' = faults
       /\ UNCHANGED <<state, joinable, initialized, exitStatus, hostThread,
                      phase, slot, r3, awaits>>
  BY <1>a DEF Collect, Fault
<1> USE DEF IInv, On, Backed
<1>1. Types'
  BY <1>a, <1>b DEF Types
<1>2. SlotsFit'
  <2>1. \A p \in Slots : p # s => objects'[p] = objects[p]
    BY <1>a, <1>b DEF Types
  <2>2. hostThread' = hostThread /\ slot' = slot /\ state' = state
        /\ initialized' = initialized /\ phase' = phase
    BY <1>b
  <2>3. ASSUME NEW p \in Slots  PROVE SlotsFit!(p)'
    <3>1. CASE p = s
      BY <3>1, <1>a, <2>2 DEF SlotsFit
    <3>2. CASE p # s
      BY <3>2, <2>1, <2>2 DEF SlotsFit
    <3> QED
      BY <3>1, <3>2
  <2> QED
    BY <2>3 DEF SlotsFit
<1>3. ThreadsFit'
  BY <1>a, <1>b DEF Types, SlotsFit, ThreadsFit
<1>4. HandlesFit'
  BY <1>a, <1>b DEF Types, SlotsFit, HandlesFit
<1>5. JoinsFit'
  <2>1. CallersFit'
    BY <1>a, <1>b DEF Types, SlotsFit, JoinsFit, CallersFit, OneCaller
  <2>2. OneCaller'
    BY <1>a, <1>b DEF Types, JoinsFit, OneCaller
  <2>3. JoiningHasCaller'
    BY <1>a, <1>b DEF Types, SlotsFit, JoinsFit, JoiningHasCaller
  <2> QED
    BY <2>1, <2>2, <2>3 DEF JoinsFit
<1>6. StatusFits'
  BY <1>a, <1>b DEF Types, SlotsFit, StatusFits
<1> QED
  BY <1>a, <1>b, <1>1, <1>2, <1>3, <1>4, <1>5, <1>6 DEF NoFaults

(* A join frees the descriptor it has reserved. *)
LEMMA JoinedInv ==
  ASSUME IInv, NEW c \in Callers, Joined(c)
  PROVE  IInv'
<1> USE DEF IInv, Joined, Runs, Fault, NoFaults, slotVars, hostVars, joinVars, On, Backed
<1>1. Types'
  BY DEF Types
<1>2. SlotsFit'
  BY DEF Types, SlotsFit, JoinsFit, CallersFit
<1>3. ThreadsFit'
  BY DEF Types, SlotsFit, ThreadsFit, JoinsFit, CallersFit
<1>4. HandlesFit'
  BY DEF Types, SlotsFit, HandlesFit, JoinsFit, CallersFit
<1>5. JoinsFit'
  <2>1. CallersFit'
    BY DEF Types, SlotsFit, JoinsFit, CallersFit, OneCaller
  <2>2. OneCaller'
    BY DEF Types, JoinsFit, OneCaller
  <2>3. JoiningHasCaller'
    BY DEF Types, SlotsFit, JoinsFit, JoiningHasCaller
  <2> QED
    BY <2>1, <2>2, <2>3 DEF JoinsFit
<1>6. StatusFits'
  BY DEF Types, SlotsFit, StatusFits
<1>7. NoFaults'
  BY DEF Types, SlotsFit
<1> QED
  BY <1>1, <1>2, <1>3, <1>4, <1>5, <1>6, <1>7

(* What a detach finds: a thread nobody waits for. *)
LEMMA DetachFacts ==
  ASSUME IInv, NEW c \in Callers, NEW s \in Slots, Detach(c, s)
  PROVE  /\ state[s] \in {"running", "finished"} /\ joinable[s]
         /\ hostThread[s] \in Hosts /\ hostThread[s] # 0 /\ slot[hostThread[s]] = s
         /\ handle[hostThread[s]] /\ objects[s] /\ initialized[s]
         /\ state[s] = "running" <=> On(hostThread[s])
         /\ \A d \in Callers : awaits[d] # hostThread[s]
<1>1. state[s] \in {"running", "finished"} /\ joinable[s]
  BY DEF Detach
<1>2. /\ hostThread[s] \in Hosts /\ hostThread[s] # 0 /\ slot[hostThread[s]] = s
      /\ objects[s] /\ initialized[s] /\ handle[hostThread[s]]
      /\ state[s] = "running" <=> On(hostThread[s])
  BY <1>1 DEF IInv, Types, SlotsFit, HandlesFit, Backed
<1>3. \A d \in Callers : awaits[d] # hostThread[s]
  BY <1>1, <1>2 DEF IInv, JoinsFit, CallersFit
<1> QED
  BY <1>1, <1>2, <1>3

(* A flag that is set keeps its value when the rest holds. *)
LEMMA KeptFlag ==
  ASSUME NEW f \in [Slots -> BOOLEAN], NEW s \in Slots, NEW b \in BOOLEAN, f[s], b
  PROVE  [f EXCEPT ![s] = @ /\ b] = f
<1>1. f[s] = TRUE /\ (f[s] /\ b) = TRUE
  BY Zenon
<1>2. [f EXCEPT ![s] = @ /\ b] = [f EXCEPT ![s] = TRUE]
  BY <1>1, Zenon
<1> QED
  BY <1>1, <1>2

(* A detach reaps a thread that has finished ... *)
LEMMA DetachFinishedInv ==
  ASSUME IInv, NEW c \in Callers, NEW s \in Slots, Detach(c, s), state[s] = "finished"
  PROVE  IInv'
<1> DEFINE h == hostThread[s]
<1>a. /\ h \in Hosts /\ h # 0 /\ slot[h] = s /\ ~On(h) /\ handle[h] /\ objects[s]
      /\ \A d \in Callers : awaits[d] # h
  BY DetachFacts
<1>b. /\ state' = [state EXCEPT ![s] = "free"]
      /\ handle' = [handle EXCEPT ![h] = FALSE]
      /\ hostThread' = [hostThread EXCEPT ![s] = 0]
      /\ initialized' = [initialized EXCEPT ![s] = FALSE]
      /\ objects' = [objects EXCEPT ![s] = FALSE]
      /\ joinable' = joinable
      /\ faults' = faults
      /\ UNCHANGED <<exitStatus, phase, slot, r3, call, awaits, result>>
  <2>1. joinable[s] /\ joinable' = [joinable EXCEPT ![s] = @ /\ state[s] = "finished"]
    BY DEF Detach
  <2>2. joinable' = joinable
    BY <2>1, KeptFlag DEF IInv, Types
  <2>3. initialized' = [initialized EXCEPT ![s] = FALSE]
    BY DEF Detach
  <2>4. objects' = [objects EXCEPT ![s] = FALSE]
    BY DEF Detach
  <2>5. faults' = faults
    BY <1>a DEF Detach, Fault
  <2> QED
    BY <2>2, <2>3, <2>4, <2>5 DEF Detach, joinVars
<1> USE DEF IInv, On, Backed
<1>1. Types'
  BY <1>a, <1>b DEF Types
<1>2. SlotsFit'
  BY <1>a, <1>b DEF Types, SlotsFit
<1>3. ThreadsFit'
  BY <1>a, <1>b DEF Types, SlotsFit, ThreadsFit
<1>4. HandlesFit'
  BY <1>a, <1>b DEF Types, SlotsFit, HandlesFit
<1>5. JoinsFit'
  <2>1. CallersFit'
    BY <1>a, <1>b DEF Types, SlotsFit, JoinsFit, CallersFit
  <2>2. OneCaller'
    BY <1>a, <1>b DEF Types, JoinsFit, OneCaller
  <2>3. JoiningHasCaller'
    BY <1>a, <1>b DEF Types, SlotsFit, JoinsFit, JoiningHasCaller
  <2> QED
    BY <2>1, <2>2, <2>3 DEF JoinsFit
<1>6. StatusFits'
  BY <1>a, <1>b DEF Types, SlotsFit, StatusFits
<1> QED
  BY <1>a, <1>b, <1>1, <1>2, <1>3, <1>4, <1>5, <1>6 DEF NoFaults

(* ... and leaves the descriptor to a thread that runs. *)
LEMMA DetachRunningInv ==
  ASSUME IInv, NEW c \in Callers, NEW s \in Slots, Detach(c, s), state[s] = "running"
  PROVE  IInv'
<1> DEFINE h == hostThread[s]
<1>a. /\ h \in Hosts /\ h # 0 /\ slot[h] = s /\ On(h) /\ handle[h] /\ objects[s]
      /\ initialized[s] /\ \A d \in Callers : awaits[d] # h
  BY DetachFacts
<1>b. /\ state' = [state EXCEPT ![s] = "detached"]
      /\ handle' = [handle EXCEPT ![h] = FALSE]
      /\ hostThread' = [hostThread EXCEPT ![s] = 0]
      /\ joinable' = [joinable EXCEPT ![s] = FALSE]
      /\ initialized' = initialized /\ objects' = objects
      /\ faults' = faults
      /\ UNCHANGED <<exitStatus, phase, slot, r3, call, awaits, result>>
  <2>1. joinable' = [joinable EXCEPT ![s] = FALSE]
    BY DEF Detach
  <2>2. initialized' = [initialized EXCEPT ![s] = @ /\ state[s] # "finished"]
    BY DEF Detach
  <2>3. initialized' = initialized
    BY <1>a, <2>2, KeptFlag DEF IInv, Types
  <2>4. objects' = [objects EXCEPT ![s] = @ /\ state[s] # "finished"]
    BY DEF Detach
  <2>5. objects' = objects
    BY <1>a, <2>4, KeptFlag DEF IInv, Types
  <2>6. faults' = faults
    BY <1>a DEF Detach, Fault
  <2> QED
    BY <2>1, <2>3, <2>5, <2>6 DEF Detach, joinVars
<1> USE DEF IInv, On, Backed
<1>1. Types'
  BY <1>a, <1>b DEF Types
<1>2. SlotsFit'
  BY <1>a, <1>b DEF Types, SlotsFit
<1>3. ThreadsFit'
  BY <1>a, <1>b DEF Types, SlotsFit, ThreadsFit
<1>4. HandlesFit'
  BY <1>a, <1>b DEF Types, SlotsFit, HandlesFit
<1>5. JoinsFit'
  <2>1. CallersFit'
    BY <1>a, <1>b DEF Types, SlotsFit, JoinsFit, CallersFit
  <2>2. OneCaller'
    BY <1>a, <1>b DEF Types, JoinsFit, OneCaller
  <2>3. JoiningHasCaller'
    BY <1>a, <1>b DEF Types, SlotsFit, JoinsFit, JoiningHasCaller
  <2> QED
    BY <2>1, <2>2, <2>3 DEF JoinsFit
<1>6. StatusFits'
  BY <1>a, <1>b DEF Types, SlotsFit, StatusFits
<1> QED
  BY <1>a, <1>b, <1>1, <1>2, <1>3, <1>4, <1>5, <1>6 DEF NoFaults

(* Each step keeps the invariant. *)
LEMMA NextInv == IInv /\ [PtNext]_ptVars => IInv'
<1> SUFFICES ASSUME IInv, [PtNext]_ptVars PROVE IInv'
  OBVIOUS
<1>1. CASE UNCHANGED ptVars
  BY <1>1 DEF IInv, Types, SlotsFit, ThreadsFit, HandlesFit, JoinsFit, CallersFit, OneCaller,
              JoiningHasCaller, StatusFits, NoFaults, On, Backed,
              ptVars, slotVars, hostVars, joinVars
<1>2. ASSUME NEW c \in Callers, Collect(c) \/ Joined(c)  PROVE IInv'
  BY <1>2, CollectInv, JoinedInv
<1>3. ASSUME NEW c \in Callers, NEW j \in BOOLEAN, NEW s \in Slots, NEW h \in Hosts,
             Create(c, j, s, h)
      PROVE  IInv'
  BY <1>3, CreateInv
<1>4. ASSUME NEW c \in Callers, NEW s \in Slots, Join(c, s)  PROVE IInv'
  BY <1>4, JoinInv
<1>5. ASSUME NEW c \in Callers, NEW s \in Slots, Detach(c, s)  PROVE IInv'
  <2>1. state[s] \in {"running", "finished"}
    BY <1>5 DEF Detach
  <2> QED
    BY <1>5, <2>1, DetachFinishedInv, DetachRunningInv
<1>6. ASSUME NEW h \in Hosts, Finish(h)  PROVE IInv'
  BY <1>6, FinishDetachedInv, FinishOtherInv
<1>7. ASSUME NEW h \in Hosts, Vanish(h) \/ Recycle(h)  PROVE IInv'
  BY <1>7, VanishInv, RecycleInv
<1>8. ASSUME NEW h \in Hosts, NEW v \in Values, Return(h, v)  PROVE IInv'
  BY <1>8, ReturnInv
<1>9. ASSUME NEW h \in Hosts, NEW v \in Values, NEW sc \in BOOLEAN, Exit(h, v, sc)
      PROVE  IInv'
  BY <1>9, ExitInv
<1> QED
  BY <1>1, <1>2, <1>3, <1>4, <1>5, <1>6, <1>7, <1>8, <1>9 DEF PtNext

(* The invariant holds throughout. *)
LEMMA AlwaysInv == PtSpec => []IInv
  BY InitInv, NextInv, PTL DEF PtSpec

-----------------------------------------------------------------------------
(* A join, a detach and the end of a host thread race for the completion     *)
(* objects and the handle of the thread, and none uses what another closed   *)
(* (sys_ppu_thread.c:168).                                                   *)
THEOREM NothingUsedWhenGone == PtSpec => []NoFaults
<1>1. IInv => NoFaults
  BY DEF IInv
<1> QED
  BY <1>1, AlwaysInv, PTL

(* A table of any size never gives out a descriptor, whose registers and     *)
(* stack a host thread is still on (sys_ppu_thread.c:143).                   *)
THEOREM DescriptorsAreExclusive == PtSpec => []OneThreadPerDescriptor
<1>1. IInv => OneThreadPerDescriptor
  <2> SUFFICES ASSUME IInv, NEW s \in Slots
               PROVE  Cardinality(OnDescriptor(s)) <= (IF state[s] = "free" THEN 0 ELSE 1)
    BY DEF OneThreadPerDescriptor
  <2>1. CASE OnDescriptor(s) = {}
    BY <2>1, FS_EmptySet
  <2>2. ASSUME NEW h \in OnDescriptor(s)
        PROVE  state[s] # "free" /\ OnDescriptor(s) = {h}
    <3>1. h \in Hosts /\ On(h) /\ slot[h] = s
      BY DEF OnDescriptor, On
    <3>2. state[s] # "free"
      BY <3>1 DEF IInv, ThreadsFit
    <3>3. \A g \in OnDescriptor(s) : g = h
      BY <3>1 DEF IInv, ThreadsFit, OnDescriptor, On
    <3> QED
      BY <3>2, <3>3
  <2>3. CASE OnDescriptor(s) # {}
    <3>1. PICK h \in OnDescriptor(s) : TRUE
      BY <2>3
    <3>2. state[s] # "free" /\ Cardinality(OnDescriptor(s)) = 1
      BY <3>1, <2>2, FS_Singleton
    <3> QED
      BY <3>2
  <2> QED
    BY <2>1, <2>3
<1> QED
  BY <1>1, AlwaysInv, PTL

(* Whichever of the three is last to let go of a descriptor, its completion  *)
(* objects and the handles of its threads are closed by then                 *)
(* (sys_ppu_thread.c:236, :345).                                             *)
THEOREM NothingIsLeft == PtSpec => []FreeLeavesNothing
<1>1. IInv => FreeLeavesNothing
  <2> SUFFICES ASSUME IInv, NEW s \in Slots, state[s] = "free"
               PROVE  ~objects[s] /\ \A h \in Hosts : slot[h] = s => ~handle[h]
    BY DEF FreeLeavesNothing
  <2>1. ~objects[s] /\ hostThread[s] = 0
    BY DEF IInv, Types, SlotsFit, Backed
  <2>2. ASSUME NEW h \in Hosts, slot[h] = s, handle[h]  PROVE FALSE
    BY <2>1, <2>2 DEF IInv, HandlesFit
  <2> QED
    BY <2>1, <2>2
<1> QED
  BY <1>1, AlwaysInv, PTL

(* A join collects outside the lock the status of the thread it waited for,  *)
(* and no thread that got the descriptor since has overwritten it            *)
(* (sys_ppu_thread.c:377).                                                   *)
THEOREM JoinsReturnTheirThread == PtSpec => []JoinReturnsR3
<1>1. IInv => JoinReturnsR3
  <2> SUFFICES ASSUME IInv, NEW c \in Callers, call[c] = "collected"
               PROVE  result[c] = r3[awaits[c]]
    BY DEF JoinReturnsR3
  <2>1. awaits[c] # 0
    BY DEF IInv, Types
  <2> QED
    BY <2>1 DEF IInv, JoinsFit, CallersFit
<1> QED
  BY <1>1, AlwaysInv, PTL

(* The three together: a descriptor serves one thread at a time.             *)
THEOREM DescriptorsStaySafe == PtSpec => []DescriptorsAreSafe
<1>1. OneThreadPerDescriptor /\ NoFaults /\ JoinReturnsR3 => DescriptorsAreSafe
  BY DEF DescriptorsAreSafe
<1> QED
  BY <1>1, NothingUsedWhenGone, DescriptorsAreExclusive, JoinsReturnTheirThread, PTL

-----------------------------------------------------------------------------
(* What the promise rests on: the runtime's form, room in the registry for  *)
(* every start, and words that are always reserved under the same address.  *)
Aligned == \A g \in ResvSetups :
  /\ ~g.lifted /\ g.starts <= ResvMax
  /\ \A S, T \in g.spans : S \cap T # {} => Addr(S) = Addr(T)

Past == {"swap", "break", "clobber", "unlock"}
Stores == Past \cup {"lock"}

ResvTypes ==
  /\ guest \in ResvSetups /\ word \in [Words -> Contents]
  /\ DOMAIN at = Contexts /\ DOMAIN new = Contexts /\ DOMAIN scan = Contexts
  /\ DOMAIN reserveAddr = Contexts /\ DOMAIN reserveValue = Contexts /\ DOMAIN reserveValid = Contexts
  /\ DOMAIN locks = Blocks
  /\ registry \in [0 .. ResvMax - 1 -> Contexts \cup {NoContext}] /\ registered \in 0 .. guest.starts

(* A reservation is of a span of the guest, under its address or broken. *)
Reservations == \A c \in Contexts : reserveValid[c] =>
  /\ DOMAIN reserveValue[c] \in guest.spans
  /\ reserveAddr[c] \in {Broken, Addr(DOMAIN reserveValue[c])}

(* What is stored or loaded is a span, and what is stored was reserved. *)
Operands == \A c \in Contexts :
  /\ at[c] \in Stores \cup {"reserve"} => \E S \in guest.spans : new[c] \in [S -> Contents]
  /\ at[c] \in Stores => reserveValid[c] /\ DOMAIN reserveValue[c] = DOMAIN new[c]

(* One thread stores to a block. *)
Blocked == \A c \in Contexts : at[c] \in Past => locks[Lock(DOMAIN new[c])] = c

(* A scan is for words that were stored, and clobbers who is in the registry. *)
Scans == \A c \in Contexts : at[c] \in {"break", "clobber"} =>
  /\ scan[c].addrs \subseteq DOMAIN new[c] /\ scan[c].i \in Nat /\ scan[c].n \in Nat
  /\ at[c] = "clobber" => scan[c].i \in DOMAIN registry /\ Entry(c) \in Contexts

(* Whoever runs is in the registry, each under an index of its own. *)
Enrolled ==
  /\ \A i \in DOMAIN registry : registry[i] # NoContext => i < registered
  /\ \A c \in Contexts : at[c] \notin {"off", "enrol"} => \E i \in DOMAIN registry : registry[i] = c
  /\ \A c \in Contexts : at[c] = "enrol" =>
       /\ ~reserveValid[c] /\ scan[c].i \in DOMAIN registry /\ scan[c].i < registered /\ registry[scan[c].i] = NoContext
       /\ \A d \in Contexts \ {c} : at[d] = "enrol" => scan[d].i # scan[c].i

(* The inductive invariant. *)
ResvInv == ResvTypes /\ Reservations /\ Operands /\ Blocked /\ Scans /\ Enrolled

(* The address of a span is one of its words, and its block has a lock. *)
LEMMA AddrIsIn ==
  ASSUME NEW S, S \subseteq Words, S # {}
  PROVE  /\ Addr(S) \in S /\ Addr(S) \in Words /\ Addr(S) # Broken /\ Lock(S) \in Blocks
         /\ \A y \in S : Addr(S) <= y
<1>1. S \subseteq Nat
  BY ResvAssumption
<1>2. PICK x \in S : \A y \in S : <<y, x>> \notin OpToRel(<, Nat)
  BY <1>1, NatLessThanWellFounded, WFMin, Zenon
<1>3. \A y \in S : ~(y < x)
  BY <1>1, <1>2, Zenon DEF OpToRel
<1>4. \A y \in S : x <= y
  BY <1>1, <1>3
<1>5. Addr(S) \in S /\ \A y \in S : Addr(S) <= y
  BY <1>4 DEF Addr, Min
<1>6. Addr({Addr(S)}) = Addr(S)
  <2>1. \A w \in Nat : \E x1 \in {w} : \A y \in {w} : x1 <= y
    OBVIOUS
  <2>2. \A w \in Nat : Min({w}) \in {w}
    BY <2>1 DEF Min
  <2> QED BY <1>1, <1>5, <2>2 DEF Addr
<1>7. Lock({Addr(S)}) = Lock(S)
  BY <1>6 DEF Lock
<1>8. Lock(S) \in Blocks
  BY <1>5, <1>7 DEF Blocks
<1> QED BY <1>5, <1>8, ResvAssumption DEF Broken

(* A span has words, and all of them are words of the memory. *)
LEMMA SpansAre ==
  ASSUME ResvInv, NEW S \in guest.spans
  PROVE  S \subseteq Words /\ S # {}
  BY ResvAssumption DEF ResvInv, ResvTypes

(* Steps that touch only what is the thread's own.                           *)
LEMMA SettleResv ==
  ASSUME Aligned, ResvInv, NEW c \in Contexts,
         RvEnd(c) \/ Reserve(c) \/ \E S \in guest.spans : StoreElsewhere(c, S) \/ StoreReserved(c, S)
  PROVE  ResvInv'
<1>0. ~guest.lifted /\ guest.starts <= ResvMax
  BY DEF Aligned, ResvInv, ResvTypes
<1> USE DEF RvEnd, Goes, Reserve, StoreElsewhere, Drops, Forgets, StoreReserved, contextVars
<1>1. ResvTypes'
  BY <1>0 DEF ResvInv, ResvTypes
<1>2. Reservations'
  BY <1>0 DEF ResvInv, ResvTypes, Reservations, Operands
<1>3. Operands'
  BY <1>0 DEF ResvInv, ResvTypes, Reservations, Operands, Stores, Past
<1>4. Blocked'
  BY <1>0 DEF ResvInv, ResvTypes, Operands, Blocked, Past, Stores
<1>5. Scans'
  BY <1>0 DEF ResvInv, ResvTypes, Scans, Entry
<1>6. Enrolled'
  <2>1. UNCHANGED <<registry, registered, scan>>
    OBVIOUS
  <2>2. at[c] \notin {"off", "enrol"} /\ at'[c] # "enrol"
    BY DEF ResvInv, ResvTypes
  <2>3. \A d \in Contexts \ {c} : at'[d] = at[d] /\ reserveValid'[d] = reserveValid[d]
    BY DEF ResvInv, ResvTypes
  <2> QED BY <2>1, <2>2, <2>3 DEF ResvInv, Enrolled
<1> QED BY <1>1, <1>2, <1>3, <1>4, <1>5, <1>6 DEF ResvInv

(* A store that fails only has its lock to give back.                        *)
LEMMA MissResv ==
  ASSUME Aligned, ResvInv, NEW c \in Contexts,
         Miss(c)
  PROVE  ResvInv'
<1>0. ~guest.lifted /\ guest.starts <= ResvMax
  BY DEF Aligned, ResvInv, ResvTypes
<1>1. ResvTypes'
  BY <1>0 DEF ResvInv, ResvTypes, contextVars, Miss, Goes, AfterMiss, Drops, Forgets
<1>2. Reservations'
  BY <1>0 DEF ResvInv, ResvTypes, Reservations, Operands, contextVars, Miss, Goes, AfterMiss, Drops, Forgets
<1>3. Operands'
  BY <1>0 DEF ResvInv, ResvTypes, Reservations, Operands, Stores, Past, contextVars, Miss, Goes, AfterMiss, Drops, Forgets
<1>4. Blocked'
  BY <1>0 DEF ResvInv, ResvTypes, Operands, Blocked, Past, Stores, contextVars, Miss, Goes, AfterMiss, Drops, Forgets
<1>5. Scans'
  BY <1>0 DEF ResvInv, ResvTypes, Scans, Entry, contextVars, Miss, Goes, AfterMiss, Drops, Forgets
<1>6. Enrolled'
  BY <1>0, ResvAssumption DEF ResvInv, ResvTypes, Enrolled, contextVars, Miss, Goes, AfterMiss, Drops, Forgets
<1> QED BY <1>1, <1>2, <1>3, <1>4, <1>5, <1>6 DEF ResvInv

(* The lock of a block is given back by who has it.                          *)
LEMMA UnlockResv ==
  ASSUME Aligned, ResvInv, NEW c \in Contexts,
         Unlock(c)
  PROVE  ResvInv'
<1>0. ~guest.lifted /\ guest.starts <= ResvMax
  BY DEF Aligned, ResvInv, ResvTypes
<1>1. ResvTypes'
  BY <1>0 DEF ResvInv, ResvTypes, contextVars, Unlock, Drops, Forgets
<1>2. Reservations'
  BY <1>0 DEF ResvInv, ResvTypes, Reservations, Operands, contextVars, Unlock, Drops, Forgets
<1>3. Operands'
  BY <1>0 DEF ResvInv, ResvTypes, Reservations, Operands, Stores, Past, contextVars, Unlock, Drops, Forgets
<1>4. Blocked'
  BY <1>0 DEF ResvInv, ResvTypes, Operands, Blocked, Past, Stores, contextVars, Unlock, Drops, Forgets
<1>5. Scans'
  BY <1>0 DEF ResvInv, ResvTypes, Scans, Entry, contextVars, Unlock, Drops, Forgets
<1>6. Enrolled'
  BY <1>0, ResvAssumption DEF ResvInv, ResvTypes, Enrolled, contextVars, Unlock, Drops, Forgets
<1> QED BY <1>1, <1>2, <1>3, <1>4, <1>5, <1>6 DEF ResvInv

(* Each start has an entry of its own.                                       *)
LEMMA EnrolResv ==
  ASSUME Aligned, ResvInv, NEW c \in Contexts,
         Enrol(c)
  PROVE  ResvInv'
<1>0. ~guest.lifted /\ guest.starts <= ResvMax
  BY DEF Aligned, ResvInv, ResvTypes
<1>1. ResvTypes'
  BY <1>0 DEF ResvInv, ResvTypes, contextVars, Enrol, Goes
<1>2. Reservations'
  BY <1>0 DEF ResvInv, ResvTypes, Reservations, Operands, contextVars, Enrol, Goes
<1>3. Operands'
  BY <1>0 DEF ResvInv, ResvTypes, Reservations, Operands, Stores, Past, contextVars, Enrol, Goes
<1>4. Blocked'
  BY <1>0 DEF ResvInv, ResvTypes, Operands, Blocked, Past, Stores, contextVars, Enrol, Goes
<1>5. Scans'
  BY <1>0 DEF ResvInv, ResvTypes, Scans, Entry, contextVars, Enrol, Goes
<1>6. Enrolled'
  BY <1>0, ResvAssumption DEF ResvInv, ResvTypes, Enrolled, contextVars, Enrol, Goes
<1> QED BY <1>1, <1>2, <1>3, <1>4, <1>5, <1>6 DEF ResvInv

(* A scan moves on.                                                          *)
LEMMA LookPastResv ==
  ASSUME Aligned, ResvInv, NEW c \in Contexts,
         LookPast(c)
  PROVE  ResvInv'
<1>0. ~guest.lifted /\ guest.starts <= ResvMax
  BY DEF Aligned, ResvInv, ResvTypes
<1>1. ResvTypes'
  BY <1>0 DEF ResvInv, ResvTypes, contextVars, LookPast, Further
<1>2. Reservations'
  BY <1>0 DEF ResvInv, ResvTypes, Reservations, Operands, contextVars, LookPast, Further
<1>3. Operands'
  BY <1>0 DEF ResvInv, ResvTypes, Reservations, Operands, Stores, Past, contextVars, LookPast, Further
<1>4. Blocked'
  BY <1>0 DEF ResvInv, ResvTypes, Operands, Blocked, Past, Stores, contextVars, LookPast, Further
<1>5. Scans'
  BY <1>0 DEF ResvInv, ResvTypes, Scans, Entry, contextVars, LookPast, Further
<1>6. Enrolled'
  BY <1>0, ResvAssumption DEF ResvInv, ResvTypes, Enrolled, contextVars, LookPast, Further
<1> QED BY <1>1, <1>2, <1>3, <1>4, <1>5, <1>6 DEF ResvInv

(* A scan begins with the second word, or ends.                              *)
LEMMA NextWordResv ==
  ASSUME Aligned, ResvInv, NEW c \in Contexts,
         NextWord(c)
  PROVE  ResvInv'
<1>0. ~guest.lifted /\ guest.starts <= ResvMax
  BY DEF Aligned, ResvInv, ResvTypes
<1>1. ResvTypes'
  BY <1>0 DEF ResvInv, ResvTypes, contextVars, NextWord
<1>2. Reservations'
  BY <1>0 DEF ResvInv, ResvTypes, Reservations, Operands, contextVars, NextWord
<1>3. Operands'
  BY <1>0 DEF ResvInv, ResvTypes, Reservations, Operands, Stores, Past, contextVars, NextWord
<1>4. Blocked'
  BY <1>0 DEF ResvInv, ResvTypes, Operands, Blocked, Past, Stores, contextVars, NextWord
<1>5. Scans'
  BY <1>0 DEF ResvInv, ResvTypes, Scans, Entry, contextVars, NextWord
<1>6. Enrolled'
  BY <1>0, ResvAssumption DEF ResvInv, ResvTypes, Enrolled, contextVars, NextWord
<1> QED BY <1>1, <1>2, <1>3, <1>4, <1>5, <1>6 DEF ResvInv

(* A reservation is broken.                                                  *)
LEMMA ClobberResv ==
  ASSUME Aligned, ResvInv, NEW c \in Contexts,
         Clobber(c)
  PROVE  ResvInv'
<1>0. ~guest.lifted /\ guest.starts <= ResvMax
  BY DEF Aligned, ResvInv, ResvTypes
<1>1. ResvTypes'
  BY <1>0 DEF ResvInv, ResvTypes, contextVars, Clobber, Goes, Further
<1>2. Reservations'
  BY <1>0 DEF ResvInv, ResvTypes, Reservations, Operands, contextVars, Clobber, Goes, Further
<1>3. Operands'
  BY <1>0 DEF ResvInv, ResvTypes, Reservations, Operands, Stores, Past, contextVars, Clobber, Goes, Further
<1>4. Blocked'
  BY <1>0 DEF ResvInv, ResvTypes, Operands, Blocked, Past, Stores, contextVars, Clobber, Goes, Further
<1>5. Scans'
  BY <1>0 DEF ResvInv, ResvTypes, Scans, Entry, contextVars, Clobber, Goes, Further
<1>6. Enrolled'
  BY <1>0, ResvAssumption DEF ResvInv, ResvTypes, Enrolled, contextVars, Clobber, Goes, Further
<1> QED BY <1>1, <1>2, <1>3, <1>4, <1>5, <1>6 DEF ResvInv

(* A start takes the next index of the registry.                            *)
LEMMA StartResv ==
  ASSUME Aligned, ResvInv, NEW c \in Contexts,
         RvStart(c)
  PROVE  ResvInv'
<1>0. ~guest.lifted /\ guest.starts <= ResvMax
  BY DEF Aligned, ResvInv, ResvTypes
<1>1. ResvTypes'
  <2>1. guest.starts \in Nat /\ registered' \in 0 .. guest.starts
    BY ResvAssumption DEF ResvInv, ResvTypes, RvStart
  <2> QED BY <2>1 DEF ResvInv, ResvTypes, contextVars, RvStart, Goes
<1>2. Reservations'
  BY <1>0 DEF ResvInv, ResvTypes, Reservations, Operands, contextVars, RvStart, Goes
<1>3. Operands'
  BY <1>0 DEF ResvInv, ResvTypes, Reservations, Operands, Stores, Past, contextVars, RvStart, Goes
<1>4. Blocked'
  BY <1>0 DEF ResvInv, ResvTypes, Operands, Blocked, Past, Stores, contextVars, RvStart, Goes
<1>5. Scans'
  BY <1>0 DEF ResvInv, ResvTypes, Scans, Entry, contextVars, RvStart, Goes
<1>6. Enrolled'
  BY <1>0, ResvAssumption DEF ResvInv, ResvTypes, Enrolled, contextVars, RvStart, Goes
<1> QED BY <1>1, <1>2, <1>3, <1>4, <1>5, <1>6 DEF ResvInv

(* A load finds what words hold.                                            *)
LEMMA LoadResv ==
  ASSUME Aligned, ResvInv, NEW c \in Contexts,
         NEW S \in guest.spans, LoadWord(c, S)
  PROVE  ResvInv'
<1>0. ~guest.lifted /\ guest.starts <= ResvMax
  BY DEF Aligned, ResvInv, ResvTypes
<1>1. ResvTypes'
  BY <1>0 DEF ResvInv, ResvTypes, contextVars, LoadWord, Goes
<1>2. Reservations'
  BY <1>0 DEF ResvInv, ResvTypes, Reservations, Operands, contextVars, LoadWord, Goes
<1>3. Operands'
  <2>1. Held(S) \in [S -> Contents]
    BY SpansAre DEF ResvInv, ResvTypes, Held
  <2> QED BY <2>1 DEF ResvInv, ResvTypes, Operands, Stores, Past, contextVars, LoadWord, Goes
<1>4. Blocked'
  BY <1>0 DEF ResvInv, ResvTypes, Operands, Blocked, Past, Stores, contextVars, LoadWord, Goes
<1>5. Scans'
  BY <1>0 DEF ResvInv, ResvTypes, Scans, Entry, contextVars, LoadWord, Goes
<1>6. Enrolled'
  BY <1>0, ResvAssumption DEF ResvInv, ResvTypes, Enrolled, contextVars, LoadWord, Goes
<1> QED BY <1>1, <1>2, <1>3, <1>4, <1>5, <1>6 DEF ResvInv

(* The lock of a block goes to one thread.                                  *)
LEMMA LockResv ==
  ASSUME Aligned, ResvInv, NEW c \in Contexts,
         LockBlock(c)
  PROVE  ResvInv'
<1>0. ~guest.lifted /\ guest.starts <= ResvMax
  BY DEF Aligned, ResvInv, ResvTypes
<1>1. ResvTypes'
  BY <1>0 DEF ResvInv, ResvTypes, contextVars, LockBlock, Goes
<1>2. Reservations'
  BY <1>0 DEF ResvInv, ResvTypes, Reservations, Operands, contextVars, LockBlock, Goes
<1>3. Operands'
  BY <1>0 DEF ResvInv, ResvTypes, Reservations, Operands, Stores, Past, contextVars, LockBlock, Goes
<1>4. Blocked'
  <2>1. Lock(DOMAIN new[c]) \in Blocks /\ locks[Lock(DOMAIN new[c])] = NoContext
    BY SpansAre, AddrIsIn DEF ResvInv, Operands, Stores, LockBlock, Goes
  <2> QED BY <2>1, ResvAssumption DEF ResvInv, ResvTypes, Blocked, Past, contextVars, LockBlock, Goes
<1>5. Scans'
  BY <1>0 DEF ResvInv, ResvTypes, Scans, Entry, contextVars, LockBlock, Goes
<1>6. Enrolled'
  BY <1>0, ResvAssumption DEF ResvInv, ResvTypes, Enrolled, contextVars, LockBlock, Goes
<1> QED BY <1>1, <1>2, <1>3, <1>4, <1>5, <1>6 DEF ResvInv

(* The store, and the beginning of the scan.                                *)
LEMMA SwapResv ==
  ASSUME Aligned, ResvInv, NEW c \in Contexts,
         Swap(c)
  PROVE  ResvInv'
<1>0. ~guest.lifted /\ guest.starts <= ResvMax
  BY DEF Aligned, ResvInv, ResvTypes
<1>1. ResvTypes'
  <2>1. PICK S \in guest.spans : new[c] \in [S -> Contents]
    BY DEF ResvInv, Operands, Stores, Past, Swap, Goes
  <2>2. word' \in [Words -> Contents]
    BY <2>1 DEF ResvInv, ResvTypes, Swap, Stored
  <2> QED BY <1>0, <2>2 DEF ResvInv, ResvTypes, contextVars, Swap, Goes, SwapGoesTo, Drops
<1>2. Reservations'
  BY <1>0 DEF ResvInv, ResvTypes, Reservations, Operands, contextVars, Swap, Goes, SwapGoesTo, Drops
<1>3. Operands'
  BY <1>0 DEF ResvInv, ResvTypes, Reservations, Operands, Stores, Past, contextVars, Swap, Goes, SwapGoesTo, Drops
<1>4. Blocked'
  BY <1>0 DEF ResvInv, ResvTypes, Operands, Blocked, Past, Stores, contextVars, Swap, Goes, SwapGoesTo, Drops
<1>5. Scans'
  BY <1>0 DEF ResvInv, ResvTypes, Scans, Entry, contextVars, Swap, Goes, SwapGoesTo, Drops
<1>6. Enrolled'
  BY <1>0, ResvAssumption DEF ResvInv, ResvTypes, Enrolled, contextVars, Swap, Goes, SwapGoesTo, Drops
<1> QED BY <1>1, <1>2, <1>3, <1>4, <1>5, <1>6 DEF ResvInv

(* A scan stops at somebody who is in the registry.                         *)
LEMMA LookAtResv ==
  ASSUME Aligned, ResvInv, NEW c \in Contexts,
         LookAt(c)
  PROVE  ResvInv'
<1>0. ~guest.lifted /\ guest.starts <= ResvMax
  BY DEF Aligned, ResvInv, ResvTypes
<1>1. ResvTypes'
  BY <1>0 DEF ResvInv, ResvTypes, contextVars, LookAt, Goes, Breaks, Scanning
<1>2. Reservations'
  BY <1>0 DEF ResvInv, ResvTypes, Reservations, Operands, contextVars, LookAt, Goes, Breaks, Scanning
<1>3. Operands'
  BY <1>0 DEF ResvInv, ResvTypes, Reservations, Operands, Stores, Past, contextVars, LookAt, Goes, Breaks, Scanning
<1>4. Blocked'
  BY <1>0 DEF ResvInv, ResvTypes, Operands, Blocked, Past, Stores, contextVars, LookAt, Goes, Breaks, Scanning
<1>5. Scans'
  <2>1. scan[c].i \in 0 .. ResvMax - 1 /\ registry[scan[c].i] \in Contexts
    BY ResvAssumption DEF ResvInv, ResvTypes, Scans, LookAt, Goes, Breaks, Scanning, Entry
  <2>2. scan' = scan /\ registry' = registry /\ new' = new
    BY DEF LookAt
  <2> QED BY <2>1, <2>2 DEF ResvInv, ResvTypes, Scans, Entry, LookAt, Goes
<1>6. Enrolled'
  BY <1>0, ResvAssumption DEF ResvInv, ResvTypes, Enrolled, contextVars, LookAt, Goes, Breaks, Scanning
<1> QED BY <1>1, <1>2, <1>3, <1>4, <1>5, <1>6 DEF ResvInv

(* What is linked for the abstract store. *)
Links == [c \in Contexts |-> IF Linked(c) THEN reserveValue[c] ELSE Nothing]
LinkStep == [Promised!LsNext]_<<word, Links>>

(* A reservation under the address of its words. *)
Named(d) == reserveValid[d] /\ Matches(d, DOMAIN reserveValue[d])

(* A step of c leaves the link of d alone if it leaves its reservation alone, *)
(* and what c still has to break.                                            *)
LEMMA OtherLinks ==
  ASSUME NEW c \in Contexts, NEW d \in Contexts, UNCHANGED word,
         DOMAIN registry' = DOMAIN registry, \A i \in DOMAIN registry : registry'[i] = d <=> registry[i] = d,
         reserveAddr'[d] = reserveAddr[d], reserveValue'[d] = reserveValue[d], reserveValid'[d] = reserveValid[d],
         at'[d] = at[d] \/ {at[d], at'[d]} \subseteq {"runs", "reserve", "lock", "swap"},
         \A u \in Contexts \ {c} : at'[u] = at[u] /\ scan'[u] = scan[u],
         Named(d) => (Reached(c, d)' <=> Reached(c, d))
  PROVE  Linked(d)' <=> Linked(d)
<1>1. \A u \in Contexts \ {c} : Reached(u, d)' <=> Reached(u, d)
  <2> SUFFICES ASSUME NEW u \in Contexts \ {c} PROVE Reached(u, d)' <=> Reached(u, d)
    OBVIOUS
  <2> QED BY DEF Reached
<1>2. (Held(DOMAIN reserveValue[d]) = reserveValue[d])' <=> Held(DOMAIN reserveValue[d]) = reserveValue[d]
  BY DEF Held
<1>3. Matches(d, DOMAIN reserveValue[d])' <=> Matches(d, DOMAIN reserveValue[d])
  BY DEF Matches, Addr, Min
<1> QED BY <1>1, <1>2, <1>3 DEF Linked, Named

(* Whoever is not scanning has nothing to break. *)
LEMMA IdleReaches ==
  ASSUME NEW c, NEW d, at[c] \notin {"break", "clobber"}
  PROVE  ~Reached(c, d)
  BY DEF Reached

(* If no link changes but that of c, which is gone, the abstract store loses *)
(* a reservation; if none changes nothing has happened.                     *)
LEMMA LoseLink ==
  ASSUME NEW c \in Contexts, word' = word,
         \A d \in Contexts \ {c} : (Linked(d)' <=> Linked(d)) /\ (Linked(d) => reserveValue'[d] = reserveValue[d]),
         ~Linked(c)'
  PROVE  LinkStep
<1>1. Links' = [Links EXCEPT ![c] = Nothing]
  BY DEF Links, Nothing
<1>2. Promised!Lose(c)
  BY <1>1 DEF Promised!Lose, Promised!Unlinked, Links, Nothing
<1> QED BY <1>2 DEF LinkStep, Promised!LsNext

(* If no link changes nothing has happened to the abstract store. *)
LEMMA KeepLinks ==
  ASSUME word' = word,
         \A d \in Contexts : (Linked(d)' <=> Linked(d)) /\ (Linked(d) => reserveValue'[d] = reserveValue[d])
  PROVE  LinkStep
<1>1. Links' = Links
  BY DEF Links, Nothing
<1> QED BY <1>1 DEF LinkStep

(* Starting, ending, and a conditional store that fails or is over.         *)
LEMMA LosingSteps ==
  ASSUME Aligned, ResvInv, NEW c \in Contexts,
         \/ RvStart(c) \/ RvEnd(c) \/ Miss(c) \/ Unlock(c) \/ Enrol(c)
         \/ \E S \in guest.spans : StoreElsewhere(c, S)
  PROVE  LinkStep
<1>1. UNCHANGED word
  BY DEF RvStart, RvEnd, Miss, Unlock, Enrol, StoreElsewhere
<1>2. ASSUME NEW d \in Contexts \ {c}
      PROVE  /\ reserveAddr'[d] = reserveAddr[d] /\ reserveValue'[d] = reserveValue[d]
             /\ reserveValid'[d] = reserveValid[d] /\ at'[d] = at[d] /\ scan'[d] = scan[d]
  BY DEF ResvInv, ResvTypes, RvStart, RvEnd, Miss, Unlock, Enrol, StoreElsewhere, Drops, Goes, contextVars
<1>3. ASSUME NEW d \in Contexts \ {c}, NEW i \in DOMAIN registry PROVE registry'[i] = d <=> registry[i] = d
  <2>1. CASE Enrol(c)
    <3>1. registry'[i] = IF i = scan[c].i THEN c ELSE registry[i]
      BY <2>1 DEF Enrol
    <3>2. registry[scan[c].i] = NoContext
      BY <2>1 DEF ResvInv, Enrolled, Enrol, Goes
    <3> QED BY <3>1, <3>2, ResvAssumption
  <2>2. CASE ~Enrol(c)
    BY <2>2 DEF RvStart, RvEnd, Miss, Unlock, StoreElsewhere
  <2> QED BY <2>1, <2>2
<1>4. DOMAIN registry' = DOMAIN registry
  BY DEF RvStart, RvEnd, Miss, Unlock, Enrol, StoreElsewhere
<1>5. ASSUME NEW d \in Contexts PROVE ~Reached(c, d) /\ ~Reached(c, d)'
  BY DEF ResvInv, ResvTypes, Reached, RvStart, RvEnd, Miss, Unlock, Enrol, StoreElsewhere, Goes, AfterMiss
<1>6. ~Linked(c)'
  <2>1. CASE RvStart(c) \/ RvEnd(c) \/ Miss(c)
    BY <2>1 DEF Aligned, ResvInv, ResvTypes, Linked, RvStart, RvEnd, Miss, Goes, AfterMiss
  <2>2. CASE Unlock(c) \/ Enrol(c) \/ \E S \in guest.spans : StoreElsewhere(c, S)
    BY <2>2 DEF ResvInv, ResvTypes, Enrolled, Linked, Unlock, Enrol, StoreElsewhere, Drops, Goes, contextVars
  <2> QED BY <2>1, <2>2
<1>7. ASSUME NEW d \in Contexts \ {c} PROVE Linked(d)' <=> Linked(d)
  BY <1>1, <1>2, <1>3, <1>4, <1>5, OtherLinks
<1> QED BY <1>1, <1>2, <1>6, <1>7, LoseLink

(* Loading, and what comes before the store.                                *)
LEMMA KeepingSteps ==
  ASSUME ResvInv, NEW c \in Contexts,
         LockBlock(c) \/ \E S \in guest.spans : LoadWord(c, S) \/ StoreReserved(c, S)
  PROVE  LinkStep
<1>1. UNCHANGED <<word, registry, contextVars, scan>>
  BY DEF LockBlock, LoadWord, StoreReserved
<1>2. \A d \in Contexts : at'[d] = at[d] \/ {at[d], at'[d]} \subseteq {"runs", "reserve", "lock", "swap"}
  BY DEF ResvInv, ResvTypes, LockBlock, LoadWord, StoreReserved, Goes
<1>3. \A u \in Contexts \ {c} : at'[u] = at[u]
  BY DEF ResvInv, ResvTypes, LockBlock, LoadWord, StoreReserved, Goes
<1>4. ASSUME NEW d \in Contexts PROVE ~Reached(c, d) /\ ~Reached(c, d)'
  BY DEF ResvInv, ResvTypes, Reached, LockBlock, LoadWord, StoreReserved, Goes
<1>5. ASSUME NEW d \in Contexts PROVE Linked(d)' <=> Linked(d)
  BY <1>1, <1>2, <1>3, <1>4, OtherLinks DEF contextVars
<1> QED BY <1>1, <1>5, KeepLinks DEF contextVars

(* A scan that goes on leaves nothing behind it: the words of a span have   *)
(* one address between them, which is looked for first.                     *)
LEMMA ScanningSteps ==
  ASSUME Aligned, ResvInv, NEW c \in Contexts, LookPast(c) \/ LookAt(c) \/ NextWord(c)
  PROVE  LinkStep
<1>1. UNCHANGED <<word, registry, contextVars, new>>
  BY DEF LookPast, LookAt, NextWord
<1>2. ASSUME NEW d \in Contexts, Named(d) PROVE Reached(c, d)' <=> Reached(c, d)
  <2>1. CASE LookAt(c)
    BY <1>1, <2>1 DEF ResvInv, ResvTypes, Reached, LookAt, Goes, contextVars
  <2>2. CASE LookPast(c)
    <3>1. at'[c] = at[c] /\ at[c] = "break" /\ scan'[c].addrs = scan[c].addrs /\ scan'[c].n = scan[c].n
          /\ scan'[c].i = scan[c].i + 1 /\ scan[c].i \in Nat
      BY <2>2 DEF ResvInv, ResvTypes, Scans, LookPast, Further
    <3>2. ~(registry[scan[c].i] = d /\ reserveAddr[d] = Addr(scan[c].addrs))
      BY <2>2, ResvAssumption DEF LookPast, Breaks, Entry
    <3>3. \A i \in DOMAIN registry : i \in Nat
      BY ResvAssumption DEF ResvInv, ResvTypes
    <3>4. \A i \in DOMAIN registry : registry[i] = d /\ reserveAddr[d] = Addr(scan[c].addrs)
            => (i >= scan[c].i <=> i >= scan[c].i + 1)
      BY <3>1, <3>2, <3>3
    <3> QED BY <1>1, <3>1, <3>4 DEF Reached, contextVars
  <2>3. CASE NextWord(c)
    <3>1. at'[c] = at[c] /\ at[c] = "break" /\ scan[c].addrs # {} /\ ~Scanning(c)
          /\ scan'[c].addrs = scan[c].addrs \ {Addr(scan[c].addrs)} /\ scan'[c].i = 0 /\ scan'[c].n = registered
      BY <2>3 DEF ResvInv, ResvTypes, NextWord
    <3>2. scan[c].addrs \subseteq DOMAIN new[c] /\ scan[c].i \in Nat /\ scan[c].n \in Nat
      BY <3>1 DEF ResvInv, Scans
    <3>3. DOMAIN new[c] \in guest.spans
      BY <3>1 DEF ResvInv, Operands, Stores, Past
    <3>4. reserveAddr[d] = Addr(DOMAIN reserveValue[d]) /\ DOMAIN reserveValue[d] \in guest.spans
      BY <1>2 DEF ResvInv, Reservations, Named, Matches
    <3>5. reserveAddr[d] \in scan[c].addrs => reserveAddr[d] = Addr(scan[c].addrs)
      <4>1. reserveAddr[d] \in DOMAIN reserveValue[d]
        BY <3>4, SpansAre, AddrIsIn
      <4>2. reserveAddr[d] \in scan[c].addrs => reserveAddr[d] = Addr(DOMAIN new[c])
        BY <3>2, <3>3, <3>4, <4>1 DEF Aligned, ResvInv, ResvTypes
      <4>3. DOMAIN new[c] \subseteq Words /\ DOMAIN new[c] # {}
        BY <3>3, SpansAre
      <4>4. Addr(scan[c].addrs) \in scan[c].addrs /\ \A y \in scan[c].addrs : Addr(scan[c].addrs) <= y
        BY <3>1, <3>2, <4>3, AddrIsIn
      <4>5. Addr(DOMAIN new[c]) \in DOMAIN new[c] /\ \A y \in DOMAIN new[c] : Addr(DOMAIN new[c]) <= y
        BY <4>3, AddrIsIn
      <4>6. Addr(DOMAIN new[c]) \in Nat /\ Addr(scan[c].addrs) \in Nat
        BY <3>2, <4>3, <4>4, <4>5, ResvAssumption
      <4>7. Addr(DOMAIN new[c]) \in scan[c].addrs => Addr(DOMAIN new[c]) = Addr(scan[c].addrs)
        BY <3>2, <4>4, <4>5, <4>6
      <4> QED BY <4>2, <4>7
    <3>6. ~Reached(c, d)'
      BY <1>1, <3>1, <3>5 DEF Reached, contextVars
    <3>7. \A i \in DOMAIN registry : i \in Nat /\ i < ResvMax
      BY ResvAssumption DEF ResvInv, ResvTypes
    <3>8. ~Reached(c, d)
      BY <3>1, <3>2, <3>5, <3>7, ResvAssumption DEF Reached, Scanning
    <3> QED BY <3>6, <3>8
  <2> QED BY <2>1, <2>2, <2>3
<1>3. ASSUME NEW d \in Contexts PROVE Linked(d)' <=> Linked(d)
  <2>1. \A u \in Contexts \ {c} : at'[u] = at[u] /\ scan'[u] = scan[u]
    BY DEF ResvInv, ResvTypes, LookPast, LookAt, NextWord, Goes, Further
  <2>2. CASE d # c
    BY <1>1, <1>2, <2>1, <2>2, OtherLinks DEF contextVars
  <2>3. CASE d = c
    BY <2>3 DEF ResvInv, ResvTypes, Linked, LookPast, LookAt, NextWord, Goes
  <2> QED BY <2>2, <2>3
<1> QED BY <1>1, <1>3, KeepLinks DEF contextVars

(* A clobber takes the reservation of whoever it finds, also a new one.      *)
LEMMA ClobberLoses ==
  ASSUME ResvInv, NEW c \in Contexts, Clobber(c)
  PROVE  LinkStep
<1>1. UNCHANGED <<word, registry, reserveValue, reserveValid, new>>
  BY DEF Clobber
<1>2. PICK e \in Contexts : e = Entry(c)
  BY DEF ResvInv, Scans, Clobber, Goes
<1>3. \A d \in Contexts \ {e} : reserveAddr'[d] = reserveAddr[d]
  BY <1>2 DEF ResvInv, ResvTypes, Clobber
<1>4. reserveAddr'[e] = Broken
  BY <1>2 DEF ResvInv, ResvTypes, Clobber
<1>5. \A u \in Contexts \ {c} : at'[u] = at[u] /\ scan'[u] = scan[u]
  BY DEF ResvInv, ResvTypes, Clobber, Goes, Further
<1>6. /\ at[c] = "clobber" /\ at'[c] = "break"
      /\ scan'[c].addrs = scan[c].addrs /\ scan'[c].n = scan[c].n
      /\ scan'[c].i = scan[c].i + 1 /\ scan[c].i \in Nat
  BY DEF ResvInv, ResvTypes, Scans, Clobber, Goes, Further
<1>7. ASSUME NEW d \in Contexts \ {e} PROVE Linked(d)' <=> Linked(d)
  <2>1. registry[scan[c].i] # d
    BY <1>2 DEF Entry
  <2>2. \A i \in DOMAIN registry : i \in Nat
    BY ResvAssumption DEF ResvInv, ResvTypes
  <2>3. \A i \in DOMAIN registry : registry[i] = d => (i >= scan[c].i <=> i >= scan[c].i + 1)
    BY <1>6, <2>1, <2>2
  <2>4. Reached(c, d)' <=> Reached(c, d)
    BY <1>1, <1>3, <1>6, <2>3 DEF Reached
  <2>5. CASE d # c
    BY <1>1, <1>3, <1>5, <2>4, <2>5, OtherLinks
  <2>6. CASE d = c
    BY <1>6, <2>6 DEF Linked
  <2> QED BY <2>5, <2>6
<1>8. ~Linked(e)'
  <2>1. reserveValid[e] => Addr(DOMAIN reserveValue[e]) # Broken
    BY SpansAre, AddrIsIn DEF ResvInv, Reservations
  <2> QED BY <1>1, <1>4, <2>1 DEF Linked, Matches, Addr, Min
<1> QED BY <1>1, <1>7, <1>8, LoseLink

(* The address is noted: the words are linked as they were loaded, or not at *)
(* all if they have changed since.                                          *)
LEMMA ReserveLinks ==
  ASSUME ResvInv, NEW c \in Contexts, Reserve(c)
  PROVE  LinkStep
<1>1. UNCHANGED <<word, registry, scan>>
  BY DEF Reserve
<1>2. ASSUME NEW d \in Contexts \ {c}
      PROVE  /\ reserveAddr'[d] = reserveAddr[d] /\ reserveValue'[d] = reserveValue[d]
             /\ reserveValid'[d] = reserveValid[d] /\ at'[d] = at[d]
  BY DEF ResvInv, ResvTypes, Reserve, Goes
<1>3. ASSUME NEW d \in Contexts PROVE ~Reached(c, d) /\ ~Reached(c, d)'
  BY DEF ResvInv, ResvTypes, Reached, Reserve, Goes
<1>4. ASSUME NEW d \in Contexts \ {c} PROVE Linked(d)' <=> Linked(d)
  BY <1>1, <1>2, <1>3, OtherLinks
<1>5. CASE ~Linked(c)'
  BY <1>1, <1>2, <1>4, <1>5, LoseLink
<1>6. CASE Linked(c)'
  <2>1. PICK S \in guest.spans : new[c] \in [S -> Contents]
    BY DEF ResvInv, Operands, Reserve, Goes
  <2>2. S \subseteq Words
    BY <2>1, SpansAre
  <2>3. reserveValue'[c] = new[c]
    BY DEF ResvInv, ResvTypes, Reserve
  <2>4. (Held(DOMAIN reserveValue[c]) = reserveValue[c])'
    BY <1>6 DEF Linked
  <2>5. reserveValue'[c] = [w \in S |-> word[w]]
    BY <1>1, <2>1, <2>3, <2>4 DEF Held
  <2>6. Links' = [Links EXCEPT ![c] = [w \in S |-> word[w]]]
    BY <1>2, <1>4, <1>6, <2>5 DEF Links, Nothing
  <2>7. Promised!Load(c, S)
    BY <1>1, <2>6 DEF Promised!Load, Links, Nothing
  <2> QED BY <2>2, <2>7 DEF LinkStep, Promised!LsNext
<1> QED BY <1>5, <1>6

(* A conditional store that succeeds has its words still linked, and breaks  *)
(* every link to them at once: whoever is still to be clobbered cannot store *)
(* before that, for it would need the lock of the block.                    *)
LEMMA SwapStores ==
  ASSUME Aligned, ResvInv, NEW c \in Contexts, Swap(c)
  PROVE  LinkStep
<1>1. ~guest.lifted /\ \A S, T \in guest.spans : S \cap T # {} => Addr(S) = Addr(T)
  BY DEF Aligned, ResvInv, ResvTypes
<1>2. PICK S \in guest.spans : new[c] \in [S -> Contents]
  BY DEF ResvInv, Operands, Stores, Past, Swap, Goes
<1>3. S \subseteq Words /\ S # {} /\ Addr(S) \in S
  BY SpansAre, AddrIsIn
<1>4. /\ at[c] = "swap" /\ reserveValid[c] /\ DOMAIN reserveValue[c] = S /\ DOMAIN new[c] = S
      /\ reserveAddr[c] = Addr(S) /\ Held(S) = reserveValue[c] /\ locks[Lock(S)] = c
  BY <1>1, <1>2 DEF ResvInv, Operands, Blocked, Stores, Past, Swap, Goes, MaySwap, Matches
<1>5. ASSUME NEW u \in Contexts PROVE ~Reached(u, c)
  <2>1. SUFFICES ASSUME Reached(u, c) PROVE FALSE
    OBVIOUS
  <2>2. at[u] \in {"break", "clobber"} /\ Addr(S) \in scan[u].addrs
    BY <1>4, <2>1 DEF Reached
  <2>3. DOMAIN new[u] \in guest.spans /\ Addr(S) \in DOMAIN new[u] /\ locks[Lock(DOMAIN new[u])] = u
    BY <2>2 DEF ResvInv, Operands, Scans, Blocked, Stores, Past
  <2>4. Addr(DOMAIN new[u]) = Addr(S)
    BY <1>1, <1>3, <2>3
  <2>5. Lock(DOMAIN new[u]) = Lock(S)
    BY <2>4 DEF Lock
  <2>6. u = c
    BY <1>4, <2>3, <2>5
  <2> QED BY <1>4, <2>2, <2>6
<1>6. Linked(c) /\ Links[c] = reserveValue[c]
  BY <1>4, <1>5 DEF Linked, Matches, Links
<1>7. UNCHANGED <<reserveAddr, reserveValue, reserveValid, registry>>
      /\ word' = [w \in Words |-> IF w \in S THEN new[c][w] ELSE word[w]]
  BY <1>1, <1>4 DEF Swap, Stored, contextVars
<1>8. /\ at'[c] = "break" /\ scan'[c] = [addrs |-> S, i |-> 0, n |-> registered]
      /\ \A u \in Contexts \ {c} : at'[u] = at[u] /\ scan'[u] = scan[u]
  BY <1>1, <1>4 DEF ResvInv, ResvTypes, Swap, Goes, SwapGoesTo
<1>9. ASSUME NEW d \in Contexts, reserveValid[d], DOMAIN reserveValue[d] \cap S # {} PROVE ~Linked(d)'
  <2>1. SUFFICES ASSUME Linked(d)' PROVE FALSE
    OBVIOUS
  <2>2. d # c /\ at[d] \notin {"off", "enrol"}
    BY <1>8, <2>1 DEF Linked
  <2>3. reserveAddr[d] = Addr(DOMAIN reserveValue[d])
    BY <1>7, <2>1 DEF Linked, Matches, Addr, Min
  <2>4. reserveAddr[d] = Addr(S)
    BY <1>1, <1>9, <2>3 DEF ResvInv, Reservations
  <2>5. PICK i \in DOMAIN registry : registry[i] = d
    BY <2>2 DEF ResvInv, Enrolled
  <2>6. i < registered /\ i >= 0
    BY <2>5, ResvAssumption DEF ResvInv, ResvTypes, Enrolled
  <2>7. Reached(c, d)'
    BY <1>3, <1>7, <1>8, <2>4, <2>5, <2>6 DEF Reached
  <2> QED BY <2>1, <2>7 DEF Linked
<1>10. ASSUME NEW d \in Contexts, reserveValid[d], DOMAIN reserveValue[d] \cap S = {}
       PROVE  Linked(d)' <=> Linked(d)
  <2>1. d # c
    BY <1>3, <1>4, <1>10
  <2>2. DOMAIN reserveValue[d] \in guest.spans
    BY <1>10 DEF ResvInv, Reservations
  <2>3. DOMAIN reserveValue[d] \subseteq Words
    BY <2>2, SpansAre
  <2>4. (Held(DOMAIN reserveValue[d]) = reserveValue[d])' <=> Held(DOMAIN reserveValue[d]) = reserveValue[d]
    BY <1>7, <1>10, <2>3 DEF Held
  <2>5. Matches(d, DOMAIN reserveValue[d])' <=> Matches(d, DOMAIN reserveValue[d])
    BY <1>7 DEF Matches, Addr, Min
  <2>6. ~Reached(c, d)
    BY <1>4 DEF Reached
  <2>7. Matches(d, DOMAIN reserveValue[d]) => ~Reached(c, d)'
    <3>1. Addr(DOMAIN reserveValue[d]) \in DOMAIN reserveValue[d]
      BY <2>2, SpansAre, AddrIsIn
    <3>2. Matches(d, DOMAIN reserveValue[d]) => reserveAddr[d] \notin S
      BY <1>10, <3>1 DEF Matches
    <3> QED BY <1>7, <1>8, <3>2 DEF Reached
  <2>8. ASSUME NEW u \in Contexts \ {c} PROVE Reached(u, d)' <=> Reached(u, d)
    BY <1>7, <1>8 DEF Reached
  <2> QED BY <1>7, <1>8, <2>1, <2>4, <2>5, <2>6, <2>7, <2>8 DEF Linked
<1>11. ASSUME NEW d \in Contexts PROVE Links'[d] = IF DOMAIN Links[d] \cap S = {} THEN Links[d] ELSE Nothing
  <2>1. CASE ~reserveValid[d]
    <3>1. ~Linked(d) /\ ~Linked(d)'
      BY <1>7, <2>1 DEF Linked
    <3> QED BY <3>1 DEF Links, Nothing
  <2>2. CASE reserveValid[d] /\ DOMAIN reserveValue[d] \cap S # {}
    <3>1. ~Linked(d)'
      BY <1>9, <2>2
    <3> QED BY <2>2, <3>1 DEF Links, Nothing
  <2>3. CASE reserveValid[d] /\ DOMAIN reserveValue[d] \cap S = {}
    BY <1>7, <1>10, <2>3 DEF Links, Nothing
  <2> QED BY <2>1, <2>2, <2>3
<1>12. PICK f \in [S -> Contents] : f = new[c]
  BY <1>2
<1>13. Promised!StoreConditional(c, f)
  <2>1. Links' = [d \in Contexts |-> IF DOMAIN Links[d] \cap S = {} THEN Links[d] ELSE Nothing]
    BY <1>11 DEF Links
  <2>2. DOMAIN f = DOMAIN Links[c] /\ DOMAIN f # {} /\ DOMAIN f = S
    BY <1>3, <1>4, <1>6, <1>12
  <2>3. word' = [w \in Words |-> IF w \in DOMAIN f THEN f[w] ELSE word[w]]
    BY <1>7, <1>12, <2>2
  <2> QED BY <2>1, <2>2, <2>3 DEF Promised!StoreConditional, Promised!Unlinked, Links, Nothing
<1> QED BY <1>3, <1>13 DEF LinkStep, Promised!LsNext

(* At first nothing is linked and nobody is there. *)
LEMMA InitResv == RvInit => ResvInv /\ Promised!LsInit
<1> SUFFICES ASSUME RvInit PROVE ResvInv /\ Promised!LsInit
  OBVIOUS
<1>1. ResvTypes
  BY ResvAssumption DEF RvInit, ResvTypes
<1>2. \A c \in Contexts : at[c] = "off" /\ ~reserveValid[c]
  BY DEF RvInit
<1>3. ResvInv
  BY <1>1, <1>2 DEF RvInit, ResvInv, Reservations, Operands, Blocked, Scans, Enrolled, Stores, Past
<1>4. \A c \in Contexts : ~Linked(c)
  BY <1>2 DEF Linked
<1>5. Links = [c \in Contexts |-> Nothing]
  BY <1>4 DEF Links
<1>6. word \in [Words -> Contents]
  BY <1>1 DEF ResvTypes
<1> QED BY <1>3, <1>5, <1>6 DEF Promised!LsInit, Promised!Unlinked, Links, Nothing

(* Each step keeps the invariant. *)
LEMMA NextResv == Aligned /\ ResvInv /\ [RvNext]_rvVars => ResvInv'
<1> SUFFICES ASSUME Aligned, ResvInv, [RvNext]_rvVars PROVE ResvInv'
  OBVIOUS
<1>1. CASE UNCHANGED rvVars
  BY <1>1 DEF rvVars, contextVars, ResvInv, ResvTypes, Reservations, Operands, Blocked, Scans, Enrolled, Entry, Broken, Addr, Min
<1>2. CASE RvNext
  BY <1>2, StartResv, EnrolResv, SettleResv, LoadResv, LockResv, SwapResv, MissResv, LookPastResv, LookAtResv,
     ClobberResv, NextWordResv, UnlockResv
  DEF RvNext, RvContinue
<1> QED BY <1>1, <1>2

(* Each step is one of the abstract store. *)
LEMMA NextLinks == Aligned /\ ResvInv /\ [RvNext]_rvVars => LinkStep
<1> SUFFICES ASSUME Aligned, ResvInv, [RvNext]_rvVars PROVE LinkStep
  OBVIOUS
<1>1. CASE UNCHANGED rvVars
  <2>1. \A d \in Contexts : Linked(d)' <=> Linked(d)
    BY <1>1 DEF rvVars, contextVars, Linked, Matches, Held, Reached, Addr, Min
  <2> QED BY <1>1, <2>1, KeepLinks DEF rvVars, contextVars
<1>2. CASE RvNext
  BY <1>2, LosingSteps, KeepingSteps, ScanningSteps, ClobberLoses, ReserveLinks, SwapStores DEF RvNext, RvContinue
<1> QED BY <1>1, <1>2

AlignedInv == Aligned /\ ResvInv

(* A conditional store of the runtime succeeds only if nothing was stored    *)
(* under it since its load: whatever the threads and however late the scan   *)
(* of the registry comes to them.                                           *)
THEOREM StoresAreLinked == Aligned /\ RvSpec => ImplementsLinkedStore
<1>1. Aligned /\ RvInit => AlignedInv /\ Promised!LsInit
  BY InitResv DEF AlignedInv
<1>2. AlignedInv /\ [RvNext]_rvVars => AlignedInv' /\ [Promised!LsNext]_<<word, Links>>
  BY NextResv, NextLinks DEF AlignedInv, Aligned, LinkStep
<1>3. Aligned /\ RvSpec => Promised!LsInit /\ [][Promised!LsNext]_<<word, Links>>
  BY <1>1, <1>2, PTL DEF RvSpec
<1> QED BY <1>3, PTL DEF ImplementsLinkedStore, Promised!LinkedStoreSpec, Promised!lsVars, Links
=============================================================================
