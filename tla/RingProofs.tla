----------------------------- MODULE RingProofs -----------------------------
(***************************************************************************)
(* Proofs about the two rings of the project.  The ring buffers of the     *)
(* event queues implement FIFO queues, and hold only what was sent to them *)
(* where queues are taken down in order: the invariant says that what is   *)
(* between head and tail of an open queue was sent, and to it, and that    *)
(* where somebody sleeps each event has a receiver coming.  The audio      *)
(* port's ring of pending notifications keeps the newest: the invariant    *)
(* says which position each slot between its head and tail has.  A guest   *)
(* that answers them in time is heard in order: the invariant counts the   *)
(* events on their way against the positions pending, and says which mix   *)
(* is in each block.                                                       *)
(***************************************************************************)
EXTENDS EventQueue, AudioRing, RingLemmas, WellFoundedInduction, FiniteSetTheorems, TLAPS

-----------------------------------------------------------------------------
(* Event queues *)

Goals == [queue : Nat, gen : Nat]
Links == [active : BOOLEAN, to : Queues \cup {0}, gen : Nat]
Pushing == {t \in Threads : at[t] = "pushing"}

(* Where queues are taken down in order, what is meant for queue q, or for none. *)
Right(q) == {Nowhere, [queue |-> q, gen |-> gen[q]]}
Kept(q) == {e \in 1 .. Len(meant) : tidy => meant[e] \in Right(q)}

(* The ring of a queue holds events that were sent to it. *)
RingFits(q) ==
  /\ capacity[q] \in 1 .. BufMax
  /\ count[q] \in 0 .. capacity[q]
  /\ head[q] \in 0 .. capacity[q] - 1
  /\ tail[q] = Slot(capacity[q], head[q], count[q])
  /\ Keeps(buffer[q], capacity[q], head[q], count[q], Kept(q))

QueueTypes ==
  /\ active \in [Queues -> BOOLEAN] /\ gen \in [Queues -> Nat]
  /\ DOMAIN capacity = Queues /\ DOMAIN head = Queues /\ DOMAIN tail = Queues
  /\ DOMAIN count = Queues /\ DOMAIN buffer = Queues

ThreadTypes ==
  /\ at \in [Threads -> Stations] /\ on \in [Threads -> Queues \cup {0}]
  /\ aim \in [Threads -> Goals]
  /\ \A t \in Threads : at[t] # "idle" => on[t] \in Queues

EqTypes == QueueTypes /\ ThreadTypes /\ port \in [Ports -> Links] /\ meant \in Seq(Goals)

(* Who sends has been counted. *)
SendsCount ==
  /\ IsFiniteSet(Pushing)
  /\ Len(meant) + Cardinality(Pushing) <= MaxEvents

(* Where queues are taken down in order, whoever works on one and whatever is
   connected to one finds it there. *)
InOrder == tidy =>
  /\ \A t \in Threads : at[t] # "idle" => active[on[t]] /\ at[t] # "destroying"
  /\ \A t \in Threads : at[t] = "pushing" => aim[t] \in Right(on[t])
  /\ \A p \in Ports : port[p].active /\ port[p].to # 0 =>
       active[port[p].to] /\ port[p].gen = gen[port[p].to]

EqInv == EqTypes /\ SendsCount /\ \A q \in Queues : active[q] => RingFits(q)

(* The first free slot is one of the free slots. *)
LEMMA FirstOfThem ==
  ASSUME NEW S, S \subseteq Nat, S # {}
  PROVE  Min(S) \in S
<1>1. PICK x \in S : \A y \in S : <<y, x>> \notin OpToRel(<, Nat)
  BY NatLessThanWellFounded, WFMin, Zenon
<1>2. \A y \in S : ~(y < x)
  BY <1>1, Zenon DEF OpToRel
<1>3. \A y \in S : x <= y
  BY <1>2
<1> QED
  BY <1>3 DEF Min

(* A queue's contents change alone. *)
LEMMA OneQueueChanges ==
  ASSUME NEW q \in Queues, NEW x, NEW n,
         \A o \in Queues \ {q} : Fifos'[o] = Fifos[o] /\ Rooms'[o] = Rooms[o],
         Fifos'[q] = x, Rooms'[q] = n
  PROVE  Fifos' = [Fifos EXCEPT ![q] = x] /\ Rooms' = [Rooms EXCEPT ![q] = n]
BY DEF Fifos, Rooms

(* If no queue changes its contents, nothing changes. *)
LEMMA SameQueues ==
  ASSUME \A o \in Queues : Fifos'[o] = Fifos[o] /\ Rooms'[o] = Rooms[o]
  PROVE  Fifos' = Fifos /\ Rooms' = Rooms
BY DEF Fifos, Rooms

(* A step that leaves the table of queues alone changes no contents. *)
LEMMA SameQueueVars ==
  ASSUME UNCHANGED queueVars
  PROVE  Fifos' = Fifos /\ Rooms' = Rooms
BY DEF Fifos, Rooms, Contents, queueVars

(* At the start no slot is filled. *)
LEMMA InitEq == EqInit => EqInv /\ Fifo!FifoInit
<1> SUFFICES ASSUME EqInit PROVE EqInv /\ Fifo!FifoInit
  OBVIOUS
<1>1. Pushing = {}
  BY DEF EqInit, Pushing
<1>2. SendsCount
  BY <1>1, FS_EmptySet, BoundsAssumption DEF EqInit, SendsCount
<1>3. EqTypes
  BY DEF EqInit, EqTypes, QueueTypes, ThreadTypes, Links, Goals, Nowhere, Stations
<1>4. \A q \in Queues : ~active[q]
  BY DEF EqInit
<1> QED BY <1>2, <1>3, <1>4 DEF EqInv, Fifo!FifoInit, Fifos, Rooms

(* Those who push are the same, and nothing was pushed. *)
LEMMA SameSends ==
  ASSUME SendsCount, UNCHANGED meant,
         \A t \in Threads : at'[t] = "pushing" <=> at[t] = "pushing"
  PROVE  SendsCount'
<1>1. Pushing' = Pushing
  BY DEF Pushing
<1> QED BY <1>1 DEF SendsCount

(* The rings fit while the table of queues and the events do not change. *)
LEMMA SameRings ==
  ASSUME UNCHANGED <<queueVars, meant, tidy>>, \A q \in Queues : active[q] => RingFits(q)
  PROVE  \A q \in Queues : active'[q] => RingFits(q)'
BY DEF queueVars, RingFits, Kept, Right

(* An event that is meant for no queue in particular. *)
LEMMA NowhereIsAGoal == Nowhere \in Goals
BY DEF Nowhere, Goals

(* A port that was just created or disconnected. *)
LEMMA LinksMade == Unconnected \in Links
BY DEF Unconnected, Links

(* Calls that only move a thread, or a port. *)
LEMMA QuietSteps ==
  ASSUME EqInv, tidy' = tidy, NEW t \in Threads,
         \/ \E q \in Queues : Receive(t, q) \/ TryReceive(t, q) \/ Drain(t, q)
         \/ SpuriousWake(t) \/ ReceiveExpire(t) \/ ReceiveReturn(t)
         \/ PortCreate(t)
         \/ \E p \in Ports :
              PortDestroy(t, p) \/ PortDisconnect(t, p) \/ \E q \in Queues : PortConnect(t, p, q)
  PROVE  EqInv' /\ UNCHANGED <<Fifos, Rooms>>
<1>1. UNCHANGED <<queueVars, meant>>
  BY DEF Receive, TryReceive, Drain, SpuriousWake, ReceiveExpire, ReceiveReturn, PortCreate, PortDestroy,
     PortDisconnect, PortConnect
<1>2. SendsCount'
  <2>1. \A u \in Threads : at'[u] = "pushing" <=> at[u] = "pushing"
    BY DEF EqInv, EqTypes, ThreadTypes, Receive, TryReceive, Drain, SpuriousWake, ReceiveExpire, ReceiveReturn,
       Enter, Leave, PortCreate, PortDestroy, PortDisconnect, PortConnect, threadVars
  <2> QED BY <1>1, <2>1, SameSends DEF EqInv
<1>3. QueueTypes' /\ meant' \in Seq(Goals)
  BY <1>1 DEF EqInv, EqTypes, QueueTypes, queueVars
<1>4. ThreadTypes' /\ port' \in [Ports -> Links]
  <2> USE DEF EqInv, EqTypes, ThreadTypes, Stations
  <2>1. CASE \E q \in Queues : Receive(t, q) \/ TryReceive(t, q) \/ Drain(t, q)
    BY <2>1 DEF Receive, TryReceive, Drain, Enter
  <2>2. CASE SpuriousWake(t) \/ ReceiveExpire(t)
    BY <2>2 DEF SpuriousWake, ReceiveExpire
  <2>3. CASE ReceiveReturn(t)
    BY <2>3, NowhereIsAGoal DEF ReceiveReturn, Leave
  <2>4. CASE PortCreate(t)
    BY <2>4, LinksMade DEF PortCreate, FreshPort, threadVars
  <2>5. ASSUME NEW p \in Ports,
               PortDestroy(t, p) \/ PortDisconnect(t, p) \/ \E q \in Queues : PortConnect(t, p, q)
        PROVE  ThreadTypes' /\ port' \in [Ports -> Links]
    <3>1. UNCHANGED threadVars
      BY <2>5 DEF PortDestroy, PortDisconnect, PortConnect
    <3>3. port' \in [Ports -> Links]
      <4>1. CASE PortDestroy(t, p)
        BY <4>1 DEF PortDestroy, Links
      <4>2. CASE PortDisconnect(t, p)
        BY <4>2, LinksMade DEF PortDisconnect
      <4>3. ASSUME NEW q \in Queues, PortConnect(t, p, q) PROVE port' \in [Ports -> Links]
        <5>1. [port[p] EXCEPT !.to = q, !.gen = gen[q]] \in Links
          BY DEF Links, QueueTypes
        <5>2. port' = [port EXCEPT ![p] = [port[p] EXCEPT !.to = q, !.gen = gen[q]]]
          BY <4>3 DEF PortConnect, Links
        <5> QED BY <5>1, <5>2
      <4> QED BY <2>5, <4>1, <4>2, <4>3
    <3> QED BY <3>1, <3>3 DEF threadVars
  <2> QED BY <2>1, <2>2, <2>3, <2>4, <2>5
<1> QED BY <1>1, <1>2, <1>3, <1>4, SameRings, SameQueueVars DEF EqInv, EqTypes

(* A send is counted before it pushes. *)
LEMMA SendSteps ==
  ASSUME EqInv, tidy' = tidy, NEW t \in Threads, NEW q \in Queues, NEW goal \in Goals, CanSend(t), SendTo(t, q, goal)
  PROVE  EqInv' /\ UNCHANGED <<Fifos, Rooms>>
<1>1. UNCHANGED <<queueVars, meant>>
  BY DEF SendTo
<1>2. EqTypes'
  BY <1>1 DEF EqInv, EqTypes, QueueTypes, ThreadTypes, SendTo, Enter, Stations, queueVars
<1>3. Pushing' = Pushing \cup {t} /\ t \notin Pushing
  BY DEF EqInv, EqTypes, ThreadTypes, CanSend, SendTo, Enter, Pushing
<1>4. IsFiniteSet(Pushing') /\ Cardinality(Pushing') = Cardinality(Pushing) + 1
  BY <1>3, FS_AddElement DEF EqInv, SendsCount
<1>5. Len(meant) + Cardinality(Pushing) < MaxEvents
  BY DEF CanSend, Pushing
<1>6. Cardinality(Pushing) \in Nat /\ Len(meant) \in Nat
  BY FS_CardinalityType DEF EqInv, SendsCount, EqTypes
<1>7. SendsCount'
  BY <1>1, <1>4, <1>5, <1>6, BoundsAssumption DEF SendsCount
<1> QED BY <1>1, <1>2, <1>7, SameRings, SameQueueVars DEF EqInv

-----------------------------------------------------------------------------
(* What an active queue holds. *)
LEMMA ActiveQueue ==
  ASSUME EqInv, NEW q \in Queues, active[q]
  PROVE  /\ RingFits(q)
         /\ Fifos[q] = Held(buffer[q], capacity[q], head[q], count[q]) /\ Rooms[q] = capacity[q]
         /\ Fifos[q] \in Seq(Kept(q)) /\ Len(Fifos[q]) = count[q]
<1>1. RingFits(q)
  BY DEF EqInv
<1>2. Fifos[q] = Held(buffer[q], capacity[q], head[q], count[q]) /\ Rooms[q] = capacity[q]
  BY DEF Fifos, Rooms, Contents, Held
<1>3. capacity[q] \in Nat \ {0} /\ count[q] \in Nat
  BY <1>1, SizesAssumption DEF RingFits
<1> QED BY <1>1, <1>2, <1>3, HeldSeq DEF RingFits

(* What an inactive queue has in its slot does not matter. *)
LEMMA InactiveQueue ==
  ASSUME NEW q \in Queues, ~active[q], ~active'[q]
  PROVE  Fifos'[q] = Fifos[q] /\ Rooms'[q] = Rooms[q]
BY DEF Fifos, Rooms

(* A queue whose variables do not change holds what it held. *)
LEMMA SameQueue ==
  ASSUME NEW q \in Queues, active'[q] = active[q], capacity'[q] = capacity[q], head'[q] = head[q],
         count'[q] = count[q], buffer'[q] = buffer[q]
  PROVE  Fifos'[q] = Fifos[q] /\ Rooms'[q] = Rooms[q]
BY DEF Fifos, Rooms, Contents

(* The oldest events leave. *)
LEMMA PopTakes ==
  ASSUME EqInv, NEW q \in Queues, NEW k \in Nat \ {0}, k <= count[q], Pop(q, k), UNCHANGED <<meant, tidy>>
  PROVE  /\ QueueTypes'
         /\ \A o \in Queues : active'[o] => RingFits(o)'
         /\ Fifo!FifoNext \/ UNCHANGED <<Fifos, Rooms>>
<1>1. QueueTypes'
  BY DEF EqInv, EqTypes, QueueTypes, Pop
<1>2. ASSUME NEW o \in Queues \ {q}
      PROVE  (active'[o] => RingFits(o)') /\ Fifos'[o] = Fifos[o] /\ Rooms'[o] = Rooms[o]
  <2>1. UNCHANGED <<active, capacity, tail, buffer, meant>> /\ head'[o] = head[o] /\ count'[o] = count[o]
    BY DEF EqInv, EqTypes, QueueTypes, Pop
  <2>2. Kept(o)' = Kept(o)
    BY DEF Pop, Kept, Right
  <2> QED BY <2>1, <2>2, SameQueue DEF EqInv, RingFits
<1>3. CASE ~active[q]
  <2>1. ~active'[q]
    BY <1>3 DEF Pop
  <2> QED BY <1>1, <1>2, <1>3, <2>1, InactiveQueue, SameQueues
<1>4. CASE active[q]
  <2> DEFINE n == capacity[q]  h == head[q]  c == count[q]
  <2>1. /\ n \in Nat \ {0} /\ h \in 0 .. n - 1 /\ c \in 0 .. n /\ k \in 0 .. c /\ n <= BufMax
        /\ Keeps(buffer[q], n, h, c, Kept(q)) /\ tail[q] = Slot(n, h, c)
    BY <1>4, SizesAssumption DEF EqInv, RingFits
  <2>2. /\ UNCHANGED <<active, capacity, tail, buffer, meant>>
        /\ head'[q] = Slot(n, h, k) /\ count'[q] = c - k
    BY DEF EqInv, EqTypes, QueueTypes, Pop, Slot
  <2> HIDE DEF n, h, c
  <2>3. /\ Held(buffer[q], n, Slot(n, h, k), c - k)
             = SubSeq(Held(buffer[q], n, h, c), k + 1, Len(Held(buffer[q], n, h, c)))
        /\ Keeps(buffer[q], n, Slot(n, h, k), c - k, Kept(q))
    BY <2>1, HeldTake
  <2>4. Slot(n, h, k) \in 0 .. n - 1 /\ c - k \in 0 .. n
    BY <2>1, SlotRange
  <2>5. Slot(n, Slot(n, h, k), c - k) = Slot(n, h, c)
    BY <2>1, SlotsAdd, k + (c - k) = c
  <2>6. RingFits(q)'
    <3>1. Kept(q)' = Kept(q)
      BY DEF Pop, Kept, Right
    <3> QED BY <2>1, <2>2, <2>3, <2>4, <2>5, <3>1, SizesAssumption DEF RingFits, n, h, c
  <2>7. Fifos[q] = Held(buffer[q], n, h, c) /\ Rooms[q] = n /\ Len(Fifos[q]) = c
    BY <1>4, ActiveQueue DEF n, h, c
  <2>8. Fifos'[q] = Held(buffer[q], n, Slot(n, h, k), c - k) /\ Rooms'[q] = Rooms[q]
    BY <1>4, <2>2 DEF Fifos, Rooms, Contents, Held, n
  <2>9. Fifos'[q] = SubSeq(Fifos[q], k + 1, Len(Fifos[q]))
    BY <2>3, <2>7, <2>8
  <2>10. Fifos' = [Fifos EXCEPT ![q] = SubSeq(Fifos[q], k + 1, Len(Fifos[q]))] /\ Rooms' = Rooms
    <3>1. Fifos' = [Fifos EXCEPT ![q] = SubSeq(Fifos[q], k + 1, Len(Fifos[q]))]
          /\ Rooms' = [Rooms EXCEPT ![q] = Rooms[q]]
      BY <1>2, <2>8, <2>9, OneQueueChanges
    <3> QED BY <3>1 DEF Rooms
  <2>11. Fifo!Take(q, k) /\ k \in 1 .. Len(Fifos[q])
    BY <2>1, <2>7, <2>10 DEF Fifo!Take
  <2> QED BY <1>1, <1>2, <2>6, <2>11 DEF Fifo!FifoNext
<1> QED BY <1>3, <1>4

(* A receive or tryreceive that has the lock takes the oldest events or none. *)
LEMMA ReceiveSteps ==
  ASSUME EqInv, tidy' = tidy, NEW t \in Threads, ReceiveLoop(t) \/ \E k \in 0 .. BufMax : TryReceiveTake(t, k)
  PROVE  EqInv' /\ (Fifo!FifoNext \/ UNCHANGED <<Fifos, Rooms>>)
<1>1. PICK q \in Queues : q = on[t] /\ at[t] # "idle" /\ at[t] # "pushing"
  BY DEF ReceiveLoop, TryReceiveTake, EqInv, EqTypes, ThreadTypes
<1>2. UNCHANGED <<port, meant>>
  BY DEF ReceiveLoop, TryReceiveTake
<1>3. ThreadTypes'
  BY <1>1, NowhereIsAGoal DEF ReceiveLoop, TryReceiveTake, Leave, EqInv, EqTypes, ThreadTypes, Stations
<1>4. SendsCount'
  <2>1. \A u \in Threads : at'[u] = "pushing" <=> at[u] = "pushing"
    BY <1>1 DEF ReceiveLoop, TryReceiveTake, Leave, EqInv, EqTypes, ThreadTypes
  <2> QED BY <1>2, <2>1, SameSends DEF EqInv
<1>5. UNCHANGED queueVars \/ \E k \in Nat \ {0} : k <= count[q] /\ Pop(q, k)
  <2>1. CASE ReceiveLoop(t)
    <3>1. UNCHANGED queueVars \/ (active[q] /\ count[q] > 0 /\ Pop(q, 1))
      BY <1>1, <2>1 DEF ReceiveLoop
    <3>2. active[q] => count[q] \in Nat
      BY <1>1, SizesAssumption DEF EqInv, RingFits
    <3> QED BY <3>1, <3>2
  <2>2. CASE \E k \in 0 .. BufMax : TryReceiveTake(t, k)
    BY <1>1, <2>2, SizesAssumption DEF TryReceiveTake
  <2> QED BY <2>1, <2>2
<1>6. CASE UNCHANGED queueVars
  <2>1. QueueTypes'
    BY <1>6 DEF EqInv, EqTypes, QueueTypes, queueVars
  <2> QED BY <1>2, <1>3, <1>4, <1>6, <2>1, SameRings, SameQueueVars DEF EqInv, EqTypes
<1>7. CASE \E k \in Nat \ {0} : k <= count[q] /\ Pop(q, k)
  BY <1>1, <1>2, <1>3, <1>4, <1>7, PopTakes DEF EqInv, EqTypes
<1> QED BY <1>5, <1>6, <1>7

(* The slot of a queue is emptied. *)
LEMMA DrainSteps ==
  ASSUME EqInv, tidy' = tidy, NEW t \in Threads, DrainAll(t)
  PROVE  EqInv' /\ (Fifo!FifoNext \/ UNCHANGED <<Fifos, Rooms>>)
<1>1. PICK q \in Queues : q = on[t] /\ at[t] = "draining"
  BY DEF DrainAll, EqInv, EqTypes, ThreadTypes
<1>2. UNCHANGED <<active, capacity, buffer, gen, port, meant>>
  BY DEF DrainAll
<1>3. ThreadTypes' /\ QueueTypes'
  BY <1>1, NowhereIsAGoal DEF DrainAll, Leave, EqInv, EqTypes, ThreadTypes, QueueTypes, Stations
<1>4. SendsCount'
  <2>1. \A u \in Threads : at'[u] = "pushing" <=> at[u] = "pushing"
    BY <1>1 DEF DrainAll, Leave, EqInv, EqTypes, ThreadTypes
  <2> QED BY <1>2, <2>1, SameSends DEF EqInv
<1>5. /\ \A o \in Queues \ {q} : head'[o] = head[o] /\ tail'[o] = tail[o] /\ count'[o] = count[o]
      /\ head'[q] = 0 /\ tail'[q] = 0 /\ count'[q] = 0
  BY <1>1 DEF DrainAll, EqInv, EqTypes, QueueTypes
<1>6. ASSUME NEW o \in Queues \ {q}
      PROVE  (active'[o] => RingFits(o)') /\ Fifos'[o] = Fifos[o] /\ Rooms'[o] = Rooms[o]
  <2>1. Kept(o)' = Kept(o)
    BY <1>2 DEF Kept, Right
  <2> QED BY <1>2, <1>5, <2>1, SameQueue DEF EqInv, RingFits
<1>7. CASE ~active[q]
  BY <1>1, <1>2, <1>3, <1>4, <1>6, <1>7, InactiveQueue, SameQueues DEF EqInv, EqTypes
<1>8. CASE active[q]
  <2> DEFINE n == capacity[q]
  <2>1. n \in Nat \ {0} /\ n \in 1 .. BufMax /\ DOMAIN buffer[q] = 0 .. n - 1 /\ count[q] \in Nat
    BY <1>1, <1>8, SizesAssumption DEF EqInv, RingFits, Keeps
  <2>2. RingFits(q)'
    <3>1. Slot(n, 0, 0) = 0 /\ 0 \in 0 .. n - 1 /\ 0 \in 0 .. n
      BY <2>1, SlotNowhere
    <3>2. Keeps(buffer[q], n, 0, 0, Kept(q)')
      BY <2>1 DEF Keeps
    <3> QED BY <1>2, <1>5, <2>1, <3>1, <3>2 DEF RingFits
  <2>3. Fifos'[q] = <<>> /\ Rooms'[q] = Rooms[q]
    BY <1>1, <1>2, <1>5, <1>8 DEF Fifos, Rooms, Contents
  <2>4. Fifos[q] \in Seq(Kept(q)) /\ Len(Fifos[q]) = count[q]
    BY <1>1, <1>8, ActiveQueue
  <2>5. CASE count[q] = 0
    <3>1. Fifos[q] = <<>>
      BY <2>4, <2>5, EmptySeq
    <3> QED BY <1>1, <1>2, <1>3, <1>4, <1>6, <2>2, <2>3, <3>1, SameQueues DEF EqInv, EqTypes
  <2>6. CASE count[q] # 0
    <3> DEFINE k == Len(Fifos[q])
    <3>1. k \in 1 .. k
      BY <2>1, <2>4, <2>6
    <3>2. SubSeq(Fifos[q], k + 1, k) = <<>>
      BY <2>1, <2>4, SubSeqEmpty
    <3>3. Fifos' = [Fifos EXCEPT ![q] = SubSeq(Fifos[q], k + 1, k)] /\ Rooms' = Rooms
      <4>1. Fifos' = [Fifos EXCEPT ![q] = SubSeq(Fifos[q], k + 1, k)]
            /\ Rooms' = [Rooms EXCEPT ![q] = Rooms[q]]
        <5> DEFINE rest == SubSeq(Fifos[q], k + 1, k)
        <5>1. Fifos'[q] = rest
          BY <2>3, <3>2
        <5> HIDE DEF rest
        <5>2. Fifos' = [Fifos EXCEPT ![q] = rest] /\ Rooms' = [Rooms EXCEPT ![q] = Rooms[q]]
          BY <1>6, <2>3, <5>1, OneQueueChanges
        <5> QED BY <5>2 DEF rest
      <4> QED BY <4>1 DEF Rooms
    <3>4. Fifo!Take(q, k)
      BY <3>3 DEF Fifo!Take
    <3> QED BY <1>1, <1>2, <1>3, <1>4, <1>6, <2>2, <3>1, <3>4 DEF EqInv, EqTypes, Fifo!FifoNext
  <2> QED BY <2>5, <2>6
<1> QED BY <1>7, <1>8

-----------------------------------------------------------------------------
(* A push is over: it was counted, and its event is one of those allowed. *)
LEMMA PushCounts ==
  ASSUME EqInv, tidy' = tidy, NEW t \in Threads, at[t] = "pushing",
         \A u \in Threads : at'[u] = "pushing" <=> at[u] = "pushing" /\ u # t,
         \/ UNCHANGED meant
         \/ Len(meant') = Len(meant) + 1
  PROVE  SendsCount' /\ Len(meant) + 1 \in 1 .. MaxEvents
<1>1. Pushing' = Pushing \ {t} /\ t \in Pushing
  BY DEF Pushing
<1>2. IsFiniteSet(Pushing') /\ Cardinality(Pushing') = Cardinality(Pushing) - 1
  BY <1>1, FS_RemoveElement DEF EqInv, SendsCount
<1>3. Cardinality(Pushing) \in Nat /\ Cardinality(Pushing') \in Nat /\ Len(meant) \in Nat
  BY <1>2, FS_CardinalityType DEF EqInv, SendsCount, EqTypes
<1> QED BY <1>2, <1>3, BoundsAssumption DEF EqInv, SendsCount

(* More events may be sent than a ring knows of. *)
LEMMA RingsGrow ==
  ASSUME NEW buf, NEW n, NEW h, NEW c, NEW S, NEW T, S \subseteq T, Keeps(buf, n, h, c, S)
  PROVE  Keeps(buf, n, h, c, T)
BY DEF Keeps

(* A push of an event for the queue it is aimed at adds to what is meant for
   that queue, and takes from none. *)
LEMMA KeptGrows ==
  ASSUME EqInv, NEW o \in Queues, NEW goal \in Goals, meant' = Append(meant, goal), UNCHANGED <<gen, tidy>>
  PROVE  /\ Kept(o) \subseteq Kept(o)'
         /\ (tidy => goal \in Right(o)) => Len(meant) + 1 \in Kept(o)'
<1>1. meant \in Seq(Goals) /\ Len(meant) \in Nat
  BY DEF EqInv, EqTypes
<1>2. /\ Len(meant') = Len(meant) + 1
      /\ \A i \in 1 .. Len(meant) : meant'[i] = meant[i]
      /\ meant'[Len(meant) + 1] = goal
  BY <1>1, AppendProperties
<1>3. Right(o)' = Right(o)
  BY DEF Right
<1> QED BY <1>1, <1>2, <1>3 DEF Kept

(* The half of a push that stores: its event goes behind the others. *)
LEMMA StoreSteps ==
  ASSUME EqInv, InOrder, tidy' = tidy, NEW t \in Threads, NEW q \in Queues, q = on[t], at[t] = "pushing",
         count[q] < capacity[q],
         meant' = Append(meant, aim[t]),
         buffer' = [buffer EXCEPT ![q][tail[q]] = Len(meant')],
         tail' = [tail EXCEPT ![q] = (@ + 1) % capacity[q]],
         count' = [count EXCEPT ![q] = @ + 1],
         UNCHANGED <<active, gen, capacity, head>>,
         Len(meant) + 1 \in 1 .. MaxEvents
  PROVE  /\ QueueTypes' /\ meant' \in Seq(Goals)
         /\ \A o \in Queues : active'[o] => RingFits(o)'
         /\ Fifo!FifoNext \/ UNCHANGED <<Fifos, Rooms>>
<1> DEFINE e == Len(meant) + 1
<1>1. Len(meant) \in Nat /\ Len(meant') = e /\ meant' \in Seq(Goals)
  BY AppendProperties DEF EqInv, EqTypes, ThreadTypes
<1>2. QueueTypes'
  BY DEF EqInv, EqTypes, QueueTypes
<1>3. ASSUME NEW o \in Queues \ {q}
      PROVE  (active'[o] => RingFits(o)') /\ Fifos'[o] = Fifos[o] /\ Rooms'[o] = Rooms[o]
  <2>1. UNCHANGED <<active, capacity, head>> /\ tail'[o] = tail[o] /\ count'[o] = count[o] /\ buffer'[o] = buffer[o]
    BY DEF EqInv, EqTypes, QueueTypes
  <2>2. active[o] => RingFits(o)'
    <3>1. active[o] => RingFits(o) /\ Keeps(buffer[o], capacity[o], head[o], count[o], Kept(o)')
      <4>1. Kept(o) \subseteq Kept(o)'
        BY KeptGrows DEF EqInv, EqTypes, ThreadTypes
      <4> QED BY <4>1, RingsGrow DEF EqInv, RingFits
    <3> HIDE DEF e
    <3> QED BY <1>1, <2>1, <3>1 DEF RingFits
  <2> QED BY <2>1, <2>2, SameQueue
<1>4. CASE ~active[q]
  BY <1>1, <1>2, <1>3, <1>4, InactiveQueue, SameQueues
<1>5. CASE active[q]
  <2> DEFINE n == capacity[q]  h == head[q]  c == count[q]  b == buffer[q]
             b2 == [b EXCEPT ![Slot(n, h, c)] = e]
  <2>1. /\ n \in Nat \ {0} /\ n <= BufMax /\ h \in 0 .. n - 1 /\ c \in 0 .. n - 1 /\ c \in 0 .. n
        /\ Keeps(b, n, h, c, Kept(q)) /\ tail[q] = Slot(n, h, c)
    BY <1>5, SizesAssumption DEF EqInv, RingFits
  <2>2. buffer'[q] = b2 /\ tail'[q] = Slot(n, Slot(n, h, c), 1) /\ count'[q] = c + 1
    BY <1>1, <2>1 DEF EqInv, EqTypes, QueueTypes, Slot
  <2> HIDE DEF n, h, c, b
  <2>3. Kept(q) \subseteq Kept(q)' /\ e \in Kept(q)'
    <3>1. tidy => aim[t] \in Right(q)
      BY DEF InOrder
    <3> QED BY <3>1, KeptGrows DEF EqInv, EqTypes, ThreadTypes
  <2>4. Keeps(b, n, h, c, Kept(q)')
    BY <2>1, <2>3, RingsGrow
  <2>5. Held(b2, n, h, c + 1) = Append(Held(b, n, h, c), e) /\ Keeps(b2, n, h, c + 1, Kept(q)')
    BY <2>1, <2>3, <2>4, HeldPut
  <2>6. tail'[q] = Slot(n, h, c + 1)
    BY <2>1, <2>2, SlotsAdd
  <2> HIDE DEF e, b2
  <2>7. RingFits(q)'
    <3>1. capacity'[q] = n /\ head'[q] = h /\ n \in 1 .. BufMax /\ c + 1 \in 0 .. n
      BY <2>1, SizesAssumption DEF n, h
    <3> QED BY <1>1, <2>1, <2>2, <2>5, <2>6, <3>1 DEF RingFits
  <2>8. Fifos[q] = Held(b, n, h, c) /\ Len(Fifos[q]) = c /\ Rooms[q] = n
    BY <1>5, ActiveQueue DEF n, h, c, b
  <2>9. Fifos'[q] = Held(b2, n, h, c + 1) /\ Rooms'[q] = Rooms[q]
    <3>1. active'[q] /\ capacity'[q] = n /\ head'[q] = h
      BY <1>5 DEF n, h
    <3>2. Rooms'[q] = n
      BY <3>1 DEF Rooms
    <3>3. Fifos'[q] = Held(b2, n, h, c + 1)
      <4>1. Fifos'[q] = [i \in 1 .. count'[q] |-> buffer'[q][(head'[q] + i - 1) % capacity'[q]]]
        BY <3>1 DEF Fifos, Contents
      <4> QED BY <2>2, <3>1, <4>1 DEF Held
    <3> QED BY <2>8, <3>2, <3>3
  <2>10. Fifos' = [Fifos EXCEPT ![q] = Append(Fifos[q], e)] /\ Rooms' = Rooms
    <3>1. Fifos' = [Fifos EXCEPT ![q] = Append(Fifos[q], e)]
          /\ Rooms' = [Rooms EXCEPT ![q] = Rooms[q]]
      BY <1>3, <2>5, <2>8, <2>9, OneQueueChanges
    <3> QED BY <3>1 DEF Rooms
  <2>11. e \in 1 .. MaxEvents /\ Len(Fifos[q]) < Rooms[q]
    BY <2>1, <2>8 DEF e
  <2>12. Fifo!Put(q)
    BY <2>10, <2>11 DEF Fifo!Put
  <2> QED BY <1>1, <1>2, <1>3, <2>7, <2>12 DEF Fifo!FifoNext
<1> QED BY <1>4, <1>5

(* A push stores its event, or finds the queue full and changes nothing. *)
LEMMA PushSteps ==
  ASSUME EqInv, InOrder, tidy' = tidy, NEW t \in Threads, Push(t)
  PROVE  EqInv' /\ (Fifo!FifoNext \/ UNCHANGED <<Fifos, Rooms>>)
<1>1. PICK q \in Queues : q = on[t] /\ at[t] = "pushing"
  BY DEF Push, EqInv, EqTypes, ThreadTypes
<1>2. port' = port
  BY DEF Push
<1>3. CASE Leave(t) /\ UNCHANGED <<queueVars, meant>>
  <2>1. SendsCount'
    BY <1>1, <1>3, PushCounts DEF Leave, EqInv, EqTypes, ThreadTypes
  <2>2. ThreadTypes' /\ QueueTypes'
    BY <1>3, NowhereIsAGoal DEF Leave, EqInv, EqTypes, ThreadTypes, QueueTypes, Stations, queueVars
  <2> QED BY <1>2, <1>3, <2>1, <2>2, SameRings, SameQueueVars DEF EqInv, EqTypes
<1>4. ASSUME count[q] < capacity[q], meant' = Append(meant, aim[t]),
             buffer' = [buffer EXCEPT ![q][tail[q]] = Len(meant')],
             tail' = [tail EXCEPT ![q] = (@ + 1) % capacity[q]],
             count' = [count EXCEPT ![q] = @ + 1],
             NEW woken \in SUBSET At("asleep", q),
             at' = [u \in Threads |-> IF u = t THEN "idle" ELSE IF u \in woken THEN "entering" ELSE at[u]],
             on' = [on EXCEPT ![t] = 0], aim' = [aim EXCEPT ![t] = Nowhere],
             UNCHANGED <<active, gen, capacity, head, timed>>
      PROVE  EqInv' /\ (Fifo!FifoNext \/ UNCHANGED <<Fifos, Rooms>>)
  <2>1. \A u \in woken : at[u] = "asleep"
    BY DEF At
  <2>2. ThreadTypes'
    BY <1>4, <2>1, NowhereIsAGoal DEF EqInv, EqTypes, ThreadTypes, Stations
  <2>3. Len(meant') = Len(meant) + 1
    BY <1>4, AppendProperties DEF EqInv, EqTypes, ThreadTypes
  <2>4. SendsCount' /\ Len(meant) + 1 \in 1 .. MaxEvents
    <3>1. \A u \in Threads : at'[u] = "pushing" <=> at[u] = "pushing" /\ u # t
      BY <1>4, <2>1 DEF EqInv, EqTypes, ThreadTypes
    <3> QED BY <1>1, <2>3, <3>1, PushCounts
  <2>5. /\ QueueTypes' /\ meant' \in Seq(Goals)
        /\ \A o \in Queues : active'[o] => RingFits(o)'
        /\ Fifo!FifoNext \/ UNCHANGED <<Fifos, Rooms>>
    BY <1>1, <1>4, <2>4, StoreSteps
  <2> QED BY <1>2, <2>2, <2>4, <2>5 DEF EqInv, EqTypes
<1> QED BY <1>1, <1>3, <1>4 DEF Push

-----------------------------------------------------------------------------
(* A slot is filled: the queue in it is empty. *)
LEMMA CreateSteps ==
  ASSUME EqInv, tidy' = tidy, NEW t \in Threads, NEW size \in Sizes, QueueCreate(t, size)
  PROVE  EqInv' /\ Fifo!FifoNext
<1>1. PICK q : q = Min(FreeSlots)
  OBVIOUS
<1>2. q \in Queues /\ ~active[q]
  <2>1. FreeSlots # {} /\ FreeSlots \subseteq Queues /\ FreeSlots \subseteq Nat
    BY IdsAssumption DEF QueueCreate, FreeSlots
  <2>2. Min(FreeSlots) \in FreeSlots
    BY <2>1, FirstOfThem
  <2> QED BY <1>1, <2>2 DEF FreeSlots
<1>3. PICK c : c = Clamp(size)
  OBVIOUS
<1>4. c \in 1 .. BufMax /\ c \in Nat \ {0}
  BY <1>3, SizesAssumption DEF Clamp
<1>5. /\ gen' = [gen EXCEPT ![q] = @ + 1] /\ active' = [active EXCEPT ![q] = TRUE]
      /\ capacity' = [capacity EXCEPT ![q] = c] /\ head' = [head EXCEPT ![q] = 0]
      /\ tail' = [tail EXCEPT ![q] = 0] /\ count' = [count EXCEPT ![q] = 0]
      /\ buffer' = [buffer EXCEPT ![q] = [i \in 0 .. c - 1 |-> 0]]
      /\ UNCHANGED <<port, threadVars, meant>>
  BY <1>1, <1>3 DEF QueueCreate
<1>6. QueueTypes'
  BY <1>2, <1>5 DEF EqInv, EqTypes, QueueTypes
<1>7. ThreadTypes' /\ port' \in [Ports -> Links] /\ meant' \in Seq(Goals) /\ SendsCount'
  <2>1. SendsCount'
    BY <1>5, SameSends DEF EqInv, threadVars
  <2> QED BY <1>5, <2>1 DEF EqInv, EqTypes, ThreadTypes, threadVars
<1>8. /\ active'[q] /\ capacity'[q] = c /\ head'[q] = 0 /\ tail'[q] = 0 /\ count'[q] = 0
      /\ buffer'[q] = [i \in 0 .. c - 1 |-> 0]
  BY <1>2, <1>5 DEF EqInv, EqTypes, QueueTypes
<1>9. ASSUME NEW o \in Queues \ {q}
      PROVE  (active'[o] => RingFits(o)') /\ Fifos'[o] = Fifos[o] /\ Rooms'[o] = Rooms[o]
  <2>1. /\ active'[o] = active[o] /\ capacity'[o] = capacity[o] /\ head'[o] = head[o] /\ tail'[o] = tail[o]
        /\ count'[o] = count[o] /\ buffer'[o] = buffer[o] /\ meant' = meant /\ gen'[o] = gen[o]
    BY <1>5 DEF EqInv, EqTypes, QueueTypes
  <2>2. Kept(o)' = Kept(o)
    BY <2>1 DEF Kept, Right
  <2> QED BY <2>1, <2>2, SameQueue DEF EqInv, RingFits
<1>10. RingFits(q)'
  <2>1. Slot(c, 0, 0) = 0 /\ 0 \in 0 .. c - 1 /\ 0 \in 0 .. c
    BY <1>4, SlotNowhere
  <2>2. Keeps([i \in 0 .. c - 1 |-> 0], c, 0, 0, Kept(q)')
    BY <1>4 DEF Keeps
  <2> QED BY <1>4, <1>8, <2>1, <2>2 DEF RingFits
<1>11. Fifos'[q] = <<>> /\ Rooms'[q] = c /\ Rooms[q] = 0
  <2>1. Fifos'[q] = [i \in 1 .. count'[q] |-> buffer'[q][(head'[q] + i - 1) % capacity'[q]]]
    BY <1>2, <1>8 DEF Fifos, Contents
  <2> QED BY <1>2, <1>8, <2>1 DEF Rooms
<1>12. Fifo!EmptyQueue(q, c)
  BY <1>2, <1>9, <1>11, OneQueueChanges DEF Fifo!EmptyQueue
<1> QED BY <1>2, <1>4, <1>6, <1>7, <1>9, <1>10, <1>11, <1>12 DEF EqInv, EqTypes, Fifo!FifoNext, Fifo!Open

(* A slot is left. *)
LEMMA QueueCloses ==
  ASSUME EqInv, NEW q \in Queues, active' = [active EXCEPT ![q] = FALSE],
         UNCHANGED <<gen, capacity, head, tail, count, buffer, meant, tidy>>
  PROVE  /\ QueueTypes'
         /\ \A o \in Queues : active'[o] => RingFits(o)'
         /\ Fifo!FifoNext \/ UNCHANGED <<Fifos, Rooms>>
<1>1. QueueTypes' /\ ~active'[q]
  BY DEF EqInv, EqTypes, QueueTypes
<1>2. ASSUME NEW o \in Queues \ {q}
      PROVE  (active'[o] => RingFits(o)') /\ Fifos'[o] = Fifos[o] /\ Rooms'[o] = Rooms[o]
  <2>1. active'[o] = active[o] /\ Kept(o)' = Kept(o)
    BY DEF EqInv, EqTypes, QueueTypes, Kept, Right
  <2> QED BY <2>1, SameQueue DEF EqInv, RingFits
<1>3. CASE ~active[q]
  BY <1>1, <1>2, <1>3, InactiveQueue, SameQueues
<1>4. CASE active[q]
  <2>1. Fifos'[q] = <<>> /\ Rooms'[q] = 0
    BY <1>1 DEF Fifos, Rooms
  <2>2. Rooms[q] # 0
    BY <1>4, ActiveQueue, SizesAssumption DEF RingFits
  <2>3. Fifo!EmptyQueue(q, 0)
    BY <1>2, <2>1, OneQueueChanges DEF Fifo!EmptyQueue
  <2> QED BY <1>1, <1>2, <2>2, <2>3 DEF Fifo!FifoNext, Fifo!Close
<1> QED BY <1>3, <1>4

(* A destroy empties its slot, or waits for those who sleep. *)
LEMMA DestroySteps ==
  ASSUME EqInv, tidy' = tidy, NEW t \in Threads, QueueDestroyed(t) \/ \E q \in Queues : QueueDestroy(t, q)
  PROVE  EqInv' /\ (Fifo!FifoNext \/ UNCHANGED <<Fifos, Rooms>>)
<1>1. UNCHANGED <<gen, capacity, head, tail, count, buffer, port, meant>>
  BY DEF QueueDestroy, QueueDestroyed
<1>2. SendsCount'
  <2>1. \A u \in Threads : at'[u] = "pushing" <=> at[u] = "pushing"
    BY DEF QueueDestroy, QueueDestroyed, Enter, Leave, At, EqInv, EqTypes, ThreadTypes
  <2> QED BY <1>1, <2>1, SameSends DEF EqInv
<1>3. ThreadTypes'
  <2> USE DEF EqInv, EqTypes, ThreadTypes, Stations
  <2>1. CASE QueueDestroyed(t)
    BY <2>1, NowhereIsAGoal DEF QueueDestroyed, Leave
  <2>2. ASSUME NEW q \in Queues, Enter(t, "destroying", q), UNCHANGED aim PROVE ThreadTypes'
    BY <2>2 DEF Enter
  <2>3. ASSUME NEW q \in Queues,
               at' = [u \in Threads |-> IF u \in At("asleep", q) THEN "orphan" ELSE at[u]],
               UNCHANGED <<on, aim>>
        PROVE  ThreadTypes'
    BY <2>3 DEF At
  <2> QED BY <2>1, <2>2, <2>3 DEF QueueDestroy
<1>4. UNCHANGED active \/ \E o \in Queues : active' = [active EXCEPT ![o] = FALSE]
  BY DEF QueueDestroy, QueueDestroyed, EqInv, EqTypes, ThreadTypes
<1>5. CASE UNCHANGED active
  <2>1. UNCHANGED queueVars /\ QueueTypes'
    BY <1>1, <1>5 DEF queueVars, EqInv, EqTypes, QueueTypes
  <2> QED BY <1>1, <1>2, <1>3, <2>1, SameRings, SameQueueVars DEF EqInv, EqTypes
<1>6. CASE \E o \in Queues : active' = [active EXCEPT ![o] = FALSE]
  BY <1>1, <1>2, <1>3, <1>6, QueueCloses DEF EqInv, EqTypes
<1> QED BY <1>4, <1>5, <1>6

(* The sends of the guest and of host code. *)
LEMMA SendCalls ==
  ASSUME EqInv, tidy' = tidy, NEW t \in Threads,
         \/ \E p \in Ports : PortSend(t, p) \/ PortRoute(t, p)
         \/ \E q \in Queues : PushById(t, q)
  PROVE  EqInv' /\ UNCHANGED <<Fifos, Rooms>>
<1>1. ASSUME NEW p \in Ports, PortSend(t, p) PROVE EqInv' /\ UNCHANGED <<Fifos, Rooms>>
  <2>1. port[p] \in Links /\ port[p].to # 0
    BY <1>1 DEF PortSend, EqInv, EqTypes
  <2>2. port[p].to \in Queues /\ [queue |-> port[p].to, gen |-> port[p].gen] \in Goals
    BY <2>1, IdsAssumption DEF Links, Goals
  <2> QED BY <1>1, <2>2, SendSteps DEF PortSend
<1>2. ASSUME NEW p \in Ports, PortRoute(t, p) PROVE EqInv' /\ UNCHANGED <<Fifos, Rooms>>
  BY <1>2, NowhereIsAGoal, SendSteps DEF PortRoute
<1>3. ASSUME NEW q \in Queues, PushById(t, q) PROVE EqInv' /\ UNCHANGED <<Fifos, Rooms>>
  <2>1. [queue |-> q, gen |-> gen[q]] \in Goals
    BY IdsAssumption DEF Goals, EqInv, EqTypes, QueueTypes
  <2> QED BY <1>3, <2>1, SendSteps DEF PushById
<1> QED BY <1>1, <1>2, <1>3

(* Every step keeps the rings fitting and is one of a FIFO queue, or none. *)
LEMMA NextEq ==
  ASSUME EqInv, InOrder, EqNext
  PROVE  EqInv' /\ (Fifo!FifoNext \/ UNCHANGED <<Fifos, Rooms>>)
<1>0. tidy' = tidy
  BY DEF EqNext
<1>1. CASE \E t \in Threads : Continue(t) \/ SpuriousWake(t)
  <2> SUFFICES ASSUME NEW t \in Threads, Continue(t) \/ SpuriousWake(t)
               PROVE  EqInv' /\ (Fifo!FifoNext \/ UNCHANGED <<Fifos, Rooms>>)
    BY <1>1
  <2>1. CASE ReceiveLoop(t) \/ \E k \in 0 .. BufMax : TryReceiveTake(t, k)
    BY <1>0, <2>1, ReceiveSteps
  <2>2. CASE DrainAll(t)
    BY <1>0, <2>2, DrainSteps
  <2>3. CASE Push(t)
    BY <1>0, <2>3, PushSteps
  <2>4. CASE ReceiveExpire(t) \/ ReceiveReturn(t) \/ SpuriousWake(t)
    BY <1>0, <2>4, QuietSteps
  <2>5. CASE QueueDestroyed(t)
    BY <1>0, <2>5, DestroySteps
  <2> QED BY <2>1, <2>2, <2>3, <2>4, <2>5 DEF Continue
<1>2. CASE \E t \in Receivers, q \in Queues : Receive(t, q) \/ TryReceive(t, q) \/ Drain(t, q)
  BY <1>0, <1>2, QuietSteps DEF Threads
<1>3. CASE \E t \in Senders : SendersStep(t)
  <2> SUFFICES ASSUME NEW t \in Threads, SendersStep(t)
               PROVE  EqInv' /\ (Fifo!FifoNext \/ UNCHANGED <<Fifos, Rooms>>)
    BY <1>3 DEF Threads
  <2>1. CASE \E size \in Sizes : QueueCreate(t, size)
    BY <1>0, <2>1, CreateSteps
  <2>2. CASE \E q \in Queues : QueueDestroy(t, q)
    BY <1>0, <2>2, DestroySteps
  <2>3. CASE \E q \in Queues : PushById(t, q)
    BY <1>0, <2>3, SendCalls
  <2>4. CASE \E p \in Ports : PortSend(t, p) \/ PortRoute(t, p)
    BY <1>0, <2>4, SendCalls
  <2>5. CASE PortCreate(t) \/ \E p \in Ports :
               PortDestroy(t, p) \/ PortDisconnect(t, p) \/ \E q \in Queues : PortConnect(t, p, q)
    BY <1>0, <2>5, QuietSteps
  <2> QED BY <2>1, <2>2, <2>3, <2>4, <2>5 DEF SendersStep
<1> QED BY <1>1, <1>2, <1>3 DEF EqNext

(* A step of somebody else. *)
LEMMA SameEq == ASSUME EqInv, UNCHANGED vars PROVE EqInv' /\ UNCHANGED <<Fifos, Rooms>>
<1>1. UNCHANGED <<tidy, queueVars, port, threadVars, meant>>
  BY DEF vars
<1>2. EqTypes'
  BY <1>1 DEF EqInv, EqTypes, QueueTypes, ThreadTypes, queueVars, threadVars
<1>3. SendsCount'
  BY <1>1, SameSends DEF EqInv, threadVars
<1> QED BY <1>1, <1>2, <1>3, SameRings, SameQueueVars DEF EqInv

-----------------------------------------------------------------------------
(* A step that neither takes a queue down nor fills its slot, and leaves the
   ports alone, leaves things in order if the threads are. *)
LEMMA ThreadsInOrder ==
  ASSUME EqInv, InOrder, UNCHANGED <<active, gen, port, tidy>>,
         \A t \in Threads :
           \/ at'[t] = at[t] /\ on'[t] = on[t] /\ aim'[t] = aim[t]
           \/ at'[t] \notin {"destroying", "pushing"} /\ on'[t] = on[t] /\ at[t] # "idle"
           \/ at'[t] = "idle"
           \/ /\ at'[t] # "destroying" /\ active[on'[t]]
              /\ at'[t] = "pushing" => aim'[t] \in Right(on'[t])
  PROVE  InOrder'
BY DEF InOrder, Right

(* Receives, drains and pushes leave things in order. *)
LEMMA CallsInOrder ==
  ASSUME EqInv, InOrder, tidy' = tidy, NEW t \in Threads,
         \/ ReceiveLoop(t) \/ ReceiveExpire(t) \/ ReceiveReturn(t) \/ SpuriousWake(t)
         \/ \E k \in 0 .. BufMax : TryReceiveTake(t, k)
         \/ DrainAll(t) \/ Push(t)
         \/ \E q \in Queues : Receive(t, q) \/ TryReceive(t, q) \/ Drain(t, q)
  PROVE  InOrder'
<1> USE DEF EqInv, EqTypes, ThreadTypes
<1>1. UNCHANGED <<active, gen, port>>
  BY DEF ReceiveLoop, ReceiveExpire, ReceiveReturn, SpuriousWake, TryReceiveTake, DrainAll, Push, Receive,
     TryReceive, Drain, Pop, queueVars
<1>2. CASE ReceiveLoop(t) \/ ReceiveExpire(t) \/ SpuriousWake(t)
  BY <1>1, <1>2, ThreadsInOrder DEF ReceiveLoop, ReceiveExpire, SpuriousWake, Leave
<1>3. CASE ReceiveReturn(t) \/ DrainAll(t) \/ \E k \in 0 .. BufMax : TryReceiveTake(t, k)
  BY <1>1, <1>3, ThreadsInOrder DEF ReceiveReturn, DrainAll, TryReceiveTake, Leave
<1>4. CASE Push(t)
  BY <1>1, <1>4, ThreadsInOrder DEF Push, Leave, At
<1>5. ASSUME NEW q \in Queues, Receive(t, q) \/ TryReceive(t, q) \/ Drain(t, q) PROVE InOrder'
  BY <1>1, <1>5, ThreadsInOrder DEF Receive, TryReceive, Drain, Enter
<1> QED BY <1>2, <1>3, <1>4, <1>5

(* A send aims at the queue its port was connected to: the slot still has it. *)
LEMMA SendsInOrder ==
  ASSUME EqInv, InOrder, tidy' = tidy, NEW t \in Threads,
         \/ \E p \in Ports : PortSend(t, p) \/ PortRoute(t, p)
         \/ \E q \in Queues : PushById(t, q)
  PROVE  InOrder'
<1>0. SUFFICES ASSUME tidy PROVE InOrder'
  BY DEF InOrder
<1>1. ASSUME NEW q \in Queues, NEW goal \in Right(q), SendTo(t, q, goal)
      PROVE  InOrder'
  <2>1. UNCHANGED <<active, gen, port>> /\ active[q]
    BY <1>1 DEF SendTo, queueVars
  <2> QED BY <1>1, <2>1, ThreadsInOrder DEF SendTo, Enter, EqInv, EqTypes, ThreadTypes
<1>2. ASSUME NEW p \in Ports, PortSend(t, p) PROVE InOrder'
  <2>1. port[p].active /\ port[p].to # 0
    BY <1>2 DEF PortSend
  <2>2. port[p].to \in Queues /\ gen[port[p].to] = port[p].gen
    BY <1>0, <2>1 DEF InOrder, EqInv, EqTypes, Links
  <2>3. PICK q \in Queues : q = port[p].to
    BY <2>2
  <2>4. SendTo(t, q, [queue |-> q, gen |-> gen[q]])
    BY <1>2, <2>2, <2>3 DEF PortSend
  <2> QED BY <1>1, <2>4 DEF Right
<1>3. ASSUME NEW p \in Ports, PortRoute(t, p) PROVE InOrder'
  BY <1>1, <1>3 DEF PortRoute, Right
<1>4. ASSUME NEW q \in Queues, PushById(t, q) PROVE InOrder'
  BY <1>1, <1>4 DEF PushById, Right
<1> QED BY <1>2, <1>3, <1>4

(* Ports are connected to queues that are there. *)
LEMMA PortsInOrder ==
  ASSUME EqInv, InOrder, tidy' = tidy, NEW t \in Threads,
         \/ PortCreate(t)
         \/ \E p \in Ports :
              PortDestroy(t, p) \/ PortDisconnect(t, p) \/ \E q \in Queues : PortConnect(t, p, q)
  PROVE  InOrder'
<1>1. UNCHANGED <<active, gen, at, on, aim>>
  BY DEF PortCreate, PortDestroy, PortDisconnect, PortConnect, queueVars, threadVars
<1>2. SUFFICES ASSUME tidy
               PROVE  \A p \in Ports : port'[p].active /\ port'[p].to # 0 =>
                        active[port'[p].to] /\ port'[p].gen = gen[port'[p].to]
  BY <1>1 DEF InOrder, Right
<1> USE DEF InOrder, EqInv, EqTypes, Links
<1>3. CASE PortCreate(t)
  BY <1>2, <1>3 DEF PortCreate, FreshPort, Unconnected
<1>4. ASSUME NEW p \in Ports, PortDestroy(t, p) \/ PortDisconnect(t, p)
      PROVE  \A o \in Ports : port'[o].active /\ port'[o].to # 0 =>
               active[port'[o].to] /\ port'[o].gen = gen[port'[o].to]
  BY <1>2, <1>4 DEF PortDestroy, PortDisconnect, Unconnected
<1>5. ASSUME NEW p \in Ports, NEW q \in Queues, PortConnect(t, p, q)
      PROVE  \A o \in Ports : port'[o].active /\ port'[o].to # 0 =>
               active[port'[o].to] /\ port'[o].gen = gen[port'[o].to]
  BY <1>2, <1>5 DEF PortConnect
<1> QED BY <1>3, <1>4, <1>5

(* A slot is filled when nobody uses it, and emptied in order. *)
LEMMA TablesInOrder ==
  ASSUME EqInv, InOrder, tidy' = tidy, NEW t \in Threads,
         \/ \E size \in Sizes : QueueCreate(t, size)
         \/ \E q \in Queues : QueueDestroy(t, q)
         \/ QueueDestroyed(t)
  PROVE  InOrder'
<1> USE DEF EqInv, EqTypes, QueueTypes, ThreadTypes
<1>0. SUFFICES ASSUME tidy PROVE InOrder'
  BY DEF InOrder
<1>1. ~QueueDestroyed(t)
  BY <1>0 DEF InOrder, QueueDestroyed
<1>2. ASSUME NEW size \in Sizes, QueueCreate(t, size) PROVE InOrder'
  <2>1. PICK q : q = Min(FreeSlots)
    OBVIOUS
  <2>2. q \in Queues /\ ~active[q]
    <3>1. FreeSlots # {} /\ FreeSlots \subseteq Queues /\ FreeSlots \subseteq Nat
      BY <1>2, IdsAssumption DEF QueueCreate, FreeSlots
    <3>2. Min(FreeSlots) \in FreeSlots
      BY <3>1, FirstOfThem
    <3> QED BY <2>1, <3>2 DEF FreeSlots
  <2>3. UNCHANGED <<port, at, on, aim>>
    BY <1>2 DEF QueueCreate, threadVars
  <2>4. gen' = [gen EXCEPT ![q] = @ + 1] /\ active' = [active EXCEPT ![q] = TRUE]
    BY <1>2, <2>1 DEF QueueCreate
  <2>5. \A o \in Queues : active[o] => active'[o] /\ gen'[o] = gen[o]
    BY <2>2, <2>4
  <2>6. \A p \in Ports : port[p].to \in Queues \cup {0}
    BY DEF Links
  <2> QED BY <1>0, <2>3, <2>5, <2>6 DEF InOrder, Right
<1>3. ASSUME NEW q \in Queues, QueueDestroy(t, q) PROVE InOrder'
  <2>1. Idle(q)
    BY <1>0, <1>3 DEF QueueDestroy
  <2>2. \A u \in Threads : on[u] # q
    BY <2>1 DEF Idle, Using
  <2>3. \A p \in Ports : port[p].active => port[p].to # q /\ port[p].to \in Queues \cup {0}
    BY <2>1 DEF Idle, Links
  <2>4. At("asleep", q) = {}
    BY <2>2 DEF At
  <2>5. active' = [active EXCEPT ![q] = FALSE] /\ at' = [u \in Threads |-> at[u]]
        /\ UNCHANGED <<on, aim, port, gen>>
    BY <1>3, <2>4 DEF QueueDestroy
  <2>6. \A u \in Threads : at'[u] = at[u]
    BY <2>5
  <2> QED BY <1>0, <2>2, <2>3, <2>5, <2>6 DEF InOrder, Right
<1> QED BY <1>1, <1>2, <1>3

(* Every step leaves things in order. *)
LEMMA NextInOrder ==
  ASSUME EqInv, InOrder, EqNext
  PROVE  InOrder'
<1>0. tidy' = tidy
  BY DEF EqNext
<1>1. CASE \E t \in Threads : Continue(t) \/ SpuriousWake(t)
  BY <1>0, <1>1, CallsInOrder, TablesInOrder DEF Continue
<1>2. CASE \E t \in Receivers, q \in Queues : Receive(t, q) \/ TryReceive(t, q) \/ Drain(t, q)
  BY <1>0, <1>2, CallsInOrder DEF Threads
<1>3. CASE \E t \in Senders : SendersStep(t)
  <2> SUFFICES ASSUME NEW t \in Threads, SendersStep(t) PROVE InOrder'
    BY <1>3 DEF Threads
  <2>1. CASE (\E size \in Sizes : QueueCreate(t, size)) \/ \E q \in Queues : QueueDestroy(t, q)
    BY <1>0, <2>1, TablesInOrder
  <2>2. CASE (\E q \in Queues : PushById(t, q)) \/ \E p \in Ports : PortSend(t, p) \/ PortRoute(t, p)
    BY <1>0, <2>2, SendsInOrder
  <2>3. CASE PortCreate(t) \/ \E p \in Ports :
               PortDestroy(t, p) \/ PortDisconnect(t, p) \/ \E q \in Queues : PortConnect(t, p, q)
    BY <1>0, <2>3, PortsInOrder
  <2> QED BY <2>1, <2>2, <2>3 DEF SendersStep
<1> QED BY <1>1, <1>2, <1>3 DEF EqNext

(* So does a step of somebody else. *)
LEMMA SameInOrder == ASSUME InOrder, UNCHANGED vars PROVE InOrder'
BY DEF InOrder, Right, vars, queueVars, threadVars

(* At the start nobody does anything. *)
LEMMA InitInOrder == EqInit => InOrder
BY DEF EqInit, InOrder

(* What is in order is where it was sent. *)
LEMMA KeptIsRight == EqInv => TidyQueuesAreRight
<1> SUFFICES ASSUME EqInv, tidy, NEW q \in Queues, active[q], NEW i \in 1 .. count[q]
             PROVE  meant[Contents(q)[i]] \in Right(q)
  BY DEF TidyQueuesAreRight, Right
<1>1. RingFits(q) /\ Contents(q) = Held(buffer[q], capacity[q], head[q], count[q])
  BY DEF EqInv, Contents, Held
<1>2. count[q] \in Nat /\ head[q] \in Int /\ i - 1 \in 0 .. count[q] - 1
  BY <1>1, SizesAssumption DEF RingFits
<1>3. Contents(q)[i] = buffer[q][Slot(capacity[q], head[q], i - 1)]
  BY <1>1, <1>2, HeldAt
<1>4. Contents(q)[i] \in Kept(q)
  BY <1>1, <1>2, <1>3 DEF RingFits, Keeps
<1> QED BY <1>4 DEF Kept

(* Every behaviour of the event queues is one of FIFO queues: whatever threads
   interleave, whichever queues are destroyed under their users and whichever
   slots are filled again, no event is lost, repeated or overtaken, and a queue
   that is opened is empty (sys_event.c). *)
THEOREM QueuesAreFifos == EqSpec => ImplementsFifo
<1>1. EqInit => EqInv /\ InOrder /\ Fifo!FifoInit
  BY InitEq, InitInOrder
<1>2. EqInv /\ InOrder /\ [EqNext]_vars => (EqInv /\ InOrder)' /\ [Fifo!FifoNext]_<<Fifos, Rooms>>
  BY NextEq, SameEq, NextInOrder, SameInOrder
<1> QED BY <1>1, <1>2, PTL DEF EqSpec, ImplementsFifo, Fifo!FifoSpec

(* A guest that takes queues down in order never finds in a queue an event that
   was sent to an earlier one with the same id (docs/SYSCALLS.md:328). *)
THEOREM QueuesHoldTheirOwn == EqSpec => []TidyQueuesAreRight
<1>1. EqInit => EqInv /\ InOrder
  BY InitEq, InitInOrder
<1>2. EqInv /\ InOrder /\ [EqNext]_vars => (EqInv /\ InOrder)'
  BY NextEq, SameEq, NextInOrder, SameInOrder
<1> QED BY <1>1, <1>2, KeptIsRight, PTL DEF EqSpec

-----------------------------------------------------------------------------
(* Wake-ups of receivers *)

InCall == {t \in Threads : at[t] # "idle"}

(* While somebody sleeps on a queue, its events have as many receivers coming.
   A push counts those it wakes, so who can sleep is finite. *)
WakeInv == EqInv /\ InOrder /\ IsFiniteSet(InCall) /\ WakeupsCoverEvents

(* One thread at a time begins a call. *)
LEMMA BusyStays ==
  ASSUME IsFiniteSet(InCall), NEW t \in Threads, \A u \in Threads \ {t} : at[u] = "idle" => at'[u] = "idle"
  PROVE  IsFiniteSet(InCall')
<1>1. InCall' \subseteq InCall \cup {t}
  BY DEF InCall
<1> QED BY <1>1, FS_AddElement, FS_Subset

(* Who is at a station is busy, and counted. *)
LEMMA CountStation ==
  ASSUME IsFiniteSet(InCall), NEW s, s # "idle", NEW q
  PROVE  IsFiniteSet(At(s, q)) /\ Cardinality(At(s, q)) \in Nat
<1>1. At(s, q) \subseteq InCall
  BY DEF At, InCall
<1> QED BY <1>1, FS_Subset, FS_CardinalityType

(* A queue stays covered that has no events, or no more than before and no new
   sleeper, while nobody turns away from it. *)
LEMMA CoverStays ==
  ASSUME WakeInv, IsFiniteSet(InCall'), QueueTypes', NEW q \in Queues, active'[q] => count'[q] \in Nat,
         active'[q] =>
           \/ count'[q] = 0
           \/ /\ active[q] /\ count'[q] <= count[q]
              /\ At("asleep", q)' \subseteq At("asleep", q) /\ At("entering", q) \subseteq At("entering", q)'
  PROVE  active'[q] /\ At("asleep", q)' # {} => Cardinality(At("entering", q)') >= count'[q]
<1> SUFFICES ASSUME active'[q], At("asleep", q)' # {}
             PROVE  Cardinality(At("entering", q)') >= count'[q]
  OBVIOUS
<1>1. /\ IsFiniteSet(At("entering", q)') /\ Cardinality(At("entering", q)') \in Nat
  <2>1. At("entering", q)' \subseteq InCall'
    BY DEF At, InCall
  <2> QED BY <2>1, FS_Subset, FS_CardinalityType
<1>2. CASE count'[q] = 0
  BY <1>1, <1>2
<1>3. CASE /\ active[q] /\ count'[q] <= count[q]
           /\ At("asleep", q)' \subseteq At("asleep", q) /\ At("entering", q) \subseteq At("entering", q)'
  <2>1. Cardinality(At("entering", q)) >= count[q]
    BY <1>3 DEF WakeInv, WakeupsCoverEvents
  <2>2. Cardinality(At("entering", q)) <= Cardinality(At("entering", q)')
    BY <1>1, <1>3, FS_Subset
  <2>3. Cardinality(At("entering", q)) \in Nat /\ count[q] \in Nat
    BY <1>3, CountStation DEF WakeInv, EqInv, RingFits
  <2> QED BY <1>1, <1>3, <2>1, <2>2, <2>3
<1> QED BY <1>2, <1>3

(* What an open queue counts is a number. *)
LEMMA CountsAreNumbers == ASSUME EqInv, NEW q \in Queues, active[q] PROVE count[q] \in Nat
BY DEF EqInv, RingFits

(* Steps that take nothing from a queue on which somebody sleeps, and give it
   nothing. *)
LEMMA WakesKept ==
  ASSUME WakeInv, EqInv', NEW t \in Threads,
         \/ \E q \in Queues : Receive(t, q) \/ TryReceive(t, q) \/ Drain(t, q) \/ QueueDestroy(t, q) \/ PushById(t, q)
         \/ SpuriousWake(t) \/ ReceiveExpire(t) \/ ReceiveReturn(t) \/ DrainAll(t) \/ QueueDestroyed(t)
         \/ \E k \in 0 .. BufMax : TryReceiveTake(t, k)
         \/ \E size \in Sizes : QueueCreate(t, size)
         \/ PortCreate(t)
         \/ \E p \in Ports : \/ PortDestroy(t, p) \/ PortDisconnect(t, p) \/ PortSend(t, p) \/ PortRoute(t, p)
                             \/ \E q \in Queues : PortConnect(t, p, q)
  PROVE  IsFiniteSet(InCall') /\ WakeupsCoverEvents'
<1>1. ThreadTypes /\ QueueTypes /\ IsFiniteSet(InCall)
  BY DEF WakeInv, EqInv, EqTypes
<1>2. \A q \in Queues : active'[q] =>
        \/ count'[q] = 0
        \/ /\ active[q] /\ count'[q] <= count[q]
           /\ At("asleep", q)' \subseteq At("asleep", q) /\ At("entering", q) \subseteq At("entering", q)'
  <2>0. \A q \in Queues : (active[q] => count[q] \in Nat) /\ (active'[q] => count'[q] \in Nat)
    BY CountsAreNumbers DEF WakeInv, EqInv, RingFits
  <2>1. CASE \E q \in Queues : Receive(t, q) \/ TryReceive(t, q) \/ Drain(t, q) \/ PushById(t, q)
    BY <1>1, <2>0, <2>1 DEF Receive, TryReceive, Drain, PushById, CanSend, SendTo, Enter, At, queueVars, ThreadTypes
  <2>2. CASE SpuriousWake(t) \/ ReceiveExpire(t) \/ ReceiveReturn(t)
    BY <1>1, <2>0, <2>2 DEF SpuriousWake, ReceiveExpire, ReceiveReturn, Leave, At, queueVars, ThreadTypes
  <2>3. CASE DrainAll(t)
    BY <1>1, <2>0, <2>3 DEF DrainAll, Leave, At, ThreadTypes, QueueTypes
  <2>4. CASE QueueDestroyed(t)
    BY <1>1, <2>0, <2>4 DEF QueueDestroyed, Leave, At, ThreadTypes, QueueTypes
  <2>5. CASE \E q \in Queues : QueueDestroy(t, q)
    BY <1>1, <2>0, <2>5 DEF QueueDestroy, Enter, At, ThreadTypes, QueueTypes
  <2>6. ASSUME NEW k \in 0 .. BufMax, TryReceiveTake(t, k)
        PROVE  \A q \in Queues : active'[q] =>
                 /\ active[q] /\ count'[q] <= count[q]
                 /\ At("asleep", q)' \subseteq At("asleep", q) /\ At("entering", q) \subseteq At("entering", q)'
    <3>1. \A q \in Queues : At("asleep", q)' \subseteq At("asleep", q) /\ At("entering", q) \subseteq At("entering", q)'
      BY <1>1, <2>6 DEF TryReceiveTake, Leave, At, ThreadTypes
    <3>2. active' = active /\ \A q \in Queues : count'[q] = count[q] \/ (k # 0 /\ count'[q] = count[q] - k)
      BY <1>1, <2>6 DEF TryReceiveTake, Pop, queueVars, QueueTypes
    <3>3. k \in Nat
      BY <2>6, SizesAssumption
    <3> QED BY <2>0, <3>1, <3>2, <3>3
  <2>7. CASE \E size \in Sizes : QueueCreate(t, size)
    BY <1>1, <2>0, <2>7 DEF QueueCreate, At, threadVars, QueueTypes
  <2>8. CASE PortCreate(t) \/ \E p \in Ports : PortDestroy(t, p) \/ PortDisconnect(t, p) \/ \E q \in Queues : PortConnect(t, p, q)
    <3>1. UNCHANGED <<active, count, at, on>>
      BY <2>8 DEF PortCreate, PortDestroy, PortDisconnect, PortConnect, threadVars, queueVars
    <3> QED BY <2>0, <3>1 DEF At
  <2>9. CASE \E p \in Ports : PortSend(t, p) \/ PortRoute(t, p)
    BY <1>1, <2>0, <2>9 DEF PortSend, PortRoute, CanSend, SendTo, Enter, At, queueVars, ThreadTypes
  <2> QED BY <2>1, <2>2, <2>3, <2>4, <2>5, <2>6, <2>7, <2>8, <2>9
<1>3. \A u \in Threads \ {t} : at[u] = "idle" => at'[u] = "idle"
  BY <1>1 DEF ThreadTypes, Receive, TryReceive, Drain, QueueDestroy, PushById, SpuriousWake, ReceiveExpire, ReceiveReturn,
     DrainAll, QueueDestroyed, TryReceiveTake, QueueCreate, PortCreate, PortDestroy, PortDisconnect, PortSend,
     PortRoute, PortConnect, SendTo, Enter, Leave, At, threadVars
<1>4. IsFiniteSet(InCall')
  BY <1>1, <1>3, BusyStays
<1> QED BY <1>2, <1>4, CoverStays DEF EqInv, EqTypes, RingFits, WakeupsCoverEvents

(* A receiver sleeps, gives up or leaves only where there is nothing, or takes
   one event for itself. *)
LEMMA WakesReceive ==
  ASSUME WakeInv, EqInv', NEW t \in Threads, ReceiveLoop(t)
  PROVE  IsFiniteSet(InCall') /\ WakeupsCoverEvents'
<1>1. ThreadTypes /\ QueueTypes /\ IsFiniteSet(InCall) /\ on[t] \in Queues /\ at[t] = "entering"
  BY DEF WakeInv, EqInv, EqTypes, ThreadTypes, ReceiveLoop
<1>0. PICK p \in Queues : p = on[t]
  BY <1>1
<1>2. active' = active /\ \A u \in Threads \ {t} : at'[u] = at[u] /\ on'[u] = on[u]
  BY <1>1 DEF ReceiveLoop, Pop, Leave, queueVars, ThreadTypes
<1>3. IsFiniteSet(InCall')
  BY <1>1, <1>2, BusyStays
<1>4. \A q \in Queues \ {p} :
        /\ count'[q] = count[q]
        /\ At("asleep", q)' = At("asleep", q) /\ At("entering", q)' = At("entering", q)
  <2>1. at'[t] \in {"asleep", "expired", "delivering", "idle"} /\ (on'[t] = on[t] \/ at'[t] = "idle")
    BY <1>0, <1>1 DEF ReceiveLoop, Leave, ThreadTypes
  <2>2. \A q \in Queues \ {p} : count'[q] = count[q]
    BY <1>0, <1>1 DEF ReceiveLoop, Pop, queueVars, QueueTypes
  <2> QED BY <1>0, <1>1, <1>2, <2>1, <2>2 DEF At
<1>5. active[p] =>
        \/ count'[p] = 0
        \/ /\ At("asleep", p)' = At("asleep", p) /\ At("entering", p)' = At("entering", p) \ {t}
           /\ count'[p] = count[p] - 1
  <2>1. CASE count[p] = 0
    BY <1>0, <1>1, <2>1 DEF ReceiveLoop, Pop, queueVars
  <2>2. CASE active[p] /\ count[p] # 0
    <3>1. Pop(p, 1) /\ at' = [at EXCEPT ![t] = "delivering"] /\ on' = on
      BY <1>0, <2>2 DEF ReceiveLoop
    <3>2. At("asleep", p)' = At("asleep", p) /\ At("entering", p)' = At("entering", p) \ {t}
      BY <1>0, <1>1, <3>1 DEF At, ThreadTypes
    <3> QED BY <1>0, <1>1, <3>1, <3>2 DEF Pop, QueueTypes
  <2> QED BY <2>1, <2>2
<1>6. ASSUME NEW q \in Queues, active'[q], At("asleep", q)' # {}
      PROVE  Cardinality(At("entering", q)') >= count'[q]
  <2>0. count[q] \in Nat /\ count'[q] \in Nat
    BY <1>2, <1>6, CountsAreNumbers DEF WakeInv, EqInv, RingFits
  <2>1. CASE q # p \/ count'[q] = 0
    BY <1>2, <1>3, <1>4, <1>6, <2>0, <2>1, CoverStays DEF EqInv, EqTypes
  <2>2. CASE q = p /\ count'[q] # 0
    <3>1. /\ At("asleep", q)' = At("asleep", q) /\ At("entering", q)' = At("entering", q) \ {t}
          /\ count'[q] = count[q] - 1
      BY <1>2, <1>5, <1>6, <2>2
    <3>2. Cardinality(At("entering", q)) >= count[q]
      BY <1>2, <1>6, <3>1 DEF WakeInv, WakeupsCoverEvents
    <3>3. IsFiniteSet(At("entering", q)) /\ Cardinality(At("entering", q)) \in Nat
      BY <1>0, <1>1, CountStation
    <3>4. t \in At("entering", q)
      BY <1>0, <1>1, <2>2 DEF At
    <3>5. Cardinality(At("entering", q)') = Cardinality(At("entering", q)) - 1
      BY <3>1, <3>3, <3>4, FS_RemoveElement
    <3> QED BY <2>0, <3>1, <3>2, <3>3, <3>5
  <2> QED BY <2>1, <2>2
<1> QED BY <1>3, <1>6 DEF WakeupsCoverEvents

(* A push wakes a sleeper for the event it adds. *)
LEMMA WakesPush ==
  ASSUME WakeInv, EqInv', NEW t \in Threads, Push(t)
  PROVE  IsFiniteSet(InCall') /\ WakeupsCoverEvents'
<1>1. ThreadTypes /\ QueueTypes /\ IsFiniteSet(InCall) /\ on[t] \in Queues /\ at[t] = "pushing" /\ active' = active
  BY DEF WakeInv, EqInv, EqTypes, ThreadTypes, Push, queueVars
<1>0. PICK p \in Queues : p = on[t]
  BY <1>1
<1>2. CASE count[on[t]] >= capacity[on[t]] /\ Leave(t) /\ UNCHANGED queueVars
  <2>1. IsFiniteSet(InCall')
    BY <1>1, <1>2, BusyStays DEF Leave, ThreadTypes
  <2>2. \A q \in Queues : At("asleep", q)' = At("asleep", q) /\ At("entering", q)' = At("entering", q) /\ count'[q] = count[q]
    BY <1>1, <1>2 DEF Leave, At, ThreadTypes, queueVars
  <2> QED BY <1>1, <2>1, <2>2 DEF WakeInv, WakeupsCoverEvents
<1>3. ASSUME NEW woken \in SUBSET At("asleep", on[t]), Cardinality(woken) = Wakes(on[t]),
             count' = [count EXCEPT ![on[t]] = @ + 1],
             at' = [u \in Threads |-> IF u = t THEN "idle" ELSE IF u \in woken THEN "entering" ELSE at[u]],
             on' = [on EXCEPT ![t] = 0]
      PROVE  IsFiniteSet(InCall') /\ WakeupsCoverEvents'
  <2>1. \A u \in woken : u \in Threads /\ at[u] = "asleep" /\ on[u] = p /\ u # t
    BY <1>0, <1>1, <1>3 DEF At
  <2>2. IsFiniteSet(InCall')
    BY <1>0, <1>1, <1>3, <2>1, BusyStays
  <2>3. \A q \in Queues \ {p} :
          At("asleep", q)' = At("asleep", q) /\ At("entering", q)' = At("entering", q) /\ count'[q] = count[q]
    BY <1>0, <1>1, <1>3, <2>1 DEF At, ThreadTypes, QueueTypes
  <2>4. /\ At("asleep", p)' \subseteq At("asleep", p)
        /\ At("entering", p)' = At("entering", p) \cup woken
        /\ At("entering", p) \cap woken = {}
        /\ count'[p] = count[p] + 1
    BY <1>0, <1>1, <1>3, <2>1 DEF At, ThreadTypes, QueueTypes
  <2>5. ASSUME active[p], At("asleep", p)' # {}
        PROVE  Cardinality(At("entering", p)') >= count'[p]
    <3>1. At("asleep", p) # {} /\ Cardinality(woken) = 1
      BY <1>0, <1>3, <2>4, <2>5 DEF Wakes
    <3>2. Cardinality(At("entering", p)) >= count[p]
      BY <1>0, <1>1, <2>5, <3>1 DEF WakeInv, WakeupsCoverEvents
    <3>3. IsFiniteSet(At("entering", p)) /\ Cardinality(At("entering", p)) \in Nat
      BY <1>0, <1>1, CountStation
    <3>4. IsFiniteSet(woken)
      BY <1>0, <1>1, <1>3, CountStation, FS_Subset
    <3>5. Cardinality(At("entering", p)') = Cardinality(At("entering", p)) + 1
      <4>1. Cardinality(At("entering", p) \cup woken) = Cardinality(At("entering", p)) + Cardinality(woken) - Cardinality(At("entering", p) \cap woken)
        BY <3>3, <3>4, FS_Union, Zenon
      <4>2. Cardinality(At("entering", p) \cap woken) = 0
        BY <2>4, FS_EmptySet
      <4>3. Cardinality(At("entering", p)') = Cardinality(At("entering", p) \cup woken)
        BY <2>4
      <4> QED BY <3>1, <3>3, <4>1, <4>2, <4>3
    <3>6. count[p] \in Nat
      BY <1>0, <1>1, <2>5, CountsAreNumbers DEF WakeInv
    <3> QED BY <2>4, <3>2, <3>3, <3>5, <3>6
  <2> QED BY <1>0, <1>1, <2>2, <2>3, <2>5 DEF WakeInv, WakeupsCoverEvents
<1> QED BY <1>2, <1>3 DEF Push

(* Every step of the queues keeps their receivers coming. *)
LEMMA NextWakes == WakeInv /\ [EqNext]_vars => WakeInv'
<1> SUFFICES ASSUME WakeInv, [EqNext]_vars PROVE WakeInv'
  OBVIOUS
<1>1. EqInv' /\ InOrder'
  BY NextEq, SameEq, NextInOrder, SameInOrder DEF WakeInv
<1>2. CASE UNCHANGED vars
  <2>1. UNCHANGED <<at, on, count, active>>
    BY <1>2 DEF vars, queueVars, threadVars
  <2>2. InCall' = InCall /\ WakeupsCoverEvents' = WakeupsCoverEvents
    BY <2>1 DEF InCall, WakeupsCoverEvents, At
  <2> QED BY <1>1, <2>2 DEF WakeInv
<1>3. CASE EqNext
  <2>1. IsFiniteSet(InCall') /\ WakeupsCoverEvents'
    <3>1. PICK t \in Threads :
            \/ Continue(t) \/ SpuriousWake(t) \/ SendersStep(t)
            \/ \E q \in Queues : Receive(t, q) \/ TryReceive(t, q) \/ Drain(t, q)
      BY <1>3 DEF EqNext, Threads
    <3>2. CASE ReceiveLoop(t)
      BY <1>1, <3>2, WakesReceive
    <3>3. CASE Push(t)
      BY <1>1, <3>3, WakesPush
    <3> QED BY <1>1, <3>1, <3>2, <3>3, WakesKept DEF Continue, SendersStep
  <2> QED BY <1>1, <2>1 DEF WakeInv
<1> QED BY <1>2, <1>3

(* No wake-up is lost, for any threads and queues: a push wakes one sleeper at
   most, receivers that come later take its event and others take several
   without waiting, but where somebody sleeps on, each event still has a
   receiver on its way to it (sys_event.c, event_queue_push). *)
THEOREM ReceiversAreComing == EqSpec => []WakeupsCoverEvents
<1>1. EqInit => WakeInv
  <2> SUFFICES ASSUME EqInit PROVE WakeInv
    OBVIOUS
  <2>1. InCall = {} /\ \A q \in Queues : ~active[q]
    BY DEF EqInit, InCall
  <2> QED BY <2>1, InitEq, InitInOrder, FS_EmptySet DEF WakeInv, WakeupsCoverEvents
<1>2. WakeInv => WakeupsCoverEvents
  BY DEF WakeInv
<1> QED BY <1>1, <1>2, NextWakes, PTL DEF EqSpec

-----------------------------------------------------------------------------
(* A ring of n positions holds, from h on, the c announced last, of which the *)
(* last was announced with block r.                                          *)
Owed(pend, n, h, c, r) ==
  \A i \in 0 .. c - 1 : pend[Slot(n, h, i)] = Position(n, r - c + i + 1)

(* One more is announced. *)
LEMMA OwedAppends ==
  ASSUME NEW n \in Nat \ {0}, NEW h \in 0 .. n - 1, NEW c \in 0 .. n - 1, NEW r \in Nat,
         NEW pend, DOMAIN pend = 0 .. n - 1, Owed(pend, n, h, c, r)
  PROVE  Owed([pend EXCEPT ![Slot(n, h, c)] = Position(n, r + 1)], n, h, c + 1, r + 1)
<1> DEFINE b == [pend EXCEPT ![Slot(n, h, c)] = Position(n, r + 1)]
<1>1. Slot(n, h, c) \in 0 .. n - 1
  BY SlotRange
<1>2. b[Slot(n, h, c)] = Position(n, r + 1)
  BY <1>1
<1>3. ASSUME NEW i \in 0 .. c - 1
      PROVE  b[Slot(n, h, i)] = Position(n, r - c + i + 1)
  <2>1. Slot(n, h, i) # Slot(n, h, c)
    BY SlotsDiffer
  <2>2. Slot(n, h, i) \in 0 .. n - 1
    BY SlotRange
  <2> QED BY <2>1, <2>2 DEF Owed
<1> HIDE DEF b
<1>4. ASSUME NEW i \in 0 .. c
      PROVE  b[Slot(n, h, i)] = Position(n, r + 1 - (c + 1) + i + 1)
  <2>1. CASE i = c
    <3>1. r + 1 - (c + 1) + i + 1 = r + 1
      BY <2>1
    <3> QED BY <1>2, <2>1, <3>1
  <2>2. CASE i # c
    <3>1. r + 1 - (c + 1) + i + 1 = r - c + i + 1
      OBVIOUS
    <3> QED BY <1>3, <2>2, <3>1
  <2> QED BY <2>1, <2>2
<1>5. Owed(b, n, h, c + 1, r + 1)
  BY <1>4 DEF Owed
<1> QED BY <1>5 DEF b

(* The ring is full: the newest takes the place of the oldest. *)
LEMMA OwedReplaces ==
  ASSUME NEW n \in Nat \ {0}, NEW h \in 0 .. n - 1, NEW r \in Nat,
         NEW pend, DOMAIN pend = 0 .. n - 1, Owed(pend, n, h, n, r)
  PROVE  Owed([pend EXCEPT ![h] = Position(n, r + 1)], n, Slot(n, h, 1), n, r + 1)
<1> DEFINE b == [pend EXCEPT ![h] = Position(n, r + 1)]
<1>1. ASSUME NEW i \in 0 .. n - 1
      PROVE  Slot(n, Slot(n, h, 1), i) = Slot(n, h, i + 1)
  BY SlotsAdd, 1 + i = i + 1
<1>2. b[h] = Position(n, r + 1)
  OBVIOUS
<1>3. ASSUME NEW i \in 1 .. n - 1
      PROVE  b[Slot(n, h, i)] = Position(n, r - n + i + 1)
  <2>1. Slot(n, h, 0) = h
    BY SlotNowhere
  <2>2. Slot(n, h, i) # h
    BY <2>1, SlotsDiffer
  <2>3. Slot(n, h, i) \in 0 .. n - 1
    BY SlotRange
  <2> QED BY <2>2, <2>3 DEF Owed
<1> HIDE DEF b
<1>4. ASSUME NEW i \in 0 .. n - 1
      PROVE  b[Slot(n, h, i + 1)] = Position(n, r + 1 - n + i + 1)
  <2>1. CASE i = n - 1
    <3>1. r + 1 - n + i + 1 = r + 1 /\ i + 1 = n
      BY <2>1
    <3> QED BY <1>2, <3>1, SlotNowhere
  <2>2. CASE i # n - 1
    <3>1. r + 1 - n + i + 1 = r - n + (i + 1) + 1
      OBVIOUS
    <3> QED BY <1>3, <2>2, <3>1
  <2> QED BY <2>1, <2>2
<1>5. Owed(b, n, Slot(n, h, 1), n, r + 1)
  BY <1>1, <1>4 DEF Owed
<1> QED BY <1>5 DEF b

(* The oldest is delivered. *)
LEMMA OwedGivesUp ==
  ASSUME NEW n \in Nat \ {0}, NEW h \in 0 .. n - 1, NEW c \in 1 .. n, NEW r \in Nat,
         NEW pend, Owed(pend, n, h, c, r)
  PROVE  Owed(pend, n, Slot(n, h, 1), c - 1, r)
<1>1. ASSUME NEW i \in 0 .. c - 2
      PROVE  pend[Slot(n, Slot(n, h, 1), i)] = Position(n, r - (c - 1) + i + 1)
  <2>1. Slot(n, Slot(n, h, 1), i) = Slot(n, h, i + 1)
    BY SlotsAdd, 1 + i = i + 1
  <2>2. r - (c - 1) + i + 1 = r - c + (i + 1) + 1
    OBVIOUS
  <2> QED BY <2>1, <2>2 DEF Owed
<1> QED BY <1>1 DEF Owed

-----------------------------------------------------------------------------
PortFields == {"in_use", "running", "nblock", "read", "pending", "head", "tail", "count"}

(* A port whose ring is well formed. *)
Sound(a) ==
  /\ DOMAIN a = PortFields
  /\ a.nblock \in Nat \ {0} /\ a.read \in Nat
  /\ DOMAIN a.pending = 0 .. a.nblock - 1
  /\ a.head \in 0 .. a.nblock - 1 /\ a.count \in 0 .. a.nblock
  /\ a.tail = Slot(a.nblock, a.head, a.count)

Owes(a) == Sound(a) /\ Owed(a.pending, a.nblock, a.head, a.count, a.read)

(* A port that was just opened owes nothing. *)
LEMMA FreshOwes ==
  ASSUME NEW n \in Nat \ {0}, NEW used
  PROVE  Owes(Fresh(n, used))
BY SlotNowhere DEF Fresh, Sound, Owes, Owed, PortFields

(* The other fields of a port do not matter. *)
LEMMA FlagsOwe ==
  ASSUME NEW a, NEW b, Owes(a), DOMAIN b = PortFields,
         \A f \in PortFields \ {"in_use", "running"} : b[f] = a[f]
  PROVE  Owes(b)
<1>1. /\ b.nblock = a.nblock /\ b.read = a.read /\ b.pending = a.pending
      /\ b.head = a.head /\ b.tail = a.tail /\ b.count = a.count
  BY DEF PortFields
<1> QED BY <1>1 DEF Sound, Owes

(* A position is appended; the oldest makes room for it. *)
LEMMA AnnouncedOwes ==
  ASSUME NEW a, Owes(a)
  PROVE  Owes(Announced(a))
<1> DEFINE b == Announced(a)
<1>1. PICK n \in Nat \ {0}, h \in Nat, c \in Nat, r \in Nat :
        a.nblock = n /\ a.head = h /\ a.count = c /\ a.read = r
  BY DEF Sound, Owes
<1>2. h \in 0 .. n - 1 /\ c \in 0 .. n
  BY <1>1 DEF Sound, Owes
<1>3. a.tail = Slot(n, h, c) /\ DOMAIN a.pending = 0 .. n - 1 /\ Owed(a.pending, n, h, c, r)
  BY <1>1 DEF Sound, Owes
<1>4. /\ DOMAIN b = PortFields /\ b.nblock = n /\ b.read = r + 1
      /\ b.pending = [a.pending EXCEPT ![Slot(n, h, c)] = Position(n, r + 1)]
      /\ b.head = (IF c = n THEN Slot(n, h, 1) ELSE h)
      /\ b.tail = Slot(n, Slot(n, h, c), 1)
      /\ b.count = IF c = n THEN c ELSE c + 1
  BY <1>1, <1>3 DEF Sound, Owes, Announced, PortFields, Slot
<1>5. DOMAIN b.pending = 0 .. n - 1
  BY <1>3, <1>4
<1> HIDE DEF b
<1>6. CASE c < n
  <2>1. Slot(n, Slot(n, h, c), 1) = Slot(n, h, c + 1)
    BY <1>2, <1>6, SlotsAdd
  <2>2. b.head = h /\ b.count = c + 1 /\ b.tail = Slot(n, h, c + 1)
    BY <1>4, <1>6, <2>1
  <2>3. Sound(b)
    BY <1>2, <1>4, <1>5, <1>6, <2>2 DEF Sound
  <2>4. Owed(b.pending, n, h, c + 1, r + 1)
    BY <1>2, <1>3, <1>4, <1>6, OwedAppends
  <2> QED BY <1>4, <2>2, <2>3, <2>4 DEF Owes, b
<1>7. CASE c = n
  <2>1. Slot(n, h, c) = h
    BY <1>2, <1>7, SlotNowhere
  <2>2. b.head = Slot(n, h, 1) /\ b.count = n /\ b.tail = Slot(n, h, 1)
    BY <1>4, <1>7, <2>1
  <2>3. Slot(n, h, 1) \in 0 .. n - 1
    BY <1>2, SlotRange
  <2>4. Slot(n, Slot(n, h, 1), n) = Slot(n, h, 1)
    BY <2>3, SlotNowhere
  <2>5. Sound(b)
    BY <1>4, <1>5, <2>2, <2>3, <2>4 DEF Sound
  <2>6. Owed(b.pending, n, Slot(n, h, 1), n, r + 1)
    BY <1>2, <1>3, <1>4, <1>7, <2>1, OwedReplaces
  <2> QED BY <1>4, <2>2, <2>5, <2>6 DEF Owes, b
<1> QED BY <1>2, <1>6, <1>7 DEF b

(* The oldest position is given up. *)
Delivered(a) == [a EXCEPT !.head = (@ + 1) % a.nblock, !.count = @ - 1]

(* A delivery leaves what is owed the newest. *)
LEMMA DeliveredOwes ==
  ASSUME NEW a, Owes(a), a.count > 0
  PROVE  Owes(Delivered(a))
<1> DEFINE b == Delivered(a)
<1>1. PICK n \in Nat \ {0}, h \in Nat, c \in Nat, r \in Nat :
        a.nblock = n /\ a.head = h /\ a.count = c /\ a.read = r
  BY DEF Sound, Owes
<1>2. h \in 0 .. n - 1 /\ c \in 1 .. n
  BY <1>1 DEF Sound, Owes
<1>3. a.tail = Slot(n, h, c) /\ DOMAIN a.pending = 0 .. n - 1 /\ Owed(a.pending, n, h, c, r)
  BY <1>1 DEF Sound, Owes
<1>4. /\ DOMAIN b = PortFields /\ b.nblock = n /\ b.read = r /\ b.pending = a.pending
      /\ b.head = Slot(n, h, 1) /\ b.tail = Slot(n, h, c) /\ b.count = c - 1
  BY <1>1, <1>3 DEF Sound, Owes, PortFields, Delivered, Slot
<1> HIDE DEF b
<1>5. Slot(n, Slot(n, h, 1), c - 1) = Slot(n, h, c)
  BY <1>2, SlotsAdd, 1 + (c - 1) = c
<1>6. Slot(n, h, 1) \in 0 .. n - 1
  BY <1>2, SlotRange
<1>7. Sound(b)
  BY <1>2, <1>3, <1>4, <1>5, <1>6 DEF Sound
<1>8. Owed(b.pending, n, Slot(n, h, 1), c - 1, r)
  BY <1>2, <1>3, <1>4, OwedGivesUp
<1> QED BY <1>4, <1>7, <1>8 DEF Owes, b

-----------------------------------------------------------------------------
(* The inductive invariant: also a port that is not in use is sound. *)
RingInv ==
  /\ setup \in AudioSetups
  /\ DOMAIN ring = AudioPorts
  /\ \A p \in AudioPorts : Owes(ring[p])

(* At the start no port is open. *)
LEMMA InitRing == ArInit => RingInv
<1>1. Owes(Fresh(1, FALSE))
  BY FreshOwes, 1 \in Nat \ {0}
<1> QED BY <1>1 DEF ArInit, RingInv

(* Positions depend on nothing that changes. *)
LEMMA KeepsRing ==
  ASSUME RingInv, UNCHANGED setup, DOMAIN ring' = AudioPorts,
         \A p \in AudioPorts : Owes(ring'[p])
  PROVE  RingInv'
BY DEF RingInv, Owes, Owed, Position, Ahead

(* The calls of the guest keep what the rings owe. *)
LEMMA CallsRing ==
  ASSUME RingInv,
         \/ \E n \in setup.nblocks : PortOpen(n)
         \/ \E p \in AudioPorts : PortClose(p) \/ PortStart(p) \/ PortStop(p)
  PROVE  RingInv'
<1>1. setup' = setup
  BY DEF PortOpen, PortClose, PortStart, PortStop
<1>2. setup.nblocks \subseteq Nat \ {0}
  BY RingAssumption DEF RingInv
<1>3. DOMAIN ring' = AudioPorts
  BY DEF RingInv, PortOpen, PortClose, PortStart, PortStop
<1>4. CASE \E n \in setup.nblocks : PortOpen(n)
  <2>1. PICK n \in setup.nblocks : PortOpen(n)
    BY <1>4
  <2>2. Owes(Fresh(n, TRUE))
    BY <1>2, FreshOwes
  <2>3. \A p \in AudioPorts : ring'[p] = ring[p] \/ ring'[p] = Fresh(n, TRUE)
    BY <2>1 DEF PortOpen, RingInv
  <2> QED BY <1>1, <1>3, <2>2, <2>3, KeepsRing DEF RingInv
<1>5. CASE \E p \in AudioPorts : PortClose(p) \/ PortStart(p) \/ PortStop(p)
  <2>1. PICK p \in AudioPorts : PortClose(p) \/ PortStart(p) \/ PortStop(p)
    BY <1>5
  <2>2. DOMAIN ring[p] = PortFields
    BY DEF RingInv, Owes, Sound
  <2>3. /\ DOMAIN ring'[p] = PortFields
        /\ \A f \in PortFields \ {"in_use", "running"} : ring'[p][f] = ring[p][f]
    BY <2>1, <2>2 DEF PortClose, PortStart, PortStop, RingInv
  <2>4. Owes(ring'[p])
    BY <2>3, FlagsOwe DEF RingInv
  <2>5. \A o \in AudioPorts \ {p} : ring'[o] = ring[o]
    BY <2>1 DEF PortClose, PortStart, PortStop, RingInv
  <2> QED BY <1>1, <1>3, <2>4, <2>5, KeepsRing DEF RingInv
<1> QED BY <1>4, <1>5

(* A block that is mixed is announced behind the others. *)
LEMMA MixRing ==
  ASSUME RingInv, MixBlock
  PROVE  RingInv'
<1>1. \A p \in AudioPorts : ring'[p] = ring[p] \/ ring'[p] = Announced(ring[p])
  BY DEF MixBlock
<1>2. \A p \in AudioPorts : Owes(ring'[p])
  BY <1>1, AnnouncedOwes DEF RingInv
<1> QED BY <1>2, KeepsRing DEF MixBlock

(* A notification takes the oldest. *)
LEMMA DeliveredRing ==
  ASSUME RingInv, NEW r \in AudioReaders, NotifyDelivered(r)
  PROVE  RingInv'
<1>1. ASSUME NEW p \in AudioPorts
      PROVE  ring'[p] = IF p \in Published THEN Delivered(ring[p]) ELSE ring[p]
  BY DEF NotifyDelivered, Delivered
<1>2. \A p \in AudioPorts : Owes(ring'[p])
  BY <1>1, DeliveredOwes DEF RingInv, Published
<1> QED BY <1>2, KeepsRing DEF NotifyDelivered

(* Every step keeps what the rings owe. *)
LEMMA NextRing == RingInv /\ [ArNext]_arVars => RingInv'
<1> SUFFICES ASSUME RingInv, [ArNext]_arVars PROVE RingInv'
  OBVIOUS
<1>1. CASE UNCHANGED <<setup, ring>>
  BY <1>1, KeepsRing DEF RingInv
<1>2. CASE \/ \E n \in setup.nblocks : PortOpen(n)
           \/ \E p \in AudioPorts : PortClose(p) \/ PortStart(p) \/ PortStop(p)
  BY <1>2, CallsRing
<1>3. CASE MixBlock
  BY <1>3, MixRing
<1>4. CASE \E r \in AudioReaders : NotifyDelivered(r)
  BY <1>4, DeliveredRing
<1>5. CASE \/ \E k \in QueueKeys : SetNotifyEventQueue(k) \/ RemoveNotifyEventQueue(k)
           \/ NotifySlot \/ UNCHANGED arVars
           \/ \E r \in AudioReaders : \/ MatchSource(r) \/ WriteMix(r)
                                      \/ \E k \in QueueKeys : ReceiveEvent(r, k) \/ TryReceiveEvent(r, k)
  BY <1>1, <1>5 DEF SetNotifyEventQueue, RemoveNotifyEventQueue, NotifySlot, arVars,
     MatchSource, WriteMix, ReceiveEvent, TryReceiveEvent
<1> QED BY <1>2, <1>3, <1>4, <1>5 DEF ArNext

(* Whatever the guest does, a port still owes it the positions announced with *)
(* the last blocks, oldest first: a full ring drops its oldest position and   *)
(* no other (audio_mix_one_block).                                           *)
THEOREM PendingStayLast == ArSpec => []PendingAreLast
<1>1. RingInv => PendingAreLast
  BY DEF RingInv, Owes, Owed, Slot, PendingAreLast
<1> QED BY <1>1, InitRing, NextRing, PTL DEF ArSpec

-----------------------------------------------------------------------------
(* A guest that answers in time, with one thread that receives *)

OneReader == \A q, r \in AudioReaders : q = r

Announcements == [AudioPorts -> Nat]
Places == {"idle", "taken", "ours", "told"}

GuestTypes ==
  /\ slots \in [NotifySlots -> QueueKeys \cup {NoKey}]
  /\ events \in [QueueKeys -> Seq(Announcements)]
  /\ turn \in Nat /\ due \in Announcements
  /\ reader \in [AudioReaders -> [at : Places, key : QueueKeys \cup {NoKey}, event : Announcements]]
  /\ mixes \in [AudioPorts -> Nat]
  /\ DOMAIN index = AudioPorts /\ DOMAIN blocks = AudioPorts

Registered(k) == \E s \in NotifySlots : slots[s] = k
Busy == \E r \in AudioReaders : reader[r].at \in {"taken", "ours"}
Told == \E r \in AudioReaders : reader[r].at = "told"

(* Events are of the one queue that is registered. *)
OneQueue ==
  /\ \A s, t \in NotifySlots : slots[s] # NoKey /\ slots[t] # NoKey => s = t
  /\ \A k \in QueueKeys : events[k] # <<>> => Registered(k)
  /\ \A r \in AudioReaders : reader[r].at \in {"taken", "ours"} =>
       reader[r].key \in QueueKeys /\ Registered(reader[r].key)

(* Events of slot s that are still to be pushed, in its queue, or received. *)
OnTheWay(s) ==
  Len(events[slots[s]]) + (IF turn \in 1 .. s THEN 1 ELSE 0) + (IF Busy THEN 1 ELSE 0)

(* A running port has a position for every event on its way. *)
Covered == \A p \in AudioPorts : Running(p) =>
  \A s \in NotifySlots : slots[s] # NoKey => OnTheWay(s) <= ring[p].count

(* The mix that sounds in the block announced when k blocks were played. *)
Sounds(k) == IF k > 0 THEN k ELSE 0

(* The blocks b of a port hold the last n mixes, of m, each where it was asked for. *)
Holds(b, n, m) ==
  /\ DOMAIN b = 0 .. n - 1
  /\ \A k \in m - n + 1 .. m : b[Position(n, k)] = Sounds(k)

(* The guest has answered all but the positions still pending, and one that it
   was told of just now. *)
Answered(p) == LET a == ring[p] m == mixes[p] IN
  /\ m = a.read - a.count - (IF Told /\ a.running THEN 1 ELSE 0)
  /\ Told /\ a.running => index[p] = Position(a.nblock, m + 1)
  /\ Holds(blocks[p], a.nblock, m)

GuestInv ==
  /\ OneReader /\ RingInv /\ GuestTypes
  /\ Punctual => OneQueue /\ Covered /\ \A p \in AudioPorts : ring[p].in_use => Answered(p)

-----------------------------------------------------------------------------
(* A remainder is what is left of a multiple. *)
LEMMA RestIs ==
  ASSUME NEW n \in Nat \ {0}, NEW x \in Int
  PROVE  x \div n \in Int /\ x % n = x - n * (x \div n)
<1>1. x \div n \in Int
  OBVIOUS
<1>2. x % n = x - n * (x \div n)
  BY SMTT(30)
<1> QED BY <1>1, <1>2

(* Multiples are at least the divisor apart. *)
LEMMA Apart ==
  ASSUME NEW n \in Nat \ {0}, NEW p \in Int, NEW q \in Int, NEW x \in Int, NEW y \in Int,
         x <= y, y - x < n, x - n * p = y - n * q
  PROVE  x = y
<1>1. y - x = n * (q - p)
  OBVIOUS
<1>2. PICK d \in Int : d = q - p
  OBVIOUS
<1>3. n * d >= 0 /\ n * d < n
  BY <1>1, <1>2
<1>4. CASE d <= -1
  <2>1. n * d <= n * (-1)
    BY <1>4
  <2> QED BY <1>3, <2>1
<1>5. CASE d >= 1
  <2>1. n * d >= n * 1
    BY <1>5
  <2> QED BY <1>3, <2>1
<1>6. CASE d = 0
  BY <1>1, <1>2, <1>6
<1> QED BY <1>4, <1>5, <1>6

(* Numbers less than the divisor apart have different remainders. *)
LEMMA SameRest ==
  ASSUME NEW n, NEW x, NEW y,
         n \in Nat \ {0}, x \in Int, y \in Int, x <= y, y - x < n, x % n = y % n
  PROVE  x = y
<1>1. PICK p \in Int : x % n = x - n * p
  BY RestIs
<1>2. PICK q \in Int : y % n = y - n * q
  BY RestIs
<1>3. x - n * p = y - n * q
  BY <1>1, <1>2
<1> QED BY <1>3, Apart

(* The larger of two numbers, and the smaller. *)
LEMMA OfTwo ==
  ASSUME NEW x \in Int, NEW y \in Int
  PROVE  /\ Max({x, y}) = IF x >= y THEN x ELSE y
         /\ Min({x, y}) = IF x <= y THEN x ELSE y
BY DEF Max, Min

(* A guest is asked for a block of its port, at least one ahead. *)
LEMMA AheadRange ==
  ASSUME NEW n, n \in Nat \ {0}, RingInv
  PROVE  Ahead(n) \in 1 .. n
<1> DEFINE z == IF n > 3 THEN n - 2 ELSE 1
           y == Min({setup.lookahead, z})
<1>1. setup.lookahead \in Nat \ {0}
  BY RingAssumption DEF RingInv
<1>2. z \in 1 .. n
  OBVIOUS
<1> HIDE DEF z
<1>3. setup.lookahead \in Int /\ z \in Int
  BY <1>1, <1>2
<1>4. y = IF setup.lookahead <= z THEN setup.lookahead ELSE z
  BY <1>3, OfTwo
<1>5. y \in 1 .. n
  BY <1>1, <1>2, <1>4
<1> HIDE DEF y
<1>6. Max({1, y}) = IF 1 >= y THEN 1 ELSE y
  BY <1>5, OfTwo
<1> QED BY <1>5, <1>6 DEF Ahead, y, z

(* Different mixes of the last n are asked for in different blocks. *)
LEMMA PositionsDiffer ==
  ASSUME NEW n, NEW j, NEW k, n \in Nat \ {0}, RingInv,
         j \in Int, k \in Int, j < k, k - j < n
  PROVE  Position(n, j) # Position(n, k)
<1>1. Ahead(n) \in Int
  BY AheadRange
<1> DEFINE x == j + Ahead(n) - 1
           y == k + Ahead(n) - 1
<1>2. x \in Int /\ y \in Int /\ x <= y /\ y - x < n /\ x # y
  BY <1>1
<1> HIDE DEF x, y
<1>3. x % n # y % n
  BY <1>2, SameRest
<1> QED BY <1>3 DEF Position, x, y

(* A position is one of the ring. *)
LEMMA PositionRange ==
  ASSUME NEW n, NEW k, n \in Nat \ {0}, RingInv, k \in Int
  PROVE  Position(n, k) \in 0 .. n - 1
<1>1. Ahead(n) \in Int
  BY AheadRange
<1> QED BY <1>1 DEF Position

(* A port is opened silent. *)
LEMMA HoldsFresh ==
  ASSUME NEW n, n \in Nat \ {0}, RingInv
  PROVE  Holds([b \in 0 .. n - 1 |-> 0], n, 0)
BY PositionRange DEF Holds, Sounds

(* The next mix takes the place of the oldest. *)
LEMMA HoldsNext ==
  ASSUME NEW b, NEW n, NEW m, n \in Nat \ {0}, m \in Nat, RingInv, Holds(b, n, m)
  PROVE  Holds([b EXCEPT ![Position(n, m + 1)] = m + 1], n, m + 1)
<1> DEFINE c == [b EXCEPT ![Position(n, m + 1)] = m + 1]
<1>1. Position(n, m + 1) \in 0 .. n - 1
  BY PositionRange
<1>2. DOMAIN c = 0 .. n - 1 /\ c[Position(n, m + 1)] = m + 1
  BY <1>1 DEF Holds
<1>3. ASSUME NEW k \in m + 1 - n + 1 .. m + 1
      PROVE  c[Position(n, k)] = Sounds(k)
  <2>1. CASE k = m + 1
    BY <1>2, <2>1 DEF Sounds
  <2>2. CASE k # m + 1
    <3>1. k \in m - n + 1 .. m
      BY <2>2
    <3>2. k \in Int /\ m + 1 \in Int /\ k < m + 1 /\ m + 1 - k < n
      BY <2>2
    <3>3. \A j \in Int : k < j /\ j - k < n => Position(n, k) # Position(n, j)
      BY <3>2, PositionsDiffer
    <3> QED BY <3>1, <3>2, <3>3, PositionRange DEF Holds
  <2> QED BY <2>1, <2>2
<1> HIDE DEF c
<1>4. Holds(c, n, m + 1)
  BY <1>2, <1>3 DEF Holds
<1> QED BY <1>4 DEF c

(* What is played is the mix that was asked for, if it was written. *)
LEMMA HoldsHeard ==
  ASSUME NEW b, NEW n, NEW m, NEW r, n \in Nat \ {0}, m \in Nat, r \in Nat, RingInv,
         Holds(b, n, m), m <= r, m >= r - Ahead(n) + 1
  PROVE  b[r % n] = Max({0, r - Ahead(n) + 1})
<1> DEFINE k == r - Ahead(n) + 1
<1>1. Ahead(n) \in 1 .. n
  BY AheadRange
<1>2. k \in m - n + 1 .. m
  BY <1>1
<1>3. Position(n, k) = r % n
  BY <1>1, k + Ahead(n) - 1 = r DEF Position
<1>4. Max({0, k}) = Sounds(k)
  BY <1>2, OfTwo DEF Sounds
<1> QED BY <1>2, <1>3, <1>4 DEF Holds

-----------------------------------------------------------------------------
(* At the start nothing is open. *)
LEMMA InitGuest == OneReader /\ ArInit => GuestInv
<1> SUFFICES ASSUME OneReader, ArInit PROVE GuestInv
  OBVIOUS
<1>1. NoEvent \in Announcements
  BY DEF NoEvent, Announcements
<1>2. GuestTypes
  BY <1>1 DEF ArInit, GuestTypes, Places
<1>3. OneQueue /\ Covered
  BY RingAssumption DEF ArInit, OneQueue, Covered, Running, Fresh
<1>4. \A p \in AudioPorts : ~ring[p].in_use
  BY DEF ArInit, Fresh
<1> QED BY <1>2, <1>3, <1>4, InitRing DEF GuestInv

(* What changes a port's slots, or its state, is well formed. *)
LEMMA CallsTyped ==
  ASSUME GuestTypes, RingInv,
         \/ \E n \in setup.nblocks : PortOpen(n)
         \/ \E p \in AudioPorts : PortClose(p) \/ PortStart(p) \/ PortStop(p)
         \/ \E k \in QueueKeys : SetNotifyEventQueue(k) \/ RemoveNotifyEventQueue(k)
  PROVE  GuestTypes'
<1>1. CASE \E k \in QueueKeys : SetNotifyEventQueue(k) \/ RemoveNotifyEventQueue(k)
  <2>1. PICK k \in QueueKeys : SetNotifyEventQueue(k) \/ RemoveNotifyEventQueue(k)
    BY <1>1
  <2>2. \E i : slots' = [slots EXCEPT ![i] = k] \/ slots' = [slots EXCEPT ![i] = NoKey]
    BY <2>1 DEF SetNotifyEventQueue, RemoveNotifyEventQueue
  <2>3. slots' \in [NotifySlots -> QueueKeys \cup {NoKey}]
    BY <2>2 DEF GuestTypes
  <2> QED BY <2>1, <2>3 DEF GuestTypes, SetNotifyEventQueue, RemoveNotifyEventQueue
<1>2. CASE \E p \in AudioPorts : PortClose(p) \/ PortStart(p) \/ PortStop(p)
  BY <1>2 DEF GuestTypes, PortClose, PortStart, PortStop
<1>3. CASE \E n \in setup.nblocks : PortOpen(n)
  <2>1. PICK i, b : /\ index' = [index EXCEPT ![i] = 0]
                    /\ blocks' = [blocks EXCEPT ![i] = b]
                    /\ mixes' = [mixes EXCEPT ![i] = 0]
    BY <1>3 DEF PortOpen
  <2>2. mixes' \in [AudioPorts -> Nat] /\ DOMAIN index' = AudioPorts /\ DOMAIN blocks' = AudioPorts
    BY <2>1 DEF GuestTypes
  <2>3. UNCHANGED <<slots, events, turn, due, reader>>
    BY <1>3 DEF PortOpen
  <2> QED BY <2>2, <2>3 DEF GuestTypes
<1> QED BY <1>1, <1>2, <1>3

(* The mixer announces numbers of blocks. *)
LEMMA MixerTyped ==
  ASSUME GuestTypes, RingInv, MixBlock \/ NotifySlot
  PROVE  GuestTypes'
<1>1. CASE MixBlock
  <2>1. \A p \in AudioPorts : ring[p].read \in Nat
    BY DEF RingInv, Owes, Sound
  <2>2. due' \in Announcements
    BY <1>1, <2>1 DEF MixBlock, Announcements
  <2> QED BY <1>1, <2>2 DEF GuestTypes, MixBlock
<1>2. CASE NotifySlot
  <2>1. UNCHANGED <<slots, due, reader, mixes, index, blocks>>
    BY <1>2 DEF NotifySlot
  <2>2. turn' \in Nat
    BY <1>2, RingAssumption DEF NotifySlot, GuestTypes
  <2>3. events' \in [QueueKeys -> Seq(Announcements)]
    <3>1. CASE UNCHANGED events
      BY <3>1 DEF GuestTypes
    <3>2. CASE slots[turn] # NoKey /\ events' = [events EXCEPT ![slots[turn]] = Append(@, due)]
      <4>1. slots[turn] \in QueueKeys
        BY <1>2, <3>2 DEF GuestTypes, NotifySlot
      <4>2. Append(events[slots[turn]], due) \in Seq(Announcements)
        BY <4>1, AppendProperties DEF GuestTypes
      <4> QED BY <3>2, <4>2 DEF GuestTypes
    <3> QED BY <1>2, <3>1, <3>2 DEF NotifySlot
  <2> QED BY <2>1, <2>2, <2>3 DEF GuestTypes
<1> QED BY <1>1, <1>2

(* The guest's threads receive what was announced. *)
LEMMA ReadersTyped ==
  ASSUME GuestTypes, RingInv, NEW r \in AudioReaders,
         \/ \E k \in QueueKeys : ReceiveEvent(r, k) \/ TryReceiveEvent(r, k)
         \/ MatchSource(r) \/ NotifyDelivered(r) \/ WriteMix(r)
  PROVE  GuestTypes'
<1>0. NoEvent \in Announcements
  BY DEF NoEvent, Announcements
<1>1. CASE \E k \in QueueKeys : ReceiveEvent(r, k) \/ TryReceiveEvent(r, k)
  <2>1. PICK k \in QueueKeys : ReceiveEvent(r, k) \/ TryReceiveEvent(r, k)
    BY <1>1
  <2>2. events[k] \in Seq(Announcements) /\ events[k] # <<>>
    BY <2>1 DEF GuestTypes, ReceiveEvent, TryReceiveEvent
  <2>3. Head(events[k]) \in Announcements /\ Tail(events[k]) \in Seq(Announcements)
    BY <2>2, HeadTailProperties
  <2>4. events' = [events EXCEPT ![k] = Tail(@)] /\ UNCHANGED <<slots, turn, due, mixes, index, blocks>>
    BY <2>1 DEF ReceiveEvent, TryReceiveEvent
  <2>5. events' \in [QueueKeys -> Seq(Announcements)]
    BY <2>3, <2>4 DEF GuestTypes
  <2>6. \E place \in Places : reader' = [reader EXCEPT ![r] = [at |-> place, key |-> k, event |-> Head(events[k])]]
    BY <2>1 DEF ReceiveEvent, TryReceiveEvent, Reader, Places
  <2> QED BY <2>3, <2>4, <2>5, <2>6 DEF GuestTypes
<1>2. CASE MatchSource(r) \/ NotifyDelivered(r)
  <2>1. \E place \in Places : reader' = [reader EXCEPT ![r].at = place]
    BY <1>2 DEF MatchSource, NotifyDelivered, Places
  <2>2. UNCHANGED <<slots, events, turn, due, mixes, blocks>> /\ (index' = index \/ DOMAIN index' = AudioPorts)
    BY <1>2 DEF MatchSource, NotifyDelivered
  <2> QED BY <2>1, <2>2 DEF GuestTypes
<1>3. CASE WriteMix(r)
  <2>1. reader' = [reader EXCEPT ![r] = [at |-> "idle", key |-> NoKey, event |-> NoEvent]]
    BY <1>3 DEF WriteMix, Reader
  <2>2. mixes' \in [AudioPorts -> Nat] /\ DOMAIN blocks' = AudioPorts
    BY <1>3 DEF WriteMix, GuestTypes
  <2>3. UNCHANGED <<slots, events, turn, due, index>>
    BY <1>3 DEF WriteMix
  <2> QED BY <1>0, <2>1, <2>2, <2>3 DEF GuestTypes, Places
<1> QED BY <1>1, <1>2, <1>3

-----------------------------------------------------------------------------
(* In a calm moment nothing is on its way. *)
LEMMA CalmIsQuiet ==
  ASSUME GuestTypes, Calm
  PROVE  /\ ~Told /\ ~Busy
         /\ \A s \in NotifySlots : slots[s] # NoKey => OnTheWay(s) = 0
<1>1. ~Told /\ ~Busy
  BY DEF Calm, Told, Busy
<1>2. ASSUME NEW s \in NotifySlots, slots[s] # NoKey
      PROVE  OnTheWay(s) = 0
  <2>1. events[slots[s]] = <<>>
    BY <1>2 DEF GuestTypes, Calm
  <2>2. turn = 0
    BY DEF Calm
  <2> QED BY <1>1, <2>1, <2>2 DEF OnTheWay
<1> QED BY <1>1, <1>2

(* Positions are a matter of the lookahead. *)
LEMMA SamePositions ==
  ASSUME setup' = setup, NEW n, NEW k, NEW b, NEW m
  PROVE  Position(n, k)' = Position(n, k) /\ Ahead(n)' = Ahead(n) /\ (Holds(b, n, m)' <=> Holds(b, n, m))
BY DEF Position, Ahead, Holds, Sounds

(* What was answered stays so while nothing of the port changes. *)
LEMMA KeepsAnswered ==
  ASSUME NEW p \in AudioPorts, Answered(p), setup' = setup,
         \A f \in {"nblock", "read", "count", "running"} : ring'[p][f] = ring[p][f],
         mixes'[p] = mixes[p], index'[p] = index[p], blocks'[p] = blocks[p], Told' <=> Told
  PROVE  Answered(p)'
<1>1. /\ ring'[p].nblock = ring[p].nblock /\ ring'[p].read = ring[p].read
      /\ ring'[p].count = ring[p].count /\ ring'[p].running = ring[p].running
  OBVIOUS
<1>2. PICK n, m, b : n = ring[p].nblock /\ m = mixes[p] /\ b = blocks[p]
  OBVIOUS
<1>3. Holds(b, n, m)'
  BY <1>2, SamePositions DEF Answered
<1>4. Told /\ ring[p].running => index[p] = Position(n, m + 1)'
  BY <1>2, SamePositions DEF Answered
<1>5. m = ring[p].read - ring[p].count - (IF Told /\ ring[p].running THEN 1 ELSE 0)
  BY <1>2 DEF Answered
<1> QED BY <1>1, <1>2, <1>3, <1>4, <1>5 DEF Answered

(* In a calm moment it is enough that the guest has answered what is not pending. *)
LEMMA CalmAnswered ==
  ASSUME RingInv, NEW p \in AudioPorts, Answered(p), setup' = setup, ~Told, ~Told',
         \A f \in {"nblock", "read", "count"} : ring'[p][f] = ring[p][f],
         mixes'[p] = mixes[p], blocks'[p] = blocks[p]
  PROVE  Answered(p)'
<1>1. ring'[p].nblock = ring[p].nblock /\ ring'[p].read = ring[p].read /\ ring'[p].count = ring[p].count
  OBVIOUS
<1>2. PICK n, m, b : n = ring[p].nblock /\ m = mixes[p] /\ b = blocks[p]
  OBVIOUS
<1>3. Holds(b, n, m)'
  BY <1>2, SamePositions DEF Answered
<1>4. m = ring[p].read - ring[p].count
  BY <1>2 DEF Answered, RingInv, Owes, Sound
<1>5. ring[p].read - ring[p].count = ring[p].read - ring[p].count - 0
  BY DEF RingInv, Owes, Sound
<1> QED BY <1>1, <1>2, <1>3, <1>4, <1>5 DEF Answered

(* The calls on ports, made in a calm moment. *)
LEMMA CallsAnswered ==
  ASSUME GuestInv, RingInv', GuestTypes', Punctual,
         \/ \E n \in setup.nblocks : PortOpen(n)
         \/ \E p \in AudioPorts : PortClose(p) \/ PortStart(p) \/ PortStop(p)
  PROVE  /\ OneQueue' /\ Covered'
         /\ \A p \in AudioPorts : ring'[p].in_use => Answered(p)'
<1>1. Calm /\ UNCHANGED <<setup, slots, events, turn, reader>>
  BY DEF PortOpen, PortClose, PortStart, PortStop, MayCall, Orderly, Punctual
<1>2. Calm' /\ GuestTypes /\ RingInv
  BY <1>1 DEF Calm, GuestInv
<1>3. ~Told /\ ~Told' /\ \A s \in NotifySlots : slots'[s] # NoKey => OnTheWay(s)' = 0
  BY <1>1, <1>2, CalmIsQuiet DEF Told, Busy, OnTheWay
<1>4. OneQueue'
  BY <1>1 DEF GuestInv, OneQueue, Registered
<1>5. \A p \in AudioPorts : ring'[p].count >= 0
  BY DEF RingInv, Owes, Sound
<1>6. Covered'
  BY <1>3, <1>5 DEF Covered
<1>7. CASE \E p \in AudioPorts : PortClose(p) \/ PortStart(p) \/ PortStop(p)
  <2>1. PICK p \in AudioPorts : PortClose(p) \/ PortStart(p) \/ PortStop(p)
    BY <1>7
  <2>2. DOMAIN ring[p] = PortFields
    BY <1>2 DEF RingInv, Owes, Sound
  <2>3. \A f \in {"nblock", "read", "count"} : ring'[p][f] = ring[p][f]
    BY <1>2, <2>1, <2>2 DEF PortClose, PortStart, PortStop, RingInv, PortFields
  <2>4. \A q \in AudioPorts \ {p} : ring'[q] = ring[q]
    BY <1>2, <2>1 DEF PortClose, PortStart, PortStop, RingInv
  <2>5. UNCHANGED <<mixes, blocks>>
    BY <2>1 DEF PortClose, PortStart, PortStop
  <2>6. ring'[p].in_use => ring[p].in_use
    BY <2>1, <2>2, <1>2 DEF PortClose, PortStart, PortStop, RingInv, PortFields, Running
  <2>7. ASSUME NEW q \in AudioPorts, ring'[q].in_use PROVE Answered(q)'
    <3>1. Answered(q) /\ \A f \in {"nblock", "read", "count"} : ring'[q][f] = ring[q][f]
      BY <2>3, <2>4, <2>6, <2>7 DEF GuestInv
    <3> QED BY <1>1, <1>2, <1>3, <2>5, <3>1, CalmAnswered
  <2> QED BY <1>4, <1>6, <2>7
<1>8. CASE \E n \in setup.nblocks : PortOpen(n)
  <2>1. PICK n \in setup.nblocks : PortOpen(n)
    BY <1>8
  <2>2. PICK p : /\ ring' = [ring EXCEPT ![p] = Fresh(n, TRUE)]
                 /\ blocks' = [blocks EXCEPT ![p] = [b \in 0 .. n - 1 |-> 0]]
                 /\ mixes' = [mixes EXCEPT ![p] = 0]
    BY <2>1 DEF PortOpen
  <2>3. n \in Nat \ {0}
    BY <1>2, RingAssumption DEF RingInv
  <2>4. \A q \in AudioPorts \ {p} : ring'[q] = ring[q] /\ mixes'[q] = mixes[q] /\ blocks'[q] = blocks[q]
    BY <2>2, <1>2 DEF RingInv, GuestTypes
  <2>5. ASSUME NEW q \in AudioPorts, ring'[q].in_use, q # p PROVE Answered(q)'
    <3>1. Answered(q) /\ ring'[q] = ring[q] /\ mixes'[q] = mixes[q] /\ blocks'[q] = blocks[q]
      BY <2>4, <2>5 DEF GuestInv
    <3> QED BY <1>1, <1>2, <1>3, <3>1, CalmAnswered
  <2>6. ASSUME p \in AudioPorts PROVE Answered(p)'
    <3>1. ring'[p] = Fresh(n, TRUE) /\ mixes'[p] = 0 /\ blocks'[p] = [b \in 0 .. n - 1 |-> 0]
      BY <2>2, <2>6, <1>2 DEF RingInv, GuestTypes
    <3>2. Holds([b \in 0 .. n - 1 |-> 0], n, 0)'
      BY <1>1, <1>2, <2>3, HoldsFresh, SamePositions
    <3> QED BY <1>3, <3>1, <3>2 DEF Answered, Fresh
  <2> QED BY <1>4, <1>6, <2>5, <2>6
<1> QED BY <1>7, <1>8

(* One queue at a time is registered, in a calm moment. *)
LEMMA SlotsAnswered ==
  ASSUME GuestInv, Punctual, NEW k \in QueueKeys,
         SetNotifyEventQueue(k) \/ RemoveNotifyEventQueue(k)
  PROVE  /\ OneQueue' /\ Covered'
         /\ \A p \in AudioPorts : ring'[p].in_use => Answered(p)'
<1>1. Calm /\ GuestTypes /\ RingInv /\ UNCHANGED <<setup, ring, index, blocks, events, turn, reader, mixes>>
  BY DEF SetNotifyEventQueue, RemoveNotifyEventQueue, MayCall, Orderly, Punctual, GuestInv
<1>2. ~Told /\ ~Told' /\ ~Busy'
  BY <1>1, CalmIsQuiet DEF Told, Busy
<1>3. PICK i : \/ slots' = [slots EXCEPT ![i] = k] /\ \A s \in NotifySlots : slots[s] = NoKey
               \/ slots' = [slots EXCEPT ![i] = NoKey]
  BY DEF SetNotifyEventQueue, RemoveNotifyEventQueue, Orderly, Punctual
<1>4. \A s, t \in NotifySlots : slots'[s] # NoKey /\ slots'[t] # NoKey => s = t
  BY <1>1, <1>3 DEF GuestTypes, GuestInv, OneQueue
<1>5. /\ \A q \in QueueKeys : events'[q] = <<>>
      /\ \A r \in AudioReaders : reader'[r].at = "idle"
  BY <1>1 DEF Calm
<1>6. OneQueue'
  BY <1>4, <1>5 DEF OneQueue
<1>7. slots' \in [NotifySlots -> QueueKeys \cup {NoKey}]
  BY <1>1, <1>3 DEF GuestTypes
<1>8. ASSUME NEW s \in NotifySlots, slots'[s] # NoKey
      PROVE  OnTheWay(s)' = 0
  <2>1. events'[slots'[s]] = <<>>
    BY <1>5, <1>7, <1>8
  <2>2. turn' = 0
    BY <1>1 DEF Calm
  <2> QED BY <1>2, <2>1, <2>2 DEF OnTheWay
<1>9. \A p \in AudioPorts : ring'[p].count >= 0
  BY <1>1 DEF RingInv, Owes, Sound
<1>10. Covered'
  BY <1>8, <1>9 DEF Covered
<1>11. \A p \in AudioPorts : ring[p].in_use => Answered(p)
  BY DEF GuestInv
<1> QED BY <1>1, <1>2, <1>6, <1>10, <1>11, KeepsAnswered

(* A block is mixed before it would overtake the guest, so no position is lost. *)
LEMMA MixAnswered ==
  ASSUME GuestInv, Punctual, RingInv', MixBlock
  PROVE  /\ OneQueue' /\ Covered'
         /\ \A p \in AudioPorts : ring'[p].in_use => Answered(p)'
<1>1. GuestTypes /\ RingInv /\ UNCHANGED <<setup, index, blocks, slots, events, reader, mixes>>
  BY DEF MixBlock, GuestInv
<1>2. (Told' <=> Told) /\ (Busy' <=> Busy)
  BY <1>1 DEF Told, Busy
<1>3. OneQueue'
  BY <1>1 DEF GuestInv, OneQueue, Registered
<1>4. ASSUME NEW p \in AudioPorts, Running(p)
      PROVE  /\ ring'[p].nblock = ring[p].nblock /\ ring'[p].running = ring[p].running
             /\ ring'[p].read = ring[p].read + 1 /\ ring'[p].count = ring[p].count + 1
  <2>1. DOMAIN ring[p] = PortFields
    BY <1>1 DEF RingInv, Owes, Sound
  <2>2. Answered(p) /\ InTime(p)
    BY <1>4 DEF GuestInv, MixBlock, Running
  <2>3. PICK n \in Nat \ {0}, c \in Nat, r \in Nat : n = ring[p].nblock /\ c = ring[p].count /\ r = ring[p].read
    BY <1>1 DEF RingInv, Owes, Sound
  <2>4. Ahead(n) \in 1 .. n
    BY <1>1, AheadRange
  <2>5. mixes[p] <= r - c
    BY <2>2, <2>3 DEF Answered
  <2>6. mixes[p] >= r - Ahead(n) + 1
    BY <2>2, <2>3 DEF InTime
  <2>7. mixes[p] \in Nat
    BY <1>1 DEF GuestTypes
  <2>8. c # n
    BY <2>4, <2>5, <2>6, <2>7
  <2>9. ring'[p] = Announced(ring[p])
    BY <1>4 DEF MixBlock
  <2> QED BY <2>1, <2>3, <2>8, <2>9 DEF Announced, PortFields
<1>5. \A p \in AudioPorts : ~Running(p) => ring'[p] = ring[p]
  BY DEF MixBlock
<1>6. ASSUME NEW p \in AudioPorts, ring'[p].in_use PROVE Answered(p)'
  <2>1. CASE ~Running(p)
    <3>1. ring'[p] = ring[p] /\ Answered(p)
      BY <1>5, <1>6, <2>1 DEF GuestInv
    <3> QED BY <1>1, <1>2, <3>1, KeepsAnswered
  <2>2. CASE Running(p)
    <3>1. Answered(p)
      BY <2>2 DEF GuestInv, Running
    <3>2. PICK n, m, b : n = ring[p].nblock /\ m = mixes[p] /\ b = blocks[p]
      OBVIOUS
    <3>3. Holds(b, n, m)'
      BY <1>1, <3>1, <3>2, SamePositions DEF Answered
    <3>4. Told /\ ring[p].running => index[p] = Position(n, m + 1)'
      BY <1>1, <3>1, <3>2, SamePositions DEF Answered
    <3>5. m = ring[p].read - ring[p].count - (IF Told /\ ring[p].running THEN 1 ELSE 0)
      BY <3>1, <3>2 DEF Answered
    <3>6. ring'[p].read - ring'[p].count = ring[p].read - ring[p].count
      <4>1. PICK c \in Nat, r \in Nat : c = ring[p].count /\ r = ring[p].read
        BY <1>1 DEF RingInv, Owes, Sound
      <4>2. r + 1 - (c + 1) = r - c
        OBVIOUS
      <4> QED BY <1>4, <2>2, <4>1, <4>2
    <3> QED BY <1>1, <1>2, <1>4, <2>2, <3>2, <3>3, <3>4, <3>5, <3>6 DEF Answered
  <2> QED BY <2>1, <2>2
<1>7. ASSUME NEW p \in AudioPorts, Running(p)', NEW s \in NotifySlots, slots'[s] # NoKey
      PROVE  OnTheWay(s)' <= ring'[p].count
  <2>1. Running(p)
    BY <1>5, <1>7 DEF Running
  <2>2. OnTheWay(s) <= ring[p].count /\ ring[p].count \in Nat
    BY <1>1, <1>7, <2>1 DEF GuestInv, Covered, RingInv, Owes, Sound
  <2>3. PICK e \in Nat : e = Len(events[slots[s]])
    BY <1>1, <1>7, LenProperties DEF GuestTypes
  <2>4. PICK b \in {0, 1} : b = IF Busy THEN 1 ELSE 0
    OBVIOUS
  <2>5. turn = 0 /\ turn' = 1
    BY DEF MixBlock
  <2>6. OnTheWay(s) = e + b
    BY <2>3, <2>4, <2>5 DEF OnTheWay
  <2>7. OnTheWay(s)' = e + (IF turn' \in 1 .. s THEN 1 ELSE 0) + b
    BY <1>1, <1>2, <2>3, <2>4 DEF OnTheWay
  <2>8. OnTheWay(s)' \in {e + b, e + b + 1}
    BY <2>7
  <2> QED BY <1>4, <2>1, <2>2, <2>6, <2>8
<1> QED BY <1>3, <1>6, <1>7 DEF Covered

(* An event comes from the mixer to the queue, or is dropped. *)
LEMMA NotifyAnswered ==
  ASSUME GuestInv, Punctual, NotifySlot
  PROVE  /\ OneQueue' /\ Covered'
         /\ \A p \in AudioPorts : ring'[p].in_use => Answered(p)'
<1>1. GuestTypes /\ RingInv /\ UNCHANGED <<setup, ring, index, blocks, slots, reader, mixes>>
  BY DEF NotifySlot, GuestInv
<1>2. (Told' <=> Told) /\ (Busy' <=> Busy)
  BY <1>1 DEF Told, Busy
<1>3. turn \in NotifySlots /\ NotifySlots \subseteq Nat \ {0}
  <2>1. Cardinality(NotifySlots) \in Nat
    BY RingAssumption, FS_CardinalityType
  <2> QED BY <2>1, RingAssumption DEF NotifySlot
<1>4. \A k \in QueueKeys : events'[k] # events[k] => slots[turn] = k
  BY <1>1 DEF NotifySlot, GuestTypes
<1>5. OneQueue'
  BY <1>1, <1>3, <1>4 DEF GuestInv, OneQueue, Registered
<1>6. \A p \in AudioPorts : ring[p].in_use => Answered(p)
  BY DEF GuestInv
<1>7. ASSUME NEW p \in AudioPorts, Running(p)', NEW s \in NotifySlots, slots'[s] # NoKey
      PROVE  OnTheWay(s)' <= ring'[p].count
  <2>1. Running(p)
    BY <1>1, <1>7 DEF Running
  <2>2. PICK c \in Nat : c = ring[p].count
    BY <1>1 DEF RingInv, Owes, Sound
  <2>3. OnTheWay(s) <= c
    BY <1>1, <1>7, <2>1, <2>2 DEF GuestInv, Covered
  <2>4. PICK k \in QueueKeys : k = slots[s]
    BY <1>1, <1>7 DEF GuestTypes
  <2>5. PICK e \in Nat : e = Len(events[k]) /\ events[k] \in Seq(Announcements)
    BY <1>1, LenProperties DEF GuestTypes
  <2>6. PICK b \in {0, 1} : b = IF Busy THEN 1 ELSE 0
    OBVIOUS
  <2>7. PICK x \in {0, 1}, y \in {0, 1} :
           x = (IF turn \in 1 .. s THEN 1 ELSE 0) /\ y = IF turn' \in 1 .. s THEN 1 ELSE 0
    OBVIOUS
  <2>8. /\ OnTheWay(s) = e + x + b
        /\ OnTheWay(s)' = Len(events'[k]) + y + b
    BY <1>1, <1>2, <2>4, <2>5, <2>6, <2>7 DEF OnTheWay
  <2>9. turn' \in {0, turn + 1}
    BY DEF NotifySlot
  <2>10. CASE s = turn
    <3>1. turn' \notin 1 .. s
      BY <1>3, <2>9, <2>10
    <3>2. events'[k] = events[k] \/ events'[k] = Append(events[k], due)
      BY <1>1 DEF NotifySlot, GuestTypes
    <3>3. Len(events'[k]) \in {e, e + 1}
      BY <1>1, <2>5, <3>2, AppendProperties DEF GuestTypes
    <3>4. x = 1 /\ y = 0
      BY <1>3, <2>7, <2>10, <3>1
    <3>5. OnTheWay(s) = e + 1 + b /\ OnTheWay(s)' \in {e + b, e + 1 + b}
      BY <2>8, <3>3, <3>4
    <3> QED BY <1>1, <2>2, <2>3, <3>5
  <2>11. CASE s # turn
    <3>1. slots[turn] = NoKey
      BY <1>1, <1>3, <1>7, <2>11 DEF GuestInv, OneQueue
    <3>2. events'[k] = events[k]
      BY <1>4, <3>1, RingAssumption
    <3>3. turn' \in 1 .. s => turn \in 1 .. s
      BY <1>3, <2>9
    <3>4. y <= x
      BY <2>7, <3>3
    <3>5. OnTheWay(s) = e + x + b /\ OnTheWay(s)' = e + y + b
      BY <2>5, <2>8, <3>2
    <3> QED BY <1>1, <2>2, <2>3, <3>4, <3>5
  <2> QED BY <2>10, <2>11
<1> QED BY <1>1, <1>2, <1>5, <1>6, <1>7, KeepsAnswered DEF Covered

(* An event comes from the queue to the thread, which finds out whose it is. *)
LEMMA TakenAnswered ==
  ASSUME GuestInv, Punctual, NEW r \in AudioReaders,
         (\E k \in QueueKeys : ReceiveEvent(r, k)) \/ MatchSource(r)
  PROVE  /\ OneQueue' /\ Covered'
         /\ \A p \in AudioPorts : ring'[p].in_use => Answered(p)'
<1>1. /\ GuestTypes /\ RingInv /\ UNCHANGED <<setup, ring, index, blocks, slots, turn, mixes>>
      /\ AudioReaders = {r}
  BY DEF ReceiveEvent, MatchSource, GuestInv, OneReader
<1>2. \A p \in AudioPorts : ring[p].in_use => Answered(p)
  BY DEF GuestInv
<1>3. CASE \E k \in QueueKeys : ReceiveEvent(r, k)
  <2>1. PICK k \in QueueKeys : ReceiveEvent(r, k)
    BY <1>3
  <2>2. /\ events[k] \in Seq(Announcements) /\ events[k] # <<>>
        /\ events'[k] = Tail(events[k]) /\ \A o \in QueueKeys \ {k} : events'[o] = events[o]
    BY <1>1, <2>1 DEF ReceiveEvent, GuestTypes
  <2>3. PICK e \in Nat : e = Len(events[k]) /\ e > 0 /\ Len(events'[k]) = e - 1
    BY <2>2, EmptySeq, HeadTailProperties, LenProperties
  <2>4. reader[r].at = "idle" /\ reader'[r].at = "taken" /\ reader'[r].key = k
    BY <1>1, <2>1 DEF ReceiveEvent, Reader, GuestTypes
  <2>5. ~Told /\ ~Told' /\ ~Busy /\ Busy'
    BY <1>1, <2>4 DEF Told, Busy
  <2>6. Registered(k)
    BY <2>2 DEF GuestInv, OneQueue
  <2>7. OneQueue'
    BY <1>1, <2>2, <2>4, <2>6 DEF GuestInv, OneQueue, Registered
  <2>8. ASSUME NEW p \in AudioPorts, Running(p)', NEW s \in NotifySlots, slots'[s] # NoKey
        PROVE  OnTheWay(s)' <= ring'[p].count
    <3>1. OnTheWay(s) <= ring[p].count
      BY <1>1, <2>8 DEF GuestInv, Covered, Running
    <3>2. slots[s] = k
      BY <1>1, <2>6, <2>8, RingAssumption DEF GuestInv, OneQueue, Registered
    <3>3. OnTheWay(s) = e + (IF turn \in 1 .. s THEN 1 ELSE 0) + 0
      BY <2>3, <2>5, <3>2 DEF OnTheWay
    <3>4. OnTheWay(s)' = e - 1 + (IF turn \in 1 .. s THEN 1 ELSE 0) + 1
      BY <1>1, <2>3, <2>5, <3>2 DEF OnTheWay
    <3>5. OnTheWay(s)' = OnTheWay(s)
      BY <3>3, <3>4
    <3> QED BY <1>1, <3>1, <3>5
  <2> QED BY <1>1, <1>2, <2>5, <2>7, <2>8, KeepsAnswered DEF Covered
<1>4. CASE MatchSource(r)
  <2>1. reader[r].at = "taken" /\ Registered(reader[r].key)
    BY <1>4 DEF MatchSource, GuestInv, OneQueue
  <2>2. reader'[r].at = "ours" /\ reader'[r].key = reader[r].key /\ events' = events
    BY <1>1, <1>4, <2>1 DEF MatchSource, GuestTypes, Registered
  <2>3. ~Told /\ ~Told' /\ Busy /\ Busy'
    BY <1>1, <2>1, <2>2 DEF Told, Busy
  <2>4. OneQueue'
    BY <1>1, <2>1, <2>2 DEF GuestInv, OneQueue, Registered
  <2>5. \A s \in NotifySlots : OnTheWay(s)' = OnTheWay(s)
    BY <1>1, <2>2, <2>3 DEF OnTheWay
  <2>6. Covered'
    BY <1>1, <2>5 DEF GuestInv, Covered, Running
  <2> QED BY <1>1, <1>2, <2>3, <2>4, <2>6, KeepsAnswered
<1> QED BY <1>3, <1>4

(* The numbers of a port. *)
LEMMA PortParts ==
  ASSUME RingInv, GuestTypes, NEW p \in AudioPorts
  PROVE  \E n \in Nat \ {0}, m \in Nat, c \in Nat, d \in Nat, b \in {blocks[p]} :
           n = ring[p].nblock /\ m = mixes[p] /\ c = ring[p].count /\ d = ring[p].read
<1>1. ring[p].nblock \in Nat \ {0} /\ ring[p].read \in Nat /\ ring[p].count \in Nat
  BY DEF RingInv, Owes, Sound
<1>2. mixes[p] \in Nat
  BY DEF GuestTypes
<1> QED BY <1>1, <1>2

(* Every running port has a position for the event that was received. *)
LEMMA DeliveredAnswered ==
  ASSUME GuestInv, Punctual, RingInv', NEW r \in AudioReaders, NotifyDelivered(r)
  PROVE  /\ OneQueue' /\ Covered'
         /\ \A p \in AudioPorts : ring'[p].in_use => Answered(p)'
<1>1. /\ GuestTypes /\ RingInv /\ UNCHANGED <<setup, blocks, events, slots, turn, mixes>>
      /\ AudioReaders = {r}
  BY DEF NotifyDelivered, GuestInv, OneReader
<1>2. reader[r].at = "ours" /\ Registered(reader[r].key) /\ reader[r].key \in QueueKeys
  BY <1>1 DEF NotifyDelivered, GuestInv, OneQueue
<1>3. reader'[r].at = "told"
  BY <1>1 DEF NotifyDelivered, GuestTypes
<1>4. ~Told /\ Told' /\ Busy /\ ~Busy'
  BY <1>1, <1>2, <1>3 DEF Told, Busy
<1>5. OneQueue'
  BY <1>1, <1>3 DEF GuestInv, OneQueue, Registered
<1>6. ASSUME NEW s \in NotifySlots, slots[s] # NoKey
      PROVE  OnTheWay(s) \in Nat /\ OnTheWay(s) > 0 /\ OnTheWay(s)' = OnTheWay(s) - 1
  <2>1. PICK e \in Nat : e = Len(events[slots[s]])
    BY <1>1, <1>6, LenProperties DEF GuestTypes
  <2>2. PICK x \in {0, 1} : x = IF turn \in 1 .. s THEN 1 ELSE 0
    OBVIOUS
  <2>3. OnTheWay(s) = e + x + 1 /\ OnTheWay(s)' = e + x + 0
    BY <1>1, <1>4, <2>1, <2>2 DEF OnTheWay
  <2> QED BY <2>3
<1>7. PICK t \in NotifySlots : slots[t] # NoKey
  BY <1>2, RingAssumption DEF Registered
<1>8. \A p \in AudioPorts : ring[p].count \in Nat /\ (Running(p) => ring[p].count > 0)
  BY <1>1, <1>6, <1>7 DEF GuestInv, Covered, RingInv, Owes, Sound
<1>9. ASSUME NEW p \in AudioPorts, Running(p)
      PROVE  /\ ring'[p] = [ring[p] EXCEPT !.head = (@ + 1) % ring[p].nblock, !.count = @ - 1]
             /\ index'[p] = ring[p].pending[ring[p].head]
  <2>1. p \in Published
    BY <1>8, <1>9 DEF Published
  <2> QED BY <2>1 DEF NotifyDelivered
<1>10. ASSUME NEW p \in AudioPorts, ~Running(p)
       PROVE  ring'[p] = ring[p]
  BY <1>10 DEF NotifyDelivered, Published
<1>11. ASSUME NEW p \in AudioPorts
       PROVE  /\ ring'[p].in_use = ring[p].in_use /\ ring'[p].running = ring[p].running
              /\ ring'[p].read = ring[p].read /\ ring'[p].nblock = ring[p].nblock
              /\ ring'[p].count = IF Running(p) THEN ring[p].count - 1 ELSE ring[p].count
  <2>1. DOMAIN ring[p] = PortFields
    BY <1>1 DEF RingInv, Owes, Sound
  <2> QED BY <1>9, <1>10, <2>1 DEF PortFields
<1>12. ASSUME NEW p \in AudioPorts, ring'[p].in_use PROVE Answered(p)'
  <2>1. Answered(p)
    BY <1>11, <1>12 DEF GuestInv
  <2>2. PICK n \in Nat \ {0}, m \in Nat, c \in Nat, d \in Nat, b \in {blocks[p]} :
          n = ring[p].nblock /\ m = mixes[p] /\ c = ring[p].count /\ d = ring[p].read
    BY <1>1, PortParts
  <2>3. Holds(b, n, m)'
    BY <1>1, <2>1, <2>2, SamePositions DEF Answered
  <2>4. m = d - c
    BY <1>4, <2>1, <2>2 DEF Answered
  <2>5. CASE Running(p)
    <3>1. ring'[p].running /\ ring'[p].read = d /\ ring'[p].count = c - 1 /\ ring'[p].nblock = n
      BY <1>11, <2>2, <2>5 DEF Running
    <3>2. ring[p].head \in 0 .. n - 1 /\ c \in 1 .. n
      BY <1>1, <1>8, <2>2, <2>5 DEF RingInv, Owes, Sound
    <3>3. index'[p] = ring[p].pending[Slot(n, ring[p].head, 0)]
      BY <1>9, <2>5, <3>2, SlotNowhere
    <3>4. index'[p] = Position(n, d - c + 0 + 1)
      BY <1>1, <2>2, <3>2, <3>3 DEF RingInv, Owes, Owed
    <3>5. index'[p] = Position(n, m + 1)'
      BY <1>1, <2>4, <3>4, d - c + 0 + 1 = m + 1, SamePositions
    <3>6. m = d - (c - 1) - 1
      BY <2>4
    <3> QED BY <1>1, <1>4, <2>2, <2>3, <3>1, <3>5, <3>6 DEF Answered
  <2>6. CASE ~Running(p)
    <3>1. ~ring'[p].running /\ ring'[p].read = d /\ ring'[p].count = c /\ ring'[p].nblock = n
      BY <1>11, <1>12, <2>2, <2>6 DEF Running
    <3>2. m = d - c - 0
      BY <2>4
    <3> QED BY <1>1, <2>2, <2>3, <3>1, <3>2 DEF Answered
  <2> QED BY <2>5, <2>6
<1>13. ASSUME NEW p \in AudioPorts, Running(p)', NEW s \in NotifySlots, slots'[s] # NoKey
       PROVE  OnTheWay(s)' <= ring'[p].count
  <2>1. Running(p)
    BY <1>11, <1>13 DEF Running
  <2>2. OnTheWay(s) <= ring[p].count
    BY <1>1, <1>13, <2>1 DEF GuestInv, Covered
  <2>3. PICK c \in Nat, w \in Nat : c = ring[p].count /\ w = OnTheWay(s)
    BY <1>1, <1>6, <1>8, <1>13
  <2> QED BY <1>1, <1>6, <1>11, <1>13, <2>1, <2>2, <2>3
<1> QED BY <1>5, <1>12, <1>13 DEF Covered

(* The guest writes its next mix where it was told to. *)
LEMMA WriteAnswered ==
  ASSUME GuestInv, Punctual, NEW r \in AudioReaders, WriteMix(r)
  PROVE  /\ OneQueue' /\ Covered'
         /\ \A p \in AudioPorts : ring'[p].in_use => Answered(p)'
<1>1. /\ GuestTypes /\ RingInv /\ UNCHANGED <<setup, ring, index, events, slots, turn>>
      /\ AudioReaders = {r}
  BY DEF WriteMix, GuestInv, OneReader
<1>2. reader[r].at = "told" /\ reader'[r].at = "idle"
  BY <1>1 DEF WriteMix, Reader, GuestTypes
<1>3. Told /\ ~Told' /\ ~Busy /\ ~Busy'
  BY <1>1, <1>2 DEF Told, Busy
<1>4. OneQueue'
  BY <1>1, <1>2 DEF GuestInv, OneQueue, Registered
<1>5. \A s \in NotifySlots : OnTheWay(s)' = OnTheWay(s)
  BY <1>1, <1>3 DEF OnTheWay
<1>6. Covered'
  BY <1>1, <1>5 DEF GuestInv, Covered, Running
<1>7. ASSUME NEW p \in AudioPorts, ring'[p].in_use PROVE Answered(p)'
  <2>1. Answered(p)
    BY <1>1, <1>7 DEF GuestInv
  <2>2. PICK n \in Nat \ {0}, m \in Nat, c \in Nat, d \in Nat, b \in {blocks[p]} :
          n = ring[p].nblock /\ m = mixes[p] /\ c = ring[p].count /\ d = ring[p].read
    BY <1>1, PortParts
  <2>3. CASE Running(p)
    <3>1. index[p] = Position(n, m + 1) /\ m = d - c - 1 /\ Holds(b, n, m)
      BY <1>3, <2>1, <2>2, <2>3 DEF Answered, Running
    <3>2. mixes'[p] = m + 1 /\ blocks'[p] = [b EXCEPT ![Position(n, m + 1)] = m + 1]
      BY <2>2, <2>3, <3>1 DEF WriteMix, Orderly, Punctual
    <3>3. PICK b2 : b2 = [b EXCEPT ![Position(n, m + 1)] = m + 1]
      OBVIOUS
    <3>4. Holds(b2, n, m + 1)
      BY <1>1, <3>1, <3>3, HoldsNext
    <3>5. Holds(b2, n, m + 1)'
      BY <1>1, <3>4, SamePositions
    <3>6. m + 1 = d - c - 0
      BY <3>1
    <3> QED BY <1>1, <1>3, <2>2, <3>2, <3>3, <3>5, <3>6 DEF Answered
  <2>4. CASE ~Running(p)
    <3>1. mixes'[p] = m /\ blocks'[p] = b /\ ~ring[p].running
      BY <1>1, <1>7, <2>2, <2>4 DEF WriteMix, Running
    <3>2. m = d - c - 0 /\ Holds(b, n, m)
      BY <2>1, <2>2, <3>1 DEF Answered
    <3>3. Holds(b, n, m)'
      BY <1>1, <3>2, SamePositions
    <3> QED BY <1>1, <1>3, <2>2, <3>1, <3>2, <3>3 DEF Answered
  <2> QED BY <2>3, <2>4
<1> QED BY <1>4, <1>6, <1>7

(* Every step of such a guest, or of the mixer, keeps its account. *)
LEMMA NextGuest == GuestInv /\ [ArNext]_arVars => GuestInv'
<1> SUFFICES ASSUME GuestInv, [ArNext]_arVars PROVE GuestInv'
  OBVIOUS
<1>1. OneReader' /\ RingInv'
  BY NextRing DEF GuestInv, OneReader
<1>2. setup' = setup
  BY DEF ArNext, PortOpen, PortClose, PortStart, PortStop, SetNotifyEventQueue, RemoveNotifyEventQueue,
     MixBlock, NotifySlot, ReceiveEvent, TryReceiveEvent, MatchSource, NotifyDelivered, WriteMix, arVars
<1>3. Punctual' <=> Punctual
  BY <1>2 DEF Punctual
<1>4. CASE UNCHANGED arVars
  <2>1. GuestTypes' /\ (Told' <=> Told) /\ (Busy' <=> Busy)
    BY <1>4 DEF arVars, GuestInv, GuestTypes, Told, Busy
  <2>2. ASSUME Punctual PROVE OneQueue' /\ Covered'
    BY <1>4, <2>1, <2>2 DEF arVars, GuestInv, OneQueue, Registered, Covered, Running, OnTheWay
  <2>3. ASSUME Punctual, NEW p \in AudioPorts, ring'[p].in_use PROVE Answered(p)'
    <3>1. Answered(p)
      BY <1>4, <2>3 DEF arVars, GuestInv
    <3> QED BY <1>2, <1>4, <2>1, <3>1, KeepsAnswered DEF arVars
  <2> QED BY <1>1, <1>3, <2>1, <2>2, <2>3 DEF GuestInv
<1>5. ASSUME ArNext
      PROVE  /\ GuestTypes'
             /\ Punctual => /\ OneQueue' /\ Covered'
                            /\ \A p \in AudioPorts : ring'[p].in_use => Answered(p)'
  <2>0. GuestTypes /\ RingInv
    BY DEF GuestInv
  <2>1. CASE \/ \E n \in setup.nblocks : PortOpen(n)
             \/ \E p \in AudioPorts : PortClose(p) \/ PortStart(p) \/ PortStop(p)
    <3>1. GuestTypes'
      BY <2>0, <2>1, CallsTyped
    <3> QED BY <1>1, <2>1, <3>1, CallsAnswered
  <2>2. CASE \E k \in QueueKeys : SetNotifyEventQueue(k) \/ RemoveNotifyEventQueue(k)
    BY <2>0, <2>2, CallsTyped, SlotsAnswered
  <2>3. CASE MixBlock
    BY <1>1, <2>0, <2>3, MixerTyped, MixAnswered
  <2>4. CASE NotifySlot
    BY <2>0, <2>4, MixerTyped, NotifyAnswered
  <2>5. CASE \E r \in AudioReaders : \/ \E k \in QueueKeys : ReceiveEvent(r, k) \/ TryReceiveEvent(r, k)
                                     \/ MatchSource(r) \/ NotifyDelivered(r) \/ WriteMix(r)
    <3>1. PICK r \in AudioReaders : \/ \E k \in QueueKeys : ReceiveEvent(r, k) \/ TryReceiveEvent(r, k)
                                    \/ MatchSource(r) \/ NotifyDelivered(r) \/ WriteMix(r)
      BY <2>5
    <3>2. GuestTypes'
      BY <2>0, <3>1, ReadersTyped
    <3>3. Punctual => ~\E k \in QueueKeys : TryReceiveEvent(r, k)
      BY DEF TryReceiveEvent, Punctual, Orderly
    <3> QED BY <1>1, <3>1, <3>2, <3>3, TakenAnswered, DeliveredAnswered, WriteAnswered
  <2> QED BY <1>5, <2>1, <2>2, <2>3, <2>4, <2>5 DEF ArNext
<1> QED BY <1>1, <1>3, <1>4, <1>5 DEF GuestInv

(* The block that is mixed is the one the guest wrote for it. *)
LEMMA MixHeard ==
  ASSUME GuestInv, Punctual, MixBlock, NEW p \in AudioPorts, Running(p)
  PROVE  Playing(p) = Max({0, ring[p].read - Ahead(ring[p].nblock) + 1})
<1>1. Answered(p) /\ InTime(p) /\ RingInv
  BY DEF GuestInv, MixBlock, Running
<1>2. PICK n \in Nat \ {0}, m \in Nat, c \in Nat, d \in Nat, b \in {blocks[p]} :
        n = ring[p].nblock /\ m = mixes[p] /\ c = ring[p].count /\ d = ring[p].read
  BY PortParts DEF GuestInv
<1>3. m <= d /\ m >= d - Ahead(n) + 1 /\ Holds(b, n, m)
  BY <1>1, <1>2 DEF Answered, InTime
<1>4. b[d % n] = Max({0, d - Ahead(n) + 1})
  BY <1>1, <1>3, HoldsHeard
<1> QED BY <1>2, <1>4 DEF Playing

(* A guest whose one thread answers every notification before the block it    *)
(* asked for is played hears its mixes in the order it wrote them, none lost   *)
(* or repeated, on every port, for every ring size, lookahead and queue: the   *)
(* positions that events bring are matched by counting alone                   *)
(* (cellAudio.c:120-130, 582-640).                                             *)
THEOREM MixesAreHeard == OneReader /\ ArSpec => HeardInOrder
<1>1. GuestInv /\ [ArNext]_arVars =>
        [Punctual /\ MixBlock => \A p \in AudioPorts : Running(p) =>
           Playing(p) = Max({0, ring[p].read - Ahead(ring[p].nblock) + 1})]_arVars
  BY MixHeard
<1> QED BY <1>1, InitGuest, NextGuest, PTL DEF ArSpec, HeardInOrder
=============================================================================
