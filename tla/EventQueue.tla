----------------------------- MODULE EventQueue -----------------------------
(***************************************************************************)
(* Event queues and event ports (ps3recomp/runtime/syscalls/sys_event.c).  *)
(*                                                                         *)
(* A queue is a slot of a table: a ring buffer, a lock and one condition   *)
(* variable.  Ids are slot numbers, so the id of a destroyed queue is given *)
(* out again; "gen" counts the times a slot was filled and lets the        *)
(* properties tell one queue from the next.  create, destroy and the port  *)
(* calls run under the table lock; send and receive look at "active"       *)
(* before they take the queue's own lock and are cut there.  The           *)
(* notification is sent before that lock is dropped, so a push is one      *)
(* step.                                                                   *)
(***************************************************************************)
EXTENDS Integers, Sequences, FiniteSets, FiniteSetsExt

CONSTANTS
  Queues, Ports,       \* ids: table slots
  Receivers, Senders,  \* guest threads; the senders also create and destroy
  Sizes,               \* sizes asked of sys_event_queue_create
  BufMax,              \* SYS_EVENT_QUEUE_BUF_MAX
  MaxEvents,           \* bound: events pushed in a behaviour
  MaxCreates,          \* bound: times a slot is filled
  None,                \* nobody
  Guests               \* subset of BOOLEAN: those who destroy only what nobody
                       \* uses (TRUE), and those who destroy anything

ASSUME IdsAssumption == Queues \subseteq Nat \ {0} /\ Ports \subseteq Nat \ {0}
ASSUME ThreadsAssumption ==
  Receivers \cap Senders = {} /\ None \notin Receivers \cup Senders
ASSUME SizesAssumption == Sizes \subseteq Int /\ BufMax \in Nat \ {0}
ASSUME BoundsAssumption == {MaxEvents, MaxCreates} \subseteq Nat
ASSUME GuestsAssumption == Guests \subseteq BOOLEAN

VARIABLES
  tidy,    \* the guest of this behaviour destroys only what nobody uses
  active, gen, capacity, head, tail, count, buffer, \* g_sys_event_queues
  port,    \* g_sys_event_ports: [active, to, gen], to = 0 when unconnected
  at,      \* where a thread is
  on,      \* the queue it works on
  timed,   \* whether its receive has a timeout
  aim,     \* history: the queue its port was connected to
  meant,   \* history: for each event pushed, the queue it was aimed at
  table    \* the thread a destroy holds the table lock for, or None

Threads == Receivers \cup Senders
Nowhere == [queue |-> 0, gen |-> 0]

queueVars  == <<active, gen, capacity, head, tail, count, buffer>>
threadVars == <<at, on, timed, aim>>
vars == <<tidy, queueVars, port, threadVars, meant, table>>

Stations == {"idle", "entering", "asleep", "expired", "delivering",
             "orphan", "trying", "draining", "pushing", "destroying"}

EqInit ==
  /\ tidy \in Guests
  /\ active = [q \in Queues |-> FALSE]
  /\ gen = [q \in Queues |-> 0]
  /\ capacity = [q \in Queues |-> 0]
  /\ head = [q \in Queues |-> 0]
  /\ tail = [q \in Queues |-> 0]
  /\ count = [q \in Queues |-> 0]
  /\ buffer = [q \in Queues |-> <<>>]
  /\ port = [p \in Ports |-> [active |-> FALSE, to |-> 0, gen |-> 0]]
  /\ at = [t \in Threads |-> "idle"]
  /\ on = [t \in Threads |-> 0]
  /\ timed = [t \in Threads |-> FALSE]
  /\ aim = [t \in Threads |-> Nowhere]
  /\ meant = <<>>
  /\ table = None

At(station, q) == {t \in Threads : at[t] = station /\ on[t] = q}
Using(q) == {t \in Threads : on[t] = q}

\* A thread starts or goes on with a call that works on queue q.
Enter(t, station, q) ==
  /\ at' = [at EXCEPT ![t] = station]
  /\ on' = [on EXCEPT ![t] = q]

\* A thread returns from its call.
Leave(t) ==
  /\ at' = [at EXCEPT ![t] = "idle"]
  /\ on' = [on EXCEPT ![t] = 0]
  /\ timed' = [timed EXCEPT ![t] = FALSE]
  /\ aim' = [aim EXCEPT ![t] = Nowhere]

-----------------------------------------------------------------------------
(* Queues: under the table lock *)

Clamp(size) == IF size <= 0 \/ size > BufMax THEN BufMax ELSE size

FreeSlots == {q \in Queues : ~active[q]}

\* sys_event_queue_create takes the first free slot and clears it.
QueueCreate(t, size) ==
  /\ table = None
  /\ at[t] = "idle"
  /\ FreeSlots # {}
  /\ LET q == Min(FreeSlots)  c == Clamp(size) IN
       /\ gen[q] < MaxCreates
       /\ gen' = [gen EXCEPT ![q] = @ + 1]
       /\ active' = [active EXCEPT ![q] = TRUE]
       /\ capacity' = [capacity EXCEPT ![q] = c]
       /\ head' = [head EXCEPT ![q] = 0]
       /\ tail' = [tail EXCEPT ![q] = 0]
       /\ count' = [count EXCEPT ![q] = 0]
       /\ buffer' = [buffer EXCEPT ![q] = [i \in 0 .. c - 1 |-> 0]]
  /\ UNCHANGED <<port, threadVars, meant, table>>

Idle(q) == /\ Using(q) = {}
           /\ \A p \in Ports : port[p].active => port[p].to # q

\* sys_event_queue_destroy looks at neither waiters, events nor ports and
\* wakes nobody: whoever sleeps on the condition variable stays there.
\* Destroying it under waiters is undefined: it may return or, as in glibc,
\* wait for them with the table lock held.
QueueDestroy(t, q) ==
  /\ table = None
  /\ at[t] = "idle"
  /\ active[q]
  /\ tidy => Idle(q)
  /\ \/ /\ active' = [active EXCEPT ![q] = FALSE]
        /\ at' = [u \in Threads |->
                    IF u \in At("asleep", q) THEN "orphan" ELSE at[u]]
        /\ UNCHANGED <<on, table>>
     \/ /\ At("asleep", q) # {}
        /\ Enter(t, "destroying", q)
        /\ table' = t
        /\ UNCHANGED active
  /\ UNCHANGED <<gen, capacity, head, tail, count, buffer, port, timed, aim, meant>>

\* The condition variable has lost its last waiter: the destroy goes on.
QueueDestroyed(t) ==
  /\ at[t] = "destroying"
  /\ At("asleep", on[t]) = {}
  /\ active' = [active EXCEPT ![on[t]] = FALSE]
  /\ table' = None
  /\ Leave(t)
  /\ UNCHANGED <<gen, capacity, head, tail, count, buffer, port, meant>>

-----------------------------------------------------------------------------
(* Queues: under the queue's lock *)

MutPopNoWrap(q, k) ==
  /\ head' = [head EXCEPT ![q] = IF @ + k > capacity[q] THEN 0 ELSE @ + k]
  /\ count' = [count EXCEPT ![q] = @ - k]
  /\ UNCHANGED <<active, gen, capacity, tail, buffer>>

\* The k oldest events of q leave the ring.
Pop(q, k) ==
  /\ head' = [head EXCEPT ![q] = (@ + k) % capacity[q]]
  /\ count' = [count EXCEPT ![q] = @ - k]
  /\ UNCHANGED <<active, gen, capacity, tail, buffer>>

\* sys_event_queue_receive: a look at active, then the lock.
Receive(t, q) ==
  /\ at[t] = "idle"
  /\ active[q]
  /\ Enter(t, "entering", q)
  /\ timed' \in {timed, [timed EXCEPT ![t] = TRUE]}
  /\ UNCHANGED <<queueVars, port, aim, meant, table>>

\* The loop of receive, on entry and after every wake up: sleep while there
\* is nothing, give up on a queue that is gone, or take the oldest event.  A
\* timeout that has passed, or on Windows one below a millisecond, ends it
\* without a sleep.
ReceiveLoop(t) ==
  LET q == on[t] IN
  /\ at[t] = "entering"
  /\ \/ /\ count[q] = 0 /\ active[q]
        /\ at' = [at EXCEPT ![t] = "asleep"]
        /\ UNCHANGED <<queueVars, on, timed, aim>>
     \/ /\ timed[t] /\ (count[q] = 0 \/ ~active[q])
        /\ at' = [at EXCEPT ![t] = "expired"]
        /\ UNCHANGED <<queueVars, on, timed, aim>>
     \/ /\ ~active[q]
        /\ Leave(t)
        /\ UNCHANGED queueVars
     \/ /\ count[q] > 0 /\ active[q]
        /\ Pop(q, 1)
        /\ at' = [at EXCEPT ![t] = "delivering"]
        /\ UNCHANGED <<on, timed, aim>>
  /\ UNCHANGED <<port, meant, table>>

\* Condition variables may wake for no reason; the loop looks again.
SpuriousWake(t) ==
  /\ at[t] = "asleep"
  /\ at' = [at EXCEPT ![t] = "entering"]
  /\ UNCHANGED <<queueVars, port, on, timed, aim, meant, table>>

\* The timeout of a sleeping receive passes: it leaves the condition variable
\* and returns ETIMEDOUT once it has the lock, whatever the queue holds then.
ReceiveExpire(t) ==
  /\ at[t] \in {"asleep", "orphan"}
  /\ timed[t]
  /\ at' = [at EXCEPT ![t] = "expired"]
  /\ UNCHANGED <<queueVars, port, on, timed, aim, meant, table>>

\* The event is handed to the caller's registers outside the lock.
ReceiveReturn(t) ==
  /\ at[t] \in {"expired", "delivering"}
  /\ Leave(t)
  /\ UNCHANGED <<queueVars, port, meant, table>>

\* sys_event_queue_tryreceive takes up to max_count events; it does not look
\* at active again once it has the lock.
TryReceive(t, q) ==
  /\ at[t] = "idle"
  /\ active[q]
  /\ Enter(t, "trying", q)
  /\ UNCHANGED <<queueVars, port, timed, aim, meant, table>>

TryReceiveTake(t, k) ==
  /\ at[t] = "trying"
  /\ k \in 0 .. count[on[t]]
  /\ k = 0 => count[on[t]] = 0
  /\ IF k = 0 THEN UNCHANGED queueVars ELSE Pop(on[t], k)
  /\ Leave(t)
  /\ UNCHANGED <<port, meant, table>>

Drain(t, q) ==
  /\ at[t] = "idle"
  /\ active[q]
  /\ Enter(t, "draining", q)
  /\ UNCHANGED <<queueVars, port, timed, aim, meant, table>>

DrainAll(t) ==
  /\ at[t] = "draining"
  /\ head' = [head EXCEPT ![on[t]] = 0]
  /\ tail' = [tail EXCEPT ![on[t]] = 0]
  /\ count' = [count EXCEPT ![on[t]] = 0]
  /\ Leave(t)
  /\ UNCHANGED <<active, gen, capacity, buffer, port, meant, table>>

\* Waking only when the queue was empty, an optimisation that loses a wakeup
\* once two events are pushed before a receiver runs.
MutWakesWhenEmpty(q) == IF At("asleep", q) = {} \/ count[q] > 0 THEN 0 ELSE 1

\* How many sleepers a push wakes.
Wakes(q) == IF At("asleep", q) = {} THEN 0 ELSE 1

\* event_queue_push with the lock held: EBUSY when full, else store the event
\* and wake one sleeper, if there is one.
Push(t) ==
  LET q == on[t] IN
  /\ at[t] = "pushing"
  /\ \/ /\ count[q] >= capacity[q]
        /\ Leave(t)
        /\ UNCHANGED <<queueVars, meant>>
     \/ /\ count[q] < capacity[q]
        /\ meant' = Append(meant, aim[t])
        /\ buffer' = [buffer EXCEPT ![q][tail[q]] = Len(meant')]
        /\ tail' = [tail EXCEPT ![q] = (@ + 1) % capacity[q]]
        /\ count' = [count EXCEPT ![q] = @ + 1]
        /\ \E woken \in SUBSET At("asleep", q) :
             /\ Cardinality(woken) = Wakes(q)
             /\ at' = [u \in Threads |-> IF u = t THEN "idle"
                         ELSE IF u \in woken THEN "entering" ELSE at[u]]
        /\ on' = [on EXCEPT ![t] = 0]
        /\ aim' = [aim EXCEPT ![t] = Nowhere]
        /\ UNCHANGED <<active, gen, capacity, head, timed>>
  /\ UNCHANGED <<port, table>>


-----------------------------------------------------------------------------
(* Ports *)

Unconnected == [active |-> TRUE, to |-> 0, gen |-> 0]

\* Reusing a slot without clearing it.
MutFreshPortKeepsLink(p) == [port[p] EXCEPT !.active = TRUE]

\* sys_event_port_create clears the first free slot.
FreshPort(p) == Unconnected

PortCreate(t) ==
  LET free == {p \in Ports : ~port[p].active} IN
  /\ table = None
  /\ at[t] = "idle"
  /\ free # {}
  /\ port' = [port EXCEPT ![Min(free)] = FreshPort(Min(free))]
  /\ UNCHANGED <<queueVars, threadVars, meant, table>>

\* sys_event_port_destroy leaves the connection in the slot.
PortDestroy(t, p) ==
  /\ table = None
  /\ at[t] = "idle"
  /\ port[p].active
  /\ port' = [port EXCEPT ![p].active = FALSE]
  /\ UNCHANGED <<queueVars, threadVars, meant, table>>

\* sys_event_port_connect_local; EISCONN and ESRCH change nothing.
PortConnect(t, p, q) ==
  /\ table = None
  /\ at[t] = "idle"
  /\ port[p].active /\ active[q] /\ port[p].to = 0
  /\ port' = [port EXCEPT ![p].to = q, ![p].gen = gen[q]]
  /\ UNCHANGED <<queueVars, threadVars, meant, table>>

PortDisconnect(t, p) ==
  /\ table = None
  /\ at[t] = "idle"
  /\ port[p].active /\ port[p].to # 0
  /\ port' = [port EXCEPT ![p] = Unconnected]
  /\ UNCHANGED <<queueVars, threadVars, meant, table>>

CanSend(t) ==
  /\ at[t] = "idle"
  /\ Len(meant) + Cardinality({u \in Threads : at[u] = "pushing"}) < MaxEvents

SendTo(t, q, goal) ==
  /\ active[q]
  /\ Enter(t, "pushing", q)
  /\ aim' = [aim EXCEPT ![t] = goal]
  /\ UNCHANGED <<queueVars, port, timed, meant, table>>

\* sys_event_port_send up to event_queue_push, without the table lock.  The
\* port holds the number of a slot, not a queue.
PortSend(t, p) ==
  /\ CanSend(t)
  /\ port[p].active /\ port[p].to # 0
  /\ SendTo(t, port[p].to, [queue |-> port[p].to, gen |-> port[p].gen])

\* A send to a port that is not active goes to the queue with that number.
PortRoute(t, p) ==
  /\ CanSend(t)
  /\ ~port[p].active
  /\ p \in Queues
  /\ SendTo(t, p, Nowhere)

\* sys_event_queue_push_by_id and sys_event_queue_inject, for host code.
PushById(t, q) ==
  /\ CanSend(t)
  /\ SendTo(t, q, [queue |-> q, gen |-> gen[q]])

-----------------------------------------------------------------------------
Continue(t) ==
  \/ ReceiveLoop(t) \/ ReceiveExpire(t) \/ ReceiveReturn(t)
  \/ \E k \in 0 .. BufMax : TryReceiveTake(t, k)
  \/ DrainAll(t) \/ Push(t) \/ QueueDestroyed(t)

SendersStep(t) ==
  \/ \E size \in Sizes : QueueCreate(t, size)
  \/ \E q \in Queues : QueueDestroy(t, q) \/ PushById(t, q)
  \/ PortCreate(t)
  \/ \E p \in Ports :
       \/ PortDestroy(t, p) \/ PortDisconnect(t, p)
       \/ PortSend(t, p) \/ PortRoute(t, p)
       \/ \E q \in Queues : PortConnect(t, p, q)

EqNext ==
  /\ \/ \E t \in Threads : Continue(t) \/ SpuriousWake(t)
     \/ \E t \in Receivers, q \in Queues :
          Receive(t, q) \/ TryReceive(t, q) \/ Drain(t, q)
     \/ \E t \in Senders : SendersStep(t)
  /\ UNCHANGED tidy

EqSpec == EqInit /\ [][EqNext]_vars

\* The host scheduler runs every thread that can go on, and time passes.
EqFairSpec == EqSpec /\ \A t \in Threads : WF_vars(Continue(t) /\ UNCHANGED tidy)

-----------------------------------------------------------------------------
(* Properties *)

\* The shape of the state: a ring's tail is where head and count put it.
EqTypeOK ==
  /\ active \in [Queues -> BOOLEAN]
  /\ \A q \in Queues : active[q] =>
       /\ capacity[q] \in 1 .. BufMax
       /\ count[q] \in 0 .. capacity[q]
       /\ {head[q], tail[q]} \subseteq 0 .. capacity[q] - 1
       /\ tail[q] = (head[q] + count[q]) % capacity[q]
       /\ DOMAIN buffer[q] = 0 .. capacity[q] - 1
  /\ at \in [Threads -> Stations]
  /\ on \in [Threads -> Queues \cup {0}]
  /\ table \in Threads \cup {None}

Contents(q) == [i \in 1 .. count[q] |-> buffer[q][(head[q] + i - 1) % capacity[q]]]

\* What the queues hold, and how much they may hold.
Fifos == [q \in Queues |-> IF active[q] THEN Contents(q) ELSE <<>>]
Rooms == [q \in Queues |-> IF active[q] THEN capacity[q] ELSE 0]

Fifo == INSTANCE EventFifo WITH
  Events <- 1 .. MaxEvents, MaxRoom <- BufMax, fifo <- Fifos, room <- Rooms

\* Whatever the threads interleave, the ring buffers are FIFO queues: no event
\* is lost, repeated or overtaken, and none is kept when an id is given out
\* again.
ImplementsFifo == Fifo!FifoSpec

\* No wakeup is lost: while somebody sleeps on a queue, as many receivers are
\* on their way to it as it has events.  Every push wakes at most one sleeper
\* (sys_event.c event_queue_push), receivers that come later steal events, and
\* tryreceive and drain take them without waiting.
WakeupsCoverEvents == \A q \in Queues :
  active[q] /\ At("asleep", q) # {} =>
    Cardinality(At("entering", q)) >= count[q]

\* An event does not stay in a queue that somebody keeps waiting on.
NoEventStranded == \A q \in Queues :
  ~ <>[](active[q] /\ count[q] > 0 /\ At("asleep", q) # {})

\* Where queues are taken down in order, an event sent through a port is in
\* the queue the port was connected to, not in a later one with the same id
\* (docs/SYSCALLS.md:328).
TidyQueuesAreRight == tidy => \A q \in Queues : active[q] =>
  \A i \in 1 .. count[q] :
    meant[Contents(q)[i]] \in {Nowhere, [queue |-> q, gen |-> gen[q]]}

\* A blocking receive returns when its queue is destroyed (sys_event.h:157).
DestroyWakesReceivers == \A t \in Receivers :
  at[t] = "orphan" ~> at[t] = "idle"
=============================================================================
