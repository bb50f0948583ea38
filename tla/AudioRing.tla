----------------------------- MODULE AudioRing -----------------------------
(***************************************************************************)
(* The ports of cellAudio and their notifications                          *)
(* (ps3recomp/libs/audio/cellAudio.c).                                     *)
(*                                                                         *)
(* Once per block period the mixer thread plays one block of every running *)
(* port, appends to the port's pending ring the position of the block the  *)
(* guest is to write next, and pushes one event to every registered queue. *)
(* The position reaches the guest's readIndex word only when an event is   *)
(* received: sys_event_queue_receive pops it with the event and, with the  *)
(* lock of the queue dropped, cellAudioNotifyDelivered pops one pending    *)
(* position per port.  Nothing ties the event to the position it finds.    *)
(*                                                                         *)
(* Blocks hold the number of the guest's mix that was written to them; 0   *)
(* is the silence PortOpen clears them to.  One guest thread at a time     *)
(* calls on ports and queues, so a call, under s_audio_mutex, is one step. *)
(***************************************************************************)
EXTENDS Integers, Sequences, FiniteSets, FiniteSetsExt

CONSTANTS
  AudioPorts,   \* numbers of ports
  NotifySlots,  \* slots of s_notify_queues, from 1 on
  QueueKeys,    \* keys of the guest's event queues
  NoKey,        \* an unused notification slot
  AudioReaders, \* guest threads that receive the notifications
  AudioSetups   \* what a behaviour is about: the kind of guest (see MayCall),
                \* the nBlock its ports may have (8, 16 or 32), s_read_index_
                \* lookahead (1 .. 30), the events its queues can hold, and,
                \* a bound, the blocks that are played

ASSUME RingAssumption ==
  /\ AudioPorts \subseteq Nat
  /\ IsFiniteSet(NotifySlots) /\ NotifySlots = 1 .. Cardinality(NotifySlots)
  /\ NoKey \notin QueueKeys
  /\ AudioSetups \subseteq [kind : {"punctual", "restarts", "any"}, nblocks : SUBSET (Nat \ {0}),
                           lookahead : Nat \ {0}, room : Nat, bound : Nat]

VARIABLES
  setup,      \* the member of AudioSetups this behaviour is about
  ring,       \* s_ports
  index,      \* the readIndex word of each port, in guest memory
  blocks,     \* the blocks of each port, in guest memory
  slots,      \* s_notify_queues
  events,     \* the guest's event queues
  turn,       \* the mixer: 0 before it plays, else the slot it notifies next
  due,        \* history: the announcement of each port its events go with,
              \* followed for an orderly guest
  reader,     \* where a receiving thread is, and the event it took
  mixes,      \* mixes the guest has written to each port
  mixed       \* blocks played

arVars == <<setup, ring, index, blocks, slots, events, turn, due, reader, mixes, mixed>>

Fresh(n, used) ==
  [in_use |-> used, running |-> FALSE, nblock |-> n, read |-> 0,
   pending |-> [i \in 0 .. n - 1 |-> 0], head |-> 0, tail |-> 0, count |-> 0]

NoEvent == [p \in AudioPorts |-> 0]

ArInit ==
  /\ setup \in AudioSetups
  /\ ring = [p \in AudioPorts |-> Fresh(1, FALSE)]
  /\ index = [p \in AudioPorts |-> 0]
  /\ blocks = [p \in AudioPorts |-> <<>>]
  /\ slots = [s \in NotifySlots |-> NoKey]
  /\ events = [k \in QueueKeys |-> <<>>]
  /\ turn = 0
  /\ due = NoEvent
  /\ reader = [r \in AudioReaders |-> [at |-> "idle", key |-> NoKey, event |-> NoEvent]]
  /\ mixes = [p \in AudioPorts |-> 0]
  /\ mixed = 0

Running(p) == ring[p].in_use /\ ring[p].running

\* How far ahead of the block being played the guest writes, in a port of n.
\* Clamping to the size of the ring, with no block to spare.
MutAhead(n) == Max({1, Min({setup.lookahead, n + 1})})

Ahead(n) == Max({1, Min({setup.lookahead, IF n > 3 THEN n - 2 ELSE 1})})

\* The position announced once k blocks have been played.
Position(n, k) == (k + Ahead(n) - 1) % n

\* Nothing is on its way between the mixer and the guest.
Calm == /\ turn = 0
        /\ \A k \in QueueKeys : events[k] = <<>>
        /\ \A r \in AudioReaders : reader[r].at = "idle"

\* A guest of any kind calls what it likes, whenever it likes.  The others
\* have one queue, registered before they start a port, and change ports and
\* queues in calm moments; one that restarts may stop a port at any moment.
Orderly == setup.kind # "any"
Punctual == setup.kind = "punctual"
MayCall == Orderly => Calm

-----------------------------------------------------------------------------
(* The guest's calls *)

\* cellAudioPortOpen takes the first free port.
PortOpen(n) ==
  LET free == {p \in AudioPorts : ~ring[p].in_use} IN
  /\ MayCall
  /\ free # {}
  /\ LET p == Min(free) IN
       /\ ring' = [ring EXCEPT ![p] = Fresh(n, TRUE)]
       /\ index' = [index EXCEPT ![p] = 0]
       /\ blocks' = [blocks EXCEPT ![p] = [b \in 0 .. n - 1 |-> 0]]
       /\ mixes' = [mixes EXCEPT ![p] = 0]
  /\ UNCHANGED <<setup, slots, events, turn, due, reader, mixed>>

PortClose(p) ==
  /\ MayCall
  /\ ring[p].in_use
  /\ ring' = [ring EXCEPT ![p].in_use = FALSE, ![p].running = FALSE]
  /\ UNCHANGED <<setup, index, blocks, slots, events, turn, due, reader, mixes, mixed>>

\* cellAudioPortStart leaves positions and events of an earlier run alone.
PortStart(p) ==
  /\ MayCall
  /\ Orderly => \E s \in NotifySlots : slots[s] # NoKey
  /\ ring[p].in_use /\ ~ring[p].running
  /\ ring' = [ring EXCEPT ![p].running = TRUE]
  /\ UNCHANGED <<setup, index, blocks, slots, events, turn, due, reader, mixes, mixed>>

PortStop(p) ==
  /\ Punctual => Calm
  /\ Running(p)
  /\ ring' = [ring EXCEPT ![p].running = FALSE]
  /\ UNCHANGED <<setup, index, blocks, slots, events, turn, due, reader, mixes, mixed>>

\* cellAudioSetNotifyEventQueue does not look for the key in other slots.
SetNotifyEventQueue(k) ==
  LET free == {s \in NotifySlots : slots[s] = NoKey} IN
  /\ MayCall
  /\ Orderly => free = NotifySlots
  /\ free # {}
  /\ slots' = [slots EXCEPT ![Min(free)] = k]
  /\ UNCHANGED <<setup, ring, index, blocks, events, turn, due, reader, mixes, mixed>>

RemoveNotifyEventQueue(k) ==
  LET named == {s \in NotifySlots : slots[s] = k} IN
  /\ MayCall
  /\ Orderly => \A p \in AudioPorts : ~ring[p].running
  /\ named # {}
  /\ slots' = [slots EXCEPT ![Min(named)] = NoKey]
  /\ UNCHANGED <<setup, ring, index, blocks, events, turn, due, reader, mixes, mixed>>

-----------------------------------------------------------------------------
(* The mixer *)

\* A full ring that counts no further but keeps its oldest position.
MutAnnounced(a) ==
  [a EXCEPT !.read = @ + 1,
            !.pending = [@ EXCEPT ![a.tail] = Position(a.nblock, a.read + 1)],
            !.tail = (@ + 1) % a.nblock,
            !.count = IF @ = a.nblock THEN @ ELSE @ + 1]

\* A port after one of its blocks was played: the oldest pending position is
\* dropped when the ring is full.
Announced(a) ==
  [a EXCEPT !.read = @ + 1,
            !.pending = [@ EXCEPT ![a.tail] = Position(a.nblock, a.read + 1)],
            !.head = IF a.count = a.nblock THEN (@ + 1) % a.nblock ELSE @,
            !.tail = (@ + 1) % a.nblock,
            !.count = IF @ = a.nblock THEN @ ELSE @ + 1]

\* The block of p that is played next.
Playing(p) == blocks[p][ring[p].read % ring[p].nblock]

\* The guest has written what was asked of it before it is played.
InTime(p) == mixes[p] >= ring[p].read - Ahead(ring[p].nblock) + 1

\* audio_mix_one_block, under s_audio_mutex.
MixBlock ==
  /\ turn = 0
  /\ mixed < setup.bound
  /\ Punctual => \A p \in AudioPorts : Running(p) => InTime(p)
  /\ ring' = [p \in AudioPorts |-> IF Running(p) THEN Announced(ring[p]) ELSE ring[p]]
  /\ due' = [p \in AudioPorts |->
       IF Orderly /\ Running(p) THEN ring[p].read + 1 ELSE 0]
  /\ turn' = 1
  /\ mixed' = mixed + 1
  /\ UNCHANGED <<setup, index, blocks, slots, events, reader, mixes>>

\* audio_notify_event_queues looks at the slots without the mutex; an event
\* that finds its queue full is dropped, its pending position is not.
NotifySlot ==
  /\ turn \in NotifySlots
  /\ IF slots[turn] # NoKey /\ Len(events[slots[turn]]) < setup.room
       THEN events' = [events EXCEPT ![slots[turn]] = Append(@, due)]
       ELSE UNCHANGED events
  /\ turn' = IF turn + 1 \in NotifySlots THEN turn + 1 ELSE 0
  /\ UNCHANGED <<setup, ring, index, blocks, slots, due, reader, mixes, mixed>>

-----------------------------------------------------------------------------
(* The guest's audio threads *)

Reader(r, station, k, e) ==
  reader' = [reader EXCEPT ![r] = [at |-> station, key |-> k, event |-> e]]

\* sys_event_queue_receive takes the oldest event and drops its lock.
ReceiveEvent(r, k) ==
  /\ reader[r].at = "idle"
  /\ events[k] # <<>>
  /\ Reader(r, "taken", k, Head(events[k]))
  /\ events' = [events EXCEPT ![k] = Tail(@)]
  /\ UNCHANGED <<setup, ring, index, blocks, slots, turn, due, mixes, mixed>>

\* sys_event_queue_tryreceive, asked for one, takes it and tells cellAudio nothing.
TryReceiveEvent(r, k) ==
  /\ ~Orderly
  /\ reader[r].at = "idle"
  /\ events[k] # <<>>
  /\ Reader(r, "told", k, Head(events[k]))
  /\ events' = [events EXCEPT ![k] = Tail(@)]
  /\ UNCHANGED <<setup, ring, index, blocks, slots, turn, due, mixes, mixed>>

\* cellAudioNotifyDelivered: is the event one of ours?  Without the mutex.
MatchSource(r) ==
  /\ reader[r].at = "taken"
  /\ reader' = [reader EXCEPT ![r].at =
       IF \E s \in NotifySlots : slots[s] = reader[r].key THEN "ours" ELSE "told"]
  /\ UNCHANGED <<setup, ring, index, blocks, slots, events, turn, due, mixes, mixed>>

\* The ports whose next pending position is published.
Published == {p \in AudioPorts : Running(p) /\ ring[p].count > 0}

\* Under the mutex, every running port gives up one position.
NotifyDelivered(r) ==
  /\ reader[r].at = "ours"
  /\ index' = [p \in AudioPorts |->
       IF p \in Published THEN ring[p].pending[ring[p].head] ELSE index[p]]
  /\ ring' = [p \in AudioPorts |->
       IF p \in Published
         THEN [ring[p] EXCEPT !.head = (@ + 1) % ring[p].nblock, !.count = @ - 1]
         ELSE ring[p]]
  /\ reader' = [reader EXCEPT ![r].at = "told"]
  /\ UNCHANGED <<setup, blocks, slots, events, turn, due, mixes, mixed>>

\* The guest reads the index of each running port and writes its next mix to
\* that block; only an orderly guest is followed there.
WriteMix(r) ==
  /\ reader[r].at = "told"
  /\ LET to == {p \in AudioPorts : Orderly /\ Running(p)} IN
       /\ mixes' = [p \in AudioPorts |-> IF p \in to THEN mixes[p] + 1 ELSE mixes[p]]
       /\ blocks' = [p \in AudioPorts |->
            IF p \in to THEN [blocks[p] EXCEPT ![index[p]] = mixes[p] + 1] ELSE blocks[p]]
  /\ Reader(r, "idle", NoKey, NoEvent)
  /\ UNCHANGED <<setup, ring, index, slots, events, turn, due, mixed>>

-----------------------------------------------------------------------------
ArNext ==
  \/ \E n \in setup.nblocks : PortOpen(n)
  \/ \E p \in AudioPorts : PortClose(p) \/ PortStart(p) \/ PortStop(p)
  \/ \E k \in QueueKeys : SetNotifyEventQueue(k) \/ RemoveNotifyEventQueue(k)
  \/ MixBlock \/ NotifySlot
  \/ \E r \in AudioReaders :
       \/ \E k \in QueueKeys : ReceiveEvent(r, k) \/ TryReceiveEvent(r, k)
       \/ MatchSource(r) \/ NotifyDelivered(r) \/ WriteMix(r)

ArSpec == ArInit /\ [][ArNext]_arVars

-----------------------------------------------------------------------------
(* Properties *)

ArTypeOK ==
  /\ setup \in AudioSetups
  /\ \A p \in AudioPorts : LET a == ring[p] IN
       /\ {a.in_use, a.running} \subseteq BOOLEAN
       /\ a.running => a.in_use
       /\ a.in_use => /\ a.nblock \in setup.nblocks
                      /\ {a.head, a.tail, index[p]} \subseteq 0 .. a.nblock - 1
                      /\ a.count \in 0 .. a.nblock
  /\ slots \in [NotifySlots -> QueueKeys \cup {NoKey}]
  /\ \A k \in QueueKeys : Len(events[k]) <= setup.room
  /\ turn \in NotifySlots \cup {0}

\* Whatever the guest does with its ports and queues, a port still owes it
\* exactly the positions announced with the last blocks played, oldest first
\* (cellAudio.c:582-604).
PendingAreLast == \A p \in AudioPorts : LET a == ring[p] IN
  a.in_use => \A i \in 0 .. a.count - 1 :
    a.pending[(a.head + i) % a.nblock] = Position(a.nblock, a.read - a.count + i + 1)

\* A guest that answers every notification before the block it asked for is
\* played, and changes ports only in between, hears its mixes in the order it
\* wrote them, none lost or repeated, after the silence of the lookahead
\* (cellAudio.c:120-130).
HeardInOrder == [][
  Punctual /\ MixBlock => \A p \in AudioPorts : Running(p) =>
    Playing(p) = Max({0, ring[p].read - Ahead(ring[p].nblock) + 1})]_arVars

\* A guest that receives a notification finds in readIndex the position that
\* was announced with it (cellAudio.c:204-207).
OwnBlock == [][
  \A r \in AudioReaders : NotifyDelivered(r) =>
    \A p \in AudioPorts : Running(p) /\ reader[r].event[p] # 0 =>
      index'[p] = Position(ring[p].nblock, reader[r].event[p])]_arVars
=============================================================================
