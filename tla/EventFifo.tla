----------------------------- MODULE EventFifo -----------------------------
(***************************************************************************)
(* What the event queues of LV2 promise, independent of how sys_event.c    *)
(* stores them: an open queue holds at most "room" events, takes new ones  *)
(* at the end and gives them away from the front; a queue that is closed   *)
(* or opened holds nothing.                                                *)
(***************************************************************************)
EXTENDS Naturals, Sequences

CONSTANTS Queues, Events, MaxRoom

VARIABLES fifo,  \* the events of each queue, oldest first
          room   \* how many it may hold; 0 when it is closed

EmptyQueue(q, n) == /\ fifo' = [fifo EXCEPT ![q] = <<>>]
                    /\ room' = [room EXCEPT ![q] = n]

FifoInit == /\ fifo = [q \in Queues |-> <<>>]
            /\ room = [q \in Queues |-> 0]

Open(q) == room[q] = 0 /\ \E n \in 1 .. MaxRoom : EmptyQueue(q, n)

Close(q) == room[q] # 0 /\ EmptyQueue(q, 0)

Put(q) ==
  /\ Len(fifo[q]) < room[q]
  /\ \E e \in Events : fifo' = [fifo EXCEPT ![q] = Append(@, e)]
  /\ UNCHANGED room

\* The k oldest events leave: a receive takes one, a tryreceive several, a
\* drain all of them.
Take(q, k) ==
  /\ fifo' = [fifo EXCEPT ![q] = SubSeq(@, k + 1, Len(@))]
  /\ UNCHANGED room

FifoNext == \E q \in Queues :
  \/ Open(q) \/ Close(q) \/ Put(q)
  \/ \E k \in 1 .. Len(fifo[q]) : Take(q, k)

FifoSpec == FifoInit /\ [][FifoNext]_<<fifo, room>>
============================================================================
