------------------------------ MODULE SysTimer ------------------------------
(***************************************************************************)
(* Periodic timers (ps3recomp/runtime/syscalls/sys_timer.c, as built for   *)
(* POSIX).  A started timer has a thread that pushes one event per period  *)
(* to the queue the timer is connected to; stop and destroy tell it to end *)
(* and join it.  The calls take no lock that covers them: two guest        *)
(* threads may work on one timer at a time.                                *)
(***************************************************************************)
EXTENDS Naturals, FiniteSets, FiniteSetsExt

CONSTANTS
  Timers,        \* ids: slots of g_sys_timers, from 1 on
  TimerQueues,   \* ids of event queues; 0 is no queue
  TimerRoom,     \* events a queue can hold
  TimerCallers   \* guest threads

ASSUME TimerAssumption ==
  /\ Timers \cup TimerQueues \subseteq Nat \ {0} /\ Timers # {}
  /\ TimerRoom \in Nat \ {0} /\ IsFiniteSet(TimerCallers)

VARIABLES
  timer,   \* g_sys_timers: [active, running, queue, stop_flag]
  ticker,  \* the thread of a timer: where it is, and the queue it looked up
  queued,  \* events in each queue
  stopper  \* where a guest thread is in a stop or destroy, and of what timer

tmVars == <<timer, ticker, queued, stopper>>

Unused == [active |-> FALSE, running |-> FALSE, queue |-> 0, stop_flag |-> FALSE]
NoThread == [at |-> "none", queue |-> 0]
NoCall == [at |-> "idle", timer |-> 0, destroys |-> FALSE]

TmInit ==
  /\ timer = [t \in Timers |-> Unused]
  /\ ticker = [t \in Timers |-> NoThread]
  /\ queued = [q \in TimerQueues |-> 0]
  /\ stopper = [c \in TimerCallers |-> NoCall]

IsIdle(c) == stopper[c] = NoCall

-----------------------------------------------------------------------------
(* Calls of the guest *)

\* sys_timer_create clears the first free slot, whatever its thread does.
TimerCreate(c) ==
  LET free == {t \in Timers : ~timer[t].active} IN
  /\ IsIdle(c) /\ free # {}
  /\ timer' = [timer EXCEPT ![Min(free)] = [Unused EXCEPT !.active = TRUE]]
  /\ UNCHANGED <<ticker, queued, stopper>>

\* Connecting replaces a connection; disconnecting makes it 0.
TimerConnect(c, t, q) ==
  /\ IsIdle(c) /\ timer[t].active
  /\ timer' = [timer EXCEPT ![t].queue = q]
  /\ UNCHANGED <<ticker, queued, stopper>>

Started(t) == [timer[t] EXCEPT !.running = TRUE, !.stop_flag = FALSE]

\* sys_timer_start; a second thread takes the place of the first in the slot.
TimerStart(c, t) ==
  /\ IsIdle(c)
  /\ timer[t].active /\ ~timer[t].running
  /\ timer' = [timer EXCEPT ![t] = Started(t)]
  /\ ticker' = [ticker EXCEPT ![t] = [at |-> "loop", queue |-> 0]]
  /\ UNCHANGED <<queued, stopper>>

\* sys_timer_stop and sys_timer_destroy: a timer that runs is stopped first.
TimerStop(c, t, destroys) ==
  /\ IsIdle(c)
  /\ timer[t].active
  /\ IF timer[t].running
       THEN /\ timer' = [timer EXCEPT ![t].running = FALSE]
            /\ stopper' = [stopper EXCEPT ![c] =
                 [at |-> "flag", timer |-> t, destroys |-> destroys]]
       ELSE /\ timer' = [timer EXCEPT ![t].active = @ /\ ~destroys]
            /\ UNCHANGED stopper
  /\ UNCHANGED <<ticker, queued>>

\* The flag goes up under the mutex, and the thread is signalled.
SetStopFlag(c) ==
  /\ stopper[c].at = "flag"
  /\ timer' = [timer EXCEPT ![stopper[c].timer].stop_flag = TRUE]
  /\ stopper' = [stopper EXCEPT ![c].at = "join"]
  /\ UNCHANGED <<ticker, queued>>

\* Going on without waiting for the thread.
MutEnded(t) == TRUE

Ended(t) == ticker[t].at = "done"

\* pthread_join, and the end of the call.
JoinTicker(c) ==
  LET t == stopper[c].timer IN
  /\ stopper[c].at = "join"
  /\ Ended(t)
  /\ timer' = [timer EXCEPT ![t].active = @ /\ ~stopper[c].destroys]
  /\ stopper' = [stopper EXCEPT ![c] = NoCall]
  /\ UNCHANGED <<ticker, queued>>

-----------------------------------------------------------------------------
(* The thread of a timer *)

Step(t, from, to) ==
  /\ ticker[t].at = from
  /\ ticker' = [ticker EXCEPT ![t].at = to]

\* The loop looks at the flag with the mutex held, and sleeps for a period.
TickerLoop(t) ==
  /\ Step(t, "loop", IF timer[t].stop_flag THEN "done" ELSE "asleep")
  /\ UNCHANGED <<timer, queued, stopper>>

\* It wakes at the signal, for no reason, or when the period is over.
TickerWake(t, expired) ==
  /\ Step(t, "asleep", IF timer[t].stop_flag THEN "done"
                       ELSE IF expired THEN "sending" ELSE "loop")
  /\ UNCHANGED <<timer, queued, stopper>>

\* timer_send_event reads the connection outside the mutex.
LookUpQueue(t) ==
  /\ ticker[t].at = "sending"
  /\ ticker' = [ticker EXCEPT ![t] =
       IF timer[t].queue = 0 THEN [at |-> "loop", queue |-> 0]
       ELSE [at |-> "pushing", queue |-> timer[t].queue]]
  /\ UNCHANGED <<timer, queued, stopper>>

\* The event is dropped when the queue is full.
PushTick(t) ==
  /\ ticker[t].at = "pushing"
  /\ queued' = [queued EXCEPT ![ticker[t].queue] = Min({@ + 1, TimerRoom})]
  /\ ticker' = [ticker EXCEPT ![t] = [at |-> "loop", queue |-> 0]]
  /\ UNCHANGED <<timer, stopper>>

\* A guest thread takes an event from a queue.
TakeTick(q) ==
  /\ queued[q] > 0
  /\ queued' = [queued EXCEPT ![q] = @ - 1]
  /\ UNCHANGED <<timer, ticker, stopper>>

-----------------------------------------------------------------------------
TickerStep(t) ==
  TickerLoop(t) \/ TickerWake(t, TRUE) \/ LookUpQueue(t) \/ PushTick(t)

StopperStep(c) == SetStopFlag(c) \/ JoinTicker(c)

TmNext ==
  \/ \E c \in TimerCallers :
       \/ TimerCreate(c) \/ StopperStep(c)
       \/ \E t \in Timers :
            \/ TimerStart(c, t) \/ \E d \in BOOLEAN : TimerStop(c, t, d)
            \/ \E q \in TimerQueues \cup {0} : TimerConnect(c, t, q)
  \/ \E t \in Timers : TickerStep(t) \/ TickerWake(t, FALSE)
  \/ \E q \in TimerQueues : TakeTick(q)

\* Threads are scheduled and periods end: a thread is not woken for no reason
\* in the middle of every period, each of which would begin anew.
TmSpec == /\ TmInit /\ [][TmNext]_tmVars
          /\ \A t \in Timers : /\ WF_tmVars(TickerStep(t))
                               /\ SF_tmVars(TickerWake(t, TRUE))
          /\ \A c \in TimerCallers : WF_tmVars(StopperStep(c))

-----------------------------------------------------------------------------
(* Properties *)

TmTypeOK ==
  /\ \A t \in Timers : /\ {timer[t].active, timer[t].running, timer[t].stop_flag} \subseteq BOOLEAN
                       /\ timer[t].queue \in TimerQueues \cup {0}
                       /\ ticker[t].at \in {"none", "loop", "asleep", "sending", "pushing", "done"}
  /\ \A q \in TimerQueues : queued[q] \in 0 .. TimerRoom

\* With one guest thread at a time at a timer, a timer that does not run has
\* no thread once no call works on it: nothing is pushed after a stop, and no
\* slot is cleared or given out again under its thread (sys_timer.c:552-588).
StoppedIsQuiet == Cardinality(TimerCallers) = 1 =>
  \A t \in Timers :
    ~timer[t].running /\ (\A c \in TimerCallers : stopper[c].timer # t) =>
      ticker[t].at \in {"none", "done"}

\* A timer that is left running, also after it was stopped and started again,
\* sends its events period after period (sys_timer.c:304-331).
TimersTick == Cardinality(TimerCallers) = 1 => \A t \in Timers :
  timer[t].running ~> (ticker[t].at = "sending" \/ ~timer[t].running)

\* A stop or destroy returns whatever the thread of the timer was doing.
StopsReturn == Cardinality(TimerCallers) = 1 => \A c \in TimerCallers :
  ~IsIdle(c) ~> IsIdle(c)
=============================================================================
