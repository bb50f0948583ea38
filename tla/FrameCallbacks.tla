--------------------------- MODULE FrameCallbacks ---------------------------
(***************************************************************************)
(* The guest's vblank and flip handlers                                    *)
(* (ps3recomp/libs/video/cellGcmSys.c, ps3recomp/runtime/ppu/ppu_hle.cpp   *)
(* and ppu_loader.cpp).                                                    *)
(*                                                                         *)
(* The frame driver counts the ticks of both handlers.  A guest thread     *)
(* that makes an HLE call takes a whole count, runs the handler once and   *)
(* gives the rest back.  A flip found in the command ring runs the flip    *)
(* handler on the frame driver itself.  Every handler runs on a scratch    *)
(* stack at one guest address.                                             *)
(***************************************************************************)
EXTENDS Integers, FiniteSets

CONSTANTS
  PumpThreads,  \* guest threads that run frame callbacks
  FrameDriver,  \* the host thread of the frame driver
  Coalesce,     \* TAIKO_GCM_COALESCE_PENDING
  FlipWords,    \* do flips arrive in the command ring?
  MaxTicks      \* bound: ticks of each kind

ASSUME CallbacksAssumption ==
  /\ {Coalesce, FlipWords} \subseteq BOOLEAN /\ MaxTicks \in Nat
  /\ IsFiniteSet(PumpThreads) /\ FrameDriver \notin PumpThreads

Kinds == {"vblank", "flip"}
CallbackThreads == PumpThreads \cup {FrameDriver}

VARIABLES
  handler,    \* s_vblank_handler_opd and s_flip_handler_opd are registered
  pending,    \* s_vblank_handler_pending, s_flip_handler_pending
  pump,       \* a thread: outside, or the handler it runs and the count it took
  scratch,    \* whose frame is at the scratch stack's address
  ticks,      \* history: ticks of each kind, but for those dropped without a handler
  delivered   \* history: callbacks of each kind run for ticks

fcVars == <<handler, pending, pump, scratch, ticks, delivered>>

Outside == [at |-> "outside", took |-> 0]

FcInit ==
  /\ handler = [k \in Kinds |-> FALSE]
  /\ pending = [k \in Kinds |-> 0]
  /\ pump = [t \in CallbackThreads |-> Outside]
  /\ scratch = FrameDriver
  /\ ticks = [k \in Kinds |-> 0] /\ delivered = [k \in Kinds |-> 0]

\* cellGcmSetVBlankHandler, cellGcmSetFlipHandler: a handler or none.
SetHandler(k) ==
  /\ handler' = [handler EXCEPT ![k] = ~@]
  /\ UNCHANGED <<pending, pump, scratch, ticks, delivered>>

\* cellGcmTickVBlank, cellGcmTickFlip
Tick(k) ==
  /\ ticks[k] < MaxTicks
  /\ pending' = [pending EXCEPT ![k] = @ + 1]
  /\ ticks' = [ticks EXCEPT ![k] = @ + 1]
  /\ UNCHANGED <<handler, pump, scratch, delivered>>

\* A thread goes from its station to the handler of k, for the whole count,
\* which is dropped when there is no handler, or past it.
Take(t, station, k, past) ==
  LET n == pending[k] IN
  /\ pump[t].at = station
  /\ pending' = [pending EXCEPT ![k] = 0]
  /\ IF n > 0 /\ handler[k]
       THEN /\ pump' = [pump EXCEPT ![t] = [at |-> k, took |-> n]]
            /\ scratch' = t
            /\ UNCHANGED ticks
       ELSE /\ pump' = [pump EXCEPT ![t] = [at |-> past, took |-> 0]]
            /\ ticks' = [ticks EXCEPT ![k] = @ - n]
            /\ UNCHANGED scratch
  /\ UNCHANGED <<handler, delivered>>

\* ppu_gcm_pump, at an HLE call that no handler makes: first the vblanks.
HleCall(t) == Take(t, "outside", "vblank", "flips")
PumpFlips(t) == Take(t, "flips", "flip", "outside")

\* Storing the rest instead of adding it.
MutGivenBack(k, took) == IF took > 1 /\ ~Coalesce THEN took - 1 ELSE pending[k]

\* One tick was delivered: the rest of the count is added again.
GivenBack(k, took) == pending[k] + (IF took > 1 /\ ~Coalesce THEN took - 1 ELSE 0)

Return(t, k, to) ==
  /\ pump[t].at = k
  /\ pending' = [pending EXCEPT ![k] = GivenBack(k, pump[t].took)]
  /\ delivered' = [delivered EXCEPT ![k] = @ + 1]
  /\ pump' = [pump EXCEPT ![t] = [at |-> to, took |-> 0]]
  /\ UNCHANGED <<handler, scratch, ticks>>

HandlerReturns(t) == Return(t, "vblank", "flips") \/ Return(t, "flip", "outside")

\* cellGcmSetFlipCommand for a flip word that the driver's walk has found.
FlipWord ==
  /\ FlipWords /\ handler["flip"]
  /\ pump[FrameDriver].at = "outside"
  /\ pump' = [pump EXCEPT ![FrameDriver] = [at |-> "word", took |-> 0]]
  /\ scratch' = FrameDriver
  /\ UNCHANGED <<handler, pending, ticks, delivered>>

FlipWordDone ==
  /\ pump[FrameDriver].at = "word"
  /\ pump' = [pump EXCEPT ![FrameDriver] = Outside]
  /\ UNCHANGED <<handler, pending, scratch, ticks, delivered>>

PumpStep(t) == HleCall(t) \/ PumpFlips(t) \/ HandlerReturns(t)

FcNext ==
  \/ \E k \in Kinds : SetHandler(k) \/ Tick(k)
  \/ \E t \in PumpThreads : PumpStep(t)
  \/ FlipWord \/ FlipWordDone

\* Guest threads go on making HLE calls, and their handlers return.
FcSpec == FcInit /\ [][FcNext]_fcVars /\ \A t \in PumpThreads : WF_fcVars(PumpStep(t))

-----------------------------------------------------------------------------
(* Properties *)

FcTypeOK ==
  /\ handler \in [Kinds -> BOOLEAN]
  /\ \A k \in Kinds : {pending[k], ticks[k], delivered[k]} \subseteq 0 .. MaxTicks
  /\ scratch \in CallbackThreads
  /\ \A t \in CallbackThreads :
       /\ pump[t].at \in {"outside", "flips", "word"} \cup Kinds
       /\ pump[t].took \in 0 .. MaxTicks

\* One pair for each tick of kind k that a running handler took.
HeldBack(k) ==
  {p \in PumpThreads \X (1 .. MaxTicks) : pump[p[1]].at = k /\ p[2] <= pump[p[1]].took}

\* No tick is lost and none is delivered twice, whoever takes the count and
\* however many ticks come meanwhile (cellGcmSys.c:590-597).
TicksAreKept == ~Coalesce =>
  \A k \in Kinds : ticks[k] = delivered[k] + pending[k] + Cardinality(HeldBack(k))

\* As long as some guest thread makes HLE calls, every tick is delivered.
TicksArrive == ~Coalesce => \A k \in Kinds :
  pending[k] > 0 ~> delivered[k] = ticks[k]

\* Each tick of a handler is delivered, and once.
TicksAreDelivered == [][TicksAreKept']_fcVars /\ TicksArrive

\* A callback that returns finds its own frame on the scratch stack
\* (ppu_loader.cpp:2111-2112).
StackIsPrivate == \A t \in CallbackThreads :
  pump[t].at \in Kinds \cup {"word"} => scratch = t
=============================================================================
