----------------------------- MODULE MCGraphics -----------------------------
(***************************************************************************)
(* The way of a frame for TLC: from the guest's command ring to the render *)
(* queue, from the render thread to the display, and the handlers that     *)
(* tell the guest of a refresh.  A behaviour is about one of them, chosen  *)
(* in its first state.                                                     *)
(***************************************************************************)
EXTENDS GcmFrames, KmsPresent, FrameCallbacks

CONSTANT GraphicsCases

VARIABLE case

mgVars == <<case, gfVars, kpVars, fcVars>>

Guests(patient, clears) == {[patient |-> patient, clears |-> c] : c \in clears}
PatientGuests == Guests(TRUE, {"first", "never", "anywhere"})
HastyGuests == Guests(FALSE, {"first"})

\* Both ways to the display, with every depth of the pipeline.
Displays ==
  {[zero |-> FALSE, depth |-> d, targets |-> 2, wait |-> w] : d \in 1 .. 3, w \in BOOLEAN}
  \cup {[zero |-> TRUE, depth |-> 1, targets |-> 3, wait |-> w] : w \in BOOLEAN}

MCInit ==
  /\ case \in GraphicsCases /\ GfInit /\ KpInit /\ FcInit
  /\ case # "frames" => game = CHOOSE g \in FrameSetups : TRUE
  /\ case # "display" => mode = CHOOSE m \in KmsSetups : TRUE

MCNext ==
  /\ UNCHANGED case
  /\ \/ case = "frames"    /\ GfNext /\ UNCHANGED <<kpVars, fcVars>>
     \/ case = "display"   /\ KpNext /\ UNCHANGED <<gfVars, fcVars>>
     \/ case = "callbacks" /\ FcNext /\ UNCHANGED <<gfVars, kpVars>>

InFrames(A) == case = "frames" /\ A /\ UNCHANGED <<case, kpVars, fcVars>>
InDisplay(A) == case = "display" /\ A /\ UNCHANGED <<case, gfVars, fcVars>>
InCallbacks(A) == case = "callbacks" /\ A /\ UNCHANGED <<case, gfVars, kpVars>>

MCSpec ==
  /\ MCInit /\ [][MCNext]_mgVars
  /\ WF_mgVars(InFrames(DriverStep)) /\ WF_mgVars(InFrames(Recycled))
  /\ WF_mgVars(InFrames(ExecuteBatch)) /\ WF_mgVars(InFrames(StopDriver))
  /\ WF_mgVars(InFrames(JoinDriver))
  /\ WF_mgVars(InDisplay(Blank)) /\ WF_mgVars(InDisplay(RendererStep))
  /\ WF_mgVars(InDisplay(WorkerStep))
  /\ \A t \in PumpThreads : WF_mgVars(InCallbacks(PumpStep(t)))

-----------------------------------------------------------------------------
\* No thread on the way of a frame waits for ever: neither guest nor host for
\* the driver, nor the renderer for its worker and the display.  The host's
\* wait at the end is that of a guest that clears the display only before it
\* draws a frame, or never (DriverEnds).
GraphicsGoOn == NobodyWaitsForDriver /\ RendererGoesOn

\* The states of all three are well formed.
GraphicsTypeOK == GfTypeOK /\ KpTypeOK /\ FcTypeOK
=============================================================================
