------------------------------ MODULE MCTitle ------------------------------
(***************************************************************************)
(* What the host adds for this title, for TLC: the drums, the backup of    *)
(* the I/O board's memory, the card reader with its pairing, and the       *)
(* decoder of songs.  A behaviour is about one of them, chosen in its      *)
(* first state.                                                            *)
(***************************************************************************)
EXTENDS DrumInput, UsioBackup, CardPairing, PreviewDecoder

CONSTANT TitleCases

VARIABLE case

mtVars == <<case, diVars, ubVars, cpVars, pvVars>>

MCInit ==
  /\ case \in TitleCases /\ DiInit /\ UbInit /\ CpInit /\ PvInit
  /\ case # "drum" => host = CHOOSE h \in InputHosts : TRUE
  /\ case # "backup" => replaces = CHOOSE r \in Renames : TRUE

MCNext ==
  /\ UNCHANGED case
  /\ \/ case = "drum"    /\ DiNext /\ UNCHANGED <<ubVars, cpVars, pvVars>>
     \/ case = "backup"  /\ UbNext /\ UNCHANGED <<diVars, cpVars, pvVars>>
     \/ case = "card"    /\ CpNext /\ UNCHANGED <<diVars, ubVars, pvVars>>
     \/ case = "preview" /\ PvNext /\ UNCHANGED <<diVars, ubVars, cpVars>>

InDrum(A) == case = "drum" /\ A /\ UNCHANGED <<case, ubVars, cpVars, pvVars>>
InPreview(A) == case = "preview" /\ A /\ UNCHANGED <<case, diVars, ubVars, cpVars>>

MCSpec ==
  /\ MCInit /\ [][MCNext]_mtVars
  /\ WF_mtVars(InDrum(InputThread)) /\ WF_mtVars(InDrum(Reports))
  /\ WF_mtVars(InPreview(WorkerStep))
  /\ \A t \in PlayThreads : WF_mtVars(InPreview(SetDataStep(t)))

-----------------------------------------------------------------------------
\* The states of all four are well formed.
TitleTypeOK == DiTypeOK /\ UbTypeOK /\ CpTypeOK /\ PvTypeOK
=============================================================================
