----------------------------- MODULE UsioBackup -----------------------------
(***************************************************************************)
(* The battery-backed memory of the virtual I/O board                      *)
(* (src/taiko_usio.cpp): the guest writes it in packets, every change is   *)
(* saved to a file, and the next start of the program loads the file.  The *)
(* program may be killed between any two calls it makes on files.          *)
(***************************************************************************)
EXTENDS Naturals

CONSTANTS
  Pages,           \* pages of SRAM; at a channel each, from 2 on
  Records,         \* what a guest writes to a page: archives it can read again
  MaxPackets,      \* bound: packets of a write
  Renames,         \* whether rename may put a file in the place of another
  MaxStarts,       \* bound: starts of the program
  Erased, Blank    \* zeros, which are no archive; kBlankArchiveState

ASSUME BackupAssumption == Renames \subseteq BOOLEAN /\ Erased # Blank

VARIABLES
  replaces, \* rename puts a file in the place of another and does not fail:
            \* never on Windows; it never changes
  running,  \* g_usio.initialized
  sram,     \* the memory, by pages
  write,    \* write_active and write_remaining, and what is written where
  save,     \* where save_backup is
  file,     \* usiobackup.bin
  tmp,      \* usiobackup.bin.tmp
  kept,     \* history: the memory as it was when a save succeeded last
  gone,     \* history: a later save has removed the backup that it wrote
  starts    \* starts of the program so far

ubVars == <<replaces, running, sram, write, save, file, tmp, kept, gone, starts>>

Filled(v) == [p \in Pages |-> v]
Memories == [Pages -> Records \cup {Erased, Blank}]

Missing == [at |-> "absent", sram |-> Filled(Erased)]
Torn == [at |-> "torn", sram |-> Filled(Erased)]
Whole(m) == [at |-> "whole", sram |-> m]
NoWrite == [remaining |-> 0, page |-> CHOOSE p \in Pages : TRUE, record |-> Blank]

UbInit ==
  /\ replaces \in Renames
  /\ running = FALSE /\ sram = Filled(Erased)
  /\ write = NoWrite /\ save = "no"
  /\ file = Missing /\ tmp = Missing
  /\ kept = Filled(Blank) /\ gone = FALSE
  /\ starts = 0

\* The guest waits for a call of the board, which saves before it returns.
Serves == running /\ save = "no"

\* save_backup is called.
Saves == save' = "open"

-----------------------------------------------------------------------------
(* hle_init *)

\* backup_archives_valid
Archives(m) == \A p \in Pages : m[p] # Erased

\* load_backup, which never looks for the temporary file; a memory that is
\* not there or holds no archives is made blank and saved.
Start ==
  LET loaded == IF file.at = "whole" THEN file.sram ELSE Filled(Erased) IN
  /\ ~running /\ starts < MaxStarts
  /\ running' = TRUE /\ starts' = starts + 1
  /\ IF file.at = "whole" /\ Archives(loaded)
       THEN sram' = loaded /\ UNCHANGED save
       ELSE sram' = Filled(Blank) /\ Saves
  /\ UNCHANGED <<replaces, write, file, tmp, kept, gone>>

\* The program is killed: only files stay.
Crash ==
  /\ running /\ running' = FALSE
  /\ sram' = Filled(Erased) /\ write' = NoWrite /\ save' = "no"
  /\ UNCHANGED <<replaces, file, tmp, kept, gone, starts>>

-----------------------------------------------------------------------------
(* handle_out *)

\* A write command: packets follow.
WriteCommand(p, r, n) ==
  /\ Serves /\ write.remaining = 0
  /\ write' = [remaining |-> n, page |-> p, record |-> r]
  /\ UNCHANGED <<replaces, running, sram, save, file, tmp, kept, gone, starts>>

\* A packet; with the last one complete_write changes the page, if it differs.
WritePacket ==
  LET last == write.remaining = 1
      changed == sram[write.page] # write.record
  IN
  /\ Serves /\ write.remaining > 0
  /\ write' = [write EXCEPT !.remaining = @ - 1]
  /\ sram' = IF last THEN [sram EXCEPT ![write.page] = write.record] ELSE sram
  /\ IF last /\ changed THEN Saves ELSE UNCHANGED save
  /\ UNCHANGED <<replaces, running, file, tmp, kept, gone, starts>>

\* The command that erases all pages, changed or not.
Erase ==
  /\ Serves /\ write.remaining = 0
  /\ sram' = Filled(Erased)
  /\ Saves
  /\ UNCHANGED <<replaces, running, write, file, tmp, kept, gone, starts>>

-----------------------------------------------------------------------------
(* save_backup *)

SaveStep(from, to) ==
  /\ running /\ save = from /\ save' = to
  /\ UNCHANGED <<replaces, running, sram, write, starts>>

\* The backup itself is opened for writing.
MutOpened == file' = Torn /\ UNCHANGED tmp

\* What fopen for writing leaves: an empty file beside the backup.
Opened == tmp' = Torn /\ UNCHANGED file

OpenTmp == SaveStep("open", "write") /\ Opened /\ UNCHANGED <<kept, gone>>

CannotOpen == SaveStep("open", "no") /\ UNCHANGED <<file, tmp, kept, gone>>

\* Header and memory are written and the file is closed.
WriteTmp ==
  /\ SaveStep("write", "rename")
  /\ tmp' = Whole(sram)
  /\ UNCHANGED <<file, kept, gone>>

\* A write failed: the temporary file is removed.
CannotWrite ==
  /\ SaveStep("write", "no")
  /\ tmp' = Missing
  /\ UNCHANGED <<file, kept, gone>>

\* The file takes the name of the backup.
Replaced == file' = tmp /\ tmp' = Missing /\ kept' = sram /\ gone' = FALSE

Rename ==
  /\ replaces \/ file.at = "absent"
  /\ SaveStep("rename", "no")
  /\ Replaced

\* The rename failed: the backup is removed, or that fails, too.
RemoveOld ==
  /\ ~replaces
  /\ SaveStep("rename", "again")
  /\ \/ file' = Missing /\ gone' = (gone \/ file.at # "absent")
     \/ UNCHANGED <<file, gone>>
  /\ UNCHANGED <<tmp, kept>>

RenameAgain ==
  /\ file.at = "absent"
  /\ SaveStep("again", "no")
  /\ Replaced

CannotReplace ==
  /\ SaveStep("again", "no")
  /\ tmp' = Missing
  /\ UNCHANGED <<file, kept, gone>>

-----------------------------------------------------------------------------
UbNext ==
  \/ Start \/ Crash
  \/ \E p \in Pages, r \in Records, n \in 1 .. MaxPackets : WriteCommand(p, r, n)
  \/ WritePacket \/ Erase
  \/ OpenTmp \/ CannotOpen \/ WriteTmp \/ CannotWrite
  \/ Rename \/ RemoveOld \/ RenameAgain \/ CannotReplace

UbSpec == UbInit /\ [][UbNext]_ubVars

-----------------------------------------------------------------------------
(* Properties *)

UbTypeOK ==
  /\ running \in BOOLEAN /\ sram \in Memories
  /\ write.remaining \in 0 .. MaxPackets
  /\ save \in {"no", "open", "write", "rename", "again"}
  /\ {file, tmp} \subseteq {Missing, Torn} \cup {Whole(m) : m \in Memories}

\* Wherever the program is killed, and whatever writing of the file failed,
\* the next start finds the memory as the last successful save found it: no
\* write that the guest was told of is lost to a later one, no page is from
\* another time than its neighbour (save_backup and load_backup,
\* taiko_usio.cpp:281-357).  It finds a blank one instead if an erased page was
\* saved, or if a later save, for which rename does not replace, removed the
\* backup (349) and was killed, or failed, before its own had the name (350-353).
BackupSurvives == [][running' /\ ~running =>
  \/ sram' = kept
  \/ sram' = Filled(Blank) /\ (Archives(kept) => gone)]_ubVars

\* The same without that exception: nobody looks for the temporary file that
\* holds everything when the backup has been removed.
BackupSurvivesAnywhere == [][running' /\ ~running =>
  \/ sram' = kept
  \/ sram' = Filled(Blank) /\ ~Archives(kept)]_ubVars
=============================================================================
