---------------------------- MODULE DiscInstall ----------------------------
(***************************************************************************)
(* A game that is installed from the disc drive: the installer thread of   *)
(* system.c reads the disc straight into the banks and drives the write    *)
(* half of io.c, while the main thread shows the progress, lets the user   *)
(* cancel, and at the end closes and unmounts the partition.               *)
(***************************************************************************)
EXTENDS BankWriter

CONSTANTS
  Total,      \* SectorsInDiscLayer0 + SectorsInDiscLayer1
  DiscErrors  \* whether reading the disc may fail

ASSUME InstallAssumption ==
  /\ Total \in Nat
  /\ DiscErrors \in BOOLEAN

VARIABLES
  instPc,       \* where CDVDDriveGameInstallerThread is
  toRead,       \* SectorsRemainingToRead
  sectorsRead,  \* SectorsRead: the length of the read that is under way
  sent,         \* how many sectors were given to IOSignalWriteDone so far
  status,       \* params->status
  abort,        \* params->command = CDVD_DRIVE_INSTALLER_CMD_ABORT
  uiPc,         \* where InstallGameFromCDVDDrive is, in the main thread
  result        \* what it returns: "none" before it does

instVars == <<instPc, toRead, sectorsRead, sent, status>>
uiVars   == <<uiPc, result>>
vars == <<mem, bd, WritePtr, ReadPtr, inBuf, outBuf, cmdAck, command, state,
          wake, ioPc, ioMode, ioBanks, ioSectors, disk, instPc, toRead,
          sectorsRead, sent, status, abort, uiPc, result>>

InstPlaces == {"alloc", "sync", "signal", "exec", "check", "command", "buffer", "read",
               "end", "wait", "free", "exit", "done"}

Statuses == {"OK", "READ_ERROR", "WRITE_ERROR", "MEM_ERROR", "ABORTED"}

(* The loop is over: what follows is the last round, after the for.        *)
LastRound == toRead = 0

Init ==
  /\ IOWriteInit
  /\ instPc = "alloc"
  /\ toRead = Total
  /\ sectorsRead = 0
  /\ sent = 0
  /\ status = "OK"
  /\ abort = FALSE
  /\ uiPc = "wait"
  /\ result = "none"

-----------------------------------------------------------------------------
(* The installer thread.                                                   *)

(* IOAlloc and IOWriteInit, of which Init has what they leave behind.      *)
AllocBanks ==
  /\ instPc = "alloc"
  /\ instPc' = "sync"
  /\ UNCHANGED <<writerVars, toRead, sectorsRead, sent, status, abort, uiVars>>

(* There is no memory for the banks, or, once they are there, no semaphore *)
(* or thread for the I/O.                                                  *)
AllocFails ==
  /\ instPc = "alloc"
  /\ status' = "MEM_ERROR"
  /\ instPc' \in {"exit", "free"}
  /\ UNCHANGED <<writerVars, toRead, sectorsRead, sent, abort, uiVars>>

(* sceCdSync and sceCdGetError: the read that was under way is complete,   *)
(* its sectors are in the bank at WritePtr.                                *)
SyncDisc ==
  /\ instPc = "sync"
  /\ IF sectorsRead > 0
     THEN FillBank(sent + 1, sectorsRead) /\ instPc' = "signal"
     ELSE UNCHANGED writerVars /\ instPc' = IF LastRound THEN "end" ELSE "command"
  /\ UNCHANGED <<toRead, sectorsRead, sent, status, abort, uiVars>>

(* Slip: an error of the disc is not put in the status.                    *)
SyncDiscFailsUnreported ==
  /\ DiscErrors
  /\ instPc = "sync"
  /\ instPc' = IF LastRound THEN "end" ELSE "free"
  /\ UNCHANGED <<writerVars, toRead, sectorsRead, sent, status, abort, uiVars>>

(* The disc reported an error.  Inside the loop this breaks out of it and  *)
(* skips IOEndWrite; in the last round IOEndWrite is called all the same.  *)
SyncDiscFails ==
  /\ DiscErrors
  /\ instPc = "sync"
  /\ status' = "READ_ERROR"
  /\ instPc' = IF LastRound THEN "end" ELSE "free"
  /\ UNCHANGED <<writerVars, toRead, sectorsRead, sent, abort, uiVars>>

(* IOSignalWriteDone, up to its IOExec.                                    *)
SignalBank ==
  /\ instPc = "signal"
  /\ IOSignalWriteDone(sectorsRead)
  /\ sent' = sent + sectorsRead
  /\ instPc' = "exec"
  /\ UNCHANGED <<toRead, sectorsRead, status, abort, uiVars>>

(* IOExec(WRITE) at the end of IOSignalWriteDone.                          *)
ExecBank ==
  /\ instPc = "exec"
  /\ ExecWrite("WRITE")
  /\ instPc' = "check"
  /\ UNCHANGED <<toRead, sectorsRead, sent, status, abort, uiVars>>

(* IOGetStatus after the bank was handed over.                             *)
CheckStatus ==
  /\ instPc = "check"
  /\ status' = IF state = "ERROR" THEN "WRITE_ERROR" ELSE status
  /\ instPc' = CASE LastRound -> "end"
                 [] ~LastRound /\ state = "ERROR" -> "free"
                 [] ~LastRound /\ state # "ERROR" -> "command"
  /\ UNCHANGED <<writerVars, toRead, sectorsRead, sent, abort, uiVars>>

(* The command of the main thread: abort breaks out of the loop.           *)
CheckCommand ==
  /\ instPc = "command"
  /\ status' = IF abort THEN "ABORTED" ELSE status
  /\ instPc' = IF abort THEN "free" ELSE "buffer"
  /\ abort' = FALSE
  /\ UNCHANGED <<writerVars, toRead, sectorsRead, sent, uiVars>>

(* IOGetNextWrBuffer, as an argument of sceCdRead.                         *)
GetBuffer ==
  /\ instPc = "buffer"
  /\ IOGetNextWrBuffer
  /\ instPc' = "read"
  /\ UNCHANGED <<toRead, sectorsRead, sent, status, abort, uiVars>>

(* sceCdRead starts to read into the bank, and the loop goes round.        *)
StartRead ==
  /\ instPc = "read"
  /\ sectorsRead' = IF toRead > BufMax THEN BufMax ELSE toRead
  /\ toRead' = toRead - sectorsRead'
  /\ instPc' = "sync"
  /\ UNCHANGED <<writerVars, sent, status, abort, uiVars>>

(* sceCdRead could not start.                                              *)
StartReadFails ==
  /\ DiscErrors
  /\ instPc = "read"
  /\ status' = "READ_ERROR"
  /\ instPc' = "free"
  /\ UNCHANGED <<writerVars, toRead, sectorsRead, sent, abort, uiVars>>

(* IOEndWrite: give WRITE_END.                                             *)
ExecEnd ==
  /\ instPc = "end"
  /\ ExecWrite("WRITE_END")
  /\ instPc' = "wait"
  /\ UNCHANGED <<toRead, sectorsRead, sent, status, abort, uiVars>>

(* IOEndWrite returns the state.  It is compared with 0 from below, and    *)
(* IO_THREAD_STATE_ERROR is 1: status stays as it is.                      *)
EndReturns ==
  /\ instPc = "wait"
  /\ IOEndWriteReturns
  /\ instPc' = "free"
  /\ UNCHANGED <<toRead, sectorsRead, sent, status, abort, uiVars>>

(* IOFree: the banks go back to the heap, whose next user overwrites them. *)
FreeBanks ==
  /\ instPc = "free"
  /\ mem' = [c \in Cells |-> 0]
  /\ bd' = [b \in Banks |-> 0]
  /\ instPc' = "exit"
  /\ UNCHANGED <<WritePtr, ReadPtr, semaVars, cmdAck, command, state, wake,
                 threadVars, disk, toRead, sectorsRead, sent, status, abort, uiVars>>

(* SignalSema(SyncSemaID) and ExitDeleteThread.                            *)
InstallerExits ==
  /\ instPc = "exit"
  /\ instPc' = "done"
  /\ UNCHANGED <<writerVars, toRead, sectorsRead, sent, status, abort, uiVars>>

InstallerThread ==
  \/ AllocBanks
  \/ AllocFails
  \/ SyncDisc
  \/ SyncDiscFails
  \/ SignalBank
  \/ ExecBank
  \/ CheckStatus
  \/ CheckCommand
  \/ GetBuffer
  \/ StartRead
  \/ StartReadFails
  \/ ExecEnd
  \/ EndReturns
  \/ FreeBanks
  \/ InstallerExits

-----------------------------------------------------------------------------
(* The main thread.                                                        *)

(* The user confirms the cancel prompt.                                    *)
UserCancels ==
  /\ uiPc = "wait"
  /\ abort' = TRUE
  /\ UNCHANGED <<writerVars, instVars, uiVars>>

(* PollSema(SyncSemaID): the installer is done.  The partition is closed   *)
(* and unmounted; a failed installation is removed.                        *)
FinishInstall ==
  /\ uiPc = "wait"
  /\ instPc = "done"
  /\ uiPc' = "closed"
  /\ result' = IF status = "OK" THEN "installed" ELSE "removed"
  /\ UNCHANGED <<writerVars, instVars, abort>>

(* The I/O thread.  A write to the closed file fails with another error    *)
(* than -EIO and is retried for ever.                                      *)
IOThread ==
  /\ WriterThread
  /\ ioPc = "transfer" => uiPc = "wait"
  /\ UNCHANGED <<instVars, abort, uiVars>>

Next == InstallerThread \/ UserCancels \/ FinishInstall \/ IOThread

Spec == Init /\ [][Next]_vars

(* The threads are scheduled whenever they are ready, a disc read and a    *)
(* disk transfer return.  The user need never cancel.                      *)
FairSpec == Spec /\ WF_vars(InstallerThread) /\ WF_vars(FinishInstall)
                 /\ WF_vars(IOThread)

-----------------------------------------------------------------------------
(* Properties.                                                             *)

TypeOK ==
  /\ BankTypeOK
  /\ disk \in Seq(Nat)
  /\ instPc \in InstPlaces
  /\ toRead \in 0 .. Total
  /\ sectorsRead \in 0 .. BufMax
  /\ sent \in 0 .. Total
  /\ status \in Statuses
  /\ abort \in BOOLEAN
  /\ uiPc \in {"wait", "closed"}
  /\ result \in {"none", "installed", "removed"}

(* The drive reads into the bank at WritePtr, or has: sectors were asked   *)
(* for that are not handed over yet.                                       *)
HoldsBank == instPc = "read" \/ Total - toRead > sent

(* The drive reads ahead into one bank while earlier ones are written: it  *)
(* never reads into a bank whose sectors are not on the disk yet.          *)
NoBankOverlap ==
  HoldsBank => \A k \in 0 .. Undelivered - 1 : (ReadPtr + k) % NBufs # WritePtr

(* The ring is sound, whether the drive, the disk or the user ends it.     *)
BanksSound == TypeOK /\ NoBankOverlap

(* "5. Copy the disc image to the partition.": an installation that is     *)
(* reported as complete has put the whole disc on the partition, unless    *)
(* the disk failed in the writes that IOEndWrite waits for: its answer,    *)
(* which is 1 then, is compared with 0.                                    *)
InstalledIsComplete ==
  result = "installed" /\ state # "ERROR" => disk = [i \in 1 .. Total |-> i]

(* Until its banks are freed, the installer writes nothing but the disc,   *)
(* in order, from its first sector on.                                     *)
DiskIsDisc ==
  instPc \notin {"exit", "done"} => disk = [i \in 1 .. Len(disk) |-> i]

(* The disk gets the disc, in order, and success is reported of all of it. *)
CopyFaithful == DiskIsDisc /\ InstalledIsComplete

(* The installation ends, cancelled or not, unless the disk fails: whoever *)
(* waits for the I/O thread then waits for ever.                           *)
InstallEnds == <>(uiPc = "closed" \/ state = "ERROR")
=============================================================================
