------------------------------ MODULE ClientIO ------------------------------
(***************************************************************************)
(* The ring of banks of the PC client (HDLGManClient/io.c) and the two     *)
(* loops that use it: InstallerThread takes banks that the I/O thread has  *)
(* read from the image file, RetrieveThread fills banks that the I/O       *)
(* thread writes to it (install-main.c).  The threads meet in two counting *)
(* semaphores, in an auto-reset event that remembers one wake-up only, and *)
(* in the command, a plain variable set before the event.                  *)
(*                                                                         *)
(* A bank holds one block of the image; blocks are numbered from 1.        *)
(***************************************************************************)
EXTENDS Integers, Sequences

CONSTANTS
  NBufs,  \* the number of banks
  Total   \* the number of blocks of the image

ASSUME NBufsAssumption == NBufs \in Nat \ {0}
ASSUME TotalAssumption == Total \in Nat \ {0}

VARIABLES
  mode,      \* "write" into the file (retrieve) or "read" from it (install)
  WritePtr,  \* the bank to be filled next
  ReadPtr,   \* the bank to be emptied next
  InBuf,     \* InBufSema: banks that are free
  OutBuf,    \* OutBufSema: banks that are full
  event,     \* IoThreadEvent is set
  ack,       \* CmdAckEvent is set
  command,   \* the command for the I/O thread
  remaining, \* the blocks the I/O thread still has to read
  banks,     \* what each bank holds, 0 for nothing of this image
  ioPc,      \* where the I/O thread is
  ioCmd,     \* the command it serves
  pc,        \* where the transfer thread is
  block,     \* the block the transfer thread is at
  moved,     \* what arrived: in the file, or at the server
  failed,    \* the file could not be read or written at some point
  aborted    \* the transfer thread left its loop early

ring == <<WritePtr, ReadPtr, InBuf, OutBuf, banks>>
io   == <<ioPc, ioCmd, remaining, failed>>
user == <<pc, block, aborted>>
vars == <<mode, ring, event, ack, command, io, user, moved>>

Slots == 0 .. NBufs - 1

(* IOReadInit starts the thread's work at once, IOWriteInit does not. *)
Init ==
  /\ mode \in {"read", "write"}
  /\ WritePtr = 0 /\ ReadPtr = 0
  /\ InBuf = NBufs /\ OutBuf = 0
  /\ ack = FALSE
  /\ event = (mode = "read")
  /\ command = IF mode = "read" THEN "READ" ELSE "NONE"
  /\ remaining = IF mode = "read" THEN Total ELSE 0
  /\ banks = [b \in Slots |-> 0]
  /\ ioPc = "wait" /\ ioCmd = "NONE"
  /\ pc = "take" /\ block = 1
  /\ moved = <<>>
  /\ failed = FALSE /\ aborted = FALSE

-----------------------------------------------------------------------------
(* IOThread.                                                               *)

(* Slip: WRITE_END is acknowledged at once, like READ_END.                 *)
IOThreadWakeEager ==
  /\ ioPc = "wait" /\ event
  /\ event' = FALSE
  /\ ioCmd' = command
  /\ ioPc' = IF command \in {"READ_END", "WRITE_END"} THEN "ack" ELSE "work"
  /\ UNCHANGED <<mode, ring, ack, command, remaining, failed, user, moved>>

(* Slip: READ_END is served without an acknowledgement.                    *)
IOThreadWakeSilent ==
  /\ ioPc = "wait" /\ event
  /\ event' = FALSE
  /\ ioCmd' = command
  /\ ioPc' = IF command = "READ_END" THEN "gone" ELSE "work"
  /\ UNCHANGED <<mode, ring, ack, command, remaining, failed, user, moved>>

(* The event resets itself; the command is the last one given. *)
IOThreadWake ==
  /\ ioPc = "wait" /\ event
  /\ event' = FALSE
  /\ ioCmd' = command
  /\ ioPc' = IF command = "READ_END" THEN "ack" ELSE "work"
  /\ UNCHANGED <<mode, ring, ack, command, remaining, failed, user, moved>>

(* IOExecWriteNext: a full bank is taken. *)
TakeFull ==
  /\ ioPc = "work" /\ mode = "write" /\ OutBuf > 0
  /\ OutBuf' = OutBuf - 1
  /\ ioPc' = "transfer"
  /\ UNCHANGED <<mode, WritePtr, ReadPtr, InBuf, banks, event, ack, command,
                 ioCmd, remaining, failed, user, moved>>

(* writeFile.  A failure answers 0, not an error: the bank counts as       *)
(* written, whatever reached the file.                                     *)
WriteBank ==
  /\ ioPc = "transfer" /\ mode = "write"
  /\ \/ moved' = Append(moved, banks[ReadPtr]) /\ UNCHANGED failed
     \/ failed' = TRUE /\ UNCHANGED moved
  /\ ReadPtr' = (ReadPtr + 1) % NBufs
  /\ InBuf' = InBuf + 1
  /\ ioPc' = "work"
  /\ UNCHANGED <<mode, WritePtr, OutBuf, banks, event, ack, command, ioCmd,
                 remaining, user>>

(* IOExecReadNext: a free bank is taken for the next block. *)
TakeFree ==
  /\ ioPc = "work" /\ mode = "read" /\ remaining > 0 /\ InBuf > 0
  /\ InBuf' = InBuf - 1
  /\ ioPc' = "transfer"
  /\ UNCHANGED <<mode, WritePtr, ReadPtr, OutBuf, banks, event, ack, command,
                 ioCmd, remaining, failed, user, moved>>

(* ReadSectors.  A failure leaves what the bank held, and the bank counts  *)
(* as read.                                                                *)
ReadBank ==
  /\ ioPc = "transfer" /\ mode = "read"
  /\ \/ banks' = [banks EXCEPT ![WritePtr] = Total - remaining + 1] /\ UNCHANGED failed
     \/ failed' = TRUE /\ UNCHANGED banks
  /\ WritePtr' = (WritePtr + 1) % NBufs
  /\ OutBuf' = OutBuf + 1
  /\ remaining' = remaining - 1
  /\ ioPc' = "work"
  /\ UNCHANGED <<mode, ReadPtr, InBuf, event, ack, command, ioCmd, user, moved>>

(* Slip: the event is reset before the thread goes to sleep.               *)
NothingLeftResets ==
  /\ ioPc = "work"
  /\ IF mode = "write" THEN OutBuf = 0 ELSE remaining = 0 \/ InBuf = 0
  /\ ioPc' = IF ioCmd = "WRITE_END" THEN "ack" ELSE "wait"
  /\ event' = FALSE
  /\ UNCHANGED <<mode, ring, ack, command, ioCmd, remaining, failed, user, moved>>

(* Nothing to do: back to sleep, or the end of WRITE_END. *)
NothingLeft ==
  /\ ioPc = "work"
  /\ IF mode = "write" THEN OutBuf = 0 ELSE remaining = 0 \/ InBuf = 0
  /\ ioPc' = IF ioCmd = "WRITE_END" THEN "ack" ELSE "wait"
  /\ UNCHANGED <<mode, ring, event, ack, command, ioCmd, remaining, failed, user, moved>>

Acknowledge ==
  /\ ioPc = "ack"
  /\ ack' = TRUE
  /\ ioPc' = "gone"
  /\ UNCHANGED <<mode, ring, event, command, ioCmd, remaining, failed, user, moved>>

IOThread ==
  \/ IOThreadWake \/ TakeFull \/ WriteBank \/ TakeFree \/ ReadBank
  \/ NothingLeft \/ Acknowledge

-----------------------------------------------------------------------------
(* The transfer threads.                                                   *)

(* IOGetNextWrBuffer or IOReadNext waits for a bank. *)
TakeBank ==
  /\ pc = "take" /\ block <= Total
  /\ IF mode = "write"
     THEN InBuf > 0 /\ InBuf' = InBuf - 1 /\ UNCHANGED <<OutBuf, ReadPtr>>
     ELSE /\ OutBuf > 0 /\ OutBuf' = OutBuf - 1
          /\ ReadPtr' = (ReadPtr + 1) % NBufs
          /\ UNCHANGED InBuf
  /\ pc' = "use"
  /\ UNCHANGED <<mode, WritePtr, banks, event, ack, command, io, block, aborted, moved>>

(* The bank the transfer thread has in its hands. *)
Held == IF mode = "write" THEN WritePtr ELSE (ReadPtr + NBufs - 1) % NBufs

(* The block is received into the bank, or sent from it. *)
UseBank ==
  /\ pc = "use"
  /\ IF mode = "write"
     THEN banks' = [banks EXCEPT ![Held] = block] /\ UNCHANGED moved
     ELSE moved' = Append(moved, banks[Held]) /\ UNCHANGED banks
  /\ pc' = "release"
  /\ UNCHANGED <<mode, WritePtr, ReadPtr, InBuf, OutBuf, event, ack, command, io,
                 block, aborted>>

(* IOSignalWriteDone or IOReadAdvance gives the bank to the other side... *)
ReleaseBank ==
  /\ pc = "release"
  /\ IF mode = "write"
     THEN /\ WritePtr' = (WritePtr + 1) % NBufs
          /\ OutBuf' = OutBuf + 1
          /\ UNCHANGED InBuf
     ELSE InBuf' = InBuf + 1 /\ UNCHANGED <<WritePtr, OutBuf>>
  /\ pc' = "command"
  /\ UNCHANGED <<mode, ReadPtr, banks, event, ack, command, io, block, aborted, moved>>

(* ... and IOExec leaves the command... *)
GiveCommand ==
  /\ pc = "command"
  /\ command' = IF mode = "write" THEN "WRITE" ELSE "READ"
  /\ pc' = "wake"
  /\ UNCHANGED <<mode, ring, event, ack, io, block, aborted, moved>>

(* ... and wakes the thread. *)
Wake ==
  /\ pc = "wake"
  /\ event' = TRUE
  /\ block' = block + 1
  /\ pc' = "take"
  /\ UNCHANGED <<mode, ring, ack, command, io, aborted, moved>>

(* The user cancels, or the connection is lost with a bank in hand. *)
Abort ==
  /\ pc \in {"take", "use"} /\ block <= Total
  /\ aborted' = TRUE
  /\ pc' = "end"
  /\ UNCHANGED <<mode, ring, event, ack, command, io, block, moved>>

Done ==
  /\ pc = "take" /\ block > Total
  /\ pc' = "end"
  /\ UNCHANGED <<mode, ring, event, ack, command, io, block, aborted, moved>>

(* IOEndWrite, IOEndRead: IOExecWait, in two steps, and the wait. *)
GiveEnd ==
  /\ pc = "end"
  /\ command' = IF mode = "write" THEN "WRITE_END" ELSE "READ_END"
  /\ pc' = "wakeEnd"
  /\ UNCHANGED <<mode, ring, event, ack, io, block, aborted, moved>>

WakeEnd ==
  /\ pc = "wakeEnd"
  /\ event' = TRUE
  /\ pc' = "await"
  /\ UNCHANGED <<mode, ring, ack, command, io, block, aborted, moved>>

(* Acknowledged: the handles are closed and the banks freed. *)
End ==
  /\ pc = "await" /\ ack
  /\ ack' = FALSE
  /\ pc' = "freed"
  /\ UNCHANGED <<mode, ring, event, command, io, block, aborted, moved>>

Transfer ==
  \/ TakeBank \/ UseBank \/ ReleaseBank \/ GiveCommand \/ Wake
  \/ Done \/ GiveEnd \/ WakeEnd \/ End

Next == IOThread \/ Transfer \/ Abort

Spec == Init /\ [][Next]_vars

(* Both threads are scheduled by Windows; nobody has to cancel. *)
FairSpec == Spec /\ WF_vars(IOThread) /\ WF_vars(Transfer)

-----------------------------------------------------------------------------
(* Properties.                                                             *)

(* Type invariant of the ring, the events and the threads.                 *)
TypeOK ==
  /\ mode \in {"read", "write"}
  /\ WritePtr \in Slots /\ ReadPtr \in Slots
  /\ InBuf \in 0 .. NBufs /\ OutBuf \in 0 .. NBufs
  /\ event \in BOOLEAN /\ ack \in BOOLEAN
  /\ command \in {"NONE", "READ", "WRITE", "READ_END", "WRITE_END"}
  /\ ioCmd \in {"NONE", "READ", "WRITE", "READ_END", "WRITE_END"}
  /\ remaining \in 0 .. Total
  /\ banks \in [Slots -> 0 .. Total]
  /\ ioPc \in {"wait", "work", "transfer", "ack", "gone"}
  /\ pc \in {"take", "use", "release", "command", "wake", "end", "wakeEnd", "await", "freed"}
  /\ block \in 1 .. Total + 1
  /\ moved \in Seq(0 .. Total)
  /\ failed \in BOOLEAN /\ aborted \in BOOLEAN

UserHolds == IF pc \in {"use", "release"} THEN 1 ELSE 0
IOHolds   == IF ioPc = "transfer" THEN 1 ELSE 0

(* Every bank is free, full, or in the hands of one thread, until a        *)
(* transfer is given up with a bank in hand.                               *)
BankConservation == ~aborted => InBuf + OutBuf + UserHolds + IOHolds = NBufs

IOBank == IF mode = "write" THEN ReadPtr ELSE WritePtr

(* The I/O thread never moves data through the bank that the transfer      *)
(* thread receives into or sends from.                                     *)
NoBankOverlap == (UserHolds = 1 /\ IOHolds = 1) => Held # IOBank

(* As long as the file gave no trouble, blocks arrive in the order of the  *)
(* image, none twice and none left out.                                    *)
CopiedInOrder == ~failed => \A i \in 1 .. Len(moved) : moved[i] = i

(* A transfer that ran to its end has moved the whole image by the time    *)
(* the banks are freed, unless the file gave trouble, of which nobody      *)
(* would know: IOGetStatus cannot tell.                                    *)
CompleteAtEnd == pc = "freed" /\ ~aborted /\ ~failed => Len(moved) = Total

(* No wake-up gets lost although the event remembers only one: when the    *)
(* transfer thread waits for a bank, either there is one, or the I/O       *)
(* thread is awake or about to wake up.                                    *)
NoLostWakeUp ==
  pc \in {"take", "await"} /\ ioPc = "wait" =>
    \/ event
    \/ pc = "take" /\ (mode = "read" => remaining = 0 \/ InBuf = 0)
                   /\ (mode = "write" => OutBuf = 0)

(* The banks are not freed under the hands of the I/O thread.              *)
NoUseAfterFree == pc = "freed" => ioPc = "gone"

(* The image is copied: in order and whole, if the file gave no trouble.   *)
Copied == CopiedInOrder /\ CompleteAtEnd

(* The ring and its one-place events are sound.                            *)
BanksSound == TypeOK /\ BankConservation /\ NoBankOverlap /\ NoLostWakeUp /\ NoUseAfterFree

(* A transfer ends, whatever the file does and whenever the user cancels.  *)
TransferEnds == <>(pc = "freed")
=============================================================================
