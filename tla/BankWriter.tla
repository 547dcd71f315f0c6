----------------------------- MODULE BankWriter -----------------------------
(***************************************************************************)
(* The write half of io.c: IOExecWriteNext in the I/O thread, and the      *)
(* calls IOGetNextWrBuffer, IOSignalWriteDone and IOEndWrite with which a  *)
(* caller drives it.  Adjacent full banks are written with one fileXioWrite*)
(* of contiguous memory, up to the end of the ring.                        *)
(***************************************************************************)
EXTENDS BankIO

VARIABLE disk  \* the sectors that reached the file behind ioFD, in order

writerVars == <<mem, bd, WritePtr, ReadPtr, inBuf, outBuf, cmdAck, command,
                state, wake, ioPc, ioMode, ioBanks, ioSectors, disk>>

(* IOWriteInit. *)
IOWriteInit ==
  /\ IOInitCommon
  /\ command = "NONE"
  /\ wake = 0
  /\ disk = <<>>

-----------------------------------------------------------------------------
(* I/O thread: IOExecWriteNext.                                            *)

(* The first PollSema: take the bank at ReadPtr.                           *)
TakeBank ==
  /\ ioPc = "poll"
  /\ ioMode \in {"WRITE", "WRITE_END"}
  /\ outBuf > 0
  /\ outBuf' = outBuf - 1
  /\ ioBanks' = 1
  /\ ioSectors' = bd[ReadPtr]
  /\ ioPc' = "gather"
  /\ UNCHANGED <<ringVars, inBuf, cmdAck, command, state, wake, ioMode, disk>>

(* Slip: WRITE_END goes back to sleep like WRITE.                          *)
NothingToWriteSilent ==
  /\ ioPc = "poll"
  /\ ioMode \in {"WRITE", "WRITE_END"}
  /\ outBuf = 0
  /\ ioPc' = "asleep"
  /\ UNCHANGED <<ringVars, semaVars, cmdAck, command, state, wake,
                 ioMode, ioBanks, ioSectors, disk>>

(* The first PollSema fails: nothing is outstanding.  WRITE goes back to   *)
(* sleep, WRITE_END acknowledges.                                          *)
NothingToWrite ==
  /\ ioPc = "poll"
  /\ ioMode \in {"WRITE", "WRITE_END"}
  /\ outBuf = 0
  /\ IF ioMode = "WRITE_END"
     THEN /\ ioPc' = "acked"
          /\ cmdAck' = cmdAck + 1
     ELSE /\ ioPc' = "asleep"
          /\ UNCHANGED cmdAck
  /\ UNCHANGED <<ringVars, semaVars, command, state, wake,
                 ioMode, ioBanks, ioSectors, disk>>

(* One round of the coalescing loop: the next bank is taken too, unless    *)
(* the ring ends here.                                                     *)
GatherBank ==
  /\ ioPc = "gather"
  /\ ReadPtr + ioBanks < NBufs
  /\ outBuf > 0
  /\ outBuf' = outBuf - 1
  /\ ioBanks' = ioBanks + 1
  /\ ioSectors' = ioSectors + bd[ReadPtr + ioBanks]
  /\ UNCHANGED <<ringVars, inBuf, cmdAck, command, state, wake, ioPc, ioMode, disk>>

(* Slip: the semaphore is polled before the end of the ring is looked at.  *)
GatherDonePollFirst ==
  /\ ioPc = "gather"
  /\ \/ ReadPtr + ioBanks >= NBufs
     \/ outBuf = 0
  /\ outBuf' = IF outBuf > 0 THEN outBuf - 1 ELSE 0
  /\ ioPc' = "transfer"
  /\ UNCHANGED <<ringVars, inBuf, cmdAck, command, state, wake,
                 ioMode, ioBanks, ioSectors, disk>>

(* The coalescing loop ends: at the end of the ring, or with no more data. *)
GatherDone ==
  /\ ioPc = "gather"
  /\ \/ ReadPtr + ioBanks >= NBufs
     \/ outBuf = 0
  /\ ioPc' = "transfer"
  /\ UNCHANGED <<ringVars, semaVars, cmdAck, command, state, wake,
                 ioMode, ioBanks, ioSectors, disk>>

(* Slip: ReadPtr moves past one bank, however many were written.           *)
WriteBanksOneStep ==
  /\ ioPc = "transfer"
  /\ disk' = disk \o Contents(ReadPtr, ioSectors)
  /\ ReadPtr' = (ReadPtr + 1) % NBufs
  /\ ioPc' = "release"
  /\ UNCHANGED <<mem, bd, WritePtr, semaVars, cmdAck, command, state, wake,
                 ioMode, ioBanks, ioSectors>>

(* fileXioWrite succeeds: the memory as it is NOW reaches the disk, and    *)
(* ReadPtr moves past the banks that were written.                         *)
WriteBanks ==
  /\ ioPc = "transfer"
  /\ disk' = disk \o Contents(ReadPtr, ioSectors)
  /\ ReadPtr' = (ReadPtr + ioBanks) % NBufs
  /\ ioPc' = "release"
  /\ UNCHANGED <<mem, bd, WritePtr, semaVars, cmdAck, command, state, wake,
                 ioMode, ioBanks, ioSectors>>

(* One SignalSema(inBufSema) per bank that was written.                    *)
ReleaseBank ==
  /\ ioPc = "release"
  /\ ioBanks > 0
  /\ inBuf' = inBuf + 1
  /\ ioBanks' = ioBanks - 1
  /\ UNCHANGED <<ringVars, outBuf, cmdAck, command, state, wake,
                 ioPc, ioMode, ioSectors, disk>>

(* IOExecWriteNext returns a positive length: WRITE handles one run per    *)
(* wake-up, WRITE_END calls it again until it returns 0.                   *)
WriteNextReturns ==
  /\ ioPc = "release"
  /\ ioBanks = 0
  /\ ioPc' = IF ioMode = "WRITE_END" THEN "poll" ELSE "asleep"
  /\ ioSectors' = 0
  /\ UNCHANGED <<ringVars, semaVars, cmdAck, command, state, wake,
                 ioMode, ioBanks, disk>>

WriterThread ==
  \/ /\ \/ IOThreadWake
        \/ IOThreadFail
        \/ IOThreadExit
     /\ UNCHANGED disk
  \/ TakeBank
  \/ NothingToWrite
  \/ GatherBank
  \/ GatherDone
  \/ WriteBanks
  \/ ReleaseBank
  \/ WriteNextReturns

(* Banks, from ReadPtr on, whose data has not reached the disk.            *)
Undelivered == outBuf + (IF ioPc \in {"gather", "transfer"} THEN ioBanks ELSE 0)

-----------------------------------------------------------------------------
(* The calls of the writing side.  Each is one step of the calling thread. *)

(* Slip: the semaphore is polled, and its answer ignored.                  *)
IOGetNextWrBufferNoWait ==
  /\ inBuf' = IF inBuf > 0 THEN inBuf - 1 ELSE 0
  /\ UNCHANGED <<ringVars, outBuf, cmdAck, command, state, wake, threadVars, disk>>

(* IOGetNextWrBuffer: WaitSema(inBufSema).                                 *)
IOGetNextWrBuffer ==
  /\ inBuf > 0
  /\ inBuf' = inBuf - 1
  /\ UNCHANGED <<ringVars, outBuf, cmdAck, command, state, wake, threadVars, disk>>

(* The caller stores the sectors first, first+1, ... of its stream in the  *)
(* bank that IOGetNextWrBuffer returned.                                   *)
FillBank(first, len) ==
  /\ mem' = [c \in Cells |->
               IF c \in BankStart(WritePtr) .. BankStart(WritePtr) + len - 1
               THEN first + (c - BankStart(WritePtr))
               ELSE mem[c]]
  /\ UNCHANGED <<bd, WritePtr, ReadPtr, semaVars, cmdAck, command, state,
                 wake, threadVars, disk>>

(* IOSignalWriteDone up to SignalSema(outBufSema); its IOExec is the       *)
(* caller's next step, and the I/O thread may run in between.              *)
IOSignalWriteDone(len) ==
  /\ bd' = [bd EXCEPT ![WritePtr] = len]
  /\ WritePtr' = (WritePtr + 1) % NBufs
  /\ outBuf' = outBuf + 1
  /\ UNCHANGED <<mem, ReadPtr, inBuf, cmdAck, command, state, wake, threadVars, disk>>

(* IOExec on the writing side.                                             *)
ExecWrite(cmd) ==
  /\ IOExecCmd(cmd)
  /\ UNCHANGED <<ringVars, semaVars, cmdAck, state, threadVars, disk>>

(* IOExecWait returns: the acknowledgement is taken, IOEnd deletes the     *)
(* semaphores and IOEndWrite returns IOState.state.                        *)
IOEndWriteReturns ==
  /\ cmdAck > 0
  /\ cmdAck' = cmdAck - 1
  /\ UNCHANGED <<ringVars, semaVars, command, state, wake, threadVars, disk>>
=============================================================================
