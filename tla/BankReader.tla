----------------------------- MODULE BankReader -----------------------------
(***************************************************************************)
(* The read half of io.c: IOExecReadNext in the I/O thread, and the calls  *)
(* IOReadNext, IOReadAdvance and IOEndRead of the consumer.  Adjacent free *)
(* banks are filled with one fileXioRead into contiguous memory, up to the *)
(* end of the ring.  The file behind ioFD holds sectors 1, 2, 3, ...       *)
(***************************************************************************)
EXTENDS BankIO

VARIABLES
  ioRemaining,  \* IOState.remaining: sectors still to be read
  fetched       \* the position in the file: sectors read so far

readerVars == <<mem, bd, WritePtr, ReadPtr, inBuf, outBuf, cmdAck, command, state,
                wake, ioPc, ioMode, ioBanks, ioSectors, ioRemaining, fetched>>

Least(a, b) == IF a < b THEN a ELSE b

(* IOReadInit: remaining is set, then the thread is told to start reading. *)
IOReadInit(total) ==
  /\ IOInitCommon
  /\ command = "READ"
  /\ wake = 1
  /\ ioRemaining = total
  /\ fetched = 0

-----------------------------------------------------------------------------
(* I/O thread: IOExecReadNext.                                             *)

(* The loop continues and PollSema finds a free bank at WritePtr; its      *)
(* length is recorded before the data is there.                            *)
TakeFreeBank ==
  /\ ioPc = "poll"
  /\ ioMode = "READ"
  /\ ioRemaining > 0
  /\ inBuf > 0
  /\ inBuf' = inBuf - 1
  /\ ioBanks' = 1
  /\ ioSectors' = Least(ioRemaining, BufMax)
  /\ bd' = [bd EXCEPT ![WritePtr] = Least(ioRemaining, BufMax)]
  /\ ioPc' = "gather"
  /\ UNCHANGED <<mem, WritePtr, ReadPtr, outBuf, cmdAck, command, state, wake,
                 ioMode, ioRemaining, fetched>>

(* Nothing is left to read, or no bank is free: back to sleep.             *)
ReadNextReturns ==
  /\ ioPc = "poll"
  /\ ioMode = "READ"
  /\ ioRemaining = 0 \/ inBuf = 0
  /\ ioPc' = "asleep"
  /\ UNCHANGED <<ringVars, semaVars, cmdAck, command, state, wake,
                 ioMode, ioBanks, ioSectors, ioRemaining, fetched>>

(* One round of the coalescing loop.                                       *)
GatherFreeBank ==
  /\ ioPc = "gather"
  /\ WritePtr + ioBanks < NBufs
  /\ ioRemaining - ioSectors > 0
  /\ inBuf > 0
  /\ inBuf' = inBuf - 1
  /\ ioBanks' = ioBanks + 1
  /\ ioSectors' = ioSectors + Least(ioRemaining - ioSectors, BufMax)
  /\ bd' = [bd EXCEPT ![WritePtr + ioBanks] = Least(ioRemaining - ioSectors, BufMax)]
  /\ UNCHANGED <<mem, WritePtr, ReadPtr, outBuf, cmdAck, command, state, wake,
                 ioPc, ioMode, ioRemaining, fetched>>

(* Slip: the semaphore is polled before the end of the ring is looked at.  *)
GatherFreeDonePollFirst ==
  /\ ioPc = "gather"
  /\ \/ WritePtr + ioBanks >= NBufs
     \/ ioRemaining - ioSectors <= 0
     \/ inBuf = 0
  /\ inBuf' = IF inBuf > 0 THEN inBuf - 1 ELSE 0
  /\ ioPc' = "transfer"
  /\ UNCHANGED <<ringVars, outBuf, cmdAck, command, state, wake,
                 ioMode, ioBanks, ioSectors, ioRemaining, fetched>>

(* The coalescing loop ends.                                               *)
GatherFreeDone ==
  /\ ioPc = "gather"
  /\ \/ WritePtr + ioBanks >= NBufs
     \/ ioRemaining - ioSectors <= 0
     \/ inBuf = 0
  /\ ioPc' = "transfer"
  /\ UNCHANGED <<ringVars, semaVars, cmdAck, command, state, wake,
                 ioMode, ioBanks, ioSectors, ioRemaining, fetched>>

(* Slip: WritePtr moves past one bank, however many were filled.           *)
ReadBanksOneStep ==
  /\ ioPc = "transfer"
  /\ mem' = [c \in Cells |->
               IF c \in BankStart(WritePtr) .. BankStart(WritePtr) + ioSectors - 1
               THEN fetched + 1 + (c - BankStart(WritePtr))
               ELSE mem[c]]
  /\ fetched' = fetched + ioSectors
  /\ WritePtr' = (WritePtr + 1) % NBufs
  /\ ioPc' = "release"
  /\ UNCHANGED <<bd, ReadPtr, semaVars, cmdAck, command, state, wake,
                 ioMode, ioBanks, ioSectors, ioRemaining>>

(* fileXioRead succeeds: the next sectors of the file are in memory.       *)
ReadBanks ==
  /\ ioPc = "transfer"
  /\ mem' = [c \in Cells |->
               IF c \in BankStart(WritePtr) .. BankStart(WritePtr) + ioSectors - 1
               THEN fetched + 1 + (c - BankStart(WritePtr))
               ELSE mem[c]]
  /\ fetched' = fetched + ioSectors
  /\ WritePtr' = (WritePtr + ioBanks) % NBufs
  /\ ioPc' = "release"
  /\ UNCHANGED <<bd, ReadPtr, semaVars, cmdAck, command, state, wake,
                 ioMode, ioBanks, ioSectors, ioRemaining>>

(* One SignalSema(outBufSema) per bank that was filled.                    *)
PublishBank ==
  /\ ioPc = "release"
  /\ ioBanks > 0
  /\ outBuf' = outBuf + 1
  /\ ioBanks' = ioBanks - 1
  /\ UNCHANGED <<ringVars, inBuf, cmdAck, command, state, wake,
                 ioPc, ioMode, ioSectors, ioRemaining, fetched>>

(* remaining is updated only now; the consumer may be ahead of it.         *)
ReadLoops ==
  /\ ioPc = "release"
  /\ ioBanks = 0
  /\ ioRemaining' = ioRemaining - ioSectors
  /\ ioSectors' = 0
  /\ ioPc' = "poll"
  /\ UNCHANGED <<ringVars, semaVars, cmdAck, command, state, wake,
                 ioMode, ioBanks, fetched>>

ReaderThread ==
  \/ /\ \/ IOThreadWake
        \/ IOThreadFail
        \/ IOThreadExit
     /\ UNCHANGED <<ioRemaining, fetched>>
  \/ TakeFreeBank
  \/ ReadNextReturns
  \/ GatherFreeBank
  \/ GatherFreeDone
  \/ ReadBanks
  \/ PublishBank
  \/ ReadLoops

-----------------------------------------------------------------------------
(* The calls of the consumer.                                              *)

(* IOReadNext: WaitSema(outBufSema); the bank stays taken.                 *)
IOReadNext ==
  /\ outBuf > 0
  /\ outBuf' = outBuf - 1
  /\ ReadPtr' = (ReadPtr + 1) % NBufs
  /\ UNCHANGED <<mem, bd, WritePtr, inBuf, cmdAck, command, state, wake,
                 threadVars, ioRemaining, fetched>>

(* IOReadAdvance up to its SignalSema(inBufSema).                          *)
IOReadAdvance ==
  /\ inBuf' = inBuf + 1
  /\ UNCHANGED <<ringVars, outBuf, cmdAck, command, state, wake,
                 threadVars, ioRemaining, fetched>>

(* IOExec on the reading side.                                             *)
ExecRead(cmd) ==
  /\ IOExecCmd(cmd)
  /\ UNCHANGED <<ringVars, semaVars, cmdAck, state, threadVars, ioRemaining, fetched>>

(* IOExecWait returns, IOEnd deletes the semaphores.                       *)
IOEndReadReturns ==
  /\ cmdAck > 0
  /\ cmdAck' = cmdAck - 1
  /\ UNCHANGED <<ringVars, semaVars, command, state, wake, threadVars,
                 ioRemaining, fetched>>
=============================================================================
