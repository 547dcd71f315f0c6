----------------------------- MODULE WriteGame -----------------------------
(***************************************************************************)
(* A game that is received over the network and written to the disk: the   *)
(* data thread of the server (WriteGame and the CloseGame that follows it, *)
(* HDLGameSvr.c) drives the write half of io.c.  The data thread and the   *)
(* I/O thread interleave at every semaphore operation.                     *)
(***************************************************************************)
EXTENDS BankWriter

CONSTANT Total  \* the sectors of the image: SectorsInDiscLayer0 + 1

ASSUME TotalAssumption == Total \in Nat

VARIABLES
  dtPc,       \* where the data thread is
  remaining,  \* InstallationContext->remaining
  sent,       \* how many sectors were given to IOSignalWriteDone so far
  ended       \* what IOEndWrite returned, "open" before it did

callerVars == <<dtPc, remaining, sent, ended>>
vars == <<mem, bd, WritePtr, ReadPtr, inBuf, outBuf, cmdAck, command, state,
          wake, ioPc, ioMode, ioBanks, ioSectors, disk, dtPc, remaining, sent, ended>>

DataPlaces == {"loop", "receive", "signal", "exec", "check",
               "close", "wait", "free", "done"}

(* len: what the loop asks ReceiveData for. *)
NextLen == IF remaining > BufMax THEN BufMax ELSE remaining

Init ==
  /\ IOWriteInit
  /\ dtPc = "loop"
  /\ remaining = Total
  /\ sent = 0
  /\ ended = "open"

-----------------------------------------------------------------------------
(* IOGetNextWrBuffer at the top of the loop: blocks until a bank is free.  *)
GetBuffer ==
  /\ dtPc = "loop"
  /\ remaining > 0
  /\ IOGetNextWrBuffer
  /\ dtPc' = "receive"
  /\ UNCHANGED <<remaining, sent, ended>>

(* ReceiveData got all the bytes of the bank.                              *)
ReceiveBank ==
  /\ dtPc = "receive"
  /\ FillBank(sent + 1, NextLen)
  /\ dtPc' = "signal"
  /\ UNCHANGED <<remaining, sent, ended>>

(* ReceiveData timed out or the peer went away after some of them: -EPIPE. *)
(* The bank stays taken.                                                   *)
ReceiveFails ==
  /\ dtPc = "receive"
  /\ \E len \in 0 .. NextLen - 1 : FillBank(sent + 1, len)
  /\ dtPc' = "close"
  /\ UNCHANGED <<remaining, sent, ended>>

(* IOSignalWriteDone, up to its IOExec.                                    *)
SignalBank ==
  /\ dtPc = "signal"
  /\ IOSignalWriteDone(NextLen)
  /\ sent' = sent + NextLen
  /\ dtPc' = "exec"
  /\ UNCHANGED <<remaining, ended>>

(* IOExec(WRITE) at the end of IOSignalWriteDone.                          *)
ExecBank ==
  /\ dtPc = "exec"
  /\ ExecWrite("WRITE")
  /\ dtPc' = "check"
  /\ UNCHANGED <<remaining, sent, ended>>

(* IOGetStatus: -EIO leaves the loop with remaining as it was.             *)
CheckStatus ==
  /\ dtPc = "check"
  /\ IF state = "ERROR"
     THEN /\ dtPc' = "close"
          /\ UNCHANGED remaining
     ELSE /\ dtPc' = "loop"
          /\ remaining' = remaining - NextLen
  /\ UNCHANGED <<writerVars, sent, ended>>

(* Everything was received; the socket is closed gracefully.               *)
LoopEnds ==
  /\ dtPc = "loop"
  /\ remaining = 0
  /\ dtPc' = "close"
  /\ UNCHANGED <<writerVars, remaining, sent, ended>>

(* CloseGame, EndInstallation, IOEndWrite, IOExecWait: give WRITE_END.     *)
ExecEnd ==
  /\ dtPc = "close"
  /\ ExecWrite("WRITE_END")
  /\ dtPc' = "wait"
  /\ UNCHANGED <<remaining, sent, ended>>

(* IOExecWait got its acknowledgement; IOEndWrite returns the state.       *)
EndReturns ==
  /\ dtPc = "wait"
  /\ IOEndWriteReturns
  /\ ended' = state
  /\ dtPc' = "free"
  /\ UNCHANGED <<remaining, sent>>

(* IOFree: the banks go back to the heap, whose next user overwrites them. *)
FreeBanks ==
  /\ dtPc = "free"
  /\ mem' = [c \in Cells |-> 0]
  /\ bd' = [b \in Banks |-> 0]
  /\ dtPc' = "done"
  /\ UNCHANGED <<WritePtr, ReadPtr, semaVars, cmdAck, command, state, wake,
                 threadVars, disk, remaining, sent, ended>>

DataThread ==
  \/ GetBuffer
  \/ ReceiveBank
  \/ ReceiveFails
  \/ SignalBank
  \/ ExecBank
  \/ CheckStatus
  \/ LoopEnds
  \/ ExecEnd
  \/ EndReturns
  \/ FreeBanks

IOThread == WriterThread /\ UNCHANGED callerVars

Next == DataThread \/ IOThread

Spec == Init /\ [][Next]_vars

(* Both threads are scheduled whenever they are ready, a receive ends      *)
(* within its 30 second timeout and a disk transfer returns.               *)
FairSpec == Spec /\ WF_vars(DataThread) /\ WF_vars(IOThread)
-----------------------------------------------------------------------------
(* Properties.                                                             *)

TypeOK ==
  /\ BankTypeOK
  /\ disk \in Seq(Nat)
  /\ dtPc \in DataPlaces
  /\ remaining \in 0 .. Total
  /\ sent \in Nat
  /\ ended \in {"open", "OK", "ERROR"}

(* The data thread holds the bank at WritePtr: it is filling it, or it     *)
(* gave up while it was.                                                   *)
HoldsBank ==
  \/ dtPc \in {"receive", "signal"}
  \/ /\ dtPc \in {"close", "wait", "free", "done"}
     /\ remaining > 0
     /\ sent + remaining = Total

(* No bank is lost or made up: each is free, full, in the hands of the     *)
(* data thread or in the hands of the I/O thread.  A signal too many or    *)
(* too few in IOExecWriteNext or IOSignalWriteDone breaks it.              *)
BankConservation ==
  inBuf + outBuf + ioBanks + (IF HoldsBank THEN 1 ELSE 0) = NBufs

(* The bank that ReceiveData writes to is none of those whose data the     *)
(* I/O thread has yet to write or is writing: received data never lands on *)
(* data that is not on the disk yet.                                       *)
NoBankOverlap ==
  HoldsBank => \A k \in 0 .. Undelivered - 1 : (ReadPtr + k) % NBufs # WritePtr

(* Once the data thread is past IOEndWrite, which deletes the semaphores,  *)
(* and so past IOFree, the I/O thread touches neither banks nor semaphores *)
(* any more.                                                               *)
NoUseAfterFree ==
  dtPc \in {"free", "done"} => ioPc \in {"acked", "exited"}

(* When all was received and IOEndWrite reported no error, the whole image *)
(* is on the disk, sector for sector.                                      *)
CompleteImage ==
  (ended = "OK" /\ remaining = 0) => disk = [i \in 1 .. Total |-> i]

(* However the transfer went - all received, a receive that failed, a disk *)
(* that failed - what is on the disk is the beginning of the image, and OK *)
(* is reported only when all that was handed over is there.                *)
Pipe == INSTANCE SectorPipe WITH put <- sent, got <- disk, report <- ended
ImplementsPipe == Pipe!Spec

(* The transfer comes to its end, unless the disk fails: neither thread    *)
(* waits for the other for ever on a semaphore.                            *)
TransferEnds == <>(dtPc = "done" \/ state = "ERROR")
=============================================================================
