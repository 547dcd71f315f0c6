------------------------------ MODULE ReadGame ------------------------------
(***************************************************************************)
(* A game that is read from the disk and sent over the network: the data   *)
(* thread of the server (ReadGame and the CloseGame that follows it,       *)
(* HDLGameSvr.c) drives the read half of io.c.                             *)
(***************************************************************************)
EXTENDS BankReader

CONSTANT Total  \* the sectors of the image: req->sectors

ASSUME TotalAssumption == Total \in Nat

NoBank == -1

VARIABLES
  dtPc,       \* where the data thread is
  remaining,  \* InstallationContext->remaining
  payload,    \* RespPayload: the bank that IOReadNext returned, or NoBank
  length,     \* RespPayloadLength, in sectors
  offset,     \* how much of the payload was sent
  peer,       \* the sectors that send() took, in order
  ended       \* what IOEndRead returned, "open" before it did

callerVars == <<dtPc, remaining, payload, length, offset, peer, ended>>
vars == <<mem, bd, WritePtr, ReadPtr, inBuf, outBuf, cmdAck, command, state,
          wake, ioPc, ioMode, ioBanks, ioSectors, ioRemaining, fetched,
          dtPc, remaining, payload, length, offset, peer, ended>>

DataPlaces == {"loop", "send", "check", "advance", "exec",
               "close", "wait", "free", "done"}

Init ==
  /\ IOReadInit(Total)
  /\ dtPc = "loop"
  /\ remaining = Total
  /\ payload = NoBank
  /\ length = 0
  /\ offset = 0
  /\ peer = <<>>
  /\ ended = "open"

-----------------------------------------------------------------------------
(* IOReadNext at the top of the loop: blocks until a bank holds data.      *)
NextBank ==
  /\ dtPc = "loop"
  /\ remaining > 0
  /\ IOReadNext
  /\ payload' = ReadPtr
  /\ length' = bd[ReadPtr]
  /\ offset' = 0
  /\ dtPc' = "send"
  /\ UNCHANGED <<remaining, peer, ended>>

(* send() takes some of what is left of the bank, as it is in memory now.  *)
SendSome ==
  /\ dtPc = "send"
  /\ offset < length
  /\ \E len \in 1 .. length - offset :
       /\ peer' = peer \o [k \in 1 .. len |-> mem[BankStart(payload) + offset + k - 1]]
       /\ offset' = offset + len
  /\ UNCHANGED <<readerVars, dtPc, remaining, payload, length, ended>>

(* The bank was sent.                                                      *)
SendDone ==
  /\ dtPc = "send"
  /\ offset = length
  /\ dtPc' = "check"
  /\ UNCHANGED <<readerVars, remaining, payload, length, offset, peer, ended>>

(* send() failed: -EPIPE.                                                  *)
SendFails ==
  /\ dtPc = "send"
  /\ offset < length
  /\ dtPc' = "close"
  /\ UNCHANGED <<readerVars, remaining, payload, length, offset, peer, ended>>

(* IOGetStatus after the bank was sent; the last bank is not given back.   *)
CheckStatus ==
  /\ dtPc = "check"
  /\ IF state = "ERROR"
     THEN /\ dtPc' = "close"
          /\ UNCHANGED remaining
     ELSE /\ remaining' = remaining - length
          /\ dtPc' = IF remaining - length > 0 THEN "advance" ELSE "loop"
  /\ UNCHANGED <<readerVars, payload, length, offset, peer, ended>>

(* IOReadAdvance up to its IOExec: the bank goes back.                     *)
AdvanceBank ==
  /\ dtPc = "advance"
  /\ IOReadAdvance
  /\ payload' = NoBank
  /\ dtPc' = "exec"
  /\ UNCHANGED <<remaining, length, offset, peer, ended>>

(* IOExec(READ) at the end of IOReadAdvance.                               *)
ExecNext ==
  /\ dtPc = "exec"
  /\ ExecRead("READ")
  /\ dtPc' = "loop"
  /\ UNCHANGED <<remaining, payload, length, offset, peer, ended>>

(* Everything was sent; the socket is closed gracefully.                   *)
LoopEnds ==
  /\ dtPc = "loop"
  /\ remaining = 0
  /\ dtPc' = "close"
  /\ UNCHANGED <<readerVars, remaining, payload, length, offset, peer, ended>>

(* CloseGame, EndInstallation, IOEndRead, IOExecWait: give READ_END.       *)
ExecEnd ==
  /\ dtPc = "close"
  /\ ExecRead("READ_END")
  /\ dtPc' = "wait"
  /\ UNCHANGED <<remaining, payload, length, offset, peer, ended>>

(* IOExecWait got its acknowledgement; IOEndRead returns the state.        *)
EndReturns ==
  /\ dtPc = "wait"
  /\ IOEndReadReturns
  /\ ended' = state
  /\ dtPc' = "free"
  /\ UNCHANGED <<remaining, payload, length, offset, peer>>

(* IOFree.                                                                 *)
FreeBanks ==
  /\ dtPc = "free"
  /\ mem' = [c \in Cells |-> 0]
  /\ bd' = [b \in Banks |-> 0]
  /\ dtPc' = "done"
  /\ UNCHANGED <<WritePtr, ReadPtr, semaVars, cmdAck, command, state, wake,
                 threadVars, ioRemaining, fetched,
                 remaining, payload, length, offset, peer, ended>>

DataThread ==
  \/ NextBank
  \/ SendSome
  \/ SendDone
  \/ SendFails
  \/ CheckStatus
  \/ AdvanceBank
  \/ ExecNext
  \/ LoopEnds
  \/ ExecEnd
  \/ EndReturns
  \/ FreeBanks

IOThread == ReaderThread /\ UNCHANGED callerVars

Next == DataThread \/ IOThread

Spec == Init /\ [][Next]_vars

(* Both threads are scheduled whenever they are ready, send() ends and a   *)
(* disk transfer returns.                                                  *)
FairSpec == Spec /\ WF_vars(DataThread) /\ WF_vars(IOThread)

-----------------------------------------------------------------------------
(* Properties.                                                             *)

TypeOK ==
  /\ BankTypeOK
  /\ ioRemaining \in 0 .. Total
  /\ fetched \in 0 .. Total
  /\ dtPc \in DataPlaces
  /\ remaining \in 0 .. Total
  /\ payload \in Banks \cup {NoBank}
  /\ length \in 0 .. BufMax
  /\ offset \in 0 .. length
  /\ peer \in Seq(Nat)
  /\ ended \in {"open", "OK", "ERROR"}

(* No bank is lost or made up: each is free, full, in the hands of the     *)
(* consumer (which keeps the last one, and the one it failed to send) or   *)
(* in the hands of the I/O thread.                                         *)
BankConservation ==
  inBuf + outBuf + ioBanks + (IF payload = NoBank THEN 0 ELSE 1) = NBufs

(* Banks, from WritePtr on, that are free or being filled.                 *)
Unfilled == inBuf + (IF ioPc \in {"gather", "transfer"} THEN ioBanks ELSE 0)

(* The bank that send() reads from is none of those that the I/O thread    *)
(* fills or may fill next: data is never replaced while it is being sent.  *)
NoBankOverlap ==
  payload # NoBank => \A k \in 0 .. Unfilled - 1 : (WritePtr + k) % NBufs # payload

(* Once the data thread is past IOEndRead, which deletes the semaphores,   *)
(* and so past IOFree, the I/O thread touches neither banks nor semaphores *)
(* any more.                                                               *)
NoUseAfterFree ==
  dtPc \in {"free", "done"} => ioPc \in {"acked", "exited"}

(* The ring is sound: all of the above, whatever fails on either side.     *)
BanksSound == TypeOK /\ BankConservation /\ NoBankOverlap /\ NoUseAfterFree

(* Whatever fails and whenever the peer goes away, what was sent is the    *)
(* beginning of the image, and a transfer that ended with nothing left and *)
(* no error has sent all that was read.                                    *)
Pipe == INSTANCE SectorPipe WITH
  put <- fetched,
  got <- peer,
  report <- CASE ended = "open" -> "open"
              [] ended = "OK" /\ remaining = 0 -> "OK"
              [] OTHER -> "ERROR"
ImplementsPipe == Pipe!Spec

(* The transfer comes to its end, unless the disk fails: neither thread    *)
(* waits for the other for ever on a semaphore.                            *)
TransferEnds == <>(dtPc = "done" \/ state = "ERROR")
=============================================================================
