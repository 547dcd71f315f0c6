------------------------------- MODULE BankIO -------------------------------
(***************************************************************************)
(* The buffered I/O layer of the console, io.c: a ring of NBufs banks of   *)
(* BufMax sectors each, two counting semaphores (banks that are free,      *)
(* banks that hold data), and one I/O thread that the caller wakes with a  *)
(* command.  This module holds what writing and reading share: the static  *)
(* IOState, the thread's sleep and dispatch, and its two ways out.         *)
(* BankWriter and BankReader add the transfers; WriteGame, ReadGame and    *)
(* DiscInstall add the threads that call the layer.                        *)
(*                                                                         *)
(* WakeupThread on a thread that is not asleep is remembered by the EE     *)
(* kernel, which counts such calls: wake is that count.                    *)
(***************************************************************************)
EXTENDS Integers, Sequences

CONSTANTS
  NBufs,      \* IO_BANKMAX, the number of banks
  BufMax,     \* IO_BANKSIZE, the sectors of one bank
  DiskErrors  \* whether a transfer to or from the disk may fail with -EIO

ASSUME BankAssumption ==
  /\ NBufs \in Nat \ {0}
  /\ BufMax \in Nat \ {0}
  /\ DiskErrors \in BOOLEAN

VARIABLES
  mem,        \* IOState.buffer, one cell per sector of the ring
  bd,         \* bd[b]: the length in sectors that was recorded for bank b
  WritePtr,   \* the bank that is filled next
  ReadPtr,    \* the bank that is emptied next
  inBuf,      \* count of inBufSema: banks that are free
  outBuf,     \* count of outBufSema: banks that hold data
  cmdAck,     \* count of CmdAckSema
  command,    \* the last command given to the thread
  state,      \* IO_THREAD_STATE_OK or _ERROR
  wake,       \* pending wake-ups of the I/O thread
  ioPc,       \* where the I/O thread is
  ioMode,     \* the command it is executing
  ioBanks,    \* partitionsCleared of the transfer in hand
  ioSectors   \* toWrite / sectorsTotal of the transfer in hand

ringVars   == <<mem, bd, WritePtr, ReadPtr>>
semaVars   == <<inBuf, outBuf>>
threadVars == <<ioPc, ioMode, ioBanks, ioSectors>>
bankVars   == <<mem, bd, WritePtr, ReadPtr, inBuf, outBuf, cmdAck,
                command, state, wake, ioPc, ioMode, ioBanks, ioSectors>>

Banks    == 0 .. NBufs - 1
Cells    == 0 .. NBufs * BufMax - 1
Commands == {"NONE", "WRITE", "WRITE_END", "READ", "READ_END"}
Places   == {"asleep", "poll", "gather", "transfer", "release", "acked", "exited"}

(* The first cell of bank b. *)
BankStart(b) == b * BufMax

(* What a single transfer of len sectors from bank b on moves: contiguous  *)
(* memory, whatever lengths were recorded for the banks.                   *)
Contents(b, len) == [k \in 1 .. len |-> mem[BankStart(b) + k - 1]]

-----------------------------------------------------------------------------
(* IOInitCommon, when every semaphore and the thread could be created.     *)
IOInitCommon ==
  /\ mem = [c \in Cells |-> 0]
  /\ bd  = [b \in Banks |-> 0]
  /\ WritePtr = 0
  /\ ReadPtr = 0
  /\ inBuf = NBufs
  /\ outBuf = 0
  /\ cmdAck = 0
  /\ state = "OK"
  /\ ioPc = "asleep"
  /\ ioMode = "NONE"
  /\ ioBanks = 0
  /\ ioSectors = 0

(* IOExec: the command is a plain store, and waking a thread that has      *)
(* deleted itself has no effect.                                           *)
IOExecCmd(cmd) ==
  /\ command' = cmd
  /\ wake' = IF ioPc = "exited" THEN wake ELSE wake + 1

(* Slip: the end commands are acknowledged first, and the work goes on.    *)
IOThreadWakeAcksFirst ==
  /\ ioPc = "asleep"
  /\ wake > 0
  /\ wake' = wake - 1
  /\ ioMode' = command
  /\ ioPc' = "poll"
  /\ cmdAck' = IF command \in {"WRITE_END", "READ_END"} THEN cmdAck + 1 ELSE cmdAck
  /\ UNCHANGED <<ringVars, semaVars, command, state, ioBanks, ioSectors>>

(* Slip: READ_END ends the thread without an acknowledgement.              *)
IOThreadWakeSilentEnd ==
  /\ ioPc = "asleep"
  /\ wake > 0
  /\ wake' = wake - 1
  /\ ioMode' = command
  /\ ioPc' = IF command = "READ_END" THEN "acked" ELSE "poll"
  /\ UNCHANGED <<ringVars, semaVars, cmdAck, command, state, ioBanks, ioSectors>>

(* IOThread returns from SleepThread and dispatches on the command it      *)
(* finds.  READ_END is answered at once.                                   *)
IOThreadWake ==
  /\ ioPc = "asleep"
  /\ wake > 0
  /\ wake' = wake - 1
  /\ ioMode' = command
  /\ \/ /\ command \in {"WRITE", "WRITE_END", "READ"}
        /\ ioPc' = "poll"
        /\ UNCHANGED cmdAck
     \/ /\ command = "READ_END"
        /\ ioPc' = "acked"
        /\ cmdAck' = cmdAck + 1
  /\ UNCHANGED <<ringVars, semaVars, command, state, ioBanks, ioSectors>>

(* Slip: an error while WRITE_END flushes is not recorded.                 *)
IOThreadFailUnreported ==
  /\ DiskErrors
  /\ ioPc = "transfer"
  /\ IF ioMode = "WRITE_END"
     THEN cmdAck' = cmdAck + 1 /\ ioPc' = "acked" /\ UNCHANGED state
     ELSE ioPc' = "exited" /\ state' = "ERROR" /\ UNCHANGED cmdAck
  /\ UNCHANGED <<ringVars, semaVars, command, wake, ioMode, ioBanks, ioSectors>>

(* A transfer returned an error.  WRITE and READ delete the thread; only   *)
(* WRITE_END still answers the caller that waits in IOExecWait.            *)
IOThreadFail ==
  /\ DiskErrors
  /\ ioPc = "transfer"
  /\ state' = "ERROR"
  /\ IF ioMode = "WRITE_END"
     THEN /\ cmdAck' = cmdAck + 1
          /\ ioPc' = "acked"
     ELSE /\ ioPc' = "exited"
          /\ UNCHANGED cmdAck
  /\ UNCHANGED <<ringVars, semaVars, command, wake, ioMode, ioBanks, ioSectors>>

(* ExitDeleteThread after the acknowledgement, which may already have let  *)
(* the caller go on.                                                       *)
IOThreadExit ==
  /\ ioPc = "acked"
  /\ ioPc' = "exited"
  /\ UNCHANGED <<ringVars, semaVars, cmdAck, command, state, wake,
                 ioMode, ioBanks, ioSectors>>

(* The thread is inside the ring: it may touch the banks.                  *)
IOThreadBusy == ioPc \in {"poll", "gather", "transfer", "release"}

BankTypeOK ==
  /\ mem \in [Cells -> Nat]
  /\ bd \in [Banks -> 0 .. BufMax]
  /\ WritePtr \in Banks
  /\ ReadPtr \in Banks
  /\ inBuf \in 0 .. NBufs
  /\ outBuf \in 0 .. NBufs
  /\ cmdAck \in 0 .. 1
  /\ command \in Commands
  /\ state \in {"OK", "ERROR"}
  /\ wake \in Nat
  /\ ioPc \in Places
  /\ ioMode \in Commands
  /\ ioBanks \in 0 .. NBufs
  /\ ioSectors \in Nat
=============================================================================
