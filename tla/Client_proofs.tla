--------------------------- MODULE Client_proofs ----------------------------
(***************************************************************************)
(* Proofs about two parts that share no state: ClientIO, for every number  *)
(* of banks and every length of the image, and IconSys, the text that the  *)
(* client and the console write, for every length of a title and every     *)
(* value.                                                                  *)
(***************************************************************************)
EXTENDS ClientIO, IconSys, TLAPS

(* A position that is at most one lap ahead, brought back into the ring.   *)
Wrap(x) == IF x < NBufs THEN x ELSE x - NBufs

(* The code's % never has to take off more than one lap.                   *)
LEMMA WrapMod ==
  ASSUME NEW x \in Nat, x < 2 * NBufs
  PROVE  x % NBufs = Wrap(x)
<1>1. NBufs \in Nat \ {0}
  BY NBufsAssumption DEF NBufsAssumption
<1>2. CASE x < NBufs
  <2>1. x % NBufs = x  BY <1>1, <1>2, SMT
  <2> QED  BY <2>1, <1>2 DEF Wrap
<1>3. CASE NBufs <= x
  <2>1. x % NBufs = x - NBufs  BY <1>1, <1>3, SMT
  <2> QED  BY <2>1, <1>1, <1>3 DEF Wrap
<1> QED  BY <1>1, <1>2, <1>3

(* A pointer advances within the ring.                                     *)
LEMMA Advance ==
  ASSUME NEW p \in Slots
  PROVE  (p + 1) % NBufs = Wrap(p + 1) /\ Wrap(p + 1) \in Slots
<1>1. NBufs \in Nat \ {0} /\ p \in Nat /\ p < NBufs
  BY NBufsAssumption DEF NBufsAssumption, Slots
<1>2. p + 1 \in Nat /\ p + 1 < 2 * NBufs
  BY <1>1
<1>3. (p + 1) % NBufs = Wrap(p + 1)
  BY <1>2, WrapMod
<1> QED  BY <1>1, <1>3 DEF Wrap, Slots

(* What lies behind the read pointer, after it has advanced.               *)
LEMMA Shift ==
  ASSUME NEW r \in Slots, NEW o \in Nat, o < NBufs
  PROVE  Wrap(Wrap(r + 1) + o) = Wrap(r + o + 1)
BY NBufsAssumption DEF NBufsAssumption, Wrap, Slots

(* The same, while what lies in front of the write pointer grows.          *)
LEMMA Grow ==
  ASSUME NEW r \in Slots, NEW o \in Nat, o < NBufs
  PROVE  Wrap(Wrap(r + o) + 1) = Wrap(r + (o + 1)) /\ Wrap(r + o) \in Slots
BY NBufsAssumption DEF NBufsAssumption, Wrap, Slots

-----------------------------------------------------------------------------
(* The inductive invariant.                                                *)

(* Places of the transfer thread: it works on a block; it has given the    *)
(* last command.                                                           *)
Working == {"use", "release", "command", "wake"}
Ending  == {"wakeEnd", "await", "freed"}

(* The filled banks lie between the pointers, with the one that is being   *)
(* written to the file among them; no bank is counted twice.               *)
RingInv ==
  /\ InBuf + OutBuf + UserHolds + IOHolds <= NBufs
  /\ WritePtr = Wrap(ReadPtr + OutBuf + (IF mode = "write" THEN IOHolds ELSE 0))

(* Where the transfer thread is, and which block it is at.                 *)
LoopInv ==
  /\ pc \in Working => block <= Total
  /\ aborted => pc = "end" \/ pc \in Ending
  /\ ~aborted /\ (pc = "end" \/ pc \in Ending) => block = Total + 1

(* What the I/O thread is at goes with the command it serves; it stops     *)
(* only for the last command, and leaves no filled bank unwritten.         *)
ThreadInv ==
  /\ ioPc = "transfer" /\ mode = "read" => remaining > 0
  /\ ioCmd = "READ_END" => ioPc \in {"ack", "gone"}
  /\ ioCmd = "WRITE_END" => ioPc # "wait"
  /\ ioCmd \in {"READ_END", "WRITE_END"} => pc \in Ending
  /\ ioPc \in {"ack", "gone"} => ioCmd \in {"READ_END", "WRITE_END"}
  /\ ioPc \in {"ack", "gone"} /\ mode = "write" => OutBuf = 0

(* The last command reaches the I/O thread, which then acknowledges it.    *)
EndInv ==
  /\ command \in IF pc \in Ending THEN {IF mode = "write" THEN "WRITE_END" ELSE "READ_END"}
                 ELSE {"NONE", "READ", "WRITE"}
  /\ pc = "await" => event \/ ioPc \in {"ack", "gone"} \/ ioCmd = "WRITE_END"
  /\ ack => ioPc = "gone"
  /\ pc = "freed" => ioPc = "gone"

(* The control of both threads.                                            *)
IInv == TypeOK /\ BankConservation /\ RingInv /\ LoopInv /\ ThreadInv /\ EndInv /\ NoLostWakeUp

(* The blocks that were handed to the I/O thread, and those that were      *)
(* taken from it.                                                          *)
Given == IF pc \in {"command", "wake"} THEN block ELSE block - 1
Got   == IF pc \in Working THEN block ELSE block - 1

(* Into the file: the filled banks hold the blocks that follow those in    *)
(* it.                                                                     *)
WriteData ==
  mode = "write" /\ ~failed =>
    /\ Len(moved) + OutBuf + IOHolds = Given
    /\ \A k \in Slots : k < OutBuf + IOHolds => banks[Wrap(ReadPtr + k)] = Len(moved) + 1 + k
    /\ pc = "release" => banks[WritePtr] = block

(* From the file: the filled banks hold the blocks that follow those that  *)
(* were taken.                                                             *)
ReadData ==
  mode = "read" /\ ~aborted =>
    /\ Total - remaining - OutBuf = Got
    /\ Len(moved) = IF pc = "use" THEN block - 1 ELSE Got
    /\ ~failed => \A k \in Slots : k < OutBuf => banks[Wrap(ReadPtr + k)] = Got + 1 + k
    /\ ~failed /\ pc = "use" => banks[Wrap(ReadPtr + NBufs - 1)] = block

DataInv == CopiedInOrder /\ WriteData /\ ReadData

-----------------------------------------------------------------------------
(* Every step keeps the control: one lemma per action, one step per        *)
(* conjunct.                                                               *)
USE NBufsAssumption, TotalAssumption
USE DEF NBufsAssumption, TotalAssumption, Slots, ring, io, user

LEMMA IOThreadWakeKeeps ==
  ASSUME IInv, IOThreadWake
  PROVE  IInv'
<1> USE DEF IInv, IOThreadWake
<1>1. TypeOK'
  BY ZenonT(60) DEF TypeOK
<1>2. BankConservation'
  BY DEF TypeOK, BankConservation, UserHolds, IOHolds, LoopInv
<1>3. RingInv'
  BY DEF TypeOK, RingInv, UserHolds, IOHolds, Wrap
<1>4. LoopInv'
  BY DEF TypeOK, LoopInv, Working, Ending
<1>5. ThreadInv'
  BY DEF TypeOK, ThreadInv, EndInv, LoopInv, Ending
<1>6. EndInv'
  BY DEF TypeOK, EndInv, ThreadInv, LoopInv, Ending
<1>7. NoLostWakeUp'
  BY DEF TypeOK, NoLostWakeUp, EndInv, ThreadInv, Ending
<1> QED  BY <1>1, <1>2, <1>3, <1>4, <1>5, <1>6, <1>7

LEMMA TakeFullKeeps ==
  ASSUME IInv, TakeFull
  PROVE  IInv'
<1> USE DEF IInv, TakeFull
<1>1. TypeOK'
  BY DEF TypeOK
<1>2. BankConservation'
  BY DEF TypeOK, BankConservation, UserHolds, IOHolds, LoopInv
<1>3. RingInv'
  BY DEF TypeOK, RingInv, UserHolds, IOHolds, Wrap
<1>4. LoopInv'
  BY DEF TypeOK, LoopInv, Working, Ending
<1>5. ThreadInv'
  BY DEF TypeOK, ThreadInv, EndInv, LoopInv, Ending
<1>6. EndInv'
  BY DEF TypeOK, EndInv, ThreadInv, LoopInv, Ending
<1>7. NoLostWakeUp'
  BY DEF TypeOK, NoLostWakeUp, EndInv, ThreadInv, Ending
<1> QED  BY <1>1, <1>2, <1>3, <1>4, <1>5, <1>6, <1>7

LEMMA WriteBankKeeps ==
  ASSUME IInv, WriteBank
  PROVE  IInv'
<1> USE DEF IInv, WriteBank
<1>1. TypeOK'
  <2>1. ReadPtr' \in Slots
    BY Advance DEF TypeOK
  <2>2. InBuf' \in 0 .. NBufs
    BY DEF TypeOK, RingInv, UserHolds, IOHolds
  <2>3. banks[ReadPtr] \in 0 .. Total
    BY DEF TypeOK
  <2>4. moved \in Seq(0 .. Total) /\ (moved' = moved \/ moved' = Append(moved, banks[ReadPtr]))
    BY DEF TypeOK
  <2>5. Append(moved, banks[ReadPtr]) \in Seq(0 .. Total)
    BY ONLY <2>3, <2>4
  <2>6. moved' \in Seq(0 .. Total)
    BY ONLY <2>4, <2>5
  <2>7. failed' \in BOOLEAN
    BY Zenon DEF TypeOK
  <2> QED  BY <2>1, <2>2, <2>6, <2>7 DEF TypeOK
<1>2. BankConservation'
  BY DEF TypeOK, BankConservation, UserHolds, IOHolds, LoopInv
<1>3. RingInv'
  <2>1. InBuf' + OutBuf' + UserHolds' + IOHolds' <= NBufs
    BY DEF TypeOK, RingInv, UserHolds, IOHolds
  <2>2. ReadPtr \in Slots /\ OutBuf \in Nat /\ OutBuf < NBufs
    BY DEF TypeOK, RingInv, UserHolds, IOHolds
  <2>3. ReadPtr' = Wrap(ReadPtr + 1)
    BY <2>2, Advance
  <2>4. WritePtr' = Wrap(ReadPtr + OutBuf + 1)
    BY DEF RingInv, IOHolds
  <2>5. WritePtr' = Wrap(ReadPtr' + OutBuf)
    BY ONLY <2>2, <2>3, <2>4, Shift
  <2>6. ReadPtr' \in Nat /\ ReadPtr' + OutBuf + 0 = ReadPtr' + OutBuf
    BY <2>2, <2>3, Advance
  <2> QED  BY <2>1, <2>5, <2>6 DEF RingInv, IOHolds
<1>4. LoopInv'
  BY DEF TypeOK, LoopInv, Working, Ending
<1>5. ThreadInv'
  BY DEF TypeOK, ThreadInv, EndInv, LoopInv, Ending
<1>6. EndInv'
  BY DEF TypeOK, EndInv, ThreadInv, LoopInv, Ending
<1>7. NoLostWakeUp'
  BY DEF TypeOK, NoLostWakeUp, EndInv, ThreadInv, Ending
<1> QED  BY <1>1, <1>2, <1>3, <1>4, <1>5, <1>6, <1>7

LEMMA TakeFreeKeeps ==
  ASSUME IInv, TakeFree
  PROVE  IInv'
<1> USE DEF IInv, TakeFree
<1>1. TypeOK'
  BY DEF TypeOK
<1>2. BankConservation'
  BY DEF TypeOK, BankConservation, UserHolds, IOHolds, LoopInv
<1>3. RingInv'
  BY DEF TypeOK, RingInv, UserHolds, IOHolds, Wrap
<1>4. LoopInv'
  BY DEF TypeOK, LoopInv, Working, Ending
<1>5. ThreadInv'
  BY DEF TypeOK, ThreadInv, EndInv, LoopInv, Ending
<1>6. EndInv'
  BY DEF TypeOK, EndInv, ThreadInv, LoopInv, Ending
<1>7. NoLostWakeUp'
  BY DEF TypeOK, NoLostWakeUp, EndInv, ThreadInv, Ending
<1> QED  BY <1>1, <1>2, <1>3, <1>4, <1>5, <1>6, <1>7

LEMMA ReadBankKeeps ==
  ASSUME IInv, ReadBank
  PROVE  IInv'
<1> USE DEF IInv, ReadBank
<1>1. TypeOK'
  <2>1. WritePtr' \in Slots
    BY Advance DEF TypeOK
  <2>2. OutBuf' \in 0 .. NBufs
    BY SMTT(40) DEF TypeOK, RingInv, UserHolds, IOHolds
  <2>3. remaining' \in 0 .. Total /\ Total - remaining + 1 \in 0 .. Total
    BY DEF TypeOK, ThreadInv
  <2>4. banks' \in [Slots -> 0 .. Total]
    BY <2>3 DEF TypeOK
  <2>5. failed' \in BOOLEAN
    BY Zenon DEF TypeOK
  <2> QED  BY <2>1, <2>2, <2>3, <2>4, <2>5 DEF TypeOK
<1>2. BankConservation'
  BY DEF TypeOK, BankConservation, UserHolds, IOHolds, LoopInv
<1>3. RingInv'
  <2>1. InBuf' + OutBuf' + UserHolds' + IOHolds' <= NBufs
    BY DEF TypeOK, RingInv, UserHolds, IOHolds
  <2>2. ReadPtr \in Slots /\ WritePtr \in Slots /\ OutBuf \in Nat /\ OutBuf < NBufs
    BY SMTT(40) DEF TypeOK, RingInv, UserHolds, IOHolds
  <2>3. WritePtr' = Wrap(WritePtr + 1)
    BY <2>2, Advance
  <2>4. WritePtr = Wrap(ReadPtr + OutBuf)
    BY <2>2 DEF RingInv
  <2>5. WritePtr' = Wrap(ReadPtr + (OutBuf + 1))
    BY ONLY <2>2, <2>3, <2>4, Grow
  <2>6. ReadPtr + OutBuf' + 0 = ReadPtr + (OutBuf + 1)
    BY <2>2
  <2> QED  BY <2>1, <2>5, <2>6 DEF RingInv
<1>4. LoopInv'
  BY DEF TypeOK, LoopInv, Working, Ending
<1>5. ThreadInv'
  BY DEF TypeOK, ThreadInv, EndInv, LoopInv, Ending
<1>6. EndInv'
  BY DEF TypeOK, EndInv, ThreadInv, LoopInv, Ending
<1>7. NoLostWakeUp'
  BY DEF TypeOK, NoLostWakeUp, EndInv, ThreadInv, Ending
<1> QED  BY <1>1, <1>2, <1>3, <1>4, <1>5, <1>6, <1>7

LEMMA NothingLeftKeeps ==
  ASSUME IInv, NothingLeft
  PROVE  IInv'
<1> USE DEF IInv, NothingLeft
<1>1. TypeOK'
  BY DEF TypeOK
<1>2. BankConservation'
  BY DEF TypeOK, BankConservation, UserHolds, IOHolds, LoopInv
<1>3. RingInv'
  BY DEF TypeOK, RingInv, UserHolds, IOHolds, Wrap
<1>4. LoopInv'
  BY DEF TypeOK, LoopInv, Working, Ending
<1>5. ThreadInv'
  BY DEF TypeOK, ThreadInv, EndInv, LoopInv, Ending
<1>6. EndInv'
  BY DEF TypeOK, EndInv, ThreadInv, LoopInv, Ending
<1>7. NoLostWakeUp'
  BY DEF TypeOK, NoLostWakeUp, EndInv, ThreadInv, Ending
<1> QED  BY <1>1, <1>2, <1>3, <1>4, <1>5, <1>6, <1>7

LEMMA AcknowledgeKeeps ==
  ASSUME IInv, Acknowledge
  PROVE  IInv'
<1> USE DEF IInv, Acknowledge
<1>1. TypeOK'
  BY DEF TypeOK
<1>2. BankConservation'
  BY DEF TypeOK, BankConservation, UserHolds, IOHolds, LoopInv
<1>3. RingInv'
  BY DEF TypeOK, RingInv, UserHolds, IOHolds, Wrap
<1>4. LoopInv'
  BY DEF TypeOK, LoopInv, Working, Ending
<1>5. ThreadInv'
  BY DEF TypeOK, ThreadInv, EndInv, LoopInv, Ending
<1>6. EndInv'
  BY DEF TypeOK, EndInv, ThreadInv, LoopInv, Ending
<1>7. NoLostWakeUp'
  BY DEF TypeOK, NoLostWakeUp, EndInv, ThreadInv, Ending
<1> QED  BY <1>1, <1>2, <1>3, <1>4, <1>5, <1>6, <1>7

LEMMA TakeBankKeeps ==
  ASSUME IInv, TakeBank
  PROVE  IInv'
<1> USE DEF IInv, TakeBank
<1>1. TypeOK'
  <2>1. ReadPtr' \in Slots
    BY Advance DEF TypeOK
  <2>2. InBuf' \in 0 .. NBufs /\ OutBuf' \in 0 .. NBufs
    BY SMTT(40) DEF TypeOK
  <2> QED  BY <2>1, <2>2 DEF TypeOK
<1>2. BankConservation'
  <2>1. ~aborted
    BY DEF LoopInv, Ending
  <2>2. InBuf' + OutBuf' = InBuf + OutBuf - 1
    BY DEF TypeOK
  <2>3. UserHolds = 0 /\ UserHolds' = 1 /\ IOHolds' = IOHolds /\ IOHolds \in 0 .. 1
    BY DEF UserHolds, IOHolds
  <2> QED  BY <2>1, <2>2, <2>3, SMTT(60) DEF BankConservation, TypeOK
<1>3. RingInv'
  <2>1. InBuf' + OutBuf' = InBuf + OutBuf - 1
    BY DEF TypeOK
  <2>2. UserHolds = 0 /\ UserHolds' = 1 /\ IOHolds' = IOHolds /\ IOHolds \in 0 .. 1
    BY DEF UserHolds, IOHolds
  <2>3. InBuf' + OutBuf' + UserHolds' + IOHolds' <= NBufs
    BY <2>1, <2>2 DEF TypeOK, RingInv
  <2>4. CASE mode = "write"
    BY <2>2, <2>3, <2>4 DEF RingInv
  <2>5. CASE mode = "read"
    <3>1. /\ ReadPtr \in Slots /\ OutBuf' \in Nat /\ OutBuf' < NBufs
          /\ OutBuf = OutBuf' + 1
      BY <2>5 DEF TypeOK
    <3>2. ReadPtr' = Wrap(ReadPtr + 1)
      BY <2>5, <3>1, Advance
    <3>3. WritePtr' = Wrap(ReadPtr + OutBuf' + 1)
      BY <2>5, <3>1 DEF RingInv
    <3>4. WritePtr' = Wrap(ReadPtr' + OutBuf')
      BY ONLY <3>1, <3>2, <3>3, Shift
    <3>5. ReadPtr' + OutBuf' + 0 = ReadPtr' + OutBuf'
      BY <3>1, <3>2, Advance
    <3> QED  BY <2>3, <2>5, <3>4, <3>5 DEF RingInv
  <2> QED  BY <2>4, <2>5 DEF TypeOK
<1>4. LoopInv'
  BY DEF TypeOK, LoopInv, Working, Ending
<1>5. ThreadInv'
  BY DEF TypeOK, ThreadInv, EndInv, LoopInv, Ending
<1>6. EndInv'
  BY DEF TypeOK, EndInv, ThreadInv, LoopInv, Ending
<1>7. NoLostWakeUp'
  BY DEF TypeOK, NoLostWakeUp, EndInv, ThreadInv, Ending
<1> QED  BY <1>1, <1>2, <1>3, <1>4, <1>5, <1>6, <1>7

LEMMA UseBankKeeps ==
  ASSUME IInv, UseBank
  PROVE  IInv'
<1> USE DEF IInv, UseBank
<1>1. TypeOK'
  <2>1. CASE mode = "write"
    <3>1. banks' = [banks EXCEPT ![Held] = block] /\ moved' = moved
      BY <2>1
    <3>2. banks \in [Slots -> 0 .. Total] /\ block \in 0 .. Total
      BY DEF TypeOK, LoopInv, Working
    <3>3. banks' \in [Slots -> 0 .. Total]
      BY ONLY <3>1, <3>2
    <3> QED  BY <3>1, <3>3 DEF TypeOK
  <2>2. CASE mode = "read"
    <3>1. /\ ReadPtr + NBufs - 1 \in Nat
          /\ ReadPtr + NBufs - 1 < 2 * NBufs
          /\ Wrap(ReadPtr + NBufs - 1) \in Slots
      BY DEF TypeOK, Wrap
    <3>2. Held \in Slots
      BY <2>2, <3>1, WrapMod DEF Held
    <3>3. banks[Held] \in 0 .. Total /\ moved \in Seq(0 .. Total)
      BY <3>2 DEF TypeOK
    <3>4. moved' = Append(moved, banks[Held]) /\ banks' = banks
      BY <2>2
    <3>5. moved' \in Seq(0 .. Total)
      BY ONLY <3>3, <3>4
    <3> QED  BY <3>4, <3>5 DEF TypeOK
  <2> QED  BY <2>1, <2>2 DEF TypeOK
<1>2. BankConservation'
  BY DEF TypeOK, BankConservation, UserHolds, IOHolds, LoopInv
<1>3. RingInv'
  BY DEF TypeOK, RingInv, UserHolds, IOHolds, Wrap
<1>4. LoopInv'
  BY DEF TypeOK, LoopInv, Working, Ending
<1>5. ThreadInv'
  BY DEF TypeOK, ThreadInv, EndInv, LoopInv, Ending
<1>6. EndInv'
  BY DEF TypeOK, EndInv, ThreadInv, LoopInv, Ending
<1>7. NoLostWakeUp'
  BY DEF TypeOK, NoLostWakeUp, EndInv, ThreadInv, Ending
<1> QED  BY <1>1, <1>2, <1>3, <1>4, <1>5, <1>6, <1>7

LEMMA ReleaseBankKeeps ==
  ASSUME IInv, ReleaseBank
  PROVE  IInv'
<1> USE DEF IInv, ReleaseBank
<1>1. TypeOK'
  <2>1. WritePtr' \in Slots
    BY Advance DEF TypeOK
  <2>2. InBuf < NBufs /\ OutBuf < NBufs
    <3>1. UserHolds = 1 /\ IOHolds \in 0 .. 1
      BY DEF UserHolds, IOHolds
    <3> QED  BY <3>1 DEF TypeOK, RingInv
  <2>3. InBuf' \in 0 .. NBufs /\ OutBuf' \in 0 .. NBufs
    BY <2>2, SMTT(60) DEF TypeOK
  <2> QED  BY <2>1, <2>3 DEF TypeOK
<1>2. BankConservation'
  <2>1. ~aborted
    BY DEF LoopInv, Ending
  <2>2. InBuf' + OutBuf' = InBuf + OutBuf + 1
    BY DEF TypeOK
  <2>3. UserHolds = 1 /\ UserHolds' = 0 /\ IOHolds' = IOHolds /\ IOHolds \in 0 .. 1
    BY DEF UserHolds, IOHolds
  <2> QED  BY <2>1, <2>2, <2>3, SMTT(60) DEF BankConservation, TypeOK
<1>3. RingInv'
  <2>1. InBuf' + OutBuf' = InBuf + OutBuf + 1
    BY DEF TypeOK
  <2>2. UserHolds = 1 /\ UserHolds' = 0 /\ IOHolds' = IOHolds /\ IOHolds \in 0 .. 1
    BY DEF UserHolds, IOHolds
  <2>3. InBuf' + OutBuf' + UserHolds' + IOHolds' <= NBufs
    BY <2>1, <2>2 DEF TypeOK, RingInv
  <2>4. CASE mode = "write"
    <3>1. /\ ReadPtr \in Slots /\ WritePtr \in Slots
          /\ OutBuf + IOHolds \in Nat /\ OutBuf + IOHolds < NBufs
      BY <2>2 DEF TypeOK, RingInv
    <3>2. WritePtr = Wrap(ReadPtr + (OutBuf + IOHolds))
      BY <2>2, <2>4, <3>1 DEF RingInv, TypeOK
    <3>3. WritePtr' = Wrap(WritePtr + 1)
      BY <2>4, <3>1, Advance
    <3>4. WritePtr' = Wrap(ReadPtr + ((OutBuf + IOHolds) + 1))
      BY ONLY <3>1, <3>2, <3>3, Grow
    <3>5. ReadPtr + ((OutBuf + IOHolds) + 1) = ReadPtr' + OutBuf' + IOHolds'
      BY <2>2, <2>4, <3>1 DEF TypeOK
    <3> QED  BY <2>3, <2>4, <3>4, <3>5 DEF RingInv
  <2>5. CASE mode = "read"
    BY <2>3, <2>5 DEF RingInv
  <2> QED  BY <2>4, <2>5 DEF TypeOK
<1>4. LoopInv'
  BY DEF TypeOK, LoopInv, Working, Ending
<1>5. ThreadInv'
  BY DEF TypeOK, ThreadInv, EndInv, LoopInv, Ending
<1>6. EndInv'
  BY DEF TypeOK, EndInv, ThreadInv, LoopInv, Ending
<1>7. NoLostWakeUp'
  BY DEF TypeOK, NoLostWakeUp, EndInv, ThreadInv, Ending
<1> QED  BY <1>1, <1>2, <1>3, <1>4, <1>5, <1>6, <1>7

LEMMA GiveCommandKeeps ==
  ASSUME IInv, GiveCommand
  PROVE  IInv'
<1> USE DEF IInv, GiveCommand
<1>1. TypeOK'
  BY DEF TypeOK
<1>2. BankConservation'
  BY DEF TypeOK, BankConservation, UserHolds, IOHolds, LoopInv
<1>3. RingInv'
  BY DEF TypeOK, RingInv, UserHolds, IOHolds, Wrap
<1>4. LoopInv'
  BY DEF TypeOK, LoopInv, Working, Ending
<1>5. ThreadInv'
  BY DEF TypeOK, ThreadInv, EndInv, LoopInv, Ending
<1>6. EndInv'
  BY DEF TypeOK, EndInv, ThreadInv, LoopInv, Ending
<1>7. NoLostWakeUp'
  BY DEF TypeOK, NoLostWakeUp, EndInv, ThreadInv, Ending
<1> QED  BY <1>1, <1>2, <1>3, <1>4, <1>5, <1>6, <1>7

LEMMA WakeKeeps ==
  ASSUME IInv, Wake
  PROVE  IInv'
<1> USE DEF IInv, Wake
<1>1. TypeOK'
  BY DEF TypeOK, LoopInv, Working
<1>2. BankConservation'
  BY DEF TypeOK, BankConservation, UserHolds, IOHolds, LoopInv
<1>3. RingInv'
  BY DEF TypeOK, RingInv, UserHolds, IOHolds, Wrap
<1>4. LoopInv'
  BY DEF TypeOK, LoopInv, Working, Ending
<1>5. ThreadInv'
  BY DEF TypeOK, ThreadInv, EndInv, LoopInv, Ending
<1>6. EndInv'
  BY DEF TypeOK, EndInv, ThreadInv, LoopInv, Ending
<1>7. NoLostWakeUp'
  BY DEF TypeOK, NoLostWakeUp, EndInv, ThreadInv, Ending
<1> QED  BY <1>1, <1>2, <1>3, <1>4, <1>5, <1>6, <1>7

LEMMA DoneKeeps ==
  ASSUME IInv, Done
  PROVE  IInv'
<1> USE DEF IInv, Done
<1>1. TypeOK'
  BY DEF TypeOK
<1>2. BankConservation'
  BY DEF TypeOK, BankConservation, UserHolds, IOHolds, LoopInv
<1>3. RingInv'
  BY DEF TypeOK, RingInv, UserHolds, IOHolds, Wrap
<1>4. LoopInv'
  BY DEF TypeOK, LoopInv, Working, Ending
<1>5. ThreadInv'
  BY DEF TypeOK, ThreadInv, EndInv, LoopInv, Ending
<1>6. EndInv'
  BY DEF TypeOK, EndInv, ThreadInv, LoopInv, Ending
<1>7. NoLostWakeUp'
  BY DEF TypeOK, NoLostWakeUp, EndInv, ThreadInv, Ending
<1> QED  BY <1>1, <1>2, <1>3, <1>4, <1>5, <1>6, <1>7

LEMMA GiveEndKeeps ==
  ASSUME IInv, GiveEnd
  PROVE  IInv'
<1> USE DEF IInv, GiveEnd
<1>1. TypeOK'
  BY DEF TypeOK
<1>2. BankConservation'
  BY DEF TypeOK, BankConservation, UserHolds, IOHolds, LoopInv
<1>3. RingInv'
  BY DEF TypeOK, RingInv, UserHolds, IOHolds, Wrap
<1>4. LoopInv'
  BY DEF TypeOK, LoopInv, Working, Ending
<1>5. ThreadInv'
  BY DEF TypeOK, ThreadInv, EndInv, LoopInv, Ending
<1>6. EndInv'
  BY DEF TypeOK, EndInv, ThreadInv, LoopInv, Ending
<1>7. NoLostWakeUp'
  BY DEF TypeOK, NoLostWakeUp, EndInv, ThreadInv, Ending
<1> QED  BY <1>1, <1>2, <1>3, <1>4, <1>5, <1>6, <1>7

LEMMA WakeEndKeeps ==
  ASSUME IInv, WakeEnd
  PROVE  IInv'
<1> USE DEF IInv, WakeEnd
<1>1. TypeOK'
  BY DEF TypeOK
<1>2. BankConservation'
  BY DEF TypeOK, BankConservation, UserHolds, IOHolds, LoopInv
<1>3. RingInv'
  BY DEF TypeOK, RingInv, UserHolds, IOHolds, Wrap
<1>4. LoopInv'
  BY DEF TypeOK, LoopInv, Working, Ending
<1>5. ThreadInv'
  BY DEF TypeOK, ThreadInv, EndInv, LoopInv, Ending
<1>6. EndInv'
  BY DEF TypeOK, EndInv, ThreadInv, LoopInv, Ending
<1>7. NoLostWakeUp'
  BY DEF TypeOK, NoLostWakeUp, EndInv, ThreadInv, Ending
<1> QED  BY <1>1, <1>2, <1>3, <1>4, <1>5, <1>6, <1>7

LEMMA EndKeeps ==
  ASSUME IInv, End
  PROVE  IInv'
<1> USE DEF IInv, End
<1>1. TypeOK'
  BY ZenonT(60) DEF TypeOK
<1>2. BankConservation'
  BY DEF TypeOK, BankConservation, UserHolds, IOHolds, LoopInv
<1>3. RingInv'
  BY DEF TypeOK, RingInv, UserHolds, IOHolds, Wrap
<1>4. LoopInv'
  BY DEF TypeOK, LoopInv, Working, Ending
<1>5. ThreadInv'
  BY DEF TypeOK, ThreadInv, EndInv, LoopInv, Ending
<1>6. EndInv'
  BY DEF TypeOK, EndInv, ThreadInv, LoopInv, Ending
<1>7. NoLostWakeUp'
  BY DEF TypeOK, NoLostWakeUp, EndInv, ThreadInv, Ending
<1> QED  BY <1>1, <1>2, <1>3, <1>4, <1>5, <1>6, <1>7

LEMMA AbortKeeps ==
  ASSUME IInv, Abort
  PROVE  IInv'
<1> USE DEF IInv, Abort
<1>1. TypeOK'
  BY DEF TypeOK
<1>2. BankConservation'
  BY DEF TypeOK, BankConservation, UserHolds, IOHolds, LoopInv
<1>3. RingInv'
  BY DEF TypeOK, RingInv, UserHolds, IOHolds, Wrap
<1>4. LoopInv'
  BY DEF TypeOK, LoopInv, Working, Ending
<1>5. ThreadInv'
  BY DEF TypeOK, ThreadInv, EndInv, LoopInv, Ending
<1>6. EndInv'
  BY DEF TypeOK, EndInv, ThreadInv, LoopInv, Ending
<1>7. NoLostWakeUp'
  BY DEF TypeOK, NoLostWakeUp, EndInv, ThreadInv, Ending
<1> QED  BY <1>1, <1>2, <1>3, <1>4, <1>5, <1>6, <1>7

(* A fresh ring satisfies it.                                              *)
LEMMA InitHolds == Init => IInv
BY DEF Init, IInv, TypeOK, BankConservation, RingInv, LoopInv, ThreadInv, EndInv,
       NoLostWakeUp, UserHolds, IOHolds, Wrap, Working, Ending

(* The invariant is inductive.                                             *)
LEMMA NextKeeps ==
  ASSUME IInv, [Next]_vars
  PROVE  IInv'
<1>1. CASE IOThread
  BY <1>1, IOThreadWakeKeeps, TakeFullKeeps, WriteBankKeeps, TakeFreeKeeps, ReadBankKeeps,
     NothingLeftKeeps, AcknowledgeKeeps DEF IOThread
<1>2. CASE Transfer
  BY <1>2, TakeBankKeeps, UseBankKeeps, ReleaseBankKeeps, GiveCommandKeeps, WakeKeeps,
     DoneKeeps, GiveEndKeeps, WakeEndKeeps, EndKeeps DEF Transfer
<1>3. CASE UNCHANGED vars
  BY <1>3 DEF vars, IInv, TypeOK, BankConservation, RingInv, LoopInv, ThreadInv, EndInv,
              NoLostWakeUp, UserHolds, IOHolds
<1> QED  BY <1>1, <1>2, <1>3, AbortKeeps DEF Next

(* The control of both threads, for every ring and every image.            *)
THEOREM Invariance == Spec => []IInv
BY InitHolds, NextKeeps, PTL DEF Spec

(* The two threads are never in the same bank.                             *)
LEMMA InvSound == IInv => BanksSound
<1> SUFFICES ASSUME IInv PROVE BanksSound
  OBVIOUS
<1>1. NoUseAfterFree
  BY DEF IInv, EndInv, NoUseAfterFree
<1>2. NoBankOverlap
  <2> SUFFICES ASSUME UserHolds = 1, IOHolds = 1 PROVE Held # IOBank
    BY DEF NoBankOverlap
  <2>1. /\ ReadPtr \in Nat /\ ReadPtr < NBufs
        /\ OutBuf \in Nat /\ OutBuf + 2 <= NBufs
        /\ WritePtr = Wrap(ReadPtr + OutBuf + (IF mode = "write" THEN 1 ELSE 0))
    BY DEF IInv, TypeOK, RingInv
  <2>2. CASE mode = "write"
    <3>1. WritePtr = Wrap(ReadPtr + OutBuf + 1)
      BY <2>1, <2>2
    <3>2. WritePtr # ReadPtr
      BY <2>1, <3>1 DEF Wrap
    <3> QED  BY <2>2, <3>2 DEF Held, IOBank
  <2>3. CASE mode = "read"
    <3>1. WritePtr = Wrap(ReadPtr + OutBuf)
      BY <2>1, <2>3
    <3>2. /\ ReadPtr + NBufs - 1 \in Nat
          /\ ReadPtr + NBufs - 1 < 2 * NBufs
      BY <2>1
    <3>3. (ReadPtr + NBufs - 1) % NBufs = Wrap(ReadPtr + NBufs - 1)
      BY <3>2, WrapMod
    <3>4. Wrap(ReadPtr + NBufs - 1) # Wrap(ReadPtr + OutBuf)
      BY <2>1 DEF Wrap
    <3> QED  BY <2>3, <3>1, <3>3, <3>4 DEF Held, IOBank
  <2> QED  BY <2>2, <2>3 DEF IInv, TypeOK
<1> QED  BY <1>1, <1>2 DEF IInv, BanksSound

(* For every ring and every image: banks are conserved, the threads never  *)
(* meet in one, no wake-up is lost in the one-place event, and the banks   *)
(* are freed only once the I/O thread is gone.                             *)
THEOREM BanksSoundAlways == Spec => []BanksSound
BY Invariance, InvSound, PTL

-----------------------------------------------------------------------------
(* Every step keeps the data: the full banks hold the blocks that follow.  *)

(* Nothing is on the way yet.                                              *)
LEMMA InitData == Init => DataInv
BY DEF Init, DataInv, CopiedInOrder, WriteData, ReadData, Given, Got, IOHolds, Wrap, Working

LEMMA IOThreadWakeData ==
  ASSUME IInv, DataInv, IOThreadWake
  PROVE  DataInv'
<1> USE DEF IInv, DataInv, IOThreadWake
<1>1. CopiedInOrder'
  BY DEF CopiedInOrder
<1>2. WriteData'
  BY DEF WriteData, TypeOK, LoopInv, Given, Ending, IOHolds
<1>3. ReadData'
  BY DEF ReadData, TypeOK, LoopInv, Got, Working, Ending
<1> QED  BY <1>1, <1>2, <1>3

LEMMA TakeFullData ==
  ASSUME IInv, DataInv, TakeFull
  PROVE  DataInv'
<1> USE DEF IInv, DataInv, TakeFull
<1>1. CopiedInOrder'
  BY DEF CopiedInOrder
<1>2. WriteData'
  BY DEF WriteData, TypeOK, LoopInv, Given, Ending, IOHolds
<1>3. ReadData'
  BY DEF ReadData, TypeOK, LoopInv, Got, Working, Ending
<1> QED  BY <1>1, <1>2, <1>3

LEMMA WriteBankData ==
  ASSUME IInv, DataInv, WriteBank
  PROVE  DataInv'
<1> USE DEF IInv, DataInv, WriteBank
<1>1. CopiedInOrder'
  <2> SUFFICES ASSUME ~failed', NEW i \in 1 .. Len(moved')
              PROVE  moved'[i] = i
    BY DEF CopiedInOrder
  <2>1. ~failed /\ moved' = Append(moved, banks[ReadPtr]) /\ moved \in Seq(0 .. Total)
    BY DEF TypeOK
  <2>2. banks[ReadPtr] = Len(moved) + 1
    <3>1. 0 \in Slots /\ 0 < OutBuf + IOHolds /\ Wrap(ReadPtr + 0) = ReadPtr
      BY DEF TypeOK, IOHolds, Wrap
    <3>2. banks[Wrap(ReadPtr + 0)] = Len(moved) + 1 + 0
      BY <2>1, <3>1 DEF WriteData
    <3>3. Len(moved) \in Nat
      BY ONLY <2>1
    <3> QED  BY ONLY <3>1, <3>2, <3>3
  <2>3. i \in 1 .. Len(moved) + 1 /\ Len(moved) \in Nat
    BY ONLY <2>1, i \in 1 .. Len(moved')
  <2>4. CASE i = Len(moved) + 1
    <3>1. moved'[i] = banks[ReadPtr]
      BY ONLY <2>1, <2>3, <2>4
    <3> QED  BY ONLY <2>2, <2>4, <3>1
  <2>5. CASE i \in 1 .. Len(moved)
    <3>1. moved'[i] = moved[i]
      BY ONLY <2>1, <2>5
    <3> QED  BY <2>1, <2>5, <3>1 DEF CopiedInOrder
  <2> QED  BY ONLY <2>3, <2>4, <2>5
<1>2. WriteData'
  <2> SUFFICES ASSUME ~failed'
              PROVE  /\ Len(moved') + OutBuf' + IOHolds' = Given'
                     /\ \A k \in Slots : k < OutBuf' + IOHolds' =>
                          banks'[Wrap(ReadPtr' + k)] = Len(moved') + 1 + k
                     /\ pc' = "release" => banks'[WritePtr'] = block'
    BY DEF WriteData
  <2>1. ~failed /\ moved' = Append(moved, banks[ReadPtr]) /\ moved \in Seq(0 .. Total)
    BY DEF TypeOK
  <2>2. Len(moved') = Len(moved) + 1 /\ Len(moved) \in Nat
    BY ONLY <2>1
  <2>3. IOHolds = 1 /\ IOHolds' = 0 /\ OutBuf' = OutBuf /\ OutBuf \in Nat /\ OutBuf < NBufs
    BY DEF IOHolds, TypeOK, RingInv, UserHolds
  <2>4. Len(moved') + OutBuf' + IOHolds' = Given'
    BY <2>1, <2>2, <2>3 DEF WriteData, Given, TypeOK
  <2>5. ASSUME NEW k \in Slots, k < OutBuf' + IOHolds'
        PROVE  banks'[Wrap(ReadPtr' + k)] = Len(moved') + 1 + k
    <3>1. k \in Nat /\ k < NBufs /\ k < OutBuf /\ k + 1 \in Slots /\ k + 1 < OutBuf + IOHolds
      BY <2>3, <2>5
    <3>2. ReadPtr \in Slots /\ ReadPtr' = Wrap(ReadPtr + 1)
      BY Advance DEF TypeOK
    <3>3. Wrap(ReadPtr' + k) = Wrap(ReadPtr + k + 1)
      BY ONLY <2>3, <3>1, <3>2, Shift
    <3>4. ReadPtr + k + 1 = ReadPtr + (k + 1)
      BY <3>1, <3>2
    <3>5. banks[Wrap(ReadPtr + (k + 1))] = Len(moved) + 1 + (k + 1)
      BY <2>1, <3>1 DEF WriteData
    <3> QED  BY <2>2, <3>1, <3>3, <3>4, <3>5
  <2>6. pc' = "release" => banks'[WritePtr'] = block'
    BY <2>1 DEF WriteData
  <2> QED  BY <2>4, <2>5, <2>6
<1>3. ReadData'
  BY DEF ReadData, TypeOK, LoopInv, Got, Working, Ending
<1> QED  BY <1>1, <1>2, <1>3

LEMMA TakeFreeData ==
  ASSUME IInv, DataInv, TakeFree
  PROVE  DataInv'
<1> USE DEF IInv, DataInv, TakeFree
<1>1. CopiedInOrder'
  BY DEF CopiedInOrder
<1>2. WriteData'
  BY DEF WriteData, TypeOK, LoopInv, Given, Ending, IOHolds
<1>3. ReadData'
  BY DEF ReadData, TypeOK, LoopInv, Got, Working, Ending
<1> QED  BY <1>1, <1>2, <1>3

LEMMA ReadBankData ==
  ASSUME IInv, DataInv, ReadBank
  PROVE  DataInv'
<1> USE DEF IInv, DataInv, ReadBank
<1>1. CopiedInOrder'
  BY DEF CopiedInOrder
<1>2. WriteData'
  BY DEF WriteData, TypeOK, LoopInv, Given, Ending, IOHolds
<1>3. ReadData'
  <2> SUFFICES ASSUME ~aborted
              PROVE  /\ Total - remaining' - OutBuf' = Got'
                     /\ Len(moved') = IF pc' = "use" THEN block' - 1 ELSE Got'
                     /\ ~failed' => \A k \in Slots : k < OutBuf' =>
                          banks'[Wrap(ReadPtr' + k)] = Got' + 1 + k
                     /\ ~failed' /\ pc' = "use" => banks'[Wrap(ReadPtr' + NBufs - 1)] = block'
    BY DEF ReadData
  <2>1. OutBuf \in Nat /\ OutBuf < NBufs /\ OutBuf' = OutBuf + 1 /\ ReadPtr \in Slots
    BY SMTT(40) DEF IOHolds, TypeOK, RingInv, UserHolds
  <2>2. Got' = Got /\ Got \in Nat
    BY DEF Got, TypeOK
  <2>3. Total - remaining - OutBuf = Got /\ remaining \in Nat /\ remaining' = remaining - 1
    BY DEF ReadData, TypeOK
  <2>4. Total - remaining' - OutBuf' = Got'
    BY ONLY <2>1, <2>2, <2>3, TotalAssumption DEF TotalAssumption
  <2>5. WritePtr = Wrap(ReadPtr + OutBuf) /\ WritePtr \in Slots
    BY <2>1 DEF RingInv, TypeOK
  <2>6. ~failed' => ~failed /\ banks' = [banks EXCEPT ![WritePtr] = Got + 1 + OutBuf]
    <3>1. ~failed' => ~failed /\ banks' = [banks EXCEPT ![WritePtr] = Total - remaining + 1]
      OBVIOUS
    <3>2. Total - remaining + 1 = Got + 1 + OutBuf
      BY ONLY <2>1, <2>2, <2>3, TotalAssumption DEF TotalAssumption
    <3> QED  BY ONLY <3>1, <3>2
  <2>7. ASSUME ~failed', NEW k \in Slots, k < OutBuf'
        PROVE  banks'[Wrap(ReadPtr' + k)] = Got' + 1 + k
    <3>1. CASE k = OutBuf
      <4>1. ReadPtr' = ReadPtr /\ banks \in [Slots -> 0 .. Total]
        BY DEF TypeOK
      <4>2. Wrap(ReadPtr' + k) = WritePtr
        BY ONLY <2>5, <3>1, <4>1
      <4>3. banks'[WritePtr] = Got + 1 + OutBuf
        BY ONLY <2>5, <2>6, <2>7, <4>1
      <4> QED  BY ONLY <2>2, <3>1, <4>2, <4>3
    <3>2. CASE k < OutBuf
      <4>1. Wrap(ReadPtr + k) # WritePtr /\ Wrap(ReadPtr + k) \in Slots
        BY <2>1, <2>5, <3>2 DEF Wrap
      <4>2. banks[Wrap(ReadPtr + k)] = Got + 1 + k
        BY <2>6, <2>7, <3>2 DEF ReadData
      <4>3. ReadPtr' = ReadPtr /\ banks \in [Slots -> 0 .. Total]
        BY DEF TypeOK
      <4> QED  BY ONLY <2>2, <2>6, <2>7, <4>1, <4>2, <4>3
    <3> QED  BY <2>1, <2>7, <3>1, <3>2
  <2>8. ASSUME ~failed', pc' = "use"
        PROVE  banks'[Wrap(ReadPtr' + NBufs - 1)] = block'
    <3>1. OutBuf + 2 <= NBufs
      BY <2>8 DEF IOHolds, TypeOK, RingInv, UserHolds
    <3>2. Wrap(ReadPtr + NBufs - 1) # WritePtr /\ Wrap(ReadPtr + NBufs - 1) \in Slots
      BY <2>1, <2>5, <3>1 DEF Wrap
    <3>3. banks[Wrap(ReadPtr + NBufs - 1)] = block
      BY <2>6, <2>8 DEF ReadData
    <3>4. ReadPtr' = ReadPtr /\ block' = block /\ banks \in [Slots -> 0 .. Total]
      BY DEF TypeOK
    <3> QED  BY ONLY <2>6, <2>8, <3>2, <3>3, <3>4
  <2> QED  BY <2>2, <2>4, <2>7, <2>8 DEF ReadData
<1> QED  BY <1>1, <1>2, <1>3

LEMMA NothingLeftData ==
  ASSUME IInv, DataInv, NothingLeft
  PROVE  DataInv'
<1> USE DEF IInv, DataInv, NothingLeft
<1>1. CopiedInOrder'
  BY DEF CopiedInOrder
<1>2. WriteData'
  BY DEF WriteData, TypeOK, LoopInv, Given, Ending, IOHolds
<1>3. ReadData'
  BY DEF ReadData, TypeOK, LoopInv, Got, Working, Ending
<1> QED  BY <1>1, <1>2, <1>3

LEMMA AcknowledgeData ==
  ASSUME IInv, DataInv, Acknowledge
  PROVE  DataInv'
<1> USE DEF IInv, DataInv, Acknowledge
<1>1. CopiedInOrder'
  BY DEF CopiedInOrder
<1>2. WriteData'
  BY DEF WriteData, TypeOK, LoopInv, Given, Ending, IOHolds
<1>3. ReadData'
  BY DEF ReadData, TypeOK, LoopInv, Got, Working, Ending
<1> QED  BY <1>1, <1>2, <1>3

LEMMA TakeBankData ==
  ASSUME IInv, DataInv, TakeBank
  PROVE  DataInv'
<1> USE DEF IInv, DataInv, TakeBank
<1>1. CopiedInOrder'
  BY DEF CopiedInOrder
<1>2. WriteData'
  BY DEF WriteData, TypeOK, LoopInv, Given, Ending, IOHolds
<1>3. ReadData'
  <2> SUFFICES ASSUME mode = "read", ~aborted
              PROVE  /\ Total - remaining' - OutBuf' = Got'
                     /\ Len(moved') = IF pc' = "use" THEN block' - 1 ELSE Got'
                     /\ ~failed' => \A k \in Slots : k < OutBuf' =>
                          banks'[Wrap(ReadPtr' + k)] = Got' + 1 + k
                     /\ ~failed' /\ pc' = "use" => banks'[Wrap(ReadPtr' + NBufs - 1)] = block'
    BY DEF ReadData
  <2>1. /\ OutBuf \in Nat /\ OutBuf <= NBufs /\ OutBuf > 0 /\ OutBuf' = OutBuf - 1
        /\ ReadPtr \in Slots
    BY DEF TypeOK
  <2>2. ReadPtr' = Wrap(ReadPtr + 1) /\ banks' = banks /\ block' = block
    BY <2>1, Advance
  <2>3. Got = block - 1 /\ Got' = block /\ block \in Nat
    BY DEF Got, Working, TypeOK
  <2>4. Total - remaining' - OutBuf' = Got' /\ Len(moved') = block' - 1
    BY <2>1, <2>2, <2>3 DEF ReadData, TypeOK
  <2>5. ASSUME ~failed', NEW k \in Slots, k < OutBuf'
        PROVE  banks'[Wrap(ReadPtr' + k)] = Got' + 1 + k
    <3>1. k \in Nat /\ k < NBufs /\ k + 1 \in Slots /\ k + 1 < OutBuf
      BY <2>1, <2>5
    <3>2. Wrap(ReadPtr' + k) = Wrap(ReadPtr + k + 1) /\ ReadPtr + k + 1 = ReadPtr + (k + 1)
      BY <2>1, <2>2, <3>1, Shift
    <3>3. banks[Wrap(ReadPtr + (k + 1))] = Got + 1 + (k + 1)
      BY <2>5, <3>1 DEF ReadData
    <3> QED  BY ONLY <2>2, <2>3, <3>1, <3>2, <3>3
  <2>6. ASSUME ~failed'
        PROVE  banks'[Wrap(ReadPtr' + NBufs - 1)] = block'
    <3>1. Wrap(ReadPtr' + NBufs - 1) = Wrap(ReadPtr + 0) /\ 0 \in Slots
      BY <2>1, <2>2 DEF Wrap
    <3>2. banks[Wrap(ReadPtr + 0)] = Got + 1 + 0
      BY <2>1, <2>6, <3>1 DEF ReadData
    <3> QED  BY ONLY <2>2, <2>3, <3>1, <3>2
  <2> QED  BY <2>4, <2>5, <2>6
<1> QED  BY <1>1, <1>2, <1>3

LEMMA UseBankData ==
  ASSUME IInv, DataInv, UseBank
  PROVE  DataInv'
<1> USE DEF IInv, DataInv, UseBank
<1>1. CopiedInOrder'
  <2> SUFFICES ASSUME mode = "read", ~failed, NEW i \in 1 .. Len(moved')
              PROVE  moved'[i] = i
    BY DEF CopiedInOrder, TypeOK
  <2>1. moved' = Append(moved, banks[Held]) /\ moved \in Seq(0 .. Total)
    BY DEF TypeOK
  <2>2. banks[Held] = block /\ Len(moved) = block - 1 /\ block \in Nat
    <3>1. ReadPtr + NBufs - 1 \in Nat /\ ReadPtr + NBufs - 1 < 2 * NBufs
      BY DEF TypeOK
    <3>2. Held = Wrap(ReadPtr + NBufs - 1)
      BY <3>1, WrapMod DEF Held
    <3>3. ~aborted
      BY DEF LoopInv, Ending
    <3> QED  BY <3>2, <3>3 DEF ReadData, TypeOK
  <2>3. i \in 1 .. Len(moved) + 1 /\ Len(moved) \in Nat
    BY ONLY <2>1, i \in 1 .. Len(moved')
  <2>4. CASE i = Len(moved) + 1
    <3>1. moved'[i] = banks[Held]
      BY ONLY <2>1, <2>3, <2>4
    <3> QED  BY ONLY <2>2, <2>4, <3>1
  <2>5. CASE i \in 1 .. Len(moved)
    <3>1. moved'[i] = moved[i]
      BY ONLY <2>1, <2>5
    <3> QED  BY <2>5, <3>1 DEF CopiedInOrder
  <2> QED  BY ONLY <2>3, <2>4, <2>5
<1>2. WriteData'
  <2> SUFFICES ASSUME mode = "write", ~failed
              PROVE  /\ Len(moved') + OutBuf' + IOHolds' = Given'
                     /\ \A k \in Slots : k < OutBuf' + IOHolds' =>
                          banks'[Wrap(ReadPtr' + k)] = Len(moved') + 1 + k
                     /\ pc' = "release" => banks'[WritePtr'] = block'
    BY DEF WriteData
  <2>1. banks' = [banks EXCEPT ![WritePtr] = block] /\ moved' = moved
    BY DEF Held
  <2>2. Len(moved') + OutBuf' + IOHolds' = Given'
    BY <2>1 DEF WriteData, Given, IOHolds
  <2>3. /\ OutBuf + IOHolds \in Nat /\ OutBuf + IOHolds < NBufs
        /\ OutBuf' + IOHolds' = OutBuf + IOHolds
        /\ ReadPtr \in Slots /\ WritePtr \in Slots
        /\ banks \in [Slots -> 0 .. Total]
    BY DEF TypeOK, RingInv, UserHolds, IOHolds
  <2>4. WritePtr = Wrap(ReadPtr + (OutBuf + IOHolds))
    <3>1. WritePtr = Wrap(ReadPtr + OutBuf + IOHolds)
      BY DEF RingInv
    <3>2. ReadPtr + OutBuf + IOHolds = ReadPtr + (OutBuf + IOHolds)
      BY DEF TypeOK, IOHolds
    <3> QED  BY ONLY <3>1, <3>2
  <2>5. ASSUME NEW k \in Slots, k < OutBuf' + IOHolds'
        PROVE  banks'[Wrap(ReadPtr' + k)] = Len(moved') + 1 + k
    <3>1. Wrap(ReadPtr + k) # WritePtr /\ Wrap(ReadPtr + k) \in Slots
      BY ONLY <2>3, <2>4, <2>5, NBufsAssumption, SMTT(60) DEF NBufsAssumption, Wrap, Slots
    <3>2. banks[Wrap(ReadPtr + k)] = Len(moved) + 1 + k
      BY <2>3, <2>5 DEF WriteData
    <3>3. ReadPtr' = ReadPtr
      OBVIOUS
    <3> QED  BY ONLY <2>1, <2>3, <3>1, <3>2, <3>3
  <2>6. banks'[WritePtr'] = block'
    BY <2>1, <2>3
  <2> QED  BY <2>2, <2>5, <2>6
<1>3. ReadData'
  BY DEF ReadData, TypeOK, LoopInv, Got, Working, Ending
<1> QED  BY <1>1, <1>2, <1>3

LEMMA ReleaseBankData ==
  ASSUME IInv, DataInv, ReleaseBank
  PROVE  DataInv'
<1> USE DEF IInv, DataInv, ReleaseBank
<1>1. CopiedInOrder'
  BY DEF CopiedInOrder
<1>2. WriteData'
  <2> SUFFICES ASSUME mode = "write", ~failed
              PROVE  /\ Len(moved') + OutBuf' + IOHolds' = Given'
                     /\ \A k \in Slots : k < OutBuf' + IOHolds' =>
                          banks'[Wrap(ReadPtr' + k)] = Len(moved') + 1 + k
                     /\ pc' = "release" => banks'[WritePtr'] = block'
    BY DEF WriteData
  <2>1. /\ OutBuf \in Nat /\ OutBuf' = OutBuf + 1
        /\ IOHolds \in Nat /\ IOHolds' = IOHolds
        /\ Len(moved) \in Nat /\ block \in Nat /\ ReadPtr \in Nat
    BY DEF TypeOK, IOHolds
  <2>2. Len(moved) + (OutBuf + IOHolds) = block - 1
    <3>1. Given = block - 1
      BY DEF Given
    <3>2. Len(moved) + OutBuf + IOHolds = Given
      BY DEF WriteData
    <3> QED  BY ONLY <2>1, <3>1, <3>2
  <2>3. Len(moved') + OutBuf' + IOHolds' = Given'
    <3>1. Given' = block /\ moved' = moved
      BY DEF Given
    <3>2. Len(moved') = Len(moved)
      BY <3>1
    <3> QED  BY ONLY <2>1, <2>2, <3>1, <3>2
  <2>4. WritePtr = Wrap(ReadPtr + (OutBuf + IOHolds)) /\ banks[WritePtr] = block
    <3>1. WritePtr = Wrap(ReadPtr + OutBuf + IOHolds)
      BY DEF RingInv
    <3>2. ReadPtr + OutBuf + IOHolds = ReadPtr + (OutBuf + IOHolds)
      BY ONLY <2>1
    <3>3. banks[WritePtr] = block
      BY DEF WriteData
    <3> QED  BY ONLY <3>1, <3>2, <3>3
  <2>5. ASSUME NEW k \in Slots, k < OutBuf' + IOHolds'
        PROVE  banks[Wrap(ReadPtr + k)] = Len(moved) + 1 + k
    <3>1. CASE k = OutBuf + IOHolds
      BY ONLY <2>1, <2>2, <2>4, <3>1
    <3>2. CASE k < OutBuf + IOHolds
      BY <3>2 DEF WriteData
    <3>3. k \in Nat /\ k < OutBuf + IOHolds + 1
      BY ONLY <2>1, <2>5 DEF Slots
    <3> QED  BY ONLY <2>1, <3>1, <3>2, <3>3
  <2> QED  BY <2>3, <2>5
<1>3. ReadData'
  BY DEF ReadData, TypeOK, LoopInv, Got, Working, Ending
<1> QED  BY <1>1, <1>2, <1>3

LEMMA GiveCommandData ==
  ASSUME IInv, DataInv, GiveCommand
  PROVE  DataInv'
<1> USE DEF IInv, DataInv, GiveCommand
<1>1. CopiedInOrder'
  BY DEF CopiedInOrder
<1>2. WriteData'
  BY DEF WriteData, TypeOK, LoopInv, Given, Ending, IOHolds
<1>3. ReadData'
  BY DEF ReadData, TypeOK, LoopInv, Got, Working, Ending
<1> QED  BY <1>1, <1>2, <1>3

LEMMA WakeData ==
  ASSUME IInv, DataInv, Wake
  PROVE  DataInv'
<1> USE DEF IInv, DataInv, Wake
<1>1. CopiedInOrder'
  BY DEF CopiedInOrder
<1>2. WriteData'
  BY DEF WriteData, TypeOK, LoopInv, Given, Ending, IOHolds
<1>3. ReadData'
  BY DEF ReadData, TypeOK, LoopInv, Got, Working, Ending
<1> QED  BY <1>1, <1>2, <1>3

LEMMA DoneData ==
  ASSUME IInv, DataInv, Done
  PROVE  DataInv'
<1> USE DEF IInv, DataInv, Done
<1>1. CopiedInOrder'
  BY DEF CopiedInOrder
<1>2. WriteData'
  BY DEF WriteData, TypeOK, LoopInv, Given, Ending, IOHolds
<1>3. ReadData'
  BY DEF ReadData, TypeOK, LoopInv, Got, Working, Ending
<1> QED  BY <1>1, <1>2, <1>3

LEMMA GiveEndData ==
  ASSUME IInv, DataInv, GiveEnd
  PROVE  DataInv'
<1> USE DEF IInv, DataInv, GiveEnd
<1>1. CopiedInOrder'
  BY DEF CopiedInOrder
<1>2. WriteData'
  BY DEF WriteData, TypeOK, LoopInv, Given, Ending, IOHolds
<1>3. ReadData'
  BY DEF ReadData, TypeOK, LoopInv, Got, Working, Ending
<1> QED  BY <1>1, <1>2, <1>3

LEMMA WakeEndData ==
  ASSUME IInv, DataInv, WakeEnd
  PROVE  DataInv'
<1> USE DEF IInv, DataInv, WakeEnd
<1>1. CopiedInOrder'
  BY DEF CopiedInOrder
<1>2. WriteData'
  BY DEF WriteData, TypeOK, LoopInv, Given, Ending, IOHolds
<1>3. ReadData'
  BY DEF ReadData, TypeOK, LoopInv, Got, Working, Ending
<1> QED  BY <1>1, <1>2, <1>3

LEMMA EndData ==
  ASSUME IInv, DataInv, End
  PROVE  DataInv'
<1> USE DEF IInv, DataInv, End
<1>1. CopiedInOrder'
  BY DEF CopiedInOrder
<1>2. WriteData'
  BY DEF WriteData, TypeOK, LoopInv, Given, Ending, IOHolds
<1>3. ReadData'
  BY DEF ReadData, TypeOK, LoopInv, Got, Working, Ending
<1> QED  BY <1>1, <1>2, <1>3

LEMMA AbortData ==
  ASSUME IInv, DataInv, Abort
  PROVE  DataInv'
<1> USE DEF IInv, DataInv, Abort
<1>1. CopiedInOrder'
  BY DEF CopiedInOrder
<1>2. WriteData'
  BY DEF WriteData, TypeOK, LoopInv, Given, Ending, IOHolds
<1>3. ReadData'
  BY DEF ReadData, TypeOK, LoopInv, Got, Working, Ending
<1> QED  BY <1>1, <1>2, <1>3

(* The data is part of the invariant.                                      *)
LEMMA NextData ==
  ASSUME IInv, DataInv, [Next]_vars
  PROVE  DataInv'
<1>1. CASE IOThread
  BY <1>1, IOThreadWakeData, TakeFullData, WriteBankData, TakeFreeData, ReadBankData,
     NothingLeftData, AcknowledgeData DEF IOThread
<1>2. CASE Transfer
  BY <1>2, TakeBankData, UseBankData, ReleaseBankData, GiveCommandData, WakeData,
     DoneData, GiveEndData, WakeEndData, EndData DEF Transfer
<1>3. CASE UNCHANGED vars
  BY <1>3 DEF vars, DataInv, CopiedInOrder, WriteData, ReadData, Given, Got, IOHolds
<1> QED  BY <1>1, <1>2, <1>3, AbortData DEF Next

(* Nothing is left in the ring when the banks are freed.                   *)
LEMMA DataCopied == IInv /\ DataInv => Copied
<1> SUFFICES ASSUME IInv, DataInv PROVE Copied
  OBVIOUS
<1>1. SUFFICES ASSUME pc = "freed", ~aborted, ~failed PROVE Len(moved) = Total
  BY DEF DataInv, Copied, CompleteAtEnd
<1>2. block = Total + 1 /\ block \in Nat /\ Total \in Nat
  BY <1>1 DEF IInv, TypeOK, LoopInv, Ending
<1>3. CASE mode = "write"
  <2>1. OutBuf = 0 /\ IOHolds = 0
    BY <1>1, <1>3 DEF IInv, EndInv, ThreadInv, IOHolds
  <2>2. Len(moved) + OutBuf + IOHolds = block - 1
    BY <1>1, <1>3 DEF DataInv, WriteData, Given
  <2>3. Len(moved) \in Nat
    BY DEF IInv, TypeOK
  <2> QED  BY <1>2, <2>1, <2>2, <2>3
<1>4. CASE mode = "read"
  BY <1>1, <1>2, <1>4 DEF DataInv, ReadData, Got, Working
<1> QED  BY <1>3, <1>4 DEF IInv, TypeOK

(* For every ring and every image: the blocks arrive in order, none twice  *)
(* and none left out, and all of them have arrived when the banks are      *)
(* freed, as long as the file gave no trouble.                             *)
THEOREM CopiedAlways == Spec => []Copied
<1>1. Init => IInv /\ DataInv
  BY InitHolds, InitData
<1>2. IInv /\ DataInv /\ [Next]_vars => (IInv /\ DataInv)'
  BY NextKeeps, NextData
<1> QED  BY <1>1, <1>2, DataCopied, PTL DEF Spec

-----------------------------------------------------------------------------
(* icon.sys.                                                               *)

(* The kind of each line.                                                  *)
KindOf(i) ==
  IF i = 3 THEN "number" ELSE IF i \in 8 .. 10 THEN "floats"
  ELSE IF i \in 1 .. 2 \/ i \in 15 .. 17 THEN "string" ELSE "numbers"

(* ... is that of the table.                                               *)
LEMMA KindIs == \A i \in Fields : Lines[i].kind = KindOf(i)
<1> SUFFICES ASSUME NEW i \in Fields PROVE Lines[i].kind = KindOf(i)
  OBVIOUS
<1>1. CASE i \in 1 .. 3
  BY <1>1 DEF Lines, Line, KindOf, Fields
<1>2. CASE i \in 4 .. 7
  BY <1>2 DEF Lines, Line, KindOf, Fields
<1>3. CASE i \in 8 .. 10
  BY <1>3 DEF Lines, Line, KindOf, Fields
<1>4. CASE i \in 11 .. 14
  BY <1>4 DEF Lines, Line, KindOf, Fields
<1>5. CASE i \in 15 .. 17
  BY <1>5 DEF Lines, Line, KindOf, Fields
<1> QED  BY <1>1, <1>2, <1>3, <1>4, <1>5 DEF Fields

(* A string that the model writes.                                         *)
StringType == [lead : Nat, from : Int, len : Nat, stray : Nat, width : Nat]
Extent(s) == s.lead + s.len + s.stray

(* What a line may hold: a title has room in its array, the message of a   *)
(* deletion is the built-in one.                                           *)
Value(i, x) ==
  /\ i \in Title => x \in StringType /\ Extent(x) <= TitleMax
  /\ i = 15 => x = DeleteMessage
  /\ i \in 16 .. 17 => x = Empty
  /\ KindOf(i) = "number" => x \in 0 .. 255
  /\ KindOf(i) = "numbers" => x \in [1 .. 3 -> 0 .. 255]
  /\ KindOf(i) = "floats" => x \in [1 .. 3 -> Int]
Values(x) == \A i \in Fields : Value(i, x[i])

(* The room that the reader gives a string.                                *)
Room(i) == IF reader = "console" THEN RoomOnConsole(i) ELSE RoomOnClient(i)

(* The inductive invariant.  A file holds what its lines may hold; what is *)
(* printed behind a title is what was read, if a file was read, and then   *)
(* the file is still the one that was read; a line that was read is what   *)
(* its reader makes of it; and the title of a save is one that             *)
(* ConvertMcTitle may make.                                                *)
IconInv ==
  /\ at \in {"title", "data", "print", "file", "line", "lost"} /\ overrun \in BOOLEAN
  /\ at = "line" <=> reader \in {"console", "client"}
  /\ at # "line" => line = 1
  /\ line \in 1 .. 18 /\ reads \in 0 .. MaxReads
  /\ DOMAIN titles = Title /\ \A i \in Title : titles[i] \in StringType
  /\ at \in {"title", "data"} => before = <<>> /\ ~overrun
  /\ at \in {"file", "line"} => Values(file) /\ file # <<>>
  /\ at = "print" =>
       /\ Values(data)
       /\ before # <<>> => file = before /\ \A i \in Fields \ Title : Printed(i, data[i]) = before[i]
       /\ overrun => before # <<>> /\ Values(file)
  /\ at \in {"file", "lost"} /\ before # <<>> => \A i \in Fields \ Title : file[i] = before[i]
  /\ at = "line" =>
       /\ before = file /\ DOMAIN data = Fields
       /\ \A i \in Fields : i < line => data[i] = Parsed(i, before[i], Room(i))
  /\ at = "title" /\ saved # <<>> =>
       \E w \in Widths : saved \in SaveTitles /\ titles \in ConvertMcTitle(saved[1], saved[2], w)

-----------------------------------------------------------------------------
(* What is assumed of the constants.                                       *)
LEMMA IconConstants ==
  /\ TitleMax \in Nat \ {0} /\ MaxReads \in Nat
  /\ Widths \subseteq Nat /\ Lengths \subseteq Nat
  /\ \A save \in SaveTitles : save[1] \in Nat /\ save[2] \in Nat /\ save[2] <= save[1]
  /\ \A x \in Alphas \cup Colours \cup Directions \cup Lights : x \in Int
BY IconSysAssumption DEF IconSysAssumption

(* wcsncpy: a string that is short enough stays, and a longer one fits.    *)
LEMMA ClipIs ==
  ASSUME NEW s \in StringType, NEW n \in Nat
  PROVE  /\ Clip(s, n) \in StringType /\ Extent(Clip(s, n)) <= n
         /\ Extent(s) <= n => Clip(s, n) = s
<1> DEFINE lead == IF s.lead < n THEN s.lead ELSE n
           len == IF s.len < n - lead THEN s.len ELSE n - lead
           stray == IF s.stray < n - lead - len THEN s.stray ELSE n - lead - len
<1>1. Clip(s, n) = [s EXCEPT !.lead = lead, !.len = len, !.stray = stray]
  BY DEF Clip, Least
<1>2. s.lead \in Nat /\ s.len \in Nat /\ s.stray \in Nat
  BY DEF StringType
<1>3. /\ lead \in Nat /\ len \in Nat /\ stray \in Nat /\ lead + len + stray <= n
      /\ s.lead + s.len + s.stray <= n => lead = s.lead /\ len = s.len /\ stray = s.stray
  BY <1>2
<1> HIDE DEF lead, len, stray
<1>4. /\ Clip(s, n) \in StringType
      /\ Clip(s, n).lead = lead /\ Clip(s, n).len = len /\ Clip(s, n).stray = stray
  BY <1>1, <1>3 DEF StringType
<1>5. Extent(Clip(s, n)) <= n
  BY <1>3, <1>4 DEF Extent
<1>6. ASSUME Extent(s) <= n PROVE Clip(s, n) = s
  BY <1>1, <1>3, <1>6 DEF StringType, Extent
<1> QED  BY <1>4, <1>5, <1>6

(* The parts of a string.                                                  *)
LEMMA StringIs ==
  ASSUME NEW lead \in Nat, NEW from \in Int, NEW len \in Nat, NEW stray \in Nat, NEW width \in Nat
  PROVE  /\ String(lead, from, len, stray, width) \in StringType
         /\ String(lead, from, len, stray, width).lead = lead
         /\ String(lead, from, len, stray, width).from = from
         /\ String(lead, from, len, stray, width).len = len
         /\ String(lead, from, len, stray, width).stray = stray
BY DEF String, StringType

(* An unsigned char holds the rest of a number, and a byte as it is.       *)
LEMMA ByteIs == ASSUME NEW n \in Int PROVE ToByte(n) \in 0 .. 255 /\ (n \in 0 .. 255 => ToByte(n) = n)
BY DEF ToByte

(* A vector of three of a kind.                                            *)
LEMMA VectorIs == ASSUME NEW S, NEW x \in S PROVE Vector(x) \in [1 .. 3 -> S]
BY DEF Vector

(* A float that was printed is printed the same once more.                 *)
LEMMA FourDigitsAgain ==
  ASSUME NEW x \in Int
  PROVE  FourDigits(x) \in Int /\ FourDigits(10 * x) = x
<1>1. CASE x < 0
  <2>1. 10 * x < 0 /\ 5 - 10 * x \in Int
    BY <1>1
  <2>2. (5 - 10 * x) \div 10 = -x
    BY <1>1
  <2>3. FourDigits(10 * x) = -((5 - 10 * x) \div 10)
    BY <2>1 DEF FourDigits
  <2> QED  BY <1>1, <2>2, <2>3 DEF FourDigits
<1>2. CASE x >= 0
  <2>1. (10 * x + 5) \div 10 = x
    BY <1>2
  <2> QED  BY <1>2, <2>1 DEF FourDigits
<1> QED  BY <1>1, <1>2

(* Printing, and reading what was printed.                                 *)
LEMMA PrintedIs ==
  ASSUME NEW i \in Fields, NEW x, Value(i, x)
  PROVE  Value(i, Printed(i, x)) /\ (KindOf(i) # "floats" => Printed(i, x) = x)
<1>1. Lines[i].kind = KindOf(i)
  BY KindIs
<1>2. CASE KindOf(i) # "floats"
  BY <1>1, <1>2 DEF Printed
<1>3. CASE KindOf(i) = "floats"
  <2>1. x \in [1 .. 3 -> Int]
    BY <1>3 DEF Value
  <2>2. Printed(i, x) \in [1 .. 3 -> Int]
    BY <1>1, <1>3, <2>1, FourDigitsAgain DEF Printed
  <2>3. i \in 8 .. 10
    BY <1>3 DEF KindOf
  <2> QED  BY <1>3, <2>2, <2>3 DEF Value, Title
<1> QED  BY <1>2, <1>3

(* ... gives what may be in the line; the title without the spaces before  *)
(* it, and of the others something that is printed as it was.              *)
LEMMA ParsedIs ==
  ASSUME NEW i \in Fields, NEW x, Value(i, x), NEW room \in Nat,
         room >= IF i \in Title THEN TitleMax ELSE 26
  PROVE  /\ Value(i, Parsed(i, x, room))
         /\ i \in Title => Parsed(i, x, room) = Clip([x EXCEPT !.lead = 0], TitleMax)
         /\ i \notin Title => Printed(i, Parsed(i, x, room)) = x
<1>1. Lines[i].kind = KindOf(i)
  BY KindIs
<1>2. CASE i \in Title
  <2> DEFINE y == [x EXCEPT !.lead = 0]
  <2>1. KindOf(i) = "string" /\ i \notin 15 .. 17
    BY <1>2 DEF KindOf, Title
  <2>2. x \in StringType /\ Extent(x) <= TitleMax
    BY <1>2 DEF Value
  <2>3. y \in StringType /\ Extent(y) <= TitleMax
    BY <2>2, IconConstants DEF StringType, Extent
  <2>4. Parsed(i, x, room) = Clip(y, room)
    BY <1>1, <2>1 DEF Parsed, GetStringValueFromConfigLine
  <2> HIDE DEF y
  <2>5. Clip(y, room) = y /\ Clip(y, TitleMax) = y
    <3>1. TitleMax \in Nat /\ TitleMax <= room /\ Extent(y) \in Nat
      BY <1>2, <2>3, IconConstants DEF Extent, StringType
    <3> QED  BY <2>3, <3>1, ClipIs
  <2>6. Value(i, y)
    BY <1>2, <2>1, <2>3 DEF Value
  <2>7. Parsed(i, x, room) = Clip(y, TitleMax) /\ Value(i, Parsed(i, x, room))
    BY <2>4, <2>5, <2>6
  <2> QED  BY <1>2, <2>7 DEF y
<1>3. CASE i \in 15 .. 17
  <2>1. KindOf(i) = "string" /\ i \notin Title
    BY <1>3 DEF KindOf, Title
  <2>2. x \in StringType /\ x.lead = 0 /\ Extent(x) <= 26
    <3>1. CASE i = 15
      <4>1. x = DeleteMessage
        BY <3>1 DEF Value
      <4> QED  BY <4>1 DEF DeleteMessage, String, StringType, Extent
    <3>2. CASE i # 15
      <4>1. x = Empty
        BY <1>3, <3>2 DEF Value
      <4> QED  BY <4>1 DEF Empty, String, StringType, Extent
    <3> QED  BY <3>1, <3>2
  <2>3. [x EXCEPT !.lead = 0] = x
    BY <2>2 DEF StringType
  <2>4. Clip(x, room) = x
    <3>1. Extent(x) \in Nat
      BY <2>2 DEF Extent, StringType
    <3> QED  BY <2>1, <2>2, <3>1, ClipIs
  <2>5. Parsed(i, x, room) = x
    BY <1>1, <2>1, <2>3, <2>4 DEF Parsed, GetStringValueFromConfigLine
  <2>6. Printed(i, x) = x
    BY <1>1, <2>1 DEF Printed
  <2> QED  BY <2>1, <2>5, <2>6
<1>4. CASE i = 3
  <2>1. KindOf(i) = "number" /\ i \notin Title
    BY <1>4 DEF KindOf, Title
  <2>2. x \in 0 .. 255
    BY <2>1 DEF Value
  <2>3. Parsed(i, x, room) = x
    BY <1>1, <2>1, <2>2, ByteIs DEF Parsed
  <2>4. Printed(i, x) = x
    BY <1>1, <2>1 DEF Printed
  <2> QED  BY <2>1, <2>3, <2>4
<1>5. CASE i \in 8 .. 10
  <2>1. KindOf(i) = "floats" /\ i \notin Title /\ i \notin 15 .. 17
    BY <1>5 DEF KindOf, Title
  <2>2. x \in [1 .. 3 -> Int]
    BY <2>1 DEF Value
  <2> DEFINE p == [k \in 1 .. 3 |-> 10 * x[k]]
  <2>3. Parsed(i, x, room) = p
    BY <1>1, <2>1 DEF Parsed, GetXYZFVectorValueFromConfigLine
  <2>4. Printed(i, p) = [k \in 1 .. 3 |-> FourDigits(10 * x[k])]
    BY <1>1, <2>1 DEF Printed
  <2>5. Printed(i, p) = x
    BY <2>2, <2>4, FourDigitsAgain
  <2>6. Value(i, p)
    BY <1>5, <2>1, <2>2 DEF Value
  <2> QED  BY <2>1, <2>3, <2>5, <2>6
<1>6. CASE i \in 4 .. 7 \cup 11 .. 14
  <2>1. KindOf(i) = "numbers" /\ i \notin Title
    BY <1>6 DEF KindOf, Title
  <2>2. x \in [1 .. 3 -> 0 .. 255]
    BY <2>1 DEF Value
  <2>3. Parsed(i, x, room) = [k \in 1 .. 3 |-> ToByte(x[k])]
    BY <1>1, <2>1 DEF Parsed, GetXYZIVectorValueFromConfigLine
  <2>4. Parsed(i, x, room) = x
    BY <2>2, <2>3, ByteIs, SMTT(30)
  <2>5. Printed(i, x) = x
    BY <1>1, <2>1 DEF Printed
  <2> QED  BY <2>1, <2>4, <2>5
<1>7. i \in Title \/ i = 3 \/ i \in 4 .. 7 \cup 11 .. 14 \/ i \in 8 .. 10 \/ i \in 15 .. 17
  BY DEF Fields, Title
<1> QED  BY <1>2, <1>3, <1>4, <1>5, <1>6, <1>7

-----------------------------------------------------------------------------
(* The steps. *)

(* Both sides have room for what they read.                                *)
LEMMA RoomIs ==
  ASSUME reader \in {"console", "client"}, NEW i \in Fields
  PROVE  Room(i) \in Nat /\ Room(i) >= IF i \in Title THEN TitleMax ELSE 26
BY IconConstants DEF Room, RoomOnConsole, RoomOnClient, MessageSize

(* Nothing is written yet.                                                 *)
LEMMA IconInitHolds == ASSUME IconInit PROVE IconInv
<1>1. Empty \in StringType
  BY DEF Empty, String, StringType
<1>2. titles = <<Empty, Empty>>
  BY DEF IconInit
<1>3. DOMAIN titles = Title /\ \A i \in Title : titles[i] \in StringType
  BY <1>1, <1>2 DEF Title
<1>4. /\ at = "title" /\ reader = "none" /\ line = 1 /\ saved = <<>> /\ before = <<>>
      /\ reads = 0 /\ overrun = FALSE
  BY DEF IconInit
<1>5. reads \in 0 .. MaxReads
  BY <1>4, IconConstants
<1>6. overrun \in BOOLEAN /\ ~overrun
  BY <1>4, Zenon
<1>8. line \in 1 .. 18
  BY <1>4
<1>7. /\ at \notin {"file", "line", "print", "lost"} /\ reader \notin {"console", "client"}
      /\ ~(at = "title" /\ saved # <<>>)
  BY <1>4
<1> QED  BY <1>3, <1>4, <1>5, <1>6, <1>7, <1>8 DEF IconInv

(* Two strings are a title.                                                *)
LEMMA TitleIs ==
  ASSUME NEW a \in StringType, NEW b \in StringType, NEW x, x = <<a, b>>
  PROVE  DOMAIN x = Title /\ x[1] = a /\ x[2] = b /\ \A i \in Title : x[i] \in StringType
BY DEF Title

(* The title of a save is two strings.                                     *)
LEMMA ConvertedIs ==
  ASSUME NEW n \in Nat, NEW first \in Nat, first <= n, NEW w \in Nat,
         NEW x \in ConvertMcTitle(n, first, w)
  PROVE  DOMAIN x = Title /\ \A i \in Title : x[i] \in StringType
<1>1. TitleMax \in Nat \ {0} /\ 0 \in Nat /\ 1 \in Int
  BY IconConstants
<1>2. CASE first > 0
  <2> DEFINE len == Least(first, TitleMax - 1)
             second == Least(n - first, TitleMax - 1)
  <2>1. PICK stray \in Nat : x = <<String(0, 1, len, 0, w), String(0, first + 1, second, stray, w)>>
    BY <1>2 DEF ConvertMcTitle
  <2>2. len \in Nat /\ first + 1 \in Int /\ second \in Nat
    BY <1>1 DEF Least
  <2> HIDE DEF len, second
  <2>3. String(0, 1, len, 0, w) \in StringType /\ String(0, first + 1, second, stray, w) \in StringType
    BY <1>1, <2>2, StringIs
  <2> QED  BY <2>1, <2>3, TitleIs
<1>3. CASE ~(first > 0)
  <2> DEFINE beyond == IF w = 1 THEN TitleMax + 1 ELSE TitleMax
             shorter == IF n < TitleMax THEN {n}
                        ELSE {Least(n, beyond), Least(n + 1, 2 * TitleMax) - (TitleMax + 1)}
             behind == IF n < TitleMax THEN 0 ELSE Least(n, 2 * TitleMax) - TitleMax
  <2>1. PICK len \in shorter, stray \in Nat :
          x = <<String(0, 1, len, 0, w), String(0, TitleMax + 1, behind, stray, w)>>
    BY <1>3 DEF ConvertMcTitle
  <2>2. behind \in Nat /\ TitleMax + 1 \in Int /\ \A l \in shorter : l \in Nat
    BY <1>1 DEF Least
  <2> HIDE DEF shorter, behind
  <2>3. /\ String(0, 1, len, 0, w) \in StringType
        /\ String(0, TitleMax + 1, behind, stray, w) \in StringType
    BY <1>1, <2>1, <2>2, StringIs
  <2> QED  BY <2>1, <2>3, TitleIs
<1> QED  BY <1>2, <1>3

(* What a user types is a string.                                          *)
LEMMA TypedIs == ASSUME reads \in Nat, NEW s \in Typed PROVE s \in StringType
<1>1. PICK lead \in 0 .. 1, n \in Lengths, w \in Widths : s = String(lead, 100 * (reads + 1), n, 0, w)
  BY DEF Typed
<1>2. lead \in Nat /\ n \in Nat /\ w \in Nat /\ 100 * (reads + 1) \in Int /\ 0 \in Nat
  BY IconConstants
<1> QED  BY <1>1, <1>2, StringIs

(* The title of the save is put into the dialog.                           *)
LEMMA TitleOfSaveKeeps ==
  ASSUME IconInv, NEW save \in SaveTitles, NEW w \in Widths, TitleOfSave(save, w) PROVE IconInv'
<1>1. /\ at = "title" /\ saved' = save /\ titles' \in ConvertMcTitle(save[1], save[2], w)
      /\ UNCHANGED <<at, reader, line, data, file, before, reads, overrun>>
  BY DEF TitleOfSave
<1>2. DOMAIN titles' = Title /\ \A i \in Title : titles'[i] \in StringType
  BY <1>1, ConvertedIs, IconConstants
<1>3. \E v \in Widths : saved' \in SaveTitles /\ titles' \in ConvertMcTitle(saved'[1], saved'[2], v)
  BY <1>1
<1> QED  BY <1>1, <1>2, <1>3 DEF IconInv

(* Two strings that are clipped.                                           *)
LEMMA ClippedIs ==
  ASSUME NEW a \in StringType, NEW b \in StringType, NEW x, x = <<Clip(a, TitleMax), Clip(b, TitleMax)>>
  PROVE  /\ DOMAIN x = Title
         /\ \A i \in Title : x[i] \in StringType /\ Extent(x[i]) <= TitleMax
<1>1. \A s \in StringType : Clip(s, TitleMax) \in StringType /\ Extent(Clip(s, TitleMax)) <= TitleMax
  BY ClipIs, IconConstants
<1> QED  BY <1>1 DEF Title

(* The user leaves another title.                                          *)
LEMMA TitleTypedKeeps ==
  ASSUME IconInv, NEW line1 \in Typed, NEW line2 \in Typed, TitleTyped(line1, line2) PROVE IconInv'
<1>1. /\ at = "title" /\ at' = "data" /\ titles' = <<Clip(line1, TitleMax), Clip(line2, TitleMax)>>
      /\ UNCHANGED <<reader, line, data, file, before, reads, overrun>>
  BY DEF TitleTyped
<1>2. line1 \in StringType /\ line2 \in StringType
  BY TypedIs DEF IconInv
<1>3. DOMAIN titles' = Title /\ \A i \in Title : titles'[i] \in StringType
  BY <1>1, <1>2, ClippedIs
<1> QED  BY <1>1, <1>3 DEF IconInv

(* The user leaves the title as it is.                                     *)
LEMMA TitleAcceptedKeeps == ASSUME IconInv, TitleAccepted PROVE IconInv'
BY DEF IconInv, TitleAccepted

(* The title that is taken over into the data.                             *)
LEMMA TitleValue ==
  ASSUME IconInv, NEW i \in Title
  PROVE  Value(i, Clip(titles[i], TitleMax))
<1>1. titles[i] \in StringType
  BY DEF IconInv
<1>2. Clip(titles[i], TitleMax) \in StringType /\ Extent(Clip(titles[i], TitleMax)) <= TitleMax
  BY <1>1, ClipIs, IconConstants
<1>3. KindOf(i) = "string" /\ i \notin 15 .. 17
  BY DEF Title, KindOf
<1> QED  BY <1>2, <1>3 DEF Value

(* The data is made from that of the save, line by line.                   *)
LEMMA FromSaveKeeps ==
  ASSUME IconInv, NEW a \in Alphas, NEW c \in Colours, NEW d \in Directions, NEW l \in Lights,
         GenerateHDDIconSysFileFromMCSave(a, c, d, l)
  PROVE  IconInv'
<1>1. /\ at = "data" /\ at' = "print"
      /\ UNCHANGED <<reader, line, saved, titles, file, before, reads, overrun>>
  BY DEF GenerateHDDIconSysFileFromMCSave
<1>2. a \in Int /\ c \in Int /\ d \in Int /\ l \in Int /\ c \div 2 \in Int /\ (l * 128) \div 100 \in Int
  BY IconConstants
<1>3. ToByte(a) \in 0 .. 255 /\ ToByte(c \div 2) \in 0 .. 255 /\ ToByte((l * 128) \div 100) \in 0 .. 255
  <2>1. ToByte(a) \in 0 .. 255
    BY ONLY <1>2, ByteIs
  <2>2. ToByte(c \div 2) \in 0 .. 255
    BY ONLY <1>2, ByteIs
  <2>3. ToByte((l * 128) \div 100) \in 0 .. 255
    BY ONLY <1>2, ByteIs
  <2> QED  BY <2>1, <2>2, <2>3
<1> DEFINE colour == Vector(ToByte(c \div 2))
           lights == Vector(ToByte((l * 128) \div 100))
           from == Vector(d)
<1>4. colour \in [1 .. 3 -> 0 .. 255] /\ lights \in [1 .. 3 -> 0 .. 255]
  BY ONLY <1>3, VectorIs, ZenonT(60)
<1>5. from \in [1 .. 3 -> Int]
  BY <1>2, VectorIs
<1>6. \A i \in Fields : Value(i, data'[i])
  <2> SUFFICES ASSUME NEW i \in Fields PROVE Value(i, data'[i])
    OBVIOUS
  <2>1. data'[i] = CASE i \in Title -> Clip(titles[i], TitleMax)
                     [] i = 3 -> ToByte(a)
                     [] i \in 4 .. 7 -> colour
                     [] i \in 8 .. 10 -> from
                     [] i \in 11 .. 14 -> lights
                     [] i = 15 -> DeleteMessage
                     [] OTHER -> Empty
    BY DEF GenerateHDDIconSysFileFromMCSave
  <2> HIDE DEF colour, lights, from
  <2>2. CASE i \in Title
    <3>1. data'[i] = Clip(titles[i], TitleMax)
      BY <2>1, <2>2 DEF Title
    <3> QED  BY ONLY <2>2, <3>1, TitleValue, IconInv
  <2>3. CASE i = 3
    <3>1. data'[i] = ToByte(a)
      BY <2>1, <2>3 DEF Title
    <3> QED  BY ONLY <1>3, <2>3, <3>1 DEF Value, KindOf, Title
  <2>4. CASE i \in 4 .. 7
    <3>1. data'[i] = colour
      BY <2>1, <2>4 DEF Title
    <3> QED  BY ONLY <1>4, <2>4, <3>1 DEF Value, KindOf, Title
  <2>5. CASE i \in 8 .. 10
    <3>1. data'[i] = from
      BY <2>1, <2>5 DEF Title
    <3> QED  BY ONLY <1>5, <2>5, <3>1 DEF Value, KindOf, Title
  <2>6. CASE i \in 11 .. 14
    <3>1. data'[i] = lights
      BY <2>1, <2>6 DEF Title
    <3> QED  BY ONLY <1>4, <2>6, <3>1 DEF Value, KindOf, Title
  <2>7. CASE i \in 15 .. 17
    <3>1. data'[i] = IF i = 15 THEN DeleteMessage ELSE Empty
      BY <2>1, <2>7 DEF Title
    <3> QED  BY ONLY <2>7, <3>1 DEF Value, KindOf, Title
  <2> QED  BY <2>2, <2>3, <2>4, <2>5, <2>6, <2>7 DEF Fields, Title
<1>7. Values(data')
  BY <1>6 DEF Values
<1> QED  BY <1>1, <1>7 DEF IconInv

(* The data is made from the built-in values.                              *)
LEMMA FromDefaultsKeeps == ASSUME IconInv, DefaultGameIconSys PROVE IconInv'
<1>1. /\ at = "data" /\ at' = "print"
      /\ UNCHANGED <<reader, line, saved, titles, file, before, reads, overrun>>
      /\ data' = [i \in Fields |->
                    IF i \in Title THEN Clip(titles[i], TitleMax) ELSE DefaultValues[i - 2]]
  BY SMTT(20) DEF DefaultGameIconSys
<1>2. /\ DefaultValues[1] \in 0 .. 255
      /\ \A k \in 2 .. 5 \cup 9 .. 12 : DefaultValues[k] \in [1 .. 3 -> 0 .. 255]
      /\ \A k \in 6 .. 8 : DefaultValues[k] \in [1 .. 3 -> Int]
      /\ DefaultValues[13] = DeleteMessage /\ DefaultValues[14] = Empty /\ DefaultValues[15] = Empty
  BY DEF DefaultValues
<1>3. Values(data')
  <2> SUFFICES ASSUME NEW i \in Fields PROVE Value(i, data'[i])
    BY DEF Values
  <2>1. CASE i \in Title
    <3>1. data'[i] = Clip(titles[i], TitleMax)
      BY <1>1, <2>1, SMTT(30)
    <3> QED  BY ONLY <2>1, <3>1, TitleValue, IconInv
  <2>2. CASE i \notin Title
    <3>1. data'[i] = DefaultValues[i - 2]
      BY <1>1, <2>2
    <3> QED  BY <1>2, <2>2, <3>1 DEF Value, KindOf, Title, Fields
  <2> QED  BY <2>1, <2>2
<1> QED  BY <1>1, <1>3 DEF IconInv

(* The data is printed.                                                    *)
LEMMA PrintKeeps == ASSUME IconInv, GenerateHDDIconSysFile PROVE IconInv'
<1>1. /\ at = "print" /\ at' = "file" /\ file' = [i \in Fields |-> Printed(i, data[i])]
      /\ UNCHANGED <<reader, line, saved, titles, data, before, reads, overrun>>
  BY DEF GenerateHDDIconSysFile
<1>2. \A i \in Fields : Value(i, data[i])
  BY <1>1 DEF IconInv, Values
<1>3. Values(file')
  BY <1>1, <1>2, PrintedIs DEF Values
<1>4. before # <<>> => \A i \in Fields \ Title : file'[i] = before[i]
  BY <1>1 DEF IconInv
<1>5. file' # <<>>
  <2>1. 1 \in DOMAIN file' /\ 1 \notin DOMAIN << >>
    BY <1>1 DEF Fields
  <2> QED  BY <2>1
<1> QED  BY <1>1, <1>3, <1>4, <1>5 DEF IconInv

(* A side begins to read: no line is read yet.                             *)
LEMMA LoadKeeps ==
  ASSUME IconInv, NEW side \in {"console", "client"}, LoadIconSysFile(side) PROVE IconInv'
<1>1. /\ at = "file" /\ at' = "line" /\ reader' = side /\ line' = 1 /\ before' = file
      /\ reads < MaxReads /\ reads' = reads + 1 /\ DOMAIN data' = Fields
      /\ overrun' = FALSE /\ UNCHANGED <<saved, titles, file>>
  BY DEF LoadIconSysFile
<1>2. reads' \in 0 .. MaxReads
  BY <1>1, IconConstants DEF IconInv
<1>3. \A i \in Fields : ~(i < line')
  BY <1>1 DEF Fields
<1> QED  BY <1>1, <1>2, <1>3 DEF IconInv

(* What the zeros reach is read later.                                     *)
LEMMA OverwrittenLater == ASSUME NEW i \in Fields, NEW k \in Overwritten(i) PROVE k > i
<1>1. CASE i = 1
  BY <1>1 DEF Overwritten
<1>2. CASE i = 2
  BY <1>2 DEF Overwritten
<1>3. CASE i \in 3 .. 14
  BY <1>3 DEF Overwritten, Message
<1>4. CASE i \in Message
  BY <1>4 DEF Overwritten, Message
<1> QED  BY <1>1, <1>2, <1>3, <1>4 DEF Fields, Message

(* A line is read: the ones before it stay.                                *)
LEMMA ParseKeeps ==
  ASSUME IconInv, NEW side \in {"console", "client"}, NEW room, room = Room(line),
         NEW zeroed, \A k \in zeroed : k > line,
         ParseLine(side, room, zeroed), overrun' \in BOOLEAN
  PROVE  IconInv'
<1>1. /\ at = "line" /\ line \in Fields /\ line' = line + 1
      /\ data' = [i \in Fields |->
                    IF i = line THEN Parsed(line, before[line], room)
                    ELSE IF i \in zeroed THEN Zero(i) ELSE data[i]]
      /\ UNCHANGED <<at, reader, saved, titles, file, before, reads>>
  BY DEF ParseLine
<1>2. DOMAIN data' = Fields
  BY <1>1
<1>3. ASSUME NEW i \in Fields, i < line'
      PROVE  data'[i] = Parsed(i, before[i], Room(i)) /\ Room(i)' = Room(i)
  <2>1. Room(i)' = Room(i)
    BY <1>1 DEF Room
  <2>2. CASE i = line
    BY <1>1, <2>1, <2>2 DEF IconInv
  <2>3. CASE i # line
    <3>1. i < line /\ i \notin zeroed
      BY <1>1, <1>3, <2>3 DEF Fields
    <3>2. data'[i] = data[i]
      BY <1>1, <2>3, <3>1
    <3> QED  BY <1>1, <2>1, <3>1, <3>2 DEF IconInv
  <2> QED  BY <2>1, <2>2, <2>3
<1>4. line' \in 1 .. 18
  BY <1>1 DEF Fields
<1> QED  BY <1>1, <1>2, <1>3, <1>4 DEF IconInv

(* When the last line is read, all that is not the title would be printed  *)
(* as it was, and the title is the one that was written.                   *)
LEMMA AllRead ==
  ASSUME IconInv, at = "line", line \notin Fields
  PROVE  /\ Values(data)
         /\ \A i \in Fields \ Title : Printed(i, data[i]) = before[i]
         /\ \A i \in Title : data[i] = Clip([before[i] EXCEPT !.lead = 0], TitleMax)
<1>1. \A i \in Fields : i < line
  BY DEF IconInv, Fields
<1>2. /\ \A i \in Fields : data[i] = Parsed(i, before[i], Room(i))
      /\ Values(before) /\ reader \in {"console", "client"}
  BY <1>1 DEF IconInv
<1>3. ASSUME NEW i \in Fields
      PROVE  /\ Value(i, data[i])
             /\ i \in Title => data[i] = Clip([before[i] EXCEPT !.lead = 0], TitleMax)
             /\ i \notin Title => Printed(i, data[i]) = before[i]
  <2>1. Value(i, before[i]) /\ data[i] = Parsed(i, before[i], Room(i))
    BY <1>2 DEF Values
  <2>2. Room(i) \in Nat /\ Room(i) >= IF i \in Title THEN TitleMax ELSE 26
    BY <1>2, RoomIs
  <2> QED  BY <2>1, <2>2, ParsedIs
<1>4. Title \subseteq Fields
  BY DEF Title, Fields
<1> QED  BY <1>3, <1>4 DEF Values

(* The console is lost, with the file as it is.                            *)
LEMMA ConsoleLostKeeps == ASSUME IconInv, ConsoleLost PROVE IconInv'
<1>1. /\ overrun /\ at \in {"line", "print", "file"} /\ at' = "lost" /\ reader' = "none" /\ line' = 1
      /\ UNCHANGED <<saved, titles, data, file, before, reads, overrun>>
  BY DEF ConsoleLost
<1>2. before # <<>> => \A i \in Fields \ Title : file[i] = before[i]
  BY <1>1 DEF IconInv
<1> QED  BY <1>1, <1>2 DEF IconInv

(* The file is not written, and is still the one that was read.            *)
LEMMA NotWrittenKeeps == ASSUME IconInv, NotWritten PROVE IconInv'
<1>1. /\ overrun /\ at = "print" /\ at' = "file"
      /\ UNCHANGED <<reader, line, saved, titles, data, file, before, reads, overrun>>
  BY DEF NotWritten
<1>2. before # <<>> /\ file = before /\ Values(file)
  BY <1>1 DEF IconInv
<1> QED  BY <1>1, <1>2 DEF IconInv

(* The title that was read is shown.                                       *)
LEMMA ShownKeeps == ASSUME IconInv, Shown PROVE IconInv'
<1>1. /\ at = "line" /\ line \notin Fields /\ at' = "file" /\ reader' = "none" /\ line' = 1
      /\ titles' = [i \in Title |-> data[i]] /\ UNCHANGED <<saved, data, file, before, reads, overrun>>
  BY DEF Shown
<1>2. \A i \in Title : data[i] \in StringType
  <2>1. Title \subseteq Fields
    BY DEF Title, Fields
  <2>2. \A i \in Fields : Value(i, data[i])
    BY <1>1, AllRead DEF Values
  <2> QED  BY <2>1, <2>2 DEF Value
<1>3. DOMAIN titles' = Title /\ \A i \in Title : titles'[i] \in StringType
  BY <1>1, <1>2
<1> QED  BY <1>1, <1>3 DEF IconInv

(* Another title is put into the data, and all else stays as it was read.  *)
LEMMA RetitledKeeps ==
  ASSUME IconInv, NEW line1 \in Typed, NEW line2 \in Typed, Retitled(line1, line2) PROVE IconInv'
<1>1. /\ at = "line" /\ line \notin Fields /\ at' = "print" /\ reader' = "none" /\ line' = 1
      /\ titles' = <<Clip(line1, TitleMax), Clip(line2, TitleMax)>>
      /\ data' = [data EXCEPT ![1] = titles'[1], ![2] = titles'[2]]
      /\ UNCHANGED <<file, before, reads, overrun>>
  BY DEF Retitled
<1>2. line1 \in StringType /\ line2 \in StringType
  BY TypedIs DEF IconInv
<1>3. DOMAIN titles' = Title /\ \A i \in Title : titles'[i] \in StringType /\ Extent(titles'[i]) <= TitleMax
  BY <1>1, <1>2, ClippedIs
<1>4. DOMAIN data = Fields
  BY <1>1 DEF IconInv
<1>5. \A i \in Fields : data'[i] = IF i \in Title THEN titles'[i] ELSE data[i]
  BY <1>1, <1>4 DEF Title, Fields
<1>6. \A i \in Title : Value(i, titles'[i])
  BY <1>3 DEF Value, Title, KindOf
<1>7. Values(data') /\ \A i \in Fields \ Title : Printed(i, data'[i]) = before[i]
  BY <1>1, <1>5, <1>6, AllRead DEF Values
<1> QED  BY <1>1, <1>3, <1>7 DEF IconInv

(* Every step keeps the invariant.                                         *)
LEMMA IconKeeps == ASSUME IconInv, [IconNext]_iconVars PROVE IconInv'
<1>1. CASE ConsoleParses
  <2>1. /\ ParseLine("console", RoomOnConsole(line), Overwritten(line))
        /\ overrun' = (overrun \/ line \in Message) /\ reader = "console" /\ line \in Fields
    BY <1>1 DEF ConsoleParses, ParseLine
  <2>2. \A k \in Overwritten(line) : k > line
    BY <2>1, OverwrittenLater
  <2>3. Room(line) = RoomOnConsole(line) /\ overrun' \in BOOLEAN
    BY <2>1 DEF Room
  <2> QED  BY <2>1, <2>2, <2>3, ParseKeeps
<1>2. CASE ClientParses
  <2>1. ParseLine("client", RoomOnClient(line), {}) /\ overrun' = overrun /\ reader = "client"
    BY <1>2 DEF ClientParses, ParseLine
  <2>2. Room(line) = RoomOnClient(line) /\ overrun' \in BOOLEAN
    BY <2>1 DEF Room, IconInv
  <2> QED  BY <2>1, <2>2, ParseKeeps
<1>3. CASE UNCHANGED iconVars
  BY <1>3 DEF iconVars, IconInv, Room
<1>4. CASE LoadIconSysFile("console") \/ LoadIconSysFile("client")
  BY <1>4, LoadKeeps
<1>5. CASE \E a \in Alphas, c \in Colours, d \in Directions, l \in Lights :
             GenerateHDDIconSysFileFromMCSave(a, c, d, l)
  BY <1>5, FromSaveKeeps
<1>6. CASE \/ \E save \in SaveTitles, w \in Widths : TitleOfSave(save, w)
           \/ \E line1 \in Typed, line2 \in Typed : TitleTyped(line1, line2)
           \/ TitleAccepted
  BY <1>6, TitleOfSaveKeeps, TitleTypedKeeps, TitleAcceptedKeeps
<1>7. CASE \E line1 \in Typed, line2 \in Typed : Retitled(line1, line2)
  BY <1>7, RetitledKeeps
<1> QED  BY <1>1, <1>2, <1>3, <1>4, <1>5, <1>6, <1>7, FromDefaultsKeeps, PrintKeeps, ShownKeeps,
            ConsoleLostKeeps, NotWrittenKeeps
         DEF IconNext

(* The invariant holds in every state: whatever is written, read back and  *)
(* written again is something the lines may hold.                          *)
THEOREM IconInvariance == IconSpec => []IconInv
BY IconInitHolds, IconKeeps, PTL DEF IconSpec

(* What is behind the titles is what was read.                             *)
LEMMA OnlyTitlesHolds == ASSUME IconInv PROVE OnlyTitles
<1>1. line \notin Fields => at = "line"
  BY DEF IconInv, Fields
<1> QED  BY <1>1, AllRead DEF IconInv, OnlyTitles

(* The lines of a save's title that are short enough are copied whole.     *)
LEMMA TitleWholeHolds == ASSUME IconInv PROVE TitleWhole
<1> SUFFICES ASSUME at = "title", saved # <<>>, saved[2] \in 1 .. TitleMax - 1,
                    saved[1] - saved[2] < TitleMax - 1
             PROVE  /\ titles[1].from = 1 /\ titles[1].len = saved[2] /\ titles[1].stray = 0
                    /\ titles[2].from = saved[2] + 1 /\ titles[2].len = saved[1] - saved[2]
                    /\ titles[2].stray = 0
  BY DEF TitleWhole
<1>1. PICK w \in Widths : saved \in SaveTitles /\ titles \in ConvertMcTitle(saved[1], saved[2], w)
  BY DEF IconInv
<1>2. PICK n \in Nat, first \in Nat : n = saved[1] /\ first = saved[2] /\ first <= n
  BY <1>1, IconConstants
<1>3. first \in 1 .. TitleMax - 1 /\ n - first < TitleMax - 1 /\ TitleMax \in Nat
  BY <1>2, IconConstants
<1>4. Least(first, TitleMax - 1) = first /\ Least(n - first, TitleMax - 1) = n - first
  BY <1>2, <1>3 DEF Least
<1>5. titles = <<String(0, 1, first, 0, w), String(0, first + 1, n - first, 0, w)>>
  BY <1>1, <1>2, <1>3, <1>4 DEF ConvertMcTitle
<1>6. w \in Nat /\ n - first \in Nat /\ first + 1 \in Int
  BY <1>2, IconConstants
<1> QED  BY <1>2, <1>5 DEF String

(* However often the console or the client read a file and write it with   *)
(* another title, all the other lines stay as they were, and who reads the *)
(* file sees the title that was written without the spaces before it: what *)
(* ParseIconSysFile makes of a value is printed as the same value, the     *)
(* directions with their four digits included, and what the console clears *)
(* in its struct behind a string is a line that it has still to read.      *)
THEOREM TitlesAlone == IconSpec => []OnlyTitles
BY IconInvariance, OnlyTitlesHolds, PTL

(* Whatever the length of the array, ConvertMcTitle takes both lines of a  *)
(* save's title over as they are if each is shorter than the array less    *)
(* its last character.                                                     *)
THEOREM SaveTitleTakenOver == IconSpec => []TitleWhole
BY IconInvariance, TitleWholeHolds, PTL

-----------------------------------------------------------------------------
(* How long the text can be.                                               *)

(* Short enough to be printed: a character of a title takes up to three    *)
(* bytes, and a direction has one digit before the point, in the units of  *)
(* the data or in those of the text.                                       *)
LargestText == 99999
Within(d, most) == d \in Int /\ -most <= d /\ d <= most
Short(x, most) ==
  /\ \A i \in Title : x[i].width <= 3
  /\ \A i \in 8 .. 10 : \A k \in 1 .. 3 : Within(x[i][k], most)

(* A title that is read from a save may have one character more than its   *)
(* array; the data and the file are short enough.                          *)
LengthInv ==
  /\ \A i \in Title : Extent(titles[i]) <= TitleMax + 1 /\ titles[i].width <= 3
  /\ at = "print" => Short(data, LargestDirection)
  /\ at \in {"file", "line"} \/ file # <<>> => Values(file) /\ Short(file, LargestText)

(* Clipping, and leaving out the spaces before a title, keeps the width.   *)
LEMMA WidthKept ==
  ASSUME NEW s \in StringType, NEW n
  PROVE  /\ Clip(s, n).width = s.width
         /\ Clip([s EXCEPT !.lead = 0], n).width = s.width
BY DEF Clip, StringType

(* The title of a save is at most one character too long.                  *)
LEMMA ConvertedShort ==
  ASSUME NEW n \in Nat, NEW first \in Nat, first <= n, NEW w \in Widths,
         NEW x \in ConvertMcTitle(n, first, w)
  PROVE  \A i \in Title : Extent(x[i]) <= TitleMax + 1 /\ x[i].width <= 3
<1>1. TitleMax \in Nat \ {0} /\ w \in Nat /\ w <= 3
  <2>1. w \in 0 .. 3
    BY TextAssumption DEF TextAssumption
  <2> QED  BY <2>1, IconConstants
<1>2. ASSUME NEW s1 \in Nat, NEW s2 \in Nat, NEW f \in Int, NEW r \in Nat,
             s1 <= TitleMax + 1, s2 + r <= TitleMax + 1,
             x = <<String(0, 1, s1, 0, w), String(0, f, s2, r, w)>>
      PROVE  \A i \in Title : Extent(x[i]) <= TitleMax + 1 /\ x[i].width <= 3
  <2> DEFINE a == String(0, 1, s1, 0, w)
             b == String(0, f, s2, r, w)
  <2>1. Extent(a) <= TitleMax + 1 /\ a.width <= 3
    BY <1>1, <1>2 DEF Extent, String
  <2>2. Extent(b) <= TitleMax + 1 /\ b.width <= 3
    BY <1>1, <1>2 DEF Extent, String
  <2>3. x[1] = a /\ x[2] = b
    BY <1>2
  <2> HIDE DEF a, b
  <2> QED  BY <2>1, <2>2, <2>3 DEF Title
<1>3. CASE first > 0
  <2> DEFINE len == Least(first, TitleMax - 1)
             second == Least(n - first, TitleMax - 1)
  <2>1. PICK stray \in 0 .. 2 : x = <<String(0, 1, len, 0, w), String(0, first + 1, second, stray, w)>>
    BY <1>3 DEF ConvertMcTitle
  <2>2. /\ len \in Nat /\ len <= TitleMax + 1 /\ first + 1 \in Int
        /\ second \in Nat /\ second <= TitleMax - 1
    BY <1>1 DEF Least
  <2> HIDE DEF len, second
  <2>3. second + stray <= TitleMax + 1 /\ stray \in Nat
    BY <1>1, <2>2
  <2> QED  BY <1>2, <2>1, <2>2, <2>3
<1>4. CASE ~(first > 0)
  <2> DEFINE beyond == IF w = 1 THEN TitleMax + 1 ELSE TitleMax
             shorter == IF n < TitleMax THEN {n}
                        ELSE {Least(n, beyond), Least(n + 1, 2 * TitleMax) - (TitleMax + 1)}
             behind == IF n < TitleMax THEN 0 ELSE Least(n, 2 * TitleMax) - TitleMax
  <2>1. PICK len \in shorter, stray \in 0 .. 1 :
          x = <<String(0, 1, len, 0, w), String(0, TitleMax + 1, behind, stray, w)>>
    BY <1>4 DEF ConvertMcTitle
  <2>2. /\ behind \in Nat /\ behind <= TitleMax /\ TitleMax + 1 \in Int
        /\ \A l \in shorter : l \in Nat /\ l <= TitleMax + 1
    BY <1>1 DEF Least
  <2> HIDE DEF shorter, behind
  <2>3. behind + stray <= TitleMax + 1 /\ stray \in Nat /\ len \in Nat /\ len <= TitleMax + 1
    BY <1>1, <2>1, <2>2
  <2> QED  BY <1>2, <2>1, <2>2, <2>3
<1> QED  BY <1>3, <1>4

(* What a user types has characters of at most three bytes.                *)
LEMMA TypedShort == ASSUME NEW s \in Typed PROVE s.width <= 3
<1>1. PICK lead \in 0 .. 1, n \in Lengths, w \in Widths : s = String(lead, 100 * (reads + 1), n, 0, w)
  BY DEF Typed
<1>2. w <= 3
  BY TextAssumption DEF TextAssumption
<1> QED  BY <1>1, <1>2 DEF String

(* A direction of the data, in the units of the text, and back.            *)
LEMMA DirectionShort ==
  ASSUME NEW x
  PROVE  /\ Within(x, LargestDirection) => Within(FourDigits(x), LargestText)
         /\ Within(x, LargestText) => Within(10 * x, LargestDirection)
<1>1. ASSUME Within(x, LargestDirection) PROVE Within(FourDigits(x), LargestText)
  <2>1. x \in Int /\ -999994 <= x /\ x <= 999994
    BY <1>1, SMT DEF Within, LargestDirection
  <2>2. CASE x < 0
    <3>1. (5 - x) \div 10 \in Int /\ (5 - x) \div 10 <= 99999 /\ 0 <= (5 - x) \div 10
      BY <2>1, <2>2, SMT
    <3> QED  BY <2>1, <2>2, <3>1, SMT DEF FourDigits, LargestText, Within
  <2>3. CASE x >= 0
    <3>1. (x + 5) \div 10 \in Int /\ (x + 5) \div 10 <= 99999 /\ 0 <= (x + 5) \div 10
      BY <2>1, <2>3, SMT
    <3> QED  BY <2>1, <2>3, <3>1, SMT DEF FourDigits, LargestText, Within
  <2> QED  BY <2>1, <2>2, <2>3, SMT
<1>2. ASSUME Within(x, LargestText) PROVE Within(10 * x, LargestDirection)
  BY <1>2, SMT DEF Within, LargestDirection, LargestText
<1> QED  BY <1>1, <1>2

(* What a step that leaves the file as it is has to show.                  *)
LEMMA LengthIf ==
  ASSUME LengthInv, file' = file,
         \/ titles' = titles
         \/ \A i \in Title : Extent(titles'[i]) <= TitleMax + 1 /\ titles'[i].width <= 3,
         at' = "print" => Short(data', LargestDirection),
         at' \in {"file", "line"} => at \in {"file", "line"} \/ file # <<>>
  PROVE  LengthInv'
<1>1. at' \in {"file", "line"} \/ file' # <<>> => Values(file') /\ Short(file', LargestText)
  <2>1. at \in {"file", "line"} \/ file # <<>> => Values(file) /\ Short(file, LargestText)
    BY DEF LengthInv
  <2> QED  BY <2>1
<1>2. \A i \in Title : Extent(titles'[i]) <= TitleMax + 1 /\ titles'[i].width <= 3
  BY DEF LengthInv
<1> QED  BY <1>1, <1>2 DEF LengthInv

(* The first title is empty.                                               *)
LEMMA LengthInit == ASSUME IconInit PROVE LengthInv
<1>1. titles = <<Empty, Empty>> /\ at = "title" /\ file = <<>>
  BY DEF IconInit
<1>2. titles[1] = Empty /\ titles[2] = Empty /\ Extent(Empty) = 0 /\ Empty.width = 1
  BY <1>1 DEF Empty, String, Extent
<1> QED  BY <1>1, <1>2, IconConstants DEF LengthInv, Title

(* The title of the save is put into the dialog.                           *)
LEMMA TitleOfSaveShort ==
  ASSUME IconInv, LengthInv, NEW save \in SaveTitles, NEW w \in Widths, TitleOfSave(save, w)
  PROVE  LengthInv'
<1>1. /\ at = "title" /\ titles' \in ConvertMcTitle(save[1], save[2], w)
      /\ UNCHANGED <<at, data, file>>
  BY DEF TitleOfSave
<1>2. \A i \in Title : Extent(titles'[i]) <= TitleMax + 1 /\ titles'[i].width <= 3
  BY <1>1, ConvertedShort, IconConstants
<1> QED  BY <1>1, <1>2, LengthIf

(* Two strings of the user that are clipped.                               *)
LEMMA ClippedShort ==
  ASSUME IconInv, NEW a \in Typed, NEW b \in Typed, NEW x,
         x = <<Clip(a, TitleMax), Clip(b, TitleMax)>>
  PROVE  \A i \in Title : Extent(x[i]) <= TitleMax + 1 /\ x[i].width <= 3
<1>1. reads \in Nat /\ a \in StringType /\ b \in StringType
  BY TypedIs DEF IconInv
<1>2. \A i \in Title : x[i] \in StringType /\ Extent(x[i]) <= TitleMax
  BY <1>1, ClippedIs
<1>3. \A i \in Title : Extent(x[i]) \in Nat
  BY <1>2 DEF StringType, Extent
<1>4. Clip(a, TitleMax).width <= 3 /\ Clip(b, TitleMax).width <= 3
  BY <1>1, WidthKept, TypedShort
<1>5. \A i \in Title : x[i].width <= 3
  BY <1>4 DEF Title
<1> QED  BY <1>2, <1>3, <1>5, IconConstants

(* The user leaves another title.                                          *)
LEMMA TitleTypedShort ==
  ASSUME IconInv, LengthInv, NEW line1 \in Typed, NEW line2 \in Typed, TitleTyped(line1, line2)
  PROVE  LengthInv'
<1>1. /\ at' = "data" /\ titles' = <<Clip(line1, TitleMax), Clip(line2, TitleMax)>>
      /\ UNCHANGED <<data, file>>
  BY DEF TitleTyped
<1>2. \A i \in Title : Extent(titles'[i]) <= TitleMax + 1 /\ titles'[i].width <= 3
  BY <1>1, ClippedShort
<1> QED  BY <1>1, <1>2, LengthIf

(* The data is made from that of the save.                                 *)
LEMMA FromSaveShort ==
  ASSUME IconInv, LengthInv, NEW a \in Alphas, NEW c \in Colours, NEW d \in Directions,
         NEW l \in Lights, GenerateHDDIconSysFileFromMCSave(a, c, d, l)
  PROVE  LengthInv'
<1>1. at' = "print" /\ UNCHANGED <<titles, file>>
  BY DEF GenerateHDDIconSysFileFromMCSave
<1>2. ASSUME NEW i \in Title PROVE data'[i] = Clip(titles[i], TitleMax)
  BY <1>2 DEF GenerateHDDIconSysFileFromMCSave, Title, Fields
<1>3. ASSUME NEW i \in 8 .. 10 PROVE data'[i] = Vector(d)
  BY <1>3 DEF GenerateHDDIconSysFileFromMCSave, Title, Fields
<1>4. ASSUME NEW i \in Title PROVE data'[i].width <= 3
  <2>1. titles[i] \in StringType /\ titles[i].width <= 3
    BY <1>4 DEF IconInv, LengthInv
  <2>2. Clip(titles[i], TitleMax).width = titles[i].width
    BY <2>1, WidthKept
  <2> QED  BY <1>2, <2>1, <2>2
<1>5. Within(d, LargestDirection)
  BY TextAssumption, IconConstants DEF TextAssumption, Within
<1>6. ASSUME NEW i \in 8 .. 10, NEW k \in 1 .. 3 PROVE Within(data'[i][k], LargestDirection)
  <2>1. Vector(d)[k] = d
    BY <1>6 DEF Vector
  <2> QED  BY <1>3, <1>5, <2>1
<1>7. Short(data', LargestDirection)
  BY <1>4, <1>6, Zenon DEF Short
<1> QED  BY <1>1, <1>7, LengthIf

(* The data is made from the built-in values.                              *)
LEMMA FromDefaultsShort ==
  ASSUME IconInv, LengthInv, DefaultGameIconSys PROVE LengthInv'
<1>1. /\ at' = "print" /\ UNCHANGED <<titles, file>>
      /\ data' = [i \in Fields |->
                    IF i \in Title THEN Clip(titles[i], TitleMax) ELSE DefaultValues[i - 2]]
  BY SMTT(20) DEF DefaultGameIconSys
<1>2. ASSUME NEW i \in Title PROVE data'[i].width <= 3
  <2>1. titles[i] \in StringType /\ titles[i].width <= 3
    BY <1>2 DEF IconInv, LengthInv
  <2>2. i \in Fields
    BY DEF Title, Fields
  <2>3. data'[i] = Clip(titles[i], TitleMax)
    BY <1>1, <1>2, <2>2
  <2>4. Clip(titles[i], TitleMax).width = titles[i].width
    BY <2>1, WidthKept
  <2> QED  BY <2>1, <2>3, <2>4
<1>3. ASSUME NEW i \in 8 .. 10 PROVE data'[i] = DefaultValues[i - 2]
  BY <1>1, <1>3 DEF Title, Fields
<1>4. ASSUME NEW j \in 6 .. 8, NEW k \in 1 .. 3 PROVE Within(DefaultValues[j][k], LargestDirection)
  <2>1. DefaultValues[j][k] \in {50000, 0, -40000, -10000, -50000}
    BY SMT DEF DefaultValues
  <2> QED  BY <2>1, SMT DEF Within, LargestDirection
<1>5. ASSUME NEW i \in 8 .. 10, NEW k \in 1 .. 3 PROVE Within(data'[i][k], LargestDirection)
  <2>1. i - 2 \in 6 .. 8
    OBVIOUS
  <2> QED  BY <1>3, <1>4, <2>1
<1>6. Short(data', LargestDirection)
  BY <1>2, <1>5 DEF Short
<1> QED  BY <1>1, <1>6, LengthIf

(* The data is printed: a direction gets four digits.                      *)
LEMMA PrintShort == ASSUME IconInv, LengthInv, GenerateHDDIconSysFile PROVE LengthInv'
<1>1. /\ at = "print" /\ at' = "file" /\ file' = [i \in Fields |-> Printed(i, data[i])]
      /\ UNCHANGED titles
  BY DEF GenerateHDDIconSysFile
<1>2. Values(data) /\ Short(data, LargestDirection)
  BY <1>1 DEF IconInv, LengthInv
<1>3. Values(file')
  BY <1>1, <1>2, PrintedIs DEF Values
<1>4. ASSUME NEW i \in Title PROVE file'[i].width <= 3
  <2>1. i \in Fields /\ KindOf(i) # "floats"
    BY DEF Title, Fields, KindOf
  <2>2. file'[i] = data[i]
    BY <1>1, <1>2, <2>1, PrintedIs DEF Values
  <2> QED  BY <1>2, <2>2 DEF Short
<1>5. ASSUME NEW i \in 8 .. 10, NEW k \in 1 .. 3 PROVE Within(file'[i][k], LargestText)
  <2>1. i \in Fields /\ KindOf(i) = "floats"
    BY DEF Fields, KindOf
  <2>2. file'[i] = [j \in 1 .. 3 |-> FourDigits(data[i][j])]
    BY <1>1, <2>1, KindIs DEF Printed
  <2>3. Within(data[i][k], LargestDirection)
    BY <1>2 DEF Short
  <2> QED  BY <2>2, <2>3, DirectionShort
<1>6. Short(file', LargestText)
  BY <1>4, <1>5 DEF Short
<1> QED  BY <1>1, <1>3, <1>6 DEF LengthInv

(* When the last line is read, the data is short enough.                   *)
LEMMA AllReadShort ==
  ASSUME IconInv, LengthInv, at = "line", line \notin Fields
  PROVE  Short(data, LargestDirection) /\ \A i \in Title : data[i] \in StringType /\ Extent(data[i]) <= TitleMax
<1>1. before = file /\ Values(file) /\ Short(file, LargestText) /\ Values(data)
  BY AllRead DEF IconInv, LengthInv
<1>2. ASSUME NEW i \in Title
      PROVE  data[i].width <= 3 /\ data[i] \in StringType /\ Extent(data[i]) <= TitleMax
  <2>1. i \in Fields
    BY DEF Title, Fields
  <2>2. data[i] = Clip([before[i] EXCEPT !.lead = 0], TitleMax)
    BY AllRead, ZenonT(60)
  <2>3. before[i] \in StringType /\ before[i].width <= 3
    BY <1>1, <2>1 DEF Values, Value, Short
  <2>4. data[i] \in StringType /\ Extent(data[i]) <= TitleMax
    BY <1>1, <2>1 DEF Values, Value
  <2> QED  BY <2>2, <2>3, <2>4, WidthKept
<1>3. ASSUME NEW i \in 8 .. 10, NEW k \in 1 .. 3 PROVE Within(data[i][k], LargestDirection)
  <2>1. i \in Fields /\ KindOf(i) = "floats" /\ i < line
    BY DEF Fields, KindOf, IconInv
  <2>2. data[i] = Parsed(i, before[i], Room(i))
    BY <2>1 DEF IconInv
  <2>3. data[i] = [j \in 1 .. 3 |-> 10 * before[i][j]]
    BY <2>1, <2>2, KindIs DEF Parsed, GetXYZFVectorValueFromConfigLine
  <2>4. Within(before[i][k], LargestText)
    BY <1>1 DEF Short
  <2> QED  BY <2>3, <2>4, DirectionShort
<1> QED  BY <1>2, <1>3 DEF Short

(* The title that was read is shown.                                       *)
LEMMA ShownShort == ASSUME IconInv, LengthInv, Shown PROVE LengthInv'
<1>1. /\ at = "line" /\ line \notin Fields /\ at' = "file"
      /\ titles' = [i \in Title |-> data[i]] /\ UNCHANGED file
  BY DEF Shown
<1>2. ASSUME NEW i \in Title PROVE Extent(titles'[i]) <= TitleMax + 1 /\ titles'[i].width <= 3
  <2>1. titles'[i] = data[i]
    BY <1>1
  <2>2. data[i] \in StringType /\ Extent(data[i]) <= TitleMax /\ data[i].width <= 3
    <3>1. Short(data, LargestDirection) /\ data[i] \in StringType /\ Extent(data[i]) <= TitleMax
      BY <1>1, AllReadShort
    <3> QED  BY <3>1, Zenon DEF Short
  <2>3. Extent(data[i]) \in Nat
    BY <2>2 DEF StringType, Extent
  <2> QED  BY <2>1, <2>2, <2>3, IconConstants
<1> QED  BY <1>1, <1>2, LengthIf

(* Another title is put into the data.                                     *)
LEMMA RetitledShort ==
  ASSUME IconInv, LengthInv, NEW line1 \in Typed, NEW line2 \in Typed, Retitled(line1, line2)
  PROVE  LengthInv'
<1>1. /\ at = "line" /\ line \notin Fields /\ at' = "print"
      /\ titles' = <<Clip(line1, TitleMax), Clip(line2, TitleMax)>>
      /\ data' = [data EXCEPT ![1] = titles'[1], ![2] = titles'[2]]
      /\ UNCHANGED file
  BY DEF Retitled
<1>2. \A i \in Title : Extent(titles'[i]) <= TitleMax + 1 /\ titles'[i].width <= 3
  BY <1>1, ClippedShort
<1>3. DOMAIN data = Fields
  BY <1>1 DEF IconInv
<1>4. \A i \in Fields : data'[i] = IF i \in Title THEN titles'[i] ELSE data[i]
  BY <1>1, <1>3 DEF Title, Fields
<1>5. ASSUME NEW i \in Title PROVE data'[i].width <= 3
  BY <1>2, <1>4 DEF Title, Fields
<1>6. ASSUME NEW i \in 8 .. 10, NEW k \in 1 .. 3 PROVE Within(data'[i][k], LargestDirection)
  <2>1. i \in Fields /\ i \notin Title
    BY DEF Title, Fields
  <2> QED  BY <1>1, <1>4, <2>1, AllReadShort DEF Short
<1>7. Short(data', LargestDirection)
  BY <1>5, <1>6 DEF Short
<1> QED  BY <1>1, <1>2, <1>7, LengthIf

(* Every step keeps the lengths.                                           *)
LEMMA LengthKeeps == ASSUME IconInv, LengthInv, [IconNext]_iconVars PROVE LengthInv'
<1>1. CASE ConsoleParses \/ ClientParses
  <2>1. at = "line" /\ at' = "line" /\ titles' = titles /\ file' = file
    BY <1>1 DEF ConsoleParses, ClientParses, ParseLine
  <2> QED  BY <2>1, LengthIf
<1>8. CASE ConsoleLost \/ NotWritten
  <2>1. titles' = titles /\ file' = file /\ at' \in {"lost", "file"}
    BY <1>8 DEF ConsoleLost, NotWritten
  <2>2. at' = "file" => file # <<>>
    BY <1>8 DEF ConsoleLost, NotWritten, IconInv
  <2> QED  BY <2>1, <2>2, LengthIf
<1>2. CASE LoadIconSysFile("console") \/ LoadIconSysFile("client")
  <2>1. at = "file" /\ at' = "line" /\ titles' = titles /\ file' = file
    BY <1>2 DEF LoadIconSysFile
  <2> QED  BY <2>1, LengthIf
<1>3. CASE TitleAccepted
  <2>1. at' = "data" /\ titles' = titles /\ file' = file
    BY <1>3 DEF TitleAccepted
  <2> QED  BY <2>1, LengthIf
<1>4. CASE UNCHANGED iconVars
  <2>1. at' = at /\ titles' = titles /\ file' = file /\ data' = data
    BY <1>4 DEF iconVars
  <2>2. at = "print" => Short(data, LargestDirection)
    BY DEF LengthInv
  <2> QED  BY <2>1, <2>2, LengthIf
<1>5. CASE \E a \in Alphas, c \in Colours, d \in Directions, l \in Lights :
             GenerateHDDIconSysFileFromMCSave(a, c, d, l)
  BY <1>5, FromSaveShort
<1>6. CASE \/ \E save \in SaveTitles, w \in Widths : TitleOfSave(save, w)
           \/ \E line1 \in Typed, line2 \in Typed : TitleTyped(line1, line2)
  BY <1>6, TitleOfSaveShort, TitleTypedShort
<1>7. CASE \E line1 \in Typed, line2 \in Typed : Retitled(line1, line2)
  BY <1>7, RetitledShort
<1> QED  BY <1>1, <1>2, <1>3, <1>4, <1>5, <1>6, <1>7, <1>8, FromDefaultsShort, PrintShort, ShownShort
         DEF IconNext

(* The sum of the lengths of the lines: what TextLength recurs on ...      *)
Sums(f, L) == f = [i \in 0 .. 17 |-> IF i = 0 THEN 5 ELSE f[i - 1] + L[i]]

(* ... exists, line by line.                                               *)
LEMMA SumsExist == ASSUME NEW L PROVE \E f : Sums(f, L)
<1> DEFINE Upto(f, n) == f = [i \in 0 .. n |-> IF i = 0 THEN 5 ELSE f[i - 1] + L[i]]
           Good == {n \in Nat : \E f : Upto(f, n)}
<1>1. 0 \in Good
  <2> DEFINE f == [i \in 0 .. 0 |-> 5]
  <2>1. \A i \in 0 .. 0 : i = 0
    OBVIOUS
  <2>2. Upto(f, 0)
    BY <2>1
  <2> QED  BY <2>2
<1>2. ASSUME NEW n \in 0 .. 16, n \in Good PROVE n + 1 \in Good
  <2>1. PICK f : Upto(f, n)
    BY <1>2
  <2> DEFINE g == [i \in 0 .. n + 1 |-> IF i = n + 1 THEN f[n] + L[n + 1] ELSE f[i]]
  <2>2. g = [i \in 0 .. n + 1 |-> g[i]] /\ g[n + 1] = f[n] + L[n + 1]
    OBVIOUS
  <2>3. \A i \in 0 .. n : g[i] = f[i]
    OBVIOUS
  <2>4. \A i \in 0 .. n : f[i] = IF i = 0 THEN 5 ELSE f[i - 1] + L[i]
    <3> HIDE DEF g
    <3> QED  BY <2>1
  <2> HIDE DEF g, Upto, Good
  <2>5. ASSUME NEW i \in 0 .. n + 1 PROVE g[i] = IF i = 0 THEN 5 ELSE g[i - 1] + L[i]
    <3>1. CASE i = n + 1
      <4>1. n \in 0 .. n /\ (n + 1) - 1 = n /\ n + 1 # 0
        OBVIOUS
      <4> QED  BY <2>2, <2>3, <3>1, <4>1
    <3>2. CASE i \in 1 .. n
      <4>1. i \in 0 .. n /\ i - 1 \in 0 .. n /\ i # 0
        BY <3>2
      <4> QED  BY <2>3, <2>4, <4>1
    <3>3. CASE i = 0
      <4>1. 0 \in 0 .. n
        OBVIOUS
      <4> QED  BY <2>3, <2>4, <3>3, <4>1
    <3> QED  BY <3>1, <3>2, <3>3
  <2>6. g = [i \in 0 .. n + 1 |-> IF i = 0 THEN 5 ELSE g[i - 1] + L[i]]
    BY <2>2, <2>5, Zenon
  <2>7. \E h : Upto(h, n + 1)
    BY <2>6, Zenon DEF Upto
  <2>8. n + 1 \in Nat
    OBVIOUS
  <2> QED  BY <2>7, <2>8 DEF Good
<1>3. 17 \in Good
  <2> HIDE DEF Good
  <2>1. 1 \in Good /\ 2 \in Good /\ 3 \in Good /\ 4 \in Good /\ 5 \in Good /\ 6 \in Good
    BY <1>1, <1>2
  <2>2. 7 \in Good /\ 8 \in Good /\ 9 \in Good /\ 10 \in Good /\ 11 \in Good /\ 12 \in Good
    BY <1>2, <2>1
  <2> QED  BY <1>2, <2>2
<1> QED  BY <1>3 DEF Sums

(* The text is as long as its first line and the sum of the others.        *)
LEMMA TextLengthIs ==
  ASSUME NEW text, NEW unit, NEW L, L = LineLengths(text, unit),
         \A i \in Fields : L[i] \in Nat
  PROVE  TextLength(text, unit)
           = 5 + L[1] + L[2] + L[3] + L[4] + L[5] + L[6] + L[7] + L[8] + L[9]
               + L[10] + L[11] + L[12] + L[13] + L[14] + L[15] + L[16] + L[17]
<1> DEFINE f == CHOOSE g : Sums(g, L)
<1>1. TextLength(text, unit) = f[17]
  BY DEF TextLength, Sums
<1>2. Sums(f, L)
  BY SumsExist
<1> HIDE DEF f
<1>3. f[0] = 5 /\ \A i \in 1 .. 17 : f[i] = f[i - 1] + L[i]
  BY <1>2 DEF Sums
<1>4. L[1] \in Nat /\ L[2] \in Nat /\ L[3] \in Nat /\ L[4] \in Nat /\ L[5] \in Nat /\ L[6] \in Nat
  BY DEF Fields
<1>5. L[7] \in Nat /\ L[8] \in Nat /\ L[9] \in Nat /\ L[10] \in Nat /\ L[11] \in Nat /\ L[12] \in Nat
  BY DEF Fields
<1>6. L[13] \in Nat /\ L[14] \in Nat /\ L[15] \in Nat /\ L[16] \in Nat /\ L[17] \in Nat
  BY DEF Fields
<1>7. /\ f[1] = f[0] + L[1] /\ f[2] = f[1] + L[2] /\ f[3] = f[2] + L[3] /\ f[4] = f[3] + L[4]
      /\ f[5] = f[4] + L[5] /\ f[6] = f[5] + L[6] /\ f[7] = f[6] + L[7] /\ f[8] = f[7] + L[8]
      /\ f[9] = f[8] + L[9]
  BY <1>3
<1>8. /\ f[10] = f[9] + L[10] /\ f[11] = f[10] + L[11] /\ f[12] = f[11] + L[12]
      /\ f[13] = f[12] + L[13] /\ f[14] = f[13] + L[14] /\ f[15] = f[14] + L[15]
      /\ f[16] = f[15] + L[16] /\ f[17] = f[16] + L[17]
  BY <1>3
<1>9. f[9] = 5 + L[1] + L[2] + L[3] + L[4] + L[5] + L[6] + L[7] + L[8] + L[9]
  BY <1>3, <1>4, <1>5, <1>7
<1> QED  BY <1>1, <1>4, <1>5, <1>6, <1>8, <1>9

(* How long the numbers are.                                               *)
LEMMA DigitsIs ==
  /\ \A n \in 0 .. 255 : Digits(n) \in 1 .. 3
  /\ \A f : Within(f, LargestText) => FloatLength(f) \in 6 .. 7
<1>1. \A n \in 0 .. 255 : Digits(n) \in 1 .. 3
  BY DEF Digits
<1>2. ASSUME NEW f, Within(f, LargestText) PROVE FloatLength(f) \in 6 .. 7
  <2>1. Abs(f) \in Nat /\ Abs(f) <= 99999
    BY <1>2, SMT DEF Within, Abs, LargestText
  <2>2. Abs(f) \div 10000 \in Nat /\ Abs(f) \div 10000 < 10
    BY <2>1, SMT
  <2>3. Digits(Abs(f) \div 10000) = 1
    BY <2>2, SMT DEF Digits
  <2> HIDE DEF Abs
  <2>4. (IF f < 0 THEN 1 ELSE 0) \in 0 .. 1
    OBVIOUS
  <2> QED  BY <2>3, <2>4 DEF FloatLength
<1> QED  BY <1>1, <1>2

(* A title is at most as long as its array, with up to three bytes for a   *)
(* character.                                                              *)
LEMMA TitleLength ==
  ASSUME NEW i \in Title, NEW s \in StringType, Extent(s) <= TitleMax, s.width <= 3
  PROVE  /\ ValueLength(i, s, "characters") \in 0 .. TitleMax
         /\ ValueLength(i, s, "bytes") \in 0 .. 3 * TitleMax
<1>1. s.lead \in Nat /\ s.len \in Nat /\ s.stray \in Nat /\ s.width \in 0 .. 3 /\ TitleMax \in Nat
  BY IconConstants DEF StringType
<1>2. i \in Fields /\ KindOf(i) = "string"
  BY DEF Title, Fields, KindOf
<1>3. /\ ValueLength(i, s, "characters") = s.lead + (s.len + s.stray) * 1
      /\ ValueLength(i, s, "bytes") = s.lead + (s.len + s.stray) * s.width
  BY <1>2, KindIs DEF ValueLength
<1>4. (s.len + s.stray) * s.width \in 0 .. 3 * (s.len + s.stray)
  <2> DEFINE m == s.len + s.stray
  <2>1. m \in Nat
    BY <1>1
  <2> HIDE DEF m
  <2>2. m * 0 = 0 /\ m * 1 = m /\ m * 2 = 2 * m /\ m * 3 = 3 * m
    BY <2>1
  <2>3. s.width = 0 \/ s.width = 1 \/ s.width = 2 \/ s.width = 3
    BY <1>1
  <2>4. m * s.width \in 0 .. 3 * m
    BY <2>1, <2>2, <2>3
  <2> QED  BY <2>4 DEF m
<1>5. s.lead + (s.len + s.stray) <= TitleMax
  BY <1>1 DEF Extent
<1>6. s.lead + (s.len + s.stray) * 1 \in 0 .. TitleMax
  BY <1>1, <1>5
<1>7. s.lead + (s.len + s.stray) * s.width \in 0 .. 3 * TitleMax
  <2> DEFINE m == s.len + s.stray
             p == m * s.width
  <2>1. m \in Nat /\ p \in 0 .. 3 * m /\ s.lead + m <= TitleMax
    BY <1>1, <1>4, <1>5
  <2> HIDE DEF m, p
  <2>2. s.lead + p \in 0 .. 3 * TitleMax
    BY <1>1, <2>1
  <2> QED  BY <2>2 DEF m, p
<1> QED  BY <1>3, <1>6, <1>7

(* The other values of a file.                                             *)
Longest(i) == IF i = 3 THEN 3 ELSE IF i \in 8 .. 10 THEN 23 ELSE IF i = 15 THEN 26
              ELSE IF i \in 16 .. 17 THEN 0 ELSE 11

LEMMA OtherLength ==
  ASSUME NEW i \in Fields \ Title, NEW x, Value(i, x),
         i \in 8 .. 10 => \A k \in 1 .. 3 : Within(x[k], LargestText),
         NEW unit
  PROVE  ValueLength(i, x, unit) \in Nat /\ ValueLength(i, x, unit) <= Longest(i)
<1>1. Lines[i].kind = KindOf(i)
  BY KindIs
<1>2. CASE i = 3
  <2>1. x \in 0 .. 255 /\ ValueLength(i, x, unit) = Digits(x)
    BY <1>1, <1>2 DEF Value, KindOf, ValueLength
  <2> QED  BY <1>2, <2>1, DigitsIs DEF Longest
<1>3. CASE i \in 8 .. 10
  <2>1. ValueLength(i, x, unit) = FloatLength(x[1]) + FloatLength(x[2]) + FloatLength(x[3]) + 2
    BY <1>1, <1>3 DEF KindOf, ValueLength, Sum3
  <2>2. FloatLength(x[1]) \in 6 .. 7 /\ FloatLength(x[2]) \in 6 .. 7 /\ FloatLength(x[3]) \in 6 .. 7
    BY <1>3, DigitsIs
  <2> QED  BY <1>3, <2>1, <2>2 DEF Longest
<1>4. CASE i = 15
  <2>1. x = DeleteMessage /\ KindOf(i) = "string"
    BY <1>4 DEF Value, KindOf
  <2>2. x.lead = 0 /\ x.len = 26 /\ x.stray = 0 /\ x.width = 1
    BY <2>1 DEF DeleteMessage, String
  <2>3. ValueLength(i, x, unit) = 26
    BY <1>1, <2>1, <2>2 DEF ValueLength
  <2> QED  BY <1>4, <2>3 DEF Longest
<1>5. CASE i \in 16 .. 17
  <2>1. x = Empty /\ KindOf(i) = "string"
    BY <1>5 DEF Value, KindOf
  <2>2. x.lead = 0 /\ x.len = 0 /\ x.stray = 0 /\ x.width = 1
    BY <2>1 DEF Empty, String
  <2>3. ValueLength(i, x, unit) = 0
    BY <1>1, <2>1, <2>2 DEF ValueLength
  <2> QED  BY <1>5, <2>3 DEF Longest
<1>6. CASE i \in 4 .. 7 \cup 11 .. 14
  <2>1. x \in [1 .. 3 -> 0 .. 255] /\ KindOf(i) = "numbers"
    BY <1>6 DEF Value, KindOf
  <2>2. ValueLength(i, x, unit) = Digits(x[1]) + Digits(x[2]) + Digits(x[3]) + 2
    BY <1>1, <2>1 DEF ValueLength, Sum3
  <2>3. Digits(x[1]) \in 1 .. 3 /\ Digits(x[2]) \in 1 .. 3 /\ Digits(x[3]) \in 1 .. 3
    BY ONLY <2>1, DigitsIs, SMTT(30)
  <2> QED  BY <1>6, <2>2, <2>3 DEF Longest
<1>7. i = 3 \/ i \in 8 .. 10 \/ i = 15 \/ i \in 16 .. 17 \/ i \in 4 .. 7 \cup 11 .. 14
  BY DEF Fields, Title
<1> QED  BY <1>2, <1>3, <1>4, <1>5, <1>6, <1>7

(* The longest text: 405 characters, and the two titles.                   *)
LEMMA TextFits ==
  ASSUME NEW text, Values(text), Short(text, LargestText), NEW unit, NEW m \in Nat,
         \A i \in Title : ValueLength(i, text[i], unit) \in 0 .. m
  PROVE  TextLength(text, unit) <= 405 + 2 * m /\ TextLength(text, unit) \in Nat
<1> DEFINE L == LineLengths(text, unit)
<1>1. ASSUME NEW i \in Fields
      PROVE  L[i] = Lines[i].len + 4 + ValueLength(i, text[i], unit)
  <2>1. L[i] = Lines[i].len + 3 + ValueLength(i, text[i], unit) + 1
    BY DEF LineLengths
  <2>2. Lines[i].len \in Nat
    BY DEF Lines, Line, Fields
  <2>3. ValueLength(i, text[i], unit) \in Nat
    <3>1. CASE i \in Title
      BY <3>1
    <3>2. CASE i \notin Title
      BY <3>2, OtherLength DEF Values, Short
    <3> QED  BY <3>1, <3>2
  <2> QED  BY <2>1, <2>2, <2>3
<1> HIDE DEF L
<1>2. L[1] \in Nat /\ L[1] <= 10 + m /\ L[2] \in Nat /\ L[2] <= 10 + m
  <2>1. \A i \in Title : L[i] = 10 + ValueLength(i, text[i], unit)
    BY <1>1 DEF Lines, Line, Fields, Title
  <2>2. 1 \in Title /\ 2 \in Title
    BY DEF Title
  <2> QED  BY <2>1, <2>2
<1>3. \A i \in Fields \ Title :
        /\ ValueLength(i, text[i], unit) \in Nat
        /\ ValueLength(i, text[i], unit) <= Longest(i)
  BY OtherLength DEF Values, Short
<1>4. L[3] \in Nat /\ L[3] <= 13
  BY <1>1, <1>3 DEF Longest, Lines, Line, Fields, Title
<1>5. ASSUME NEW i \in 4 .. 7 PROVE L[i] \in Nat /\ L[i] <= 21
  BY <1>1, <1>3 DEF Longest, Lines, Line, Fields, Title
<1>6. ASSUME NEW i \in 8 .. 10 PROVE L[i] \in Nat /\ L[i] <= 36
  BY <1>1, <1>3 DEF Longest, Lines, Line, Fields, Title
<1>7. L[11] \in Nat /\ L[11] <= 26
  BY <1>1, <1>3 DEF Longest, Lines, Line, Fields, Title
<1>8. ASSUME NEW i \in 12 .. 14 PROVE L[i] \in Nat /\ L[i] <= 24
  BY <1>1, <1>3 DEF Longest, Lines, Line, Fields, Title
<1>9. L[15] \in Nat /\ L[15] <= 43
  BY <1>1, <1>3 DEF Longest, Lines, Line, Fields, Title
<1>10. L[16] \in Nat /\ L[16] <= 17 /\ L[17] \in Nat /\ L[17] <= 17
  BY <1>1, <1>3 DEF Longest, Lines, Line, Fields, Title
<1>11. L[4] \in Nat /\ L[4] <= 21 /\ L[5] \in Nat /\ L[5] <= 21 /\ L[6] \in Nat /\ L[6] <= 21 /\ L[7] \in Nat /\ L[7] <= 21
  BY <1>5
<1>12. L[8] \in Nat /\ L[8] <= 36 /\ L[9] \in Nat /\ L[9] <= 36 /\ L[10] \in Nat /\ L[10] <= 36
  BY <1>6
<1>13. L[12] \in Nat /\ L[12] <= 24 /\ L[13] \in Nat /\ L[13] <= 24 /\ L[14] \in Nat /\ L[14] <= 24
  BY <1>8
<1>14. \A i \in Fields : L[i] \in Nat
  BY <1>2, <1>4, <1>5, <1>6, <1>7, <1>8, <1>9, <1>10 DEF Fields
<1>15. TextLength(text, unit)
         = 5 + L[1] + L[2] + L[3] + L[4] + L[5] + L[6] + L[7] + L[8] + L[9]
             + L[10] + L[11] + L[12] + L[13] + L[14] + L[15] + L[16] + L[17]
  BY <1>14, TextLengthIs DEF L
<1> DEFINE a == L[4] + L[5] + L[6] + L[7]
           b == L[8] + L[9] + L[10]
           c == L[12] + L[13] + L[14]
<1>16. a \in Nat /\ a <= 84
  BY <1>11
<1>17. b \in Nat /\ b <= 108
  BY <1>12
<1>18. c \in Nat /\ c <= 72
  BY <1>13
<1>19. TextLength(text, unit) = 5 + L[1] + L[2] + L[3] + a + b + L[11] + c + L[15] + L[16] + L[17]
  BY <1>2, <1>4, <1>7, <1>9, <1>10, <1>11, <1>12, <1>13, <1>15
<1> HIDE DEF a, b, c
<1> QED  BY <1>2, <1>4, <1>7, <1>9, <1>10, <1>16, <1>17, <1>18, <1>19

(* The longest text with the longest titles fits.                          *)
LEMMA NothingCutHolds == ASSUME IconInv, LengthInv PROVE NothingCut
<1>1. IconTypeOK
  BY DEF IconInv, LengthInv, IconTypeOK, Extent
<1>2. ASSUME file # <<>> PROVE Characters(file) < Capacity /\ Bytes(file) <= Capacity
  <2>1. Values(file) /\ Short(file, LargestText)
    BY <1>2 DEF LengthInv
  <2>2. TitleMax \in Nat \ {0} /\ Capacity \in Nat /\ 405 + 6 * TitleMax <= Capacity
    BY IconConstants, TextAssumption DEF TextAssumption
  <2>3. ASSUME NEW i \in Title
        PROVE  /\ ValueLength(i, file[i], "characters") \in 0 .. TitleMax
               /\ ValueLength(i, file[i], "bytes") \in 0 .. 3 * TitleMax
    <3>1. i \in Fields
      BY ONLY <2>3 DEF Title, Fields
    <3>2. file[i] \in StringType /\ Extent(file[i]) <= TitleMax /\ file[i].width <= 3
      BY <2>1, <3>1 DEF Values, Value, Short
    <3> QED  BY <3>2, TitleLength
  <2>4. TextLength(file, "characters") \in Nat /\ TextLength(file, "characters") <= 405 + 2 * TitleMax
    BY <2>1, <2>2, <2>3, TextFits
  <2>5. TextLength(file, "bytes") \in Nat /\ TextLength(file, "bytes") <= 405 + 2 * (3 * TitleMax)
    <3>1. 3 * TitleMax \in Nat
      BY <2>2
    <3> QED  BY <2>1, <2>3, <3>1, TextFits
  <2> QED  BY <2>2, <2>4, <2>5 DEF Characters, Bytes
<1> QED  BY <1>1, <1>2 DEF NothingCut

(* Whatever the length of a title's array, the text of icon.sys is never   *)
(* cut off if the buffers have room for 405 characters and three bytes for *)
(* each character of the two titles: swprintf has room for its terminator, *)
(* and wcstombs for every byte.                                            *)
THEOREM TextNeverCut == IconSpec => []NothingCut
<1>1. IconInit => IconInv /\ LengthInv
  BY IconInitHolds, LengthInit
<1>2. IconInv /\ LengthInv /\ [IconNext]_iconVars => (IconInv /\ LengthInv)'
  BY IconKeeps, LengthKeeps
<1>3. IconInv /\ LengthInv => NothingCut
  BY NothingCutHolds
<1> QED  BY <1>1, <1>2, <1>3, PTL DEF IconSpec
=============================================================================
