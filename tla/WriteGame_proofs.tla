-------------------------- MODULE WriteGame_proofs --------------------------
(***************************************************************************)
(* Proofs about WriteGame, for every number and size of banks and every    *)
(* length of the image.                                                    *)
(***************************************************************************)
EXTENDS WriteGame, TLAPS

USE BankAssumption
USE DEF BankAssumption, Banks

-----------------------------------------------------------------------------
(* The ring of banks and streams of sectors.                               *)

(* A position that is at most one lap ahead, brought back into the ring.   *)
Wrap(x) == IF x < NBufs THEN x ELSE x - NBufs

(* The code's % never has to take off more than one lap.                   *)
LEMMA WrapMod ==
  ASSUME NEW x \in Nat, x < 2 * NBufs
  PROVE  x % NBufs = Wrap(x)
<1>1. NBufs \in Nat \ {0}
  BY BankAssumption DEF BankAssumption
<1>2. CASE x < NBufs
  <2>1. x % NBufs = x  BY <1>1, <1>2, SMT
  <2> QED  BY <2>1, <1>2 DEF Wrap
<1>3. CASE NBufs <= x
  <2>1. x % NBufs = x - NBufs  BY <1>1, <1>3, SMT
  <2> QED  BY <2>1, <1>1, <1>3 DEF Wrap
<1> QED  BY <1>1, <1>2, <1>3

(* A transfer of at most b banks that starts at bank a and ends inside the *)
(* ring of n banks ends inside its memory.                                 *)
LEMMA RunInRing ==
  ASSUME NEW a \in Nat, NEW b \in Nat, NEW n \in Nat, NEW m \in Nat,
         a + b <= n, NEW s \in Nat, s <= b * m
  PROVE  a * m + s <= n * m
<1>1. a * m + b * m <= n * m
  BY SMT
<1>2. a * m \in Nat /\ b * m \in Nat /\ n * m \in Nat
  BY SMT
<1> QED  BY <1>1, <1>2

LEMMA OneMoreBank ==
  ASSUME NEW b \in Nat, NEW m \in Nat
  PROVE  (b + 1) * m = b * m + m
BY SMT

LEMMA ProductNat ==
  ASSUME NEW b \in Nat, NEW m \in Nat
  PROVE  b * m \in Nat
BY SMT

(* When the banks at the read pointer are gone, what is behind them begins *)
(* where they ended.                                                       *)
LEMMA WrapShift ==
  ASSUME NEW r \in 0 .. NBufs - 1, NEW b \in Nat \ {0}, NEW o \in Nat,
         r + b <= NBufs, o + b <= NBufs
  PROVE  Wrap(Wrap(r + b) + o) = Wrap(r + o + b)
BY BankAssumption DEF BankAssumption, Wrap

(* Products, of which the solver knows little when other facts are around. *)
LEMMA Distribute ==
  ASSUME NEW a \in Nat, NEW b \in Nat, NEW m \in Nat
  PROVE  (a + b) * m = a * m + b * m
BY SMT

LEMMA ProductMonotone ==
  ASSUME NEW a \in Nat, NEW b \in Nat, NEW m \in Nat, a <= b
  PROVE  a * m <= b * m
<1>1. PICK d \in Nat : b = a + d
  BY SMT
<1>2. b * m = a * m + d * m
  BY <1>1, Distribute
<1>3. a * m \in Nat /\ d * m \in Nat
  BY ProductNat
<1> QED  BY <1>2, <1>3

(* Banks do not share cells: a cell of a bank in front of bank w, or of    *)
(* one behind it, is none of w's.                                          *)
LEMMA BankApart ==
  ASSUME NEW b \in Banks, NEW w \in Banks, b # w, NEW j \in 0 .. BufMax - 1
  PROVE  /\ BankStart(b) + j \in Cells
         /\ BankStart(b) + j \notin BankStart(w) .. BankStart(w) + BufMax - 1
<1>1. /\ b * BufMax \in Nat /\ w * BufMax \in Nat /\ NBufs * BufMax \in Nat
      /\ (b + 1) * BufMax = b * BufMax + BufMax
      /\ (w + 1) * BufMax = w * BufMax + BufMax
  BY ProductNat, OneMoreBank
<1>2. (b + 1) * BufMax <= NBufs * BufMax
  BY ProductMonotone
<1>3. CASE b < w
  <2>1. (b + 1) * BufMax <= w * BufMax
    BY <1>3, ProductMonotone
  <2> QED  BY <1>1, <1>2, <2>1 DEF BankStart, Cells
<1>4. CASE w < b
  <2>1. (w + 1) * BufMax <= b * BufMax
    BY <1>4, ProductMonotone
  <2> QED  BY <1>1, <1>2, <2>1 DEF BankStart, Cells
<1> QED  BY <1>3, <1>4

(* The cells of a run of b banks are none of a bank that is not in it.     *)
LEMMA RunApart ==
  ASSUME NEW r \in Nat, NEW b \in Nat, NEW w \in Banks, NEW s \in Nat,
         r + b <= NBufs, s <= b * BufMax, w < r \/ w >= r + b,
         NEW i \in 1 .. s
  PROVE  /\ BankStart(r) + i - 1 \in Cells
         /\ BankStart(r) + i - 1 \notin BankStart(w) .. BankStart(w) + BufMax - 1
<1> DEFINE m == BufMax
<1>1. m \in Nat \ {0} /\ NBufs \in Nat \ {0} /\ w \in Nat /\ i \in Nat /\ 1 <= i /\ i <= s
  OBVIOUS
<1>2. /\ (r + b) * m = r * m + b * m
      /\ (w + 1) * m = w * m + m
      /\ r * m \in Nat /\ w * m \in Nat /\ b * m \in Nat /\ NBufs * m \in Nat
  BY <1>1, Distribute, OneMoreBank, ProductNat
<1>3. (r + b) * m <= NBufs * m
  BY <1>1, ProductMonotone
<1>4. r * m + i - 1 \in 0 .. NBufs * m - 1
  BY <1>1, <1>2, <1>3
<1>5. CASE w < r
  <2>1. (w + 1) * m <= r * m
    BY <1>1, <1>5, ProductMonotone
  <2> QED  BY <1>1, <1>2, <1>4, <2>1 DEF BankStart, Cells
<1>6. CASE w >= r + b
  <2>1. (r + b) * m <= w * m
    BY <1>1, <1>6, ProductMonotone
  <2> QED  BY <1>1, <1>2, <1>4, <2>1 DEF BankStart, Cells
<1> QED  BY <1>5, <1>6

(* A stream of sectors goes on with those of a transfer, in order.         *)
LEMMA StreamGoesOn ==
  ASSUME NEW d \in Seq(Nat), NEW c \in Seq(Nat),
         d = [i \in 1 .. Len(d) |-> i], c = [i \in 1 .. Len(c) |-> Len(d) + i]
  PROVE  d \o c = [i \in 1 .. Len(d \o c) |-> i]
<1>1. /\ d \o c \in Seq(Nat) /\ Len(d \o c) = Len(d) + Len(c)
      /\ \A i \in 1 .. Len(d) : (d \o c)[i] = d[i]
      /\ \A i \in Len(d) + 1 .. Len(d) + Len(c) : (d \o c)[i] = c[i - Len(d)]
      /\ Len(d) \in Nat /\ Len(c) \in Nat
  OBVIOUS
<1>2. ASSUME NEW i \in 1 .. Len(d) + Len(c)
      PROVE  (d \o c)[i] = i
  <2>1. CASE i <= Len(d)
    BY <1>1, <2>1
  <2>2. CASE i > Len(d)
    <3>1. i - Len(d) \in 1 .. Len(c) /\ i \in Len(d) + 1 .. Len(d) + Len(c)
      BY <1>1, <2>2
    <3> QED  BY <1>1, <3>1
  <2> QED  BY <1>1, <2>1, <2>2
<1> DEFINE e == d \o c
<1>3. /\ e \in Seq(Nat) /\ Len(e) = Len(d) + Len(c)
      /\ \A i \in 1 .. Len(d) + Len(c) : e[i] = i
  BY <1>1, <1>2
<1> HIDE DEF e
<1>4. e = [i \in 1 .. Len(e) |-> i]
  BY ONLY <1>3
<1> QED  BY <1>4 DEF e

-----------------------------------------------------------------------------
(* The inductive invariant.                                                *)

(* Banks that the I/O thread took and has not written. *)
Taken == IF ioPc = "release" THEN 0 ELSE ioBanks

(* The two pointers are as far apart as there is data between them.        *)
RingInv == WritePtr = Wrap(ReadPtr + outBuf + Taken)

(* What the I/O thread has in hand, place by place.                        *)
ThreadInv ==
  /\ ioPc \in {"asleep", "poll"} => ioBanks = 0 /\ ioSectors = 0
  /\ ioPc \in {"gather", "transfer"} =>
       /\ ioBanks > 0
       /\ ReadPtr + ioBanks <= NBufs
       /\ ioSectors <= ioBanks * BufMax
  /\ ioPc = "poll" => ioMode \in {"WRITE", "WRITE_END"}
  /\ command \in {"NONE", "WRITE", "WRITE_END"}
  /\ wake > 0 => command # "NONE"

(* The acknowledgement is given once, by a thread that is finished.        *)
AckInv ==
  /\ cmdAck > 0 => ioPc \in {"acked", "exited"}
  /\ dtPc \in {"free", "done"} => ioPc \in {"acked", "exited"}

(* How much was handed over and how much is left, place by place.          *)
LoopInv ==
  /\ dtPc \in {"loop", "receive", "signal"} => sent + remaining = Total
  /\ dtPc \in {"exec", "check"} => sent + remaining = Total + NextLen
  /\ dtPc \in {"receive", "signal", "exec", "check"} => remaining > 0

IInv == TypeOK /\ BankConservation /\ RingInv /\ ThreadInv /\ AckInv /\ LoopInv

(* A write of the I/O thread stays inside the memory of the ring.          *)
LEMMA TransferInRing ==
  ASSUME IInv, ioPc = "transfer"
  PROVE  Contents(ReadPtr, ioSectors) \in Seq(Nat)
<1>1. /\ NBufs \in Nat /\ BufMax \in Nat
      /\ ReadPtr \in Nat /\ ioBanks \in Nat /\ ioSectors \in Nat
      /\ mem \in [Cells -> Nat]
  BY BankAssumption DEF BankAssumption, IInv, TypeOK, BankTypeOK, Banks
<1>2. ReadPtr * BufMax + ioSectors <= NBufs * BufMax
  BY <1>1, RunInRing DEF IInv, ThreadInv
<1>3. ReadPtr * BufMax \in Nat /\ NBufs * BufMax \in Nat
  BY <1>1, ProductNat
<1>4. \A k \in 1 .. ioSectors : ReadPtr * BufMax + k - 1 \in Cells
  BY <1>1, <1>2, <1>3 DEF Cells
<1>5. Contents(ReadPtr, ioSectors) \in [1 .. ioSectors -> Nat]
  BY <1>1, <1>4 DEF Contents, BankStart
<1> QED  BY <1>1, <1>5

-----------------------------------------------------------------------------
(* Every step keeps the invariant: one lemma per action, one step per        *)
(* conjunct.                                                               *)
USE BankAssumption, TotalAssumption
USE DEF BankAssumption, TotalAssumption, Banks, Commands, Places, DataPlaces,
        ringVars, semaVars, threadVars, writerVars, callerVars

LEMMA GetBufferKeeps ==
  ASSUME IInv, GetBuffer
  PROVE  IInv'
<1> USE DEF IInv, GetBuffer, IOGetNextWrBuffer
<1>1. TypeOK'
  BY DEF TypeOK, BankTypeOK, BankConservation, HoldsBank, NextLen
<1>2. BankConservation'
  BY DEF TypeOK, BankTypeOK, BankConservation, HoldsBank, LoopInv, NextLen
<1>3. RingInv'
  BY DEF TypeOK, BankTypeOK, RingInv, Taken
<1>4. ThreadInv'
  BY DEF TypeOK, BankTypeOK, ThreadInv, NextLen
<1>5. AckInv'
  BY DEF AckInv
<1>6. LoopInv'
  BY DEF TypeOK, BankTypeOK, LoopInv, NextLen
<1> QED  BY <1>1, <1>2, <1>3, <1>4, <1>5, <1>6

LEMMA ReceiveBankKeeps ==
  ASSUME IInv, ReceiveBank
  PROVE  IInv'
<1> USE DEF IInv, ReceiveBank, FillBank
<1>1. TypeOK'
  <2>1. mem' \in [Cells -> Nat]
    BY ProductNat DEF TypeOK, BankTypeOK, BankStart
  <2> QED  BY <2>1 DEF TypeOK, BankTypeOK, NextLen
<1>2. BankConservation'
  BY DEF TypeOK, BankTypeOK, BankConservation, HoldsBank, LoopInv, NextLen
<1>3. RingInv'
  BY DEF TypeOK, BankTypeOK, RingInv, Taken
<1>4. ThreadInv'
  BY DEF TypeOK, BankTypeOK, ThreadInv, NextLen
<1>5. AckInv'
  BY DEF AckInv
<1>6. LoopInv'
  BY DEF TypeOK, BankTypeOK, LoopInv, NextLen
<1> QED  BY <1>1, <1>2, <1>3, <1>4, <1>5, <1>6

LEMMA ReceiveFailsKeeps ==
  ASSUME IInv, ReceiveFails
  PROVE  IInv'
<1> USE DEF IInv, ReceiveFails, FillBank
<1>1. TypeOK'
  <2>1. mem' \in [Cells -> Nat]
    BY ProductNat DEF TypeOK, BankTypeOK, BankStart
  <2> QED  BY <2>1 DEF TypeOK, BankTypeOK, NextLen
<1>2. BankConservation'
  BY DEF TypeOK, BankTypeOK, BankConservation, HoldsBank, LoopInv, NextLen
<1>3. RingInv'
  BY DEF TypeOK, BankTypeOK, RingInv, Taken
<1>4. ThreadInv'
  BY DEF TypeOK, BankTypeOK, ThreadInv, NextLen
<1>5. AckInv'
  BY DEF AckInv
<1>6. LoopInv'
  BY DEF TypeOK, BankTypeOK, LoopInv, NextLen
<1> QED  BY <1>1, <1>2, <1>3, <1>4, <1>5, <1>6

LEMMA SignalBankKeeps ==
  ASSUME IInv, SignalBank
  PROVE  IInv'
<1> USE DEF IInv, SignalBank, IOSignalWriteDone
<1>1. TypeOK'
  BY DEF TypeOK, BankTypeOK, BankConservation, HoldsBank, NextLen
<1>2. BankConservation'
  BY DEF TypeOK, BankTypeOK, BankConservation, HoldsBank, LoopInv, NextLen
<1>3. RingInv'
  <2>1. WritePtr' = Wrap(WritePtr + 1)
    BY WrapMod DEF TypeOK, BankTypeOK
  <2>2. outBuf + Taken < NBufs
    BY DEF TypeOK, BankTypeOK, BankConservation, HoldsBank, Taken
  <2> QED  BY <2>1, <2>2 DEF TypeOK, BankTypeOK, RingInv, Taken, Wrap
<1>4. ThreadInv'
  BY DEF TypeOK, BankTypeOK, ThreadInv, NextLen
<1>5. AckInv'
  BY DEF AckInv
<1>6. LoopInv'
  BY DEF TypeOK, BankTypeOK, LoopInv, NextLen
<1> QED  BY <1>1, <1>2, <1>3, <1>4, <1>5, <1>6

LEMMA ExecBankKeeps ==
  ASSUME IInv, ExecBank
  PROVE  IInv'
<1> USE DEF IInv, ExecBank, ExecWrite, IOExecCmd
<1>1. TypeOK'
  BY DEF TypeOK, BankTypeOK, BankConservation, HoldsBank, NextLen
<1>2. BankConservation'
  BY DEF TypeOK, BankTypeOK, BankConservation, HoldsBank, LoopInv, NextLen
<1>3. RingInv'
  BY DEF TypeOK, BankTypeOK, RingInv, Taken
<1>4. ThreadInv'
  BY DEF TypeOK, BankTypeOK, ThreadInv, NextLen
<1>5. AckInv'
  BY DEF AckInv
<1>6. LoopInv'
  BY DEF TypeOK, BankTypeOK, LoopInv, NextLen
<1> QED  BY <1>1, <1>2, <1>3, <1>4, <1>5, <1>6

LEMMA CheckStatusKeeps ==
  ASSUME IInv, CheckStatus
  PROVE  IInv'
<1> USE DEF IInv, CheckStatus
<1>1. TypeOK'
  BY DEF TypeOK, BankTypeOK, BankConservation, HoldsBank, NextLen
<1>2. BankConservation'
  BY DEF TypeOK, BankTypeOK, BankConservation, HoldsBank, LoopInv, NextLen
<1>3. RingInv'
  BY DEF TypeOK, BankTypeOK, RingInv, Taken
<1>4. ThreadInv'
  BY DEF TypeOK, BankTypeOK, ThreadInv, NextLen
<1>5. AckInv'
  BY DEF AckInv
<1>6. LoopInv'
  <2>1. CASE state = "ERROR"
    BY <2>1 DEF LoopInv, NextLen
  <2>2. CASE state # "ERROR"
    <3>1. /\ sent + remaining = Total + NextLen
          /\ sent' = sent
          /\ remaining' = remaining - NextLen
          /\ dtPc' = "loop"
      BY <2>2 DEF LoopInv
    <3>2. sent \in Nat /\ remaining \in Nat /\ NextLen \in Nat /\ Total \in Nat
      BY DEF TypeOK, NextLen, BankTypeOK
    <3>3. sent' + remaining' = Total
      BY ONLY <3>1, <3>2
    <3> QED  BY <3>1, <3>3 DEF LoopInv
  <2> QED  BY <2>1, <2>2
<1> QED  BY <1>1, <1>2, <1>3, <1>4, <1>5, <1>6

LEMMA LoopEndsKeeps ==
  ASSUME IInv, LoopEnds
  PROVE  IInv'
<1> USE DEF IInv, LoopEnds
<1>1. TypeOK'
  BY DEF TypeOK, BankTypeOK, BankConservation, HoldsBank, NextLen
<1>2. BankConservation'
  BY DEF TypeOK, BankTypeOK, BankConservation, HoldsBank, LoopInv, NextLen
<1>3. RingInv'
  BY DEF TypeOK, BankTypeOK, RingInv, Taken
<1>4. ThreadInv'
  BY DEF TypeOK, BankTypeOK, ThreadInv, NextLen
<1>5. AckInv'
  BY DEF AckInv
<1>6. LoopInv'
  BY DEF TypeOK, BankTypeOK, LoopInv, NextLen
<1> QED  BY <1>1, <1>2, <1>3, <1>4, <1>5, <1>6

LEMMA ExecEndKeeps ==
  ASSUME IInv, ExecEnd
  PROVE  IInv'
<1> USE DEF IInv, ExecEnd, ExecWrite, IOExecCmd
<1>1. TypeOK'
  BY DEF TypeOK, BankTypeOK, BankConservation, HoldsBank, NextLen
<1>2. BankConservation'
  BY DEF TypeOK, BankTypeOK, BankConservation, HoldsBank, LoopInv, NextLen
<1>3. RingInv'
  BY DEF TypeOK, BankTypeOK, RingInv, Taken
<1>4. ThreadInv'
  BY DEF TypeOK, BankTypeOK, ThreadInv, NextLen
<1>5. AckInv'
  BY DEF AckInv
<1>6. LoopInv'
  BY DEF TypeOK, BankTypeOK, LoopInv, NextLen
<1> QED  BY <1>1, <1>2, <1>3, <1>4, <1>5, <1>6

LEMMA EndReturnsKeeps ==
  ASSUME IInv, EndReturns
  PROVE  IInv'
<1> USE DEF IInv, EndReturns, IOEndWriteReturns
<1>1. TypeOK'
  BY DEF TypeOK, BankTypeOK, BankConservation, HoldsBank, NextLen
<1>2. BankConservation'
  BY DEF TypeOK, BankTypeOK, BankConservation, HoldsBank, LoopInv, NextLen
<1>3. RingInv'
  BY DEF TypeOK, BankTypeOK, RingInv, Taken
<1>4. ThreadInv'
  BY DEF TypeOK, BankTypeOK, ThreadInv, NextLen
<1>5. AckInv'
  BY DEF AckInv
<1>6. LoopInv'
  BY DEF TypeOK, BankTypeOK, LoopInv, NextLen
<1> QED  BY <1>1, <1>2, <1>3, <1>4, <1>5, <1>6

LEMMA FreeBanksKeeps ==
  ASSUME IInv, FreeBanks
  PROVE  IInv'
<1> USE DEF IInv, FreeBanks
<1>1. TypeOK'
  BY DEF TypeOK, BankTypeOK, BankConservation, HoldsBank, NextLen
<1>2. BankConservation'
  BY DEF TypeOK, BankTypeOK, BankConservation, HoldsBank, LoopInv, NextLen
<1>3. RingInv'
  BY DEF TypeOK, BankTypeOK, RingInv, Taken
<1>4. ThreadInv'
  BY DEF TypeOK, BankTypeOK, ThreadInv, NextLen
<1>5. AckInv'
  BY DEF AckInv
<1>6. LoopInv'
  BY DEF TypeOK, BankTypeOK, LoopInv, NextLen
<1> QED  BY <1>1, <1>2, <1>3, <1>4, <1>5, <1>6

LEMMA IOThreadWakeKeeps ==
  ASSUME IInv, IOThreadWake /\ UNCHANGED disk /\ UNCHANGED callerVars
  PROVE  IInv'
<1> USE DEF IInv, IOThreadWake
<1>1. TypeOK'
  BY DEF TypeOK, BankTypeOK, BankConservation, HoldsBank, NextLen, AckInv
<1>2. BankConservation'
  BY DEF TypeOK, BankTypeOK, BankConservation, HoldsBank, LoopInv, NextLen, ThreadInv
<1>3. RingInv'
  BY DEF TypeOK, BankTypeOK, RingInv, Taken, ThreadInv
<1>4. ThreadInv'
  BY DEF TypeOK, BankTypeOK, ThreadInv, NextLen
<1>5. AckInv'
  BY DEF AckInv, ThreadInv
<1>6. LoopInv'
  BY DEF TypeOK, BankTypeOK, LoopInv, NextLen
<1> QED  BY <1>1, <1>2, <1>3, <1>4, <1>5, <1>6

LEMMA IOThreadFailKeeps ==
  ASSUME IInv, IOThreadFail /\ UNCHANGED disk /\ UNCHANGED callerVars
  PROVE  IInv'
<1> USE DEF IInv, IOThreadFail
<1>1. TypeOK'
  BY DEF TypeOK, BankTypeOK, BankConservation, HoldsBank, NextLen, AckInv
<1>2. BankConservation'
  BY DEF TypeOK, BankTypeOK, BankConservation, HoldsBank, LoopInv, NextLen, ThreadInv
<1>3. RingInv'
  BY DEF TypeOK, BankTypeOK, RingInv, Taken, ThreadInv
<1>4. ThreadInv'
  BY DEF TypeOK, BankTypeOK, ThreadInv, NextLen
<1>5. AckInv'
  BY DEF AckInv, ThreadInv
<1>6. LoopInv'
  BY DEF TypeOK, BankTypeOK, LoopInv, NextLen
<1> QED  BY <1>1, <1>2, <1>3, <1>4, <1>5, <1>6

LEMMA IOThreadExitKeeps ==
  ASSUME IInv, IOThreadExit /\ UNCHANGED disk /\ UNCHANGED callerVars
  PROVE  IInv'
<1> USE DEF IInv, IOThreadExit
<1>1. TypeOK'
  BY DEF TypeOK, BankTypeOK, BankConservation, HoldsBank, NextLen
<1>2. BankConservation'
  BY DEF TypeOK, BankTypeOK, BankConservation, HoldsBank, LoopInv, NextLen, ThreadInv
<1>3. RingInv'
  BY DEF TypeOK, BankTypeOK, RingInv, Taken, ThreadInv
<1>4. ThreadInv'
  BY DEF TypeOK, BankTypeOK, ThreadInv, NextLen
<1>5. AckInv'
  BY DEF AckInv, ThreadInv
<1>6. LoopInv'
  BY DEF TypeOK, BankTypeOK, LoopInv, NextLen
<1> QED  BY <1>1, <1>2, <1>3, <1>4, <1>5, <1>6

LEMMA TakeBankKeeps ==
  ASSUME IInv, TakeBank /\ UNCHANGED callerVars
  PROVE  IInv'
<1> USE DEF IInv, TakeBank
<1>1. TypeOK'
  BY DEF TypeOK, BankTypeOK, BankConservation, HoldsBank, NextLen
<1>2. BankConservation'
  BY DEF TypeOK, BankTypeOK, BankConservation, HoldsBank, LoopInv, NextLen, ThreadInv
<1>3. RingInv'
  BY DEF TypeOK, BankTypeOK, RingInv, Taken, ThreadInv
<1>4. ThreadInv'
  BY DEF TypeOK, BankTypeOK, ThreadInv, NextLen
<1>5. AckInv'
  BY DEF AckInv, ThreadInv
<1>6. LoopInv'
  BY DEF TypeOK, BankTypeOK, LoopInv, NextLen
<1> QED  BY <1>1, <1>2, <1>3, <1>4, <1>5, <1>6

LEMMA NothingToWriteKeeps ==
  ASSUME IInv, NothingToWrite /\ UNCHANGED callerVars
  PROVE  IInv'
<1> USE DEF IInv, NothingToWrite
<1>1. TypeOK'
  BY DEF TypeOK, BankTypeOK, BankConservation, HoldsBank, NextLen, AckInv
<1>2. BankConservation'
  BY DEF TypeOK, BankTypeOK, BankConservation, HoldsBank, LoopInv, NextLen, ThreadInv
<1>3. RingInv'
  BY DEF TypeOK, BankTypeOK, RingInv, Taken, ThreadInv
<1>4. ThreadInv'
  BY DEF TypeOK, BankTypeOK, ThreadInv, NextLen
<1>5. AckInv'
  BY DEF AckInv, ThreadInv
<1>6. LoopInv'
  BY DEF TypeOK, BankTypeOK, LoopInv, NextLen
<1> QED  BY <1>1, <1>2, <1>3, <1>4, <1>5, <1>6

LEMMA GatherBankKeeps ==
  ASSUME IInv, GatherBank /\ UNCHANGED callerVars
  PROVE  IInv'
<1> USE DEF IInv, GatherBank
<1>1. TypeOK'
  BY DEF TypeOK, BankTypeOK, BankConservation, HoldsBank, NextLen
<1>2. BankConservation'
  BY DEF TypeOK, BankTypeOK, BankConservation, HoldsBank, LoopInv, NextLen, ThreadInv
<1>3. RingInv'
  BY DEF TypeOK, BankTypeOK, RingInv, Taken, ThreadInv
<1>4. ThreadInv'
  BY OneMoreBank DEF TypeOK, BankTypeOK, ThreadInv, NextLen
<1>5. AckInv'
  BY DEF AckInv, ThreadInv
<1>6. LoopInv'
  BY DEF TypeOK, BankTypeOK, LoopInv, NextLen
<1> QED  BY <1>1, <1>2, <1>3, <1>4, <1>5, <1>6

LEMMA GatherDoneKeeps ==
  ASSUME IInv, GatherDone /\ UNCHANGED callerVars
  PROVE  IInv'
<1> USE DEF IInv, GatherDone
<1>1. TypeOK'
  BY DEF TypeOK, BankTypeOK, BankConservation, HoldsBank, NextLen
<1>2. BankConservation'
  BY DEF TypeOK, BankTypeOK, BankConservation, HoldsBank, LoopInv, NextLen, ThreadInv
<1>3. RingInv'
  BY DEF TypeOK, BankTypeOK, RingInv, Taken, ThreadInv
<1>4. ThreadInv'
  BY DEF TypeOK, BankTypeOK, ThreadInv, NextLen
<1>5. AckInv'
  BY DEF AckInv, ThreadInv
<1>6. LoopInv'
  BY DEF TypeOK, BankTypeOK, LoopInv, NextLen
<1> QED  BY <1>1, <1>2, <1>3, <1>4, <1>5, <1>6

LEMMA WriteBanksKeeps ==
  ASSUME IInv, WriteBanks /\ UNCHANGED callerVars
  PROVE  IInv'
<1> USE DEF IInv, WriteBanks
<1>1. TypeOK'
  <2>1. ReadPtr' \in Banks
    BY WrapMod DEF TypeOK, BankTypeOK, Wrap
  <2>2. disk' \in Seq(Nat)
    BY TransferInRing DEF TypeOK
  <2> QED  BY <2>1, <2>2 DEF TypeOK, BankTypeOK
<1>2. BankConservation'
  BY DEF TypeOK, BankTypeOK, BankConservation, HoldsBank, LoopInv, NextLen, ThreadInv
<1>3. RingInv'
  <2>1. ReadPtr' = Wrap(ReadPtr + ioBanks)
    BY WrapMod DEF TypeOK, BankTypeOK
  <2>2. /\ ReadPtr \in 0 .. NBufs - 1
        /\ ioBanks \in Nat \ {0}
        /\ outBuf \in Nat
        /\ ReadPtr + ioBanks <= NBufs
        /\ outBuf + ioBanks <= NBufs
    BY DEF TypeOK, BankTypeOK, BankConservation, ThreadInv
  <2>3. Wrap(Wrap(ReadPtr + ioBanks) + outBuf) = Wrap(ReadPtr + outBuf + ioBanks)
    BY ONLY <2>2, WrapShift
  <2>4. ReadPtr' \in Nat
    BY <2>1, <2>2 DEF Wrap
  <2> QED  BY <2>1, <2>2, <2>3, <2>4 DEF RingInv, Taken
<1>4. ThreadInv'
  BY DEF TypeOK, BankTypeOK, ThreadInv, NextLen
<1>5. AckInv'
  BY DEF AckInv, ThreadInv
<1>6. LoopInv'
  BY DEF TypeOK, BankTypeOK, LoopInv, NextLen
<1> QED  BY <1>1, <1>2, <1>3, <1>4, <1>5, <1>6

LEMMA ReleaseBankKeeps ==
  ASSUME IInv, ReleaseBank /\ UNCHANGED callerVars
  PROVE  IInv'
<1> USE DEF IInv, ReleaseBank
<1>1. TypeOK'
  BY DEF TypeOK, BankTypeOK, BankConservation, HoldsBank, NextLen
<1>2. BankConservation'
  BY DEF TypeOK, BankTypeOK, BankConservation, HoldsBank, LoopInv, NextLen, ThreadInv
<1>3. RingInv'
  BY DEF TypeOK, BankTypeOK, RingInv, Taken, ThreadInv, BankConservation, HoldsBank
<1>4. ThreadInv'
  BY DEF TypeOK, BankTypeOK, ThreadInv, NextLen
<1>5. AckInv'
  BY DEF AckInv, ThreadInv
<1>6. LoopInv'
  BY DEF TypeOK, BankTypeOK, LoopInv, NextLen
<1> QED  BY <1>1, <1>2, <1>3, <1>4, <1>5, <1>6

LEMMA WriteNextReturnsKeeps ==
  ASSUME IInv, WriteNextReturns /\ UNCHANGED callerVars
  PROVE  IInv'
<1> USE DEF IInv, WriteNextReturns
<1>1. TypeOK'
  BY DEF TypeOK, BankTypeOK, BankConservation, HoldsBank, NextLen
<1>2. BankConservation'
  BY DEF TypeOK, BankTypeOK, BankConservation, HoldsBank, LoopInv, NextLen, ThreadInv
<1>3. RingInv'
  BY DEF TypeOK, BankTypeOK, RingInv, Taken, ThreadInv
<1>4. ThreadInv'
  BY DEF TypeOK, BankTypeOK, ThreadInv, NextLen
<1>5. AckInv'
  BY DEF AckInv, ThreadInv
<1>6. LoopInv'
  BY DEF TypeOK, BankTypeOK, LoopInv, NextLen
<1> QED  BY <1>1, <1>2, <1>3, <1>4, <1>5, <1>6

LEMMA InitHolds == Init => IInv
BY DEF Init, IOWriteInit, IOInitCommon, IInv, TypeOK, BankTypeOK, Cells,
       BankConservation, HoldsBank, RingInv, Taken, Wrap, ThreadInv, AckInv, LoopInv

(* The invariant is inductive.                                             *)
LEMMA NextKeeps ==
  ASSUME IInv, [Next]_vars
  PROVE  IInv'
<1>1. CASE DataThread
  BY <1>1, GetBufferKeeps, ReceiveBankKeeps, ReceiveFailsKeeps, SignalBankKeeps,
     ExecBankKeeps, CheckStatusKeeps, LoopEndsKeeps, ExecEndKeeps, EndReturnsKeeps,
     FreeBanksKeeps DEF DataThread
<1>2. CASE IOThread
  BY <1>2, IOThreadWakeKeeps, IOThreadFailKeeps, IOThreadExitKeeps, TakeBankKeeps,
     NothingToWriteKeeps, GatherBankKeeps, GatherDoneKeeps, WriteBanksKeeps,
     ReleaseBankKeeps, WriteNextReturnsKeeps DEF IOThread, WriterThread
<1>3. CASE UNCHANGED vars
  BY <1>3 DEF vars, IInv, TypeOK, BankTypeOK, BankConservation, HoldsBank, RingInv,
              Taken, ThreadInv, AckInv, LoopInv, NextLen
<1> QED  BY <1>1, <1>2, <1>3 DEF Next

THEOREM Invariance == Spec => []IInv
BY InitHolds, NextKeeps, PTL DEF Spec

-----------------------------------------------------------------------------
(* What follows from it.                                                   *)

(* Every variable of the ring, the I/O thread and the data thread keeps    *)
(* its type: no semaphore exceeds its maximum, no pointer leaves the ring. *)
THEOREM TypeCorrect == Spec => []TypeOK
<1>1. IInv => TypeOK  BY DEF IInv
<1> QED  BY <1>1, Invariance, PTL

(* No bank is ever lost or made up.                                        *)
THEOREM BanksConserved == Spec => []BankConservation
<1>1. IInv => BankConservation  BY DEF IInv
<1> QED  BY <1>1, Invariance, PTL

(* The data thread never receives into a bank whose data the I/O thread    *)
(* has yet to write or is writing.                                         *)
THEOREM BanksDisjoint == Spec => []NoBankOverlap
<1>1. ASSUME IInv, HoldsBank, NEW k \in 0 .. Undelivered - 1
      PROVE  (ReadPtr + k) % NBufs # WritePtr
  <2>1. outBuf + ioBanks < NBufs
    BY <1>1 DEF IInv, TypeOK, BankTypeOK, BankConservation
  <2>2. /\ ReadPtr \in 0 .. NBufs - 1
        /\ outBuf \in Nat
        /\ Taken \in Nat
        /\ outBuf + Taken < NBufs
    BY <1>1, <2>1 DEF IInv, TypeOK, BankTypeOK, Taken
  <2>3. k \in Nat /\ k < outBuf + Taken
    BY <1>1, <2>2 DEF IInv, TypeOK, BankTypeOK, Undelivered, Taken
  <2>4. (ReadPtr + k) % NBufs = Wrap(ReadPtr + k)
    BY <2>2, <2>3, WrapMod
  <2>5. WritePtr = Wrap(ReadPtr + outBuf + Taken)
    BY <1>1 DEF IInv, RingInv
  <2> QED  BY <2>2, <2>3, <2>4, <2>5 DEF Wrap
<1>2. IInv => NoBankOverlap  BY <1>1 DEF NoBankOverlap
<1> QED  BY <1>2, Invariance, PTL

(* When the data thread frees the banks and the semaphores, the I/O thread *)
(* has stopped using them.                                                 *)
THEOREM FreedWhenUnused == Spec => []NoUseAfterFree
<1>1. IInv => NoUseAfterFree  BY DEF IInv, AckInv, NoUseAfterFree
<1> QED  BY <1>1, Invariance, PTL
-----------------------------------------------------------------------------
(* What is in the banks and on the disk.                                   *)

(* Banks that were handed over and are not on the disk, and the sectors of *)
(* the image in front of the k-th of them.  All but the last are full.     *)
Ahead == outBuf + Taken
First(k) == Len(disk) + k * BufMax
Held(k) == IF k = Ahead - 1 THEN sent - First(k) ELSE BufMax

(* Bank b was given n sectors, those that come after the first ones.       *)
Holds(b, n, first) ==
  /\ bd[b] = n
  /\ \A j \in 0 .. n - 1 : mem[BankStart(b) + j] = first + j + 1

(* Every bank that was handed over is full, but for the last of the image; *)
(* and so the sectors of a run are those of its banks.                     *)
AmountInv ==
  /\ Ahead = 0 => sent = Len(disk)
  /\ Ahead > 0 => sent > First(Ahead - 1) /\ sent <= First(Ahead)
  /\ sent < First(Ahead) => sent = Total
  /\ ioPc \in {"gather", "transfer"} =>
       ioSectors = IF outBuf = 0 THEN sent - Len(disk) ELSE ioBanks * BufMax

(* The disk holds the beginning of the image.                              *)
DiskInv == disk = [i \in 1 .. Len(disk) |-> i]

(* The banks that wait hold what comes next, in the order of the ring; so  *)
(* does the run in hand, and the bank about to be handed over.             *)
WaitingInv ==
  ioPc \notin {"acked", "exited"} =>
    \A k \in Taken .. Ahead - 1 : Holds(Wrap(ReadPtr + k), Held(k), First(k))
RunInv ==
  ioPc \in {"gather", "transfer"} =>
    \A i \in 1 .. ioSectors : mem[BankStart(ReadPtr) + i - 1] = Len(disk) + i
FilledInv ==
  dtPc = "signal" =>
    \A j \in 0 .. NextLen - 1 : mem[BankStart(WritePtr) + j] = sent + j + 1

(* WRITE_END is given last, and answered without an error only when there  *)
(* is nothing left to write.                                               *)
EndInv ==
  /\ command = "WRITE_END" \/ ioMode = "WRITE_END" => dtPc \in {"wait", "free", "done"}
  /\ ioPc \in {"acked", "exited"} /\ state = "OK" =>
       Ahead = 0 /\ dtPc \in {"wait", "free", "done"}
  /\ state = "ERROR" => ioPc \in {"acked", "exited"}
  /\ ended # "open" <=> dtPc \in {"free", "done"}
  /\ ended = "OK" => state = "OK"
  /\ dtPc \in {"close", "wait", "free", "done"} /\ remaining = 0 => sent = Total

CInv == AmountInv /\ DiskInv /\ WaitingInv /\ RunInv /\ FilledInv /\ EndInv

(* Types of what the parts of the invariant speak of.                      *)
LEMMA Kinds ==
  ASSUME IInv
  PROVE  /\ NBufs \in Nat \ {0} /\ BufMax \in Nat \ {0} /\ Total \in Nat
         /\ outBuf \in Nat /\ Taken \in Nat /\ Ahead \in Nat
         /\ Ahead + (IF HoldsBank THEN 1 ELSE 0) <= NBufs
         /\ ReadPtr \in 0 .. NBufs - 1 /\ WritePtr \in 0 .. NBufs - 1
         /\ ioBanks \in Nat /\ ioSectors \in Nat
         /\ sent \in Nat /\ Len(disk) \in Nat /\ NextLen \in 0 .. BufMax
         /\ disk \in Seq(Nat)
BY DEF IInv, TypeOK, BankTypeOK, BankConservation, Taken, Ahead, NextLen, HoldsBank

(* A step that moves no bank and no data keeps what is in them.            *)
LEMMA DataStays ==
  ASSUME IInv, CInv,
         UNCHANGED <<mem, bd, WritePtr, ReadPtr, outBuf, disk, sent>>,
         Taken' = Taken,
         ioPc \in {"acked", "exited"} => ioPc' \in {"acked", "exited"},
         ioPc' \in {"gather", "transfer"} =>
           ioPc \in {"gather", "transfer"} /\ ioSectors' = ioSectors /\ ioBanks' = ioBanks,
         dtPc' = "signal" => dtPc = "signal" /\ remaining' = remaining
  PROVE  AmountInv' /\ DiskInv' /\ WaitingInv' /\ RunInv' /\ FilledInv'
<1>1. /\ Ahead' = Ahead
      /\ \A k : First(k)' = First(k)
      /\ \A k : Held(k)' = Held(k)
      /\ \A b, n, first : Holds(b, n, first)' = Holds(b, n, first)
  BY DEF Ahead, First, Held, Holds, BankStart
<1>2. AmountInv'
  BY <1>1 DEF CInv, AmountInv
<1>3. DiskInv'
  BY DEF CInv, DiskInv
<1>4. WaitingInv'
  BY <1>1 DEF CInv, WaitingInv, Wrap, First, Held, Holds, BankStart, Ahead
<1>5. RunInv'
  BY DEF CInv, RunInv, BankStart
<1>6. FilledInv'
  BY DEF CInv, FilledInv, NextLen, BankStart
<1> QED  BY <1>2, <1>3, <1>4, <1>5, <1>6

(* The banks that wait are not the one that the data thread fills, nor is  *)
(* any bank of the run in hand.                                            *)
LEMMA WaitingApart ==
  ASSUME IInv, HoldsBank, NEW k \in 0 .. Ahead - 1
  PROVE  Wrap(ReadPtr + k) \in Banks /\ Wrap(ReadPtr + k) # WritePtr
<1>1. /\ ReadPtr \in 0 .. NBufs - 1 /\ k \in Nat /\ Ahead \in Nat
      /\ k < Ahead /\ Ahead < NBufs
  BY Kinds, SMTT(30)
<1>2. WritePtr = Wrap(ReadPtr + Ahead)
  BY Kinds, SMTT(30) DEF IInv, RingInv, Ahead
<1> QED  BY ONLY <1>1, <1>2, BankAssumption DEF Wrap, Banks, BankAssumption

LEMMA InRunApart ==
  ASSUME IInv, HoldsBank, ioPc \in {"gather", "transfer"}, NEW i \in 1 .. ioSectors
  PROVE  /\ BankStart(ReadPtr) + i - 1 \in Cells
         /\ BankStart(ReadPtr) + i - 1 \notin
              BankStart(WritePtr) .. BankStart(WritePtr) + BufMax - 1
<1>1. /\ ReadPtr \in Nat /\ WritePtr \in Banks
      /\ ioBanks \in Nat /\ ioSectors \in Nat
      /\ ReadPtr + ioBanks <= NBufs /\ ioSectors <= ioBanks * BufMax
  BY Kinds DEF IInv, ThreadInv
<1>2. WritePtr < ReadPtr \/ WritePtr >= ReadPtr + ioBanks
  <2>1. /\ Ahead \in Nat /\ Ahead < NBufs /\ ioBanks <= Ahead
        /\ ReadPtr \in 0 .. NBufs - 1
    BY Kinds, SMTT(30) DEF Taken, Ahead
  <2>2. WritePtr = Wrap(ReadPtr + Ahead)
    BY Kinds, SMTT(30) DEF IInv, RingInv, Ahead
  <2> QED  BY <1>1, <2>1, <2>2 DEF Wrap
<1> QED  BY <1>1, <1>2, RunApart

-----------------------------------------------------------------------------
(* The steps that move data.                                               *)

(* Filling the bank at WritePtr leaves every bank that was handed over.    *)
LEMMA FillKeepsData ==
  ASSUME IInv, CInv, HoldsBank, NEW len \in 0 .. BufMax, FillBank(sent + 1, len),
         sent' = sent
  PROVE  AmountInv' /\ DiskInv' /\ WaitingInv' /\ RunInv'
<1> USE DEF FillBank
<1>1. /\ Ahead' = Ahead /\ Taken' = Taken
      /\ \A k : First(k)' = First(k)
      /\ \A k : Held(k)' = Held(k)
  BY DEF Ahead, First, Held, Taken
<1>2. AmountInv'
  BY <1>1 DEF CInv, AmountInv
<1>3. DiskInv'
  BY DEF CInv, DiskInv
<1>4. \A c \in Cells \ (BankStart(WritePtr) .. BankStart(WritePtr) + BufMax - 1) :
        mem'[c] = mem[c]
  <2> DEFINE s == BankStart(WritePtr)
  <2>1. s \in Nat /\ NBufs * BufMax \in Nat
    <3>1. WritePtr \in Nat
      BY Kinds
    <3> QED  BY <3>1, ProductNat DEF BankStart
  <2>2. mem' = [c \in Cells |-> IF c \in s .. s + len - 1 THEN sent + 1 + (c - s) ELSE mem[c]]
    OBVIOUS
  <2>3. \A c \in Cells \ (s .. s + BufMax - 1) : c \notin s .. s + len - 1
    BY ONLY <2>1, len \in 0 .. BufMax, BankAssumption DEF Cells, BankAssumption
  <2> HIDE DEF s
  <2> QED  BY ONLY <2>2, <2>3 DEF s
<1>5. WaitingInv'
  <2> SUFFICES ASSUME ioPc \notin {"acked", "exited"}, NEW k \in Taken .. Ahead - 1
               PROVE  Holds(Wrap(ReadPtr + k), Held(k), First(k))'
    BY <1>1 DEF WaitingInv, Holds, First, Held, Wrap
  <2> DEFINE b == Wrap(ReadPtr + k)
  <2>1. Holds(b, Held(k), First(k))
    BY DEF CInv, WaitingInv
  <2>2. b \in Banks /\ b # WritePtr
    BY Kinds, WaitingApart, SMTT(30)
  <2>3. Held(k) \in 0 .. BufMax
    BY <2>1, <2>2 DEF Holds, IInv, TypeOK, BankTypeOK
  <2>4. \A j \in 0 .. Held(k) - 1 : mem'[BankStart(b) + j] = mem[BankStart(b) + j]
    <3> SUFFICES ASSUME NEW j \in 0 .. Held(k) - 1
                 PROVE  mem'[BankStart(b) + j] = mem[BankStart(b) + j]
      OBVIOUS
    <3>1. j \in 0 .. BufMax - 1
      <4>1. j \in 0 .. Held(k) - 1
        OBVIOUS
      <4> QED  BY ONLY <4>1, <2>3, BankAssumption DEF BankAssumption
    <3>2. WritePtr \in Banks
      BY ONLY Kinds, IInv DEF Banks
    <3> QED  BY <2>2, <3>1, <3>2, <1>4, BankApart
  <2> QED  BY <2>1, <2>4, <1>1 DEF Holds, BankStart, Wrap
<1>6. RunInv'
  BY <1>1, <1>4, InRunApart DEF CInv, RunInv, BankStart
<1> QED  BY <1>2, <1>3, <1>5, <1>6

LEMMA ReceiveBankKeepsData ==
  ASSUME IInv, CInv, ReceiveBank
  PROVE  AmountInv' /\ DiskInv' /\ WaitingInv' /\ RunInv' /\ FilledInv'
<1>1. AmountInv' /\ DiskInv' /\ WaitingInv' /\ RunInv'
  BY FillKeepsData, Kinds DEF ReceiveBank, HoldsBank
<1>2. FilledInv'
  <2> DEFINE s == BankStart(WritePtr)
  <2>1. /\ s \in Nat /\ s + BufMax <= NBufs * BufMax /\ NextLen \in 0 .. BufMax
        /\ NBufs * BufMax \in Nat /\ sent \in Nat
    <3>1. /\ WritePtr \in Nat /\ WritePtr + 1 <= NBufs
          /\ NextLen \in 0 .. BufMax /\ sent \in Nat
      BY Kinds
    <3>2. (WritePtr + 1) * BufMax <= NBufs * BufMax
      BY <3>1, ProductMonotone
    <3>3. /\ WritePtr * BufMax \in Nat /\ NBufs * BufMax \in Nat
          /\ (WritePtr + 1) * BufMax = WritePtr * BufMax + BufMax
      BY <3>1, ProductNat, OneMoreBank
    <3> QED  BY <3>1, <3>2, <3>3 DEF BankStart
  <2>2. \A j \in 0 .. NextLen - 1 : s + j \in Cells /\ s + j \in s .. s + NextLen - 1
    BY <2>1 DEF Cells
  <2>3. \A j \in 0 .. NextLen - 1 : mem'[s + j] = sent + j + 1
    BY <2>1, <2>2 DEF ReceiveBank, FillBank
  <2> QED  BY <2>3 DEF FilledInv, ReceiveBank, FillBank, NextLen, BankStart
<1> QED  BY <1>1, <1>2

LEMMA ReceiveFailsKeepsData ==
  ASSUME IInv, CInv, ReceiveFails
  PROVE  AmountInv' /\ DiskInv' /\ WaitingInv' /\ RunInv' /\ FilledInv'
<1>1. PICK len \in 0 .. NextLen - 1 : FillBank(sent + 1, len)
  BY DEF ReceiveFails
<1>2. AmountInv' /\ DiskInv' /\ WaitingInv' /\ RunInv'
  <2>1. len \in 0 .. BufMax
    BY Kinds
  <2> QED  BY <1>1, <2>1, FillKeepsData DEF ReceiveFails, HoldsBank
<1>3. FilledInv'
  BY DEF FilledInv, ReceiveFails
<1> QED  BY <1>2, <1>3

LEMMA FreeBanksKeepsData ==
  ASSUME IInv, CInv, FreeBanks
  PROVE  AmountInv' /\ DiskInv' /\ WaitingInv' /\ RunInv' /\ FilledInv'
<1>1. ioPc \in {"acked", "exited"}
  BY DEF IInv, AckInv, FreeBanks
<1>2. AmountInv'
  BY DEF CInv, AmountInv, FreeBanks, Ahead, First, Taken
<1>3. DiskInv'
  BY DEF CInv, DiskInv, FreeBanks
<1> QED  BY <1>1, <1>2, <1>3 DEF FreeBanks, WaitingInv, RunInv, FilledInv

(* What was handed over so far fills its banks, if there is more to come.  *)
LEMMA AllFull ==
  ASSUME IInv, CInv, sent # Total
  PROVE  /\ sent = First(Ahead)
         /\ \A k \in 0 .. Ahead - 1 : Held(k) = BufMax
<1>1. /\ sent \in Nat /\ Len(disk) \in Nat /\ Ahead \in Nat
      /\ BufMax \in Nat \ {0}
  BY Kinds
<1>2. sent = First(Ahead)
  <2>1. CASE Ahead = 0
    BY <1>1, <2>1 DEF CInv, AmountInv, First
  <2>2. CASE Ahead > 0
    <3>1. First(Ahead) \in Nat
      BY <1>1, ProductNat DEF First
    <3> QED  BY <1>1, <2>2, <3>1 DEF CInv, AmountInv
  <2> QED  BY <1>1, <2>1, <2>2
<1>3. ASSUME NEW k \in 0 .. Ahead - 1, k = Ahead - 1
      PROVE  sent - First(k) = BufMax
  <2>1. k \in Nat /\ Ahead = k + 1
    BY <1>1, <1>3
  <2>2. (k + 1) * BufMax = k * BufMax + BufMax /\ k * BufMax \in Nat
    BY <2>1, OneMoreBank, ProductNat
  <2> QED  BY <1>1, <1>2, <2>1, <2>2 DEF First
<1> QED  BY <1>2, <1>3 DEF Held

(* A bank that is handed over is the next one behind those that wait.      *)
LEMMA SignalBankKeepsData ==
  ASSUME IInv, CInv, SignalBank
  PROVE  AmountInv' /\ DiskInv' /\ WaitingInv' /\ RunInv' /\ FilledInv'
<1> USE DEF SignalBank, IOSignalWriteDone
<1>1. /\ sent \in Nat /\ Len(disk) \in Nat /\ Ahead \in Nat /\ Taken \in Nat
      /\ BufMax \in Nat \ {0} /\ NextLen \in 1 .. BufMax /\ Total \in Nat
      /\ sent + NextLen <= Total
      /\ NextLen < BufMax => sent + NextLen = Total
      /\ HoldsBank
  BY Kinds DEF IInv, LoopInv, TypeOK, NextLen, HoldsBank
<1>2. /\ Ahead' = Ahead + 1 /\ Taken' = Taken
      /\ sent' = sent + NextLen /\ disk' = disk
      /\ \A k : First(k)' = First(k)
  <2>1. outBuf \in Nat /\ Taken \in Nat
    BY Kinds
  <2>2. Taken' = Taken /\ outBuf' = outBuf + 1
    BY DEF Taken
  <2>3. Ahead' = Ahead + 1
    BY ONLY <2>1, <2>2 DEF Ahead
  <2> QED  BY <2>2, <2>3 DEF First
<1>3. sent = First(Ahead) /\ \A k \in 0 .. Ahead - 1 : Held(k) = BufMax
  BY <1>1, AllFull
<1>4. First(Ahead + 1) = First(Ahead) + BufMax
  <2>1. (Ahead + 1) * BufMax = Ahead * BufMax + BufMax /\ Ahead * BufMax \in Nat
    BY <1>1, OneMoreBank, ProductNat
  <2> QED  BY ONLY <1>1, <2>1 DEF First
<1>5. AmountInv'
  <2>0. /\ sent' = sent + NextLen /\ First(Ahead) = sent
        /\ First(Ahead + 1) = sent + BufMax
    BY <1>2, <1>3, <1>4
  <2>1. sent' > First(Ahead) /\ sent' <= First(Ahead + 1)
    BY ONLY <1>1, <2>0
  <2>2. sent' < First(Ahead + 1) => sent' = Total
    BY ONLY <1>1, <2>0
  <2>3. ioPc \in {"gather", "transfer"} => ioSectors = ioBanks * BufMax
    <3>1. CASE outBuf = 0 /\ ioPc \in {"gather", "transfer"}
      <4>1. ioSectors = sent - Len(disk)
        BY <3>1 DEF CInv, AmountInv
      <4>2. Ahead = ioBanks
        BY <3>1, Kinds, SMTT(30) DEF Ahead, Taken
      <4>3. ioBanks * BufMax \in Nat
        BY <1>1, <4>2, ProductNat
      <4>4. sent = Len(disk) + ioBanks * BufMax
        BY <1>3, <4>2 DEF First
      <4> QED  BY ONLY <1>1, <4>1, <4>3, <4>4
    <3>2. CASE outBuf # 0
      BY <3>2 DEF CInv, AmountInv
    <3> QED  BY <3>1, <3>2
  <2>4. /\ First(Ahead - 1)' = First(Ahead) /\ First(Ahead)' = First(Ahead + 1)
        /\ Ahead' > 0 /\ outBuf' # 0
        /\ ioSectors' = ioSectors /\ ioBanks' = ioBanks /\ ioPc' = ioPc
    <3>1. Ahead' - 1 = Ahead /\ Ahead' = Ahead + 1 /\ Ahead' > 0
      BY <1>1, <1>2
    <3>2. outBuf' # 0
      <4>1. outBuf \in Nat /\ outBuf' = outBuf + 1
        BY Kinds
      <4> QED  BY ONLY <4>1
    <3> QED  BY <1>2, <3>1, <3>2 DEF First
  <2> QED  BY <2>1, <2>2, <2>3, <2>4 DEF AmountInv
<1>6. DiskInv'
  BY DEF CInv, DiskInv
<1>7. WaitingInv'
  <2> SUFFICES ASSUME ioPc \notin {"acked", "exited"}, NEW k \in Taken .. Ahead
               PROVE  Holds(Wrap(ReadPtr + k), Held(k), First(k))'
    <3>1. Ahead' - 1 = Ahead
      BY <1>1, <1>2
    <3> QED  BY <1>2, <3>1 DEF WaitingInv
  <2>1. First(k)' = First(k) /\ Wrap(ReadPtr + k)' = Wrap(ReadPtr + k)
    BY <1>2 DEF First, Wrap
  <2>2. CASE k = Ahead
    <3>1. Wrap(ReadPtr + k) = WritePtr
      <4>1. ReadPtr \in Nat /\ outBuf \in Nat /\ Taken \in Nat
        BY ONLY IInv, Kinds
      <4>2. ReadPtr + Ahead = ReadPtr + outBuf + Taken
        BY ONLY <4>1 DEF Ahead
      <4> QED  BY <2>2, <4>2 DEF IInv, RingInv
    <3>2. Held(k)' = NextLen
      BY <1>1, <1>2, <1>3, <2>1, <2>2 DEF Held
    <3>3. bd'[WritePtr] = NextLen
      BY DEF IInv, TypeOK, BankTypeOK
    <3>4. \A j \in 0 .. NextLen - 1 : mem'[BankStart(WritePtr) + j] = First(k) + j + 1
      BY <1>3, <2>2 DEF CInv, FilledInv
    <3> QED  BY <2>1, <3>1, <3>2, <3>3, <3>4 DEF Holds, BankStart
  <2>3. CASE k # Ahead
    <3>1. k \in 0 .. Ahead - 1 /\ k \in Taken .. Ahead - 1
      BY <1>1, <2>3
    <3>2. Holds(Wrap(ReadPtr + k), BufMax, First(k))
      BY <1>3, <3>1 DEF CInv, WaitingInv
    <3>3. Wrap(ReadPtr + k) # WritePtr
      BY <1>1, <3>1, WaitingApart
    <3>4. Held(k)' = BufMax
      BY <1>1, <1>2, <2>3 DEF Held
    <3>5. bd'[Wrap(ReadPtr + k)] = bd[Wrap(ReadPtr + k)]
      <4>1. Wrap(ReadPtr + k) \in Banks
        BY <1>1, <3>1, WaitingApart
      <4> QED  BY <4>1, <3>3 DEF IInv, TypeOK, BankTypeOK
    <3> QED  BY <2>1, <3>2, <3>4, <3>5 DEF Holds, BankStart
  <2> QED  BY <2>2, <2>3
<1>8. RunInv'
  BY DEF CInv, RunInv, BankStart
<1> QED  BY <1>5, <1>6, <1>7, <1>8 DEF FilledInv

(* The run begins with the bank at ReadPtr.                                *)
LEMMA TakeBankKeepsData ==
  ASSUME IInv, CInv, TakeBank, UNCHANGED callerVars
  PROVE  AmountInv' /\ DiskInv' /\ WaitingInv' /\ RunInv' /\ FilledInv'
<1> USE DEF TakeBank
<1>1. /\ Ahead \in Nat \ {0} /\ Taken = 0 /\ outBuf \in Nat \ {0} /\ Ahead = outBuf
      /\ sent \in Nat /\ Len(disk) \in Nat /\ BufMax \in Nat \ {0}
      /\ ReadPtr \in 0 .. NBufs - 1
  BY Kinds DEF IInv, ThreadInv, Taken, Ahead
<1>2. /\ Ahead' = Ahead /\ Taken' = 1 /\ ioSectors' = bd[ReadPtr]
      /\ \A k : First(k)' = First(k) /\ Held(k)' = Held(k)
  BY <1>1 DEF Ahead, Taken, First, Held
<1>3. Holds(ReadPtr, Held(0), First(0))
  <2>1. 0 \in Taken .. Ahead - 1 /\ Wrap(ReadPtr + 0) = ReadPtr
    BY <1>1 DEF Wrap
  <2> QED  BY <2>1 DEF CInv, WaitingInv
<1>4. First(0) = Len(disk)
  BY <1>1 DEF First
<1>5. AmountInv'
  <2>1. ioSectors' = IF outBuf' = 0 THEN sent - Len(disk) ELSE BufMax
    BY <1>1, <1>2, <1>3, <1>4 DEF Holds, Held
  <2>2. ioBanks' * BufMax = BufMax
    BY <1>1
  <2> QED  BY <1>2, <2>1, <2>2 DEF CInv, AmountInv, First
<1>6. DiskInv'
  BY DEF CInv, DiskInv
<1>7. WaitingInv'
  <2>1. \A k \in 1 .. Ahead - 1 : Holds(Wrap(ReadPtr + k), Held(k), First(k))
    BY <1>1 DEF CInv, WaitingInv
  <2>2. \A k : Wrap(ReadPtr + k)' = Wrap(ReadPtr + k)
    BY DEF Wrap
  <2> QED  BY <1>2, <2>1, <2>2 DEF WaitingInv, Holds, BankStart
<1>8. RunInv'
  <2> SUFFICES ASSUME NEW i \in 1 .. bd[ReadPtr]
               PROVE  mem[BankStart(ReadPtr) + i - 1] = Len(disk) + i
    BY <1>2 DEF RunInv, BankStart
  <2>1. bd[ReadPtr] \in Nat
    BY DEF IInv, TypeOK, BankTypeOK
  <2>2. i - 1 \in 0 .. bd[ReadPtr] - 1 /\ i \in Nat
    BY <2>1
  <2>3. mem[BankStart(ReadPtr) + (i - 1)] = Len(disk) + (i - 1) + 1
    BY <1>3, <1>4, <2>2 DEF Holds
  <2>4. BankStart(ReadPtr) \in Nat
    BY <1>1, ProductNat DEF BankStart
  <2>5. /\ BankStart(ReadPtr) + (i - 1) = BankStart(ReadPtr) + i - 1
        /\ Len(disk) + (i - 1) + 1 = Len(disk) + i
    BY <1>1, <2>2, <2>4
  <2> QED  BY <2>3, <2>5
<1>9. FilledInv'
  BY DEF CInv, FilledInv, NextLen, BankStart
<1> QED  BY <1>5, <1>6, <1>7, <1>8, <1>9

(* One more bank behind the run.                                           *)
LEMMA GatherBankKeepsData ==
  ASSUME IInv, CInv, GatherBank, UNCHANGED callerVars
  PROVE  AmountInv' /\ DiskInv' /\ WaitingInv' /\ RunInv' /\ FilledInv'
<1> USE DEF GatherBank
<1>1. /\ outBuf \in Nat \ {0} /\ ioBanks \in Nat /\ Taken = ioBanks
      /\ sent \in Nat /\ Len(disk) \in Nat /\ BufMax \in Nat \ {0}
      /\ ReadPtr \in Nat /\ ReadPtr + ioBanks < NBufs
      /\ ioSectors \in Nat
  BY Kinds DEF Taken
<1>2. /\ ioBanks' = ioBanks + 1 /\ Taken' = ioBanks + 1 /\ outBuf' = outBuf - 1
      /\ ioSectors' = ioSectors + bd[ReadPtr + ioBanks]
  BY DEF Taken
<1>3. Ahead = outBuf + ioBanks /\ Ahead \in Nat /\ Ahead' = Ahead
  BY ONLY <1>1, <1>2 DEF Ahead
<1>4. \A k : First(k)' = First(k) /\ Held(k)' = Held(k)
  BY <1>3 DEF First, Held
<1>5. Holds(ReadPtr + ioBanks, Held(ioBanks), First(ioBanks))
  <2>1. ioBanks \in Taken .. Ahead - 1 /\ Wrap(ReadPtr + ioBanks) = ReadPtr + ioBanks
    BY <1>1, <1>3 DEF Wrap
  <2> QED  BY <2>1 DEF CInv, WaitingInv
<1>6. ioSectors = ioBanks * BufMax /\ ioBanks * BufMax \in Nat
  BY <1>1, ProductNat DEF CInv, AmountInv
<1>7. AmountInv'
  <2>1. ioBanks' * BufMax = ioSectors + BufMax
    BY <1>1, <1>2, <1>6, OneMoreBank
  <2>2. ioSectors' = ioSectors + Held(ioBanks)
    BY <1>2, <1>5 DEF Holds
  <2>3. ioSectors' = IF outBuf' = 0 THEN sent - Len(disk) ELSE ioBanks' * BufMax
    <3>1. CASE outBuf = 1
      <4>1. Held(ioBanks) = sent - First(ioBanks) /\ outBuf' = 0
        BY <1>1, <1>2, <1>3, <3>1 DEF Held
      <4> QED  BY <1>1, <1>6, <2>2, <4>1 DEF First
    <3>2. CASE outBuf # 1
      <4>1. Held(ioBanks) = BufMax /\ outBuf' # 0
        BY <1>1, <1>2, <1>3, <3>2 DEF Held
      <4> QED  BY <2>1, <2>2, <4>1
    <3> QED  BY <3>1, <3>2
  <2> QED  BY <1>3, <1>4, <2>3 DEF CInv, AmountInv
<1>8. DiskInv'
  BY DEF CInv, DiskInv
<1>9. WaitingInv'
  <2>1. \A k \in ioBanks + 1 .. Ahead - 1 : Holds(Wrap(ReadPtr + k), Held(k), First(k))
    BY <1>1, <1>3 DEF CInv, WaitingInv
  <2>2. \A k : Wrap(ReadPtr + k)' = Wrap(ReadPtr + k)
    BY DEF Wrap
  <2> QED  BY <1>2, <1>3, <1>4, <2>1, <2>2 DEF WaitingInv, Holds, BankStart
<1>10. RunInv'
  <2> DEFINE s == BankStart(ReadPtr)
  <2>1. bd[ReadPtr + ioBanks] = Held(ioBanks) /\ Held(ioBanks) \in Nat
    <3>1. ReadPtr + ioBanks \in Banks
      BY <1>1
    <3> QED  BY <3>1, <1>5 DEF Holds, IInv, TypeOK, BankTypeOK
  <2>2. BankStart(ReadPtr + ioBanks) = s + ioSectors /\ s \in Nat
    <3>1. (ReadPtr + ioBanks) * BufMax = ReadPtr * BufMax + ioBanks * BufMax
      BY <1>1, Distribute
    <3>2. ReadPtr * BufMax \in Nat
      BY <1>1, ProductNat
    <3> QED  BY <1>6, <3>1, <3>2 DEF BankStart
  <2>3. First(ioBanks) = Len(disk) + ioSectors
    BY <1>6 DEF First
  <2> SUFFICES ASSUME NEW i \in 1 .. ioSectors + Held(ioBanks)
               PROVE  mem[s + i - 1] = Len(disk) + i
    BY <1>2, <2>1 DEF RunInv, BankStart
  <2>4. CASE i <= ioSectors
    BY <1>1, <2>4 DEF CInv, RunInv
  <2>5. CASE i > ioSectors
    <3> DEFINE j == i - 1 - ioSectors
    <3>1. i \in Int /\ i <= ioSectors + Held(ioBanks)
      BY <1>1, <2>1
    <3>2. j \in 0 .. Held(ioBanks) - 1
      BY ONLY <3>1, <2>1, <2>5, <1>1
    <3>3. mem[BankStart(ReadPtr + ioBanks) + j] = First(ioBanks) + j + 1
      BY <1>5, <3>2 DEF Holds
    <3>4. /\ s + ioSectors + j = s + i - 1
          /\ Len(disk) + ioSectors + j + 1 = Len(disk) + i
      BY ONLY <1>1, <2>2, <3>1
    <3> QED  BY <2>2, <2>3, <3>3, <3>4
  <2> QED  BY <1>1, <2>1, <2>4, <2>5
<1>11. FilledInv'
  BY DEF CInv, FilledInv, NextLen, BankStart
<1> QED  BY <1>7, <1>8, <1>9, <1>10, <1>11

LEMMA RunOnDisk ==
  ASSUME IInv, CInv, ioPc = "transfer"
  PROVE  /\ Contents(ReadPtr, ioSectors) \in Seq(Nat)
         /\ Len(Contents(ReadPtr, ioSectors)) = ioSectors
         /\ Contents(ReadPtr, ioSectors) = [i \in 1 .. ioSectors |-> Len(disk) + i]
<1>1. Contents(ReadPtr, ioSectors) \in Seq(Nat)
  BY TransferInRing
<1>2. Contents(ReadPtr, ioSectors) = [i \in 1 .. ioSectors |-> Len(disk) + i]
  BY DEF Contents, CInv, RunInv
<1>3. ioSectors \in Nat
  BY Kinds
<1> QED  BY <1>1, <1>2, <1>3

(* The run that was written leaves the other banks behind it waiting.      *)
LEMMA WriteBanksKeepsData ==
  ASSUME IInv, CInv, WriteBanks, UNCHANGED callerVars
  PROVE  AmountInv' /\ DiskInv' /\ WaitingInv' /\ RunInv' /\ FilledInv'
<1> USE DEF WriteBanks
<1>1. /\ outBuf \in Nat /\ ioBanks \in Nat \ {0} /\ Taken = ioBanks
      /\ sent \in Nat /\ Len(disk) \in Nat /\ BufMax \in Nat \ {0}
      /\ ReadPtr \in 0 .. NBufs - 1 /\ ReadPtr + ioBanks <= NBufs
      /\ outBuf + ioBanks <= NBufs
      /\ ioSectors \in Nat /\ disk \in Seq(Nat)
  <2>1. /\ outBuf \in Nat /\ ioBanks \in Nat /\ Taken = ioBanks
        /\ sent \in Nat /\ Len(disk) \in Nat /\ BufMax \in Nat \ {0}
        /\ ReadPtr \in 0 .. NBufs - 1 /\ ioSectors \in Nat /\ disk \in Seq(Nat)
    BY Kinds DEF Taken
  <2>2. ioBanks > 0 /\ ReadPtr + ioBanks <= NBufs
    BY DEF IInv, ThreadInv
  <2>3. outBuf + ioBanks <= NBufs
    BY DEF IInv, TypeOK, BankTypeOK, BankConservation
  <2> QED  BY ONLY <2>1, <2>2, <2>3
<1>2. /\ Taken' = 0 /\ outBuf' = outBuf /\ sent' = sent
      /\ Ahead = outBuf + ioBanks
  BY <1>1 DEF Taken, Ahead
<1>3. Ahead' = outBuf
  BY ONLY <1>1, <1>2 DEF Ahead
<1>4. /\ disk' = [i \in 1 .. Len(disk') |-> i]
      /\ Len(disk') = Len(disk) + ioSectors
  <2> DEFINE c == Contents(ReadPtr, ioSectors)
  <2>1. c \in Seq(Nat) /\ Len(c) = ioSectors /\ c = [i \in 1 .. ioSectors |-> Len(disk) + i]
    BY RunOnDisk
  <2>2. disk = [i \in 1 .. Len(disk) |-> i]
    BY DEF CInv, DiskInv
  <2>3. disk' = disk \o c
    OBVIOUS
  <2> HIDE DEF c
  <2>4. Len(disk \o c) = Len(disk) + Len(c)
    BY <1>1, <2>1
  <2> QED  BY ONLY <1>1, <2>1, <2>2, <2>3, <2>4, StreamGoesOn
<1>5. CASE outBuf = 0
  <2>1. ioSectors = sent - Len(disk)
    BY <1>5 DEF CInv, AmountInv
  <2>2. sent = Len(disk')
    BY ONLY <1>1, <1>4, <2>1
  <2>3. AmountInv'
    <3>1. First(Ahead)' = Len(disk')
      BY <1>1, <1>3, <1>4, <1>5 DEF First
    <3>2. ~(Ahead' > 0) /\ sent' = Len(disk')
      BY <1>2, <1>3, <1>5, <2>2
    <3> QED  BY <3>1, <3>2, <1>1, <2>2 DEF AmountInv
  <2>4. WaitingInv'
    BY <1>2, <1>3, <1>5 DEF WaitingInv
  <2> QED  BY <1>4, <2>3, <2>4 DEF CInv, DiskInv, RunInv, FilledInv, NextLen, BankStart
<1>6. CASE outBuf # 0
  <2>1. ioSectors = ioBanks * BufMax
    BY <1>6 DEF CInv, AmountInv
  <2>2. \A k \in Nat : First(k)' = First(ioBanks + k) /\ First(k)' \in Nat
    <3> SUFFICES ASSUME NEW k \in Nat
                 PROVE  First(k)' = First(ioBanks + k) /\ First(k)' \in Nat
      OBVIOUS
    <3>1. (ioBanks + k) * BufMax = ioBanks * BufMax + k * BufMax
      BY <1>1, Distribute
    <3>2. ioBanks * BufMax \in Nat /\ k * BufMax \in Nat
      BY <1>1, ProductNat
    <3>3. First(k)' = Len(disk') + k * BufMax
      BY DEF First
    <3> QED  BY <1>1, <1>4, <2>1, <3>1, <3>2, <3>3 DEF First
  <2>3. First(Ahead)' = First(Ahead) /\ First(Ahead - 1)' = First(Ahead - 1)
    <3>1. ioBanks + outBuf = Ahead /\ ioBanks + (outBuf - 1) = Ahead - 1
      BY ONLY <1>1, <1>2
    <3>2. outBuf - 1 \in Nat
      BY <1>1, <1>6
    <3>3. /\ First(outBuf)' = First(ioBanks + outBuf)
          /\ First(outBuf - 1)' = First(ioBanks + (outBuf - 1))
      BY <1>1, <2>2, <3>2
    <3> QED  BY <1>2, <1>3, <3>1, <3>3 DEF First
  <2>4. \A k \in 0 .. outBuf - 1 : Held(k)' = Held(ioBanks + k)
    <3> SUFFICES ASSUME NEW k \in 0 .. outBuf - 1
                 PROVE  Held(k)' = Held(ioBanks + k)
      OBVIOUS
    <3>1. k \in Nat /\ (k = outBuf - 1 <=> ioBanks + k = Ahead - 1)
      BY <1>1, <1>2
    <3>2. First(k)' = First(ioBanks + k)
      BY <3>1, <2>2
    <3> QED  BY <1>2, <1>3, <3>1, <3>2 DEF Held
  <2>5. AmountInv'
    <3>1. Ahead > 0
      BY <1>1, <1>2
    <3> QED  BY <1>2, <1>3, <1>6, <2>3, <3>1 DEF CInv, AmountInv
  <2>6. WaitingInv'
    <3> SUFFICES ASSUME NEW k \in 0 .. outBuf - 1
                 PROVE  Holds(Wrap(ReadPtr + k), Held(k), First(k))'
      BY <1>2, <1>3 DEF WaitingInv
    <3>1. k \in Nat /\ k < outBuf
      BY <1>1
    <3>2. Holds(Wrap(ReadPtr + (ioBanks + k)), Held(ioBanks + k), First(ioBanks + k))
      <4>1. ioBanks + k \in Taken .. Ahead - 1
        BY <1>1, <1>2, <3>1
      <4> QED  BY <4>1 DEF CInv, WaitingInv
    <3>3. Wrap(ReadPtr + k)' = Wrap(ReadPtr + (ioBanks + k))
      <4>1. ReadPtr' = Wrap(ReadPtr + ioBanks)
        BY <1>1, WrapMod
      <4>2. Wrap(Wrap(ReadPtr + ioBanks) + k) = Wrap(ReadPtr + k + ioBanks)
        <5>1. k + ioBanks <= NBufs
          BY ONLY <1>1, <3>1, BankAssumption DEF BankAssumption
        <5> QED  BY ONLY <1>1, <3>1, <5>1, WrapShift
      <4>3. ReadPtr + k + ioBanks = ReadPtr + (ioBanks + k)
        BY <1>1, <3>1
      <4> QED  BY <4>1, <4>2, <4>3 DEF Wrap
    <3>4. First(k)' = First(ioBanks + k) /\ Held(k)' = Held(ioBanks + k)
      BY <2>2, <2>4, <3>1
    <3> QED  BY <3>2, <3>3, <3>4 DEF Holds, BankStart
  <2> QED  BY <1>4, <2>5, <2>6 DEF CInv, DiskInv, RunInv, FilledInv, NextLen, BankStart
<1> QED  BY <1>5, <1>6

-----------------------------------------------------------------------------
(* Every step keeps what is known about the data.                          *)

LEMMA InitHoldsData == Init => CInv
BY DEF Init, IOWriteInit, IOInitCommon, CInv, AmountInv, DiskInv, WaitingInv, RunInv,
       FilledInv, EndInv, Ahead, Taken, First

LEMMA EndKeeps ==
  ASSUME IInv, CInv, [Next]_vars
  PROVE  EndInv'
<1> USE DEF CInv, EndInv
<1>1. CASE GetBuffer
  BY <1>1 DEF GetBuffer, IOGetNextWrBuffer
<1>2. CASE ReceiveBank
  BY <1>2 DEF ReceiveBank, FillBank, Ahead, Taken
<1>3. CASE ReceiveFails
  BY <1>3 DEF ReceiveFails, FillBank, Ahead, Taken, IInv, LoopInv
<1>4. CASE SignalBank
  BY <1>4 DEF SignalBank, IOSignalWriteDone
<1>5. CASE ExecBank
  BY <1>5 DEF ExecBank, ExecWrite, IOExecCmd, Ahead, Taken
<1>6. CASE CheckStatus
  BY <1>6 DEF CheckStatus, Ahead, Taken, IInv, LoopInv
<1>7. CASE LoopEnds
  <2>1. remaining = 0 /\ sent + remaining = Total /\ sent \in Nat
    BY <1>7, Kinds DEF LoopEnds, IInv, LoopInv
  <2>2. sent = Total
    BY ONLY <2>1
  <2> QED  BY <1>7, <2>2 DEF LoopEnds, Ahead, Taken
<1>8. CASE ExecEnd
  BY <1>8 DEF ExecEnd, ExecWrite, IOExecCmd, Ahead, Taken
<1>9. CASE EndReturns
  BY <1>9 DEF EndReturns, IOEndWriteReturns, Ahead, Taken, IInv, TypeOK, BankTypeOK
<1>10. CASE FreeBanks
  BY <1>10 DEF FreeBanks, Ahead, Taken
<1>11. CASE IOThread
  <2> USE <1>11 DEF IOThread
  <2>1. CASE IOThreadWake
    BY <2>1 DEF IOThreadWake, Ahead, Taken, IInv, ThreadInv
  <2>2. CASE IOThreadFail
    BY <2>2 DEF IOThreadFail, IInv, AckInv
  <2>3. CASE IOThreadExit
    BY <2>3 DEF IOThreadExit, Ahead, Taken
  <2>4. CASE TakeBank
    BY <2>4 DEF TakeBank
  <2>5. CASE NothingToWrite
    <3>1. Ahead' = 0
      BY <2>5 DEF NothingToWrite, Ahead, Taken, IInv, ThreadInv
    <3> QED  BY <2>5, <3>1 DEF NothingToWrite
  <2>6. CASE GatherBank
    BY <2>6 DEF GatherBank
  <2>7. CASE GatherDone
    BY <2>7 DEF GatherDone
  <2>8. CASE WriteBanks
    BY <2>8 DEF WriteBanks
  <2>9. CASE ReleaseBank
    BY <2>9 DEF ReleaseBank
  <2>10. CASE WriteNextReturns
    BY <2>10 DEF WriteNextReturns
  <2> QED  BY <2>1, <2>2, <2>3, <2>4, <2>5, <2>6, <2>7, <2>8, <2>9, <2>10
           DEF WriterThread
<1>12. CASE UNCHANGED vars
  BY <1>12 DEF vars, Ahead, Taken
<1> QED  BY <1>1, <1>2, <1>3, <1>4, <1>5, <1>6, <1>7, <1>8, <1>9, <1>10, <1>11, <1>12
         DEF Next, DataThread

LEMMA NextKeepsData ==
  ASSUME IInv, CInv, [Next]_vars
  PROVE  CInv'
<1> SUFFICES AmountInv' /\ DiskInv' /\ WaitingInv' /\ RunInv' /\ FilledInv'
  BY EndKeeps DEF CInv
<1>1. CASE GetBuffer
  BY <1>1, DataStays DEF GetBuffer, IOGetNextWrBuffer, Taken
<1>2. CASE ExecBank
  BY <1>2, DataStays DEF ExecBank, ExecWrite, IOExecCmd, Taken
<1>3. CASE CheckStatus
  BY <1>3, DataStays DEF CheckStatus, Taken
<1>4. CASE LoopEnds
  BY <1>4, DataStays DEF LoopEnds, Taken
<1>5. CASE ExecEnd
  BY <1>5, DataStays DEF ExecEnd, ExecWrite, IOExecCmd, Taken
<1>6. CASE EndReturns
  BY <1>6, DataStays DEF EndReturns, IOEndWriteReturns, Taken
<1>7. CASE IOThread
  <2> USE <1>7 DEF IOThread
  <2>1. CASE IOThreadWake /\ UNCHANGED disk
    BY <2>1, DataStays DEF IOThreadWake, Taken
  <2>2. CASE IOThreadFail /\ UNCHANGED disk
    BY <2>2, DataStays DEF IOThreadFail, Taken
  <2>3. CASE IOThreadExit /\ UNCHANGED disk
    BY <2>3, DataStays DEF IOThreadExit, Taken
  <2>4. CASE NothingToWrite
    BY <2>4, DataStays DEF NothingToWrite, Taken
  <2>5. CASE GatherDone
    BY <2>5, DataStays DEF GatherDone, Taken
  <2>6. CASE ReleaseBank
    BY <2>6, DataStays DEF ReleaseBank, Taken
  <2>7. CASE WriteNextReturns
    BY <2>7, DataStays DEF WriteNextReturns, Taken
  <2> QED  BY <2>1, <2>2, <2>3, <2>4, <2>5, <2>6, <2>7, TakeBankKeepsData,
              GatherBankKeepsData, WriteBanksKeepsData DEF WriterThread
<1>8. CASE UNCHANGED vars
  BY <1>8, DataStays DEF vars, Taken
<1> QED
  BY <1>1, <1>2, <1>3, <1>4, <1>5, <1>6, <1>7, <1>8, ReceiveBankKeepsData,
     ReceiveFailsKeepsData, SignalBankKeepsData, FreeBanksKeepsData DEF Next, DataThread

THEOREM DataInvariance == Spec => [](IInv /\ CInv)
BY InitHolds, NextKeeps, InitHoldsData, NextKeepsData, PTL DEF Spec

-----------------------------------------------------------------------------
(* What follows for the image.                                              *)

(* Nothing is on the disk that was not handed over, and all of it once     *)
(* nothing waits.                                                          *)
LEMMA DiskBehind ==
  IInv /\ CInv => Len(disk) <= sent /\ (Ahead = 0 => Len(disk) = sent)
<1> SUFFICES ASSUME IInv, CInv
             PROVE  Len(disk) <= sent /\ (Ahead = 0 => Len(disk) = sent)
  OBVIOUS
<1>1. /\ sent \in Nat /\ Len(disk) \in Nat /\ Ahead \in Nat /\ BufMax \in Nat
  BY Kinds
<1>2. Ahead = 0 => Len(disk) = sent
  BY DEF CInv, AmountInv
<1>3. CASE Ahead > 0
  <2>1. Ahead - 1 \in Nat
    BY <1>1, <1>3
  <2>2. (Ahead - 1) * BufMax \in Nat
    BY <1>1, <2>1, ProductNat
  <2>3. sent > Len(disk) + (Ahead - 1) * BufMax
    BY <1>3 DEF CInv, AmountInv, First
  <2> QED  BY ONLY <1>1, <1>3, <2>2, <2>3
<1> QED  BY <1>1, <1>2, <1>3

(* When all was received and IOEndWrite reported no error, the whole image *)
(* is on the disk.                                                         *)
THEOREM ImageWhole == Spec => []CompleteImage
<1>1. ASSUME IInv, CInv, ended = "OK", remaining = 0
      PROVE  disk = [i \in 1 .. Total |-> i]
  <2>1. dtPc \in {"free", "done"} /\ state = "OK" /\ sent = Total
    BY <1>1 DEF CInv, EndInv
  <2>2. ioPc \in {"acked", "exited"}
    BY <1>1, <2>1 DEF IInv, AckInv
  <2>3. Ahead = 0
    BY <1>1, <2>1, <2>2 DEF CInv, EndInv
  <2>4. Len(disk) = Total
    BY <1>1, <2>1, <2>3, DiskBehind
  <2> QED  BY <1>1, <2>4 DEF CInv, DiskInv
<1>2. IInv /\ CInv => CompleteImage
  BY <1>1 DEF CompleteImage
<1> QED  BY <1>2, DataInvariance, PTL

(* WriteGame, whatever fails and however the threads interleave, is the    *)
(* pipe of sectors: a bank handed over is a Put, a run written is a Get,   *)
(* the answer of IOEndWrite is the Close, and all else is invisible.       *)
THEOREM WriteGameImplementsPipe == Spec => ImplementsPipe
<1>1. Init => Pipe!Init
  BY DEF Init, IOWriteInit, Pipe!Init
<1>2. ASSUME IInv, CInv, IInv', CInv', [Next]_vars
      PROVE  [Pipe!Next]_(Pipe!pipeVars)
  <2> USE DEF Pipe!pipeVars
  <2>1. CASE SignalBank
    <3>1. sent \in Nat /\ NextLen \in Nat /\ NextLen > 0
      <4>1. remaining \in Nat /\ remaining > 0 /\ sent \in Nat
        BY <1>2, <2>1 DEF SignalBank, IInv, LoopInv, TypeOK
      <4> QED  BY ONLY <4>1, BankAssumption DEF NextLen, BankAssumption
    <3>2. sent' \in Nat /\ sent' > sent
      BY <2>1, <3>1 DEF SignalBank
    <3>3. ended = "open" /\ UNCHANGED <<disk, ended>>
      BY <2>1, <1>2 DEF SignalBank, IOSignalWriteDone, CInv, EndInv
    <3> QED  BY <3>2, <3>3 DEF Pipe!Next, Pipe!Put
  <2>2. CASE IOThread /\ WriteBanks
    <3>1. ended = "open" /\ UNCHANGED <<sent, ended>>
      BY <1>2, <2>2 DEF WriteBanks, IOThread, IInv, AckInv, CInv, EndInv
    <3>2. disk' = [i \in 1 .. Len(disk') |-> i] /\ Len(disk') <= sent
      <4>1. (IInv /\ CInv => Len(disk) <= sent)'
        BY DiskBehind, PTL
      <4> QED  BY <1>2, <3>1, <4>1 DEF CInv, DiskInv
    <3>3. Len(disk') = Len(disk) + ioSectors
      <4> DEFINE c == Contents(ReadPtr, ioSectors)
      <4>1. disk' = disk \o c /\ ioPc = "transfer"
        BY <2>2 DEF WriteBanks
      <4>2. c \in Seq(Nat) /\ Len(c) = ioSectors /\ disk \in Seq(Nat)
        BY <1>2, <4>1, RunOnDisk, Kinds
      <4> HIDE DEF c
      <4>3. Len(disk \o c) = Len(disk) + Len(c)
        BY ONLY <4>2
      <4> QED  BY ONLY <4>1, <4>2, <4>3
    <3>4. ioSectors > 0
      <4>1. /\ outBuf \in Nat /\ ioBanks \in Nat \ {0} /\ Ahead = outBuf + ioBanks
            /\ BufMax \in Nat \ {0} /\ sent \in Nat /\ Len(disk) \in Nat
        BY <1>2, <2>2, Kinds DEF WriteBanks, Ahead, Taken, IInv, ThreadInv
      <4>2. CASE outBuf = 0
        <5>1. (Ahead - 1) * BufMax \in Nat
          BY <4>1, <4>2, ProductNat
        <5>2. ioSectors = sent - Len(disk) /\ sent > Len(disk) + (Ahead - 1) * BufMax
          BY <1>2, <2>2, <4>1, <4>2 DEF WriteBanks, CInv, AmountInv, First
        <5> QED  BY ONLY <4>1, <5>1, <5>2
      <4>3. CASE outBuf # 0
        <5>1. ioSectors = ioBanks * BufMax
          BY <1>2, <2>2, <4>3 DEF WriteBanks, CInv, AmountInv
        <5>2. 1 * BufMax <= ioBanks * BufMax
          BY <4>1, ProductMonotone
        <5>3. 1 * BufMax = BufMax /\ ioBanks * BufMax \in Nat
          BY <4>1, ProductNat
        <5> QED  BY ONLY <4>1, <5>1, <5>2, <5>3
      <4> QED  BY <4>2, <4>3
    <3>5. Len(disk') \in Len(disk) + 1 .. sent
      <4>1. Len(disk) \in Nat /\ ioSectors \in Nat /\ sent \in Nat
        BY <1>2, Kinds
      <4> QED  BY ONLY <4>1, <3>2, <3>3, <3>4
    <3> QED  BY <3>1, <3>2, <3>5 DEF Pipe!Next, Pipe!Get
  <2>3. CASE EndReturns
    <3>1. ended = "open" /\ ended' = state /\ UNCHANGED <<sent, disk>>
      BY <1>2, <2>3 DEF EndReturns, IOEndWriteReturns, CInv, EndInv
    <3>2. state \in {"OK", "ERROR"}
      BY <1>2 DEF IInv, TypeOK, BankTypeOK
    <3>3. state = "OK" => Len(disk) = sent
      BY <1>2, <2>3, DiskBehind
      DEF EndReturns, IOEndWriteReturns, CInv, EndInv, IInv, AckInv
    <3> QED  BY <3>1, <3>2, <3>3 DEF Pipe!Next, Pipe!Close
  <2>4. CASE \/ GetBuffer \/ ReceiveBank \/ ReceiveFails \/ ExecBank \/ CheckStatus
             \/ LoopEnds \/ ExecEnd \/ FreeBanks
    BY <2>4 DEF GetBuffer, ReceiveBank, ReceiveFails, ExecBank, CheckStatus, LoopEnds,
                ExecEnd, FreeBanks, IOGetNextWrBuffer, FillBank, ExecWrite
  <2>5. CASE IOThread /\ ~WriteBanks
    BY <2>5 DEF IOThread, WriterThread, TakeBank, NothingToWrite, GatherBank, GatherDone,
                ReleaseBank, WriteNextReturns
  <2>6. CASE UNCHANGED vars
    BY <2>6 DEF vars
  <2> QED  BY <1>2, <2>1, <2>2, <2>3, <2>4, <2>5, <2>6 DEF Next, DataThread
<1> QED  BY <1>1, <1>2, DataInvariance, PTL DEF Spec, Pipe!Spec, ImplementsPipe
=============================================================================
