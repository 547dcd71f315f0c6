--------------------------- MODULE ReadGame_proofs ---------------------------
(***************************************************************************)
(* Proofs about ReadGame, for every number and size of banks and every     *)
(* length of the image.                                                    *)
(***************************************************************************)
EXTENDS ReadGame, TLAPS

USE BankAssumption
USE DEF BankAssumption, Banks

-----------------------------------------------------------------------------
(* The ring of banks and streams of sectors.                               *)

(* A position that is at most one lap ahead, brought back into the ring.   *)
Wrap(x) == IF x < NBufs THEN x ELSE x - NBufs

(* The code's % never has to take off more than one lap.                   *)
LEMMA WrapMod ==
  ASSUME NEW x \in Nat, x < 2 * NBufs
  PROVE  x % NBufs = Wrap(x)
<1>1. NBufs \in Nat \ {0}
  BY BankAssumption DEF BankAssumption
<1>2. CASE x < NBufs
  <2>1. x % NBufs = x  BY <1>1, <1>2, SMT
  <2> QED  BY <2>1, <1>2 DEF Wrap
<1>3. CASE NBufs <= x
  <2>1. x % NBufs = x - NBufs  BY <1>1, <1>3, SMT
  <2> QED  BY <2>1, <1>1, <1>3 DEF Wrap
<1> QED  BY <1>1, <1>2, <1>3

(* A transfer of at most b banks that starts at bank a and ends inside the *)
(* ring of n banks ends inside its memory.                                 *)
LEMMA RunInRing ==
  ASSUME NEW a \in Nat, NEW b \in Nat, NEW n \in Nat, NEW m \in Nat,
         a + b <= n, NEW s \in Nat, s <= b * m
  PROVE  a * m + s <= n * m
<1>1. a * m + b * m <= n * m
  BY SMT
<1>2. a * m \in Nat /\ b * m \in Nat /\ n * m \in Nat
  BY SMT
<1> QED  BY <1>1, <1>2

LEMMA OneMoreBank ==
  ASSUME NEW b \in Nat, NEW m \in Nat
  PROVE  (b + 1) * m = b * m + m
BY SMT

LEMMA ProductNat ==
  ASSUME NEW b \in Nat, NEW m \in Nat
  PROVE  b * m \in Nat
BY SMT

(* Products, of which the solver knows little when other facts are around. *)
LEMMA Distribute ==
  ASSUME NEW a \in Nat, NEW b \in Nat, NEW m \in Nat
  PROVE  (a + b) * m = a * m + b * m
BY SMT

LEMMA ProductMonotone ==
  ASSUME NEW a \in Nat, NEW b \in Nat, NEW m \in Nat, a <= b
  PROVE  a * m <= b * m
<1>1. PICK d \in Nat : b = a + d
  BY SMT
<1>2. b * m = a * m + d * m
  BY <1>1, Distribute
<1>3. a * m \in Nat /\ d * m \in Nat
  BY ProductNat
<1> QED  BY <1>2, <1>3

LEMMA InBank ==
  ASSUME NEW b \in Banks, NEW j \in 0 .. BufMax - 1
  PROVE  BankStart(b) + j \in Cells
<1>1. /\ b * BufMax \in Nat /\ NBufs * BufMax \in Nat
      /\ (b + 1) * BufMax = b * BufMax + BufMax
  BY ProductNat, OneMoreBank
<1>2. (b + 1) * BufMax <= NBufs * BufMax
  BY ProductMonotone
<1> QED  BY <1>1, <1>2 DEF BankStart, Cells

(* The cells of a run of b banks are none of a bank that is not in it.     *)
LEMMA RunApart ==
  ASSUME NEW r \in Nat, NEW b \in Nat, NEW w \in Banks, NEW s \in Nat,
         r + b <= NBufs, s <= b * BufMax, w < r \/ w >= r + b,
         NEW i \in 1 .. s
  PROVE  /\ BankStart(r) + i - 1 \in Cells
         /\ BankStart(r) + i - 1 \notin BankStart(w) .. BankStart(w) + BufMax - 1
<1> DEFINE m == BufMax
<1>1. m \in Nat \ {0} /\ NBufs \in Nat \ {0} /\ w \in Nat /\ i \in Nat /\ 1 <= i /\ i <= s
  OBVIOUS
<1>2. /\ (r + b) * m = r * m + b * m
      /\ (w + 1) * m = w * m + m
      /\ r * m \in Nat /\ w * m \in Nat /\ b * m \in Nat /\ NBufs * m \in Nat
  BY <1>1, Distribute, OneMoreBank, ProductNat
<1>3. (r + b) * m <= NBufs * m
  BY <1>1, ProductMonotone
<1>4. r * m + i - 1 \in 0 .. NBufs * m - 1
  BY <1>1, <1>2, <1>3
<1>5. CASE w < r
  <2>1. (w + 1) * m <= r * m
    BY <1>1, <1>5, ProductMonotone
  <2> QED  BY <1>1, <1>2, <1>4, <2>1 DEF BankStart, Cells
<1>6. CASE w >= r + b
  <2>1. (r + b) * m <= w * m
    BY <1>1, <1>6, ProductMonotone
  <2> QED  BY <1>1, <1>2, <1>4, <2>1 DEF BankStart, Cells
<1> QED  BY <1>5, <1>6

(* A stream of sectors goes on with those of a transfer, in order.         *)
LEMMA StreamGoesOn ==
  ASSUME NEW d \in Seq(Nat), NEW c \in Seq(Nat),
         d = [i \in 1 .. Len(d) |-> i], c = [i \in 1 .. Len(c) |-> Len(d) + i]
  PROVE  d \o c = [i \in 1 .. Len(d \o c) |-> i]
<1>1. /\ d \o c \in Seq(Nat) /\ Len(d \o c) = Len(d) + Len(c)
      /\ \A i \in 1 .. Len(d) : (d \o c)[i] = d[i]
      /\ \A i \in Len(d) + 1 .. Len(d) + Len(c) : (d \o c)[i] = c[i - Len(d)]
      /\ Len(d) \in Nat /\ Len(c) \in Nat
  OBVIOUS
<1>2. ASSUME NEW i \in 1 .. Len(d) + Len(c)
      PROVE  (d \o c)[i] = i
  <2>1. CASE i <= Len(d)
    BY <1>1, <2>1
  <2>2. CASE i > Len(d)
    <3>1. i - Len(d) \in 1 .. Len(c) /\ i \in Len(d) + 1 .. Len(d) + Len(c)
      BY <1>1, <2>2
    <3> QED  BY <1>1, <3>1
  <2> QED  BY <1>1, <2>1, <2>2
<1> DEFINE e == d \o c
<1>3. /\ e \in Seq(Nat) /\ Len(e) = Len(d) + Len(c)
      /\ \A i \in 1 .. Len(d) + Len(c) : e[i] = i
  BY <1>1, <1>2
<1> HIDE DEF e
<1>4. e = [i \in 1 .. Len(e) |-> i]
  BY ONLY <1>3
<1> QED  BY <1>4 DEF e

-----------------------------------------------------------------------------
(* The inductive invariant.                                                *)

(* Banks that the I/O thread filled and has not yet published.             *)
Filled == IF ioPc = "release" THEN ioBanks ELSE 0

(* Banks from ReadPtr on that hold data.                                   *)
Ahead == outBuf + Filled

(* The data thread has a bank of which remaining does not know yet.        *)
InHand == payload # NoBank /\ remaining > 0 /\ dtPc # "advance"

(* The sectors of the image in front of the bank at ReadPtr, and in front  *)
(* of the k-th bank behind it.  All but the last are full.                 *)
Passed == Total - remaining + (IF InHand THEN length ELSE 0)
First(k) == Passed + k * BufMax
Held(k) == IF k = Ahead - 1 THEN fetched - First(k) ELSE BufMax

(* Bank b was given n sectors, those that come after the first ones.       *)
Holds(b, n, first) ==
  /\ bd[b] = n
  /\ \A j \in 0 .. n - 1 : mem[BankStart(b) + j] = first + j + 1

(* The pointers are as far apart as there is data between them, and the    *)
(* bank that is sent is the one in front of ReadPtr.                       *)
RingInv ==
  /\ WritePtr = Wrap(ReadPtr + Ahead)
  /\ payload # NoBank => ReadPtr = Wrap(payload + 1)

(* What the I/O thread has in hand, place by place.  The lengths of the    *)
(* run are recorded before its data is there.                              *)
ThreadInv ==
  /\ ioPc \in {"asleep", "poll"} => ioBanks = 0 /\ ioSectors = 0
  /\ ioPc \in {"poll", "gather", "transfer", "release"} => ioMode = "READ"
  /\ command \in {"READ", "READ_END"}
  /\ ioMode \in {"NONE", "READ", "READ_END"}
  /\ ioPc # "release" => fetched + ioRemaining = Total
  /\ ioPc = "release" => fetched + ioRemaining = Total + ioSectors /\ ioSectors <= ioRemaining
RunInv ==
  ioPc \in {"gather", "transfer"} =>
    /\ ioBanks > 0
    /\ WritePtr + ioBanks <= NBufs
    /\ ioSectors <= ioRemaining
    /\ ioSectors > (ioBanks - 1) * BufMax
    /\ ioSectors <= ioBanks * BufMax
    /\ ioSectors < ioBanks * BufMax => ioSectors = ioRemaining
    /\ \A k \in 0 .. ioBanks - 1 :
         bd[WritePtr + k] = IF k = ioBanks - 1 THEN ioSectors - k * BufMax ELSE BufMax

(* The acknowledgement is given once, by a thread that is finished, and    *)
(* the banks are freed after it.                                           *)
AckInv ==
  /\ cmdAck > 0 => ioPc \in {"acked", "exited"}
  /\ dtPc \in {"free", "done"} => ioPc \in {"acked", "exited"}
  /\ ended # "open" <=> dtPc \in {"free", "done"}

(* The data thread has a bank where it sends one.                          *)
HandInv ==
  /\ dtPc \in {"loop", "exec"} /\ remaining > 0 => payload = NoBank
  /\ dtPc = "exec" => payload = NoBank
  /\ dtPc \in {"send", "check", "advance"} => payload # NoBank
  /\ dtPc \in {"send", "check", "advance"} => remaining > 0
  /\ dtPc \in {"send", "check"} => length <= remaining
  /\ dtPc = "check" => offset = length

(* Every bank that was read is full, but for the last of the image.        *)
AmountInv ==
  /\ Ahead = 0 => fetched = Passed
  /\ Ahead > 0 => fetched > First(Ahead - 1) /\ fetched <= First(Ahead)
  /\ fetched < First(Ahead) => fetched = Total

(* The banks that wait hold what comes next, in the order of the ring, and *)
(* so does the one that is sent.                                           *)
WaitingInv ==
  dtPc # "done" => \A k \in 0 .. Ahead - 1 : Holds(Wrap(ReadPtr + k), Held(k), First(k))
SendingInv ==
  dtPc = "send" =>
    \A j \in 0 .. length - 1 : mem[BankStart(payload) + j] = Total - remaining + j + 1

(* The peer has the beginning of the image, up to where the data thread is.*)
PeerInv ==
  /\ peer = [i \in 1 .. Len(peer) |-> i]
  /\ Len(peer) = Total - remaining + (IF InHand THEN offset ELSE 0)

IInv == /\ TypeOK /\ BankConservation
        /\ RingInv /\ ThreadInv /\ RunInv /\ AckInv /\ HandInv
        /\ AmountInv /\ WaitingInv /\ SendingInv /\ PeerInv

-----------------------------------------------------------------------------
USE BankAssumption, TotalAssumption
USE DEF BankAssumption, TotalAssumption, Banks, Commands, Places, DataPlaces, NoBank,
        ringVars, semaVars, threadVars, readerVars, callerVars

(* Types of what the parts of the invariant speak of.                      *)
LEMMA Kinds ==
  ASSUME IInv
  PROVE  /\ NBufs \in Nat \ {0} /\ BufMax \in Nat \ {0} /\ Total \in Nat
         /\ inBuf \in Nat /\ outBuf \in Nat /\ Filled \in Nat /\ ioBanks \in Nat
         /\ Ahead \in Nat /\ Ahead = outBuf + Filled
         /\ inBuf + outBuf + ioBanks + (IF payload = NoBank THEN 0 ELSE 1) = NBufs
         /\ Ahead + (IF payload = NoBank THEN 0 ELSE 1) <= NBufs
         /\ ReadPtr \in 0 .. NBufs - 1 /\ WritePtr \in 0 .. NBufs - 1
         /\ ioSectors \in Nat /\ fetched \in 0 .. Total
         /\ remaining \in 0 .. Total /\ length \in 0 .. BufMax /\ offset \in 0 .. length
         /\ Passed \in Nat
<1>1. /\ NBufs \in Nat \ {0} /\ BufMax \in Nat \ {0} /\ Total \in Nat
      /\ inBuf \in Nat /\ outBuf \in Nat /\ ioBanks \in Nat
      /\ ReadPtr \in 0 .. NBufs - 1 /\ WritePtr \in 0 .. NBufs - 1
      /\ ioSectors \in Nat /\ fetched \in 0 .. Total
      /\ remaining \in 0 .. Total /\ length \in 0 .. BufMax /\ offset \in 0 .. length
  BY DEF IInv, TypeOK, BankTypeOK
<1>2. inBuf + outBuf + ioBanks + (IF payload = NoBank THEN 0 ELSE 1) = NBufs
  BY DEF IInv, BankConservation
<1>3. Filled \in 0 .. ioBanks
  BY <1>1 DEF Filled
<1>4. Ahead \in Nat /\ Ahead + (IF payload = NoBank THEN 0 ELSE 1) <= NBufs
  BY ONLY <1>1, <1>2, <1>3 DEF Ahead
<1>5. Passed \in Nat
  BY ONLY <1>1 DEF Passed
<1> QED  BY <1>1, <1>2, <1>3, <1>4, <1>5 DEF Ahead

(* While there is more to come, what was read so far fills its banks.      *)
LEMMA AllFull ==
  ASSUME IInv, fetched # Total
  PROVE  /\ fetched = First(Ahead)
         /\ \A k \in 0 .. Ahead - 1 : Held(k) = BufMax
<1>1. fetched \in Nat /\ Passed \in Nat /\ Ahead \in Nat /\ BufMax \in Nat \ {0}
  BY Kinds
<1>2. fetched = First(Ahead)
  <2>1. CASE Ahead = 0
    BY <1>1, <2>1 DEF IInv, AmountInv, First
  <2>2. CASE Ahead > 0
    <3>1. First(Ahead) \in Nat
      BY <1>1, ProductNat DEF First
    <3> QED  BY <1>1, <2>2, <3>1 DEF IInv, AmountInv
  <2> QED  BY <1>1, <2>1, <2>2
<1>3. ASSUME NEW k \in 0 .. Ahead - 1, k = Ahead - 1
      PROVE  fetched - First(k) = BufMax
  <2>1. k \in Nat /\ Ahead = k + 1
    BY <1>1, <1>3
  <2>2. (k + 1) * BufMax = k * BufMax + BufMax /\ k * BufMax \in Nat
    BY <2>1, OneMoreBank, ProductNat
  <2> QED  BY <1>1, <1>2, <2>1, <2>2 DEF First
<1> QED  BY <1>2, <1>3 DEF Held

(* The bank that is sent next holds what comes next, and some of it.       *)
LEMMA NextIsThere ==
  ASSUME IInv, Ahead > 0, dtPc # "done"
  PROVE  /\ Holds(ReadPtr, Held(0), Passed)
         /\ Held(0) \in 1 .. fetched - Passed
<1>1. /\ Ahead \in Nat /\ Passed \in Nat /\ fetched \in Nat /\ BufMax \in Nat \ {0}
      /\ ReadPtr \in 0 .. NBufs - 1
  BY Kinds
<1>2. First(0) = Passed
  BY <1>1 DEF First
<1>3. Holds(ReadPtr, Held(0), Passed)
  <2>1. 0 \in 0 .. Ahead - 1 /\ Wrap(ReadPtr + 0) = ReadPtr
    BY <1>1 DEF Wrap
  <2> QED  BY <1>2, <2>1 DEF IInv, WaitingInv
<1>4. CASE Ahead = 1
  <2>1. Held(0) = fetched - Passed /\ fetched > Passed
    BY <1>2, <1>4 DEF Held, IInv, AmountInv
  <2> QED  BY <1>1, <1>3, <2>1
<1>5. CASE Ahead # 1
  <2>1. Ahead - 1 \in Nat /\ 1 <= Ahead - 1 /\ Held(0) = BufMax
    BY <1>1, <1>5 DEF Held
  <2>2. 1 * BufMax <= (Ahead - 1) * BufMax /\ (Ahead - 1) * BufMax \in Nat
    BY <1>1, <2>1, ProductMonotone, ProductNat
  <2>3. fetched > Passed + (Ahead - 1) * BufMax
    BY DEF IInv, AmountInv, First
  <2>4. Held(0) \in 1 .. fetched - Passed
    BY ONLY <1>1, <2>1, <2>2, <2>3
  <2> QED  BY <1>3, <2>4
<1> QED  BY <1>4, <1>5

(* Neither the banks that wait nor the one that is sent are among those    *)
(* that the I/O thread has in hand or may take next.                       *)
LEMMA WaitingApart ==
  ASSUME IInv, ioPc # "release", NEW k \in 0 .. Ahead - 1,
         NEW q \in Nat, q < ioBanks + inBuf, WritePtr + q < NBufs
  PROVE  Wrap(ReadPtr + k) \in Banks /\ Wrap(ReadPtr + k) # WritePtr + q
<1>1. /\ outBuf \in Nat /\ ioBanks \in Nat /\ inBuf \in Nat
      /\ ReadPtr \in 0 .. NBufs - 1 /\ WritePtr \in Nat
      /\ outBuf + ioBanks + inBuf <= NBufs
  BY Kinds
<1>2. Ahead = outBuf
  BY <1>1 DEF Ahead, Filled
<1>3. WritePtr = Wrap(ReadPtr + Ahead)
  BY DEF IInv, RingInv
<1>4. k \in Nat /\ k < Ahead
  BY <1>1, <1>2
<1> QED  BY ONLY <1>1, <1>2, <1>3, <1>4, q \in Nat, q < ioBanks + inBuf,
                 WritePtr + q < NBufs, BankAssumption
         DEF Wrap, Banks, BankAssumption

LEMMA SendingApart ==
  ASSUME IInv, payload # NoBank, ioPc # "release",
         NEW q \in Nat, q < ioBanks + inBuf
  PROVE  payload \in Banks /\ WritePtr + q # payload /\ WritePtr + q - NBufs # payload
<1>1. /\ outBuf \in Nat /\ ioBanks \in Nat /\ inBuf \in Nat
      /\ ReadPtr \in 0 .. NBufs - 1 /\ WritePtr \in Nat
      /\ outBuf + ioBanks + inBuf + 1 = NBufs
  BY Kinds
<1>2. Ahead = outBuf
  BY <1>1 DEF Ahead, Filled
<1>3. WritePtr = Wrap(ReadPtr + Ahead) /\ ReadPtr = Wrap(payload + 1)
  BY DEF IInv, RingInv
<1>4. payload \in 0 .. NBufs - 1
  BY DEF IInv, TypeOK
<1> QED  BY ONLY <1>1, <1>2, <1>3, <1>4, q \in Nat, q < ioBanks + inBuf, BankAssumption
         DEF Wrap, Banks, BankAssumption

(* A step that touches no bank that waits keeps what is known of them.     *)
LEMMA DataStays ==
  ASSUME IInv, UNCHANGED <<mem, ReadPtr, fetched>>,
         Ahead' = Ahead, Passed' = Passed,
         \A k \in 0 .. Ahead - 1 : bd'[Wrap(ReadPtr + k)] = bd[Wrap(ReadPtr + k)],
         dtPc = "done" => dtPc' = "done"
  PROVE  AmountInv' /\ WaitingInv'
<1>1. /\ \A k : First(k)' = First(k)
      /\ \A k : Held(k)' = Held(k)
      /\ \A k : Wrap(ReadPtr + k)' = Wrap(ReadPtr + k)
  BY DEF First, Held, Wrap
<1>2. AmountInv'
  BY <1>1 DEF IInv, AmountInv
<1>3. WaitingInv'
  <2> SUFFICES ASSUME dtPc # "done", NEW k \in 0 .. Ahead - 1
               PROVE  Holds(Wrap(ReadPtr + k), Held(k), First(k))'
    BY DEF WaitingInv
  <2>1. Holds(Wrap(ReadPtr + k), Held(k), First(k))
    BY DEF IInv, WaitingInv
  <2> QED  BY <1>1, <2>1 DEF Holds, BankStart
<1> QED  BY <1>2, <1>3

-----------------------------------------------------------------------------
(* Every step keeps the invariant: one lemma per action, one step per      *)
(* conjunct.                                                               *)
LEMMA NextBankKeeps ==
  ASSUME IInv, NextBank
  PROVE  IInv'
<1> USE DEF IInv, NextBank, IOReadNext
<1> DEFINE n == bd[ReadPtr]
<1>a. /\ NBufs \in Nat \ {0} /\ BufMax \in Nat \ {0} /\ Total \in Nat
      /\ outBuf \in Nat \ {0} /\ Filled \in Nat
      /\ Ahead \in Nat \ {0} /\ Ahead = outBuf + Filled
      /\ ReadPtr \in 0 .. NBufs - 1
      /\ fetched \in 0 .. Total /\ remaining \in 0 .. Total /\ Passed \in Nat
      /\ Ahead <= NBufs
  BY Kinds
<1>b. n = Held(0) /\ n \in 1 .. fetched - Passed /\ Holds(ReadPtr, n, Passed)
  BY <1>a, NextIsThere DEF Holds
<1>c. payload = NoBank /\ Passed = Total - remaining
  BY <1>a DEF HandInv, Passed, InHand
<1>d. n \in 1 .. remaining /\ n \in Nat
  BY ONLY <1>a, <1>b, <1>c
<1>e. Passed' = Passed + n
  BY <1>a, <1>c DEF Passed, InHand
<1>f. Ahead' = Ahead - 1
  <2>1. outBuf' = outBuf - 1 /\ Filled' = Filled
    BY DEF Filled
  <2> QED  BY ONLY <1>a, <2>1 DEF Ahead
<1>g. ReadPtr' = Wrap(ReadPtr + 1)
  <2>1. ReadPtr + 1 \in Nat /\ ReadPtr + 1 < 2 * NBufs
    BY <1>a
  <2> QED  BY <2>1, WrapMod
<1>h. ASSUME Ahead # 1
      PROVE  /\ n = BufMax
             /\ \A k \in Nat : First(k)' = First(k + 1)
             /\ \A k \in 0 .. Ahead - 2 : Held(k)' = Held(k + 1)
  <2>1. n = BufMax
    BY <1>a, <1>b, <1>h DEF Held
  <2>2. ASSUME NEW k \in Nat
        PROVE  First(k)' = First(k + 1)
    <3>1. (k + 1) * BufMax = k * BufMax + BufMax /\ k * BufMax \in Nat
      BY <1>a, OneMoreBank, ProductNat
    <3>2. First(k)' = Passed' + k * BufMax
      BY DEF First
    <3> QED  BY <1>a, <1>e, <2>1, <3>1, <3>2 DEF First
  <2>3. ASSUME NEW k \in 0 .. Ahead - 2
        PROVE  Held(k)' = Held(k + 1)
    <3>1. k \in Nat /\ (k = Ahead' - 1 <=> k + 1 = Ahead - 1)
      BY <1>a, <1>f
    <3>2. fetched' = fetched /\ First(k)' = First(k + 1)
      BY <2>2, <3>1
    <3> QED  BY <3>1, <3>2 DEF Held
  <2> QED  BY <2>1, <2>2, <2>3
<1>1. TypeOK'
  <2>1. ReadPtr' \in Banks
    BY <1>a, <1>g DEF Wrap
  <2>2. n \in 0 .. BufMax
    BY <1>a DEF TypeOK, BankTypeOK
  <2> QED  BY <1>a, <2>1, <2>2 DEF TypeOK, BankTypeOK
<1>2. BankConservation'
  BY <1>a, <1>c DEF BankConservation, TypeOK, BankTypeOK
<1>3. RingInv'
  <2>1. WritePtr = Wrap(ReadPtr + Ahead) /\ WritePtr' = WritePtr
    BY DEF RingInv
  <2>2. WritePtr' = Wrap(Wrap(ReadPtr + 1) + (Ahead - 1))
    BY ONLY <1>a, <2>1 DEF Wrap
  <2> QED  BY <1>f, <1>g, <2>2 DEF RingInv, Wrap
<1>4. ThreadInv'
  BY DEF TypeOK, BankTypeOK, ThreadInv, RunInv
<1>5. RunInv'
  BY DEF TypeOK, BankTypeOK, RunInv, ThreadInv
<1>6. AckInv'
  BY DEF TypeOK, BankTypeOK, AckInv
<1>7. HandInv'
  BY <1>a, <1>d DEF HandInv
<1>8. AmountInv'
  <2>1. CASE Ahead = 1
    <3>1. fetched = Passed'
      <4>1. n = fetched - Passed
        BY <1>a, <1>b, <2>1 DEF Held, First
      <4> QED  BY ONLY <1>a, <1>e, <4>1
    <3>2. Ahead' = 0 /\ First(Ahead)' = Passed'
      BY <1>a, <1>e, <1>f, <2>1, <1>d DEF First
    <3> QED  BY <1>a, <1>f, <3>1, <3>2 DEF AmountInv
  <2>2. CASE Ahead # 1
    <3>1. First(Ahead)' = First(Ahead) /\ First(Ahead - 1)' = First(Ahead - 1)
      <4>1. Ahead' \in Nat /\ Ahead' - 1 \in Nat /\ Ahead' + 1 = Ahead /\ (Ahead' - 1) + 1 = Ahead - 1
        BY ONLY <1>a, <1>f, <2>2
      <4>2. \A k \in Nat : Passed' + k * BufMax = First(k + 1)
        BY <1>h, <2>2 DEF First
      <4>3. First(Ahead)' = Passed' + Ahead' * BufMax /\ First(Ahead - 1)' = Passed' + (Ahead' - 1) * BufMax
        BY DEF First
      <4> QED  BY <4>1, <4>2, <4>3
    <3> QED  BY <1>a, <1>f, <2>2, <3>1 DEF AmountInv
  <2> QED  BY <2>1, <2>2
<1>9. WaitingInv'
  <2> SUFFICES ASSUME NEW k \in 0 .. Ahead - 2
               PROVE  Holds(Wrap(ReadPtr + k), Held(k), First(k))'
    BY <1>a, <1>f DEF WaitingInv
  <2>1. k \in Nat /\ k + 1 \in 0 .. Ahead - 1 /\ Ahead # 1
    BY <1>a
  <2>2. First(k)' = First(k + 1) /\ Held(k)' = Held(k + 1)
    BY <1>h, <2>1
  <2>3. Wrap(ReadPtr + k)' = Wrap(ReadPtr + (k + 1))
    <3>1. Wrap(Wrap(ReadPtr + 1) + k) = Wrap(ReadPtr + (k + 1))
      BY ONLY <1>a, <2>1 DEF Wrap
    <3> QED  BY <1>g, <3>1 DEF Wrap
  <2>4. Holds(Wrap(ReadPtr + (k + 1)), Held(k + 1), First(k + 1))
    BY <2>1 DEF WaitingInv
  <2> QED  BY <2>2, <2>3, <2>4 DEF Holds, BankStart
<1>10. SendingInv'
  BY <1>b, <1>c DEF SendingInv, Holds, BankStart
<1>11. PeerInv'
  BY DEF PeerInv, InHand, HandInv
<1> QED
  BY <1>1, <1>2, <1>3, <1>4, <1>5, <1>6, <1>7, <1>8, <1>9, <1>10, <1>11

LEMMA SendSomeKeeps ==
  ASSUME IInv, SendSome
  PROVE  IInv'
<1> USE DEF IInv, SendSome
<1>a. PICK len \in 1 .. length - offset :
        /\ peer' = peer \o [k \in 1 .. len |-> mem[BankStart(payload) + offset + k - 1]]
        /\ offset' = offset + len
  OBVIOUS
<1> DEFINE c == [k \in 1 .. len |-> mem[BankStart(payload) + offset + k - 1]]
<1>b. /\ length \in 0 .. BufMax /\ offset \in 0 .. length /\ len \in Nat /\ offset + len <= length
      /\ BufMax \in Nat /\ Total \in Nat /\ remaining \in 0 .. Total /\ len >= 1
  BY DEF TypeOK
<1>c. payload \in Banks
  BY DEF HandInv, TypeOK
<1>d. BankStart(payload) \in Nat
  BY <1>c, ProductNat DEF BankStart
<1>e. ASSUME NEW k \in 1 .. len
      PROVE  c[k] = Total - remaining + offset + k
  <2> DEFINE j == offset + k - 1
  <2>1. j \in 0 .. length - 1 /\ j \in 0 .. BufMax - 1
    BY <1>b
  <2>2. mem[BankStart(payload) + j] = Total - remaining + j + 1
    BY <2>1 DEF SendingInv
  <2>3. /\ BankStart(payload) + j = BankStart(payload) + offset + k - 1
        /\ Total - remaining + j + 1 = Total - remaining + offset + k
    BY ONLY <1>b, <1>d, <2>1
  <2> QED  BY <2>2, <2>3
<1>f. c \in [1 .. len -> Nat]
  BY <1>b, <1>e
<1>g. c \in Seq(Nat) /\ Len(c) = len
  BY <1>b, <1>f
<1>h. peer' = peer \o c
  BY <1>a
<1>i. peer \in Seq(Nat) /\ Len(peer) = Total - remaining + offset
  BY DEF TypeOK, PeerInv, InHand, HandInv
<1>j. c = [k \in 1 .. Len(c) |-> Len(peer) + k]
  BY <1>b, <1>e, <1>g, <1>i
<1> HIDE DEF c
<1>k. peer \o c \in Seq(Nat) /\ Len(peer \o c) = Len(peer) + Len(c)
  BY ONLY <1>g, <1>i
<1>1. TypeOK'
  <2>1. offset' \in 0 .. length
    BY <1>a, <1>b
  <2>2. peer' \in Seq(Nat)
    BY <1>h, <1>k
  <2> QED  BY <2>1, <2>2 DEF TypeOK, BankTypeOK
<1>2. BankConservation'
  BY DEF TypeOK, BankTypeOK, BankConservation, ThreadInv, HandInv
<1>3. RingInv'
  BY DEF TypeOK, BankTypeOK, RingInv, Ahead, Filled, ThreadInv, HandInv
<1>4. ThreadInv'
  BY DEF TypeOK, BankTypeOK, ThreadInv, RunInv
<1>5. RunInv'
  BY DEF TypeOK, BankTypeOK, RunInv, ThreadInv
<1>6. AckInv'
  BY DEF TypeOK, BankTypeOK, AckInv
<1>7. HandInv'
  BY DEF TypeOK, BankTypeOK, HandInv
<1>8. AmountInv' /\ WaitingInv'
  <2>1. Ahead' = Ahead /\ Passed' = Passed
    BY DEF Ahead, Filled, Passed, InHand, HandInv, ThreadInv, TypeOK
  <2> QED  BY <2>1, DataStays
<1>9. SendingInv'
  BY DEF SendingInv, BankStart
<1>10. PeerInv'
  <2>1. peer' = [i \in 1 .. Len(peer') |-> i]
    BY <1>g, <1>h, <1>i, <1>j, StreamGoesOn DEF PeerInv
  <2>2. Len(peer') = Total - remaining + (offset + len)
    BY ONLY <1>b, <1>g, <1>h, <1>i, <1>k
  <2> QED  BY <1>a, <2>1, <2>2 DEF PeerInv, InHand, HandInv
<1> QED
  BY <1>1, <1>2, <1>3, <1>4, <1>5, <1>6, <1>7, <1>8, <1>9, <1>10

LEMMA SendDoneKeeps ==
  ASSUME IInv, SendDone
  PROVE  IInv'
<1> USE DEF IInv, SendDone
<1>1. TypeOK'
  BY DEF TypeOK, BankTypeOK, BankConservation, AckInv, HandInv, ThreadInv, RunInv
<1>2. BankConservation'
  BY DEF TypeOK, BankTypeOK, BankConservation, ThreadInv, HandInv
<1>3. RingInv'
  BY DEF TypeOK, BankTypeOK, RingInv, Ahead, Filled, ThreadInv, HandInv
<1>4. ThreadInv'
  BY DEF TypeOK, BankTypeOK, ThreadInv, RunInv
<1>5. RunInv'
  BY DEF TypeOK, BankTypeOK, RunInv, ThreadInv
<1>6. AckInv'
  BY DEF TypeOK, BankTypeOK, AckInv
<1>7. HandInv'
  BY DEF TypeOK, BankTypeOK, HandInv
<1>8. AmountInv' /\ WaitingInv'
  <2>1. Ahead' = Ahead /\ Passed' = Passed
    BY DEF Ahead, Filled, Passed, InHand, HandInv, ThreadInv, TypeOK
  <2> QED  BY <2>1, DataStays
<1>9. SendingInv'
  BY DEF SendingInv, BankStart
<1>10. PeerInv'
  BY DEF PeerInv, InHand, HandInv
<1> QED
  BY <1>1, <1>2, <1>3, <1>4, <1>5, <1>6, <1>7, <1>8, <1>9, <1>10

LEMMA SendFailsKeeps ==
  ASSUME IInv, SendFails
  PROVE  IInv'
<1> USE DEF IInv, SendFails
<1>1. TypeOK'
  BY DEF TypeOK, BankTypeOK, BankConservation, AckInv, HandInv, ThreadInv, RunInv
<1>2. BankConservation'
  BY DEF TypeOK, BankTypeOK, BankConservation, ThreadInv, HandInv
<1>3. RingInv'
  BY DEF TypeOK, BankTypeOK, RingInv, Ahead, Filled, ThreadInv, HandInv
<1>4. ThreadInv'
  BY DEF TypeOK, BankTypeOK, ThreadInv, RunInv
<1>5. RunInv'
  BY DEF TypeOK, BankTypeOK, RunInv, ThreadInv
<1>6. AckInv'
  BY DEF TypeOK, BankTypeOK, AckInv
<1>7. HandInv'
  BY DEF TypeOK, BankTypeOK, HandInv
<1>8. AmountInv' /\ WaitingInv'
  <2>1. Ahead' = Ahead /\ Passed' = Passed
    BY DEF Ahead, Filled, Passed, InHand, HandInv, ThreadInv, TypeOK
  <2> QED  BY <2>1, DataStays
<1>9. SendingInv'
  BY DEF SendingInv, BankStart
<1>10. PeerInv'
  BY DEF PeerInv, InHand, HandInv
<1> QED
  BY <1>1, <1>2, <1>3, <1>4, <1>5, <1>6, <1>7, <1>8, <1>9, <1>10

LEMMA CheckStatusKeeps ==
  ASSUME IInv, CheckStatus
  PROVE  IInv'
<1> USE DEF IInv, CheckStatus
<1>1. TypeOK'
  BY DEF TypeOK, BankTypeOK, BankConservation, AckInv, HandInv, ThreadInv, RunInv
<1>2. BankConservation'
  BY DEF TypeOK, BankTypeOK, BankConservation, ThreadInv, HandInv
<1>3. RingInv'
  BY DEF TypeOK, BankTypeOK, RingInv, Ahead, Filled, ThreadInv, HandInv
<1>4. ThreadInv'
  BY DEF TypeOK, BankTypeOK, ThreadInv, RunInv
<1>5. RunInv'
  BY DEF TypeOK, BankTypeOK, RunInv, ThreadInv
<1>6. AckInv'
  BY DEF TypeOK, BankTypeOK, AckInv
<1>7. HandInv'
  BY DEF TypeOK, BankTypeOK, HandInv
<1>8. AmountInv' /\ WaitingInv'
  <2>1. Ahead' = Ahead /\ Passed' = Passed
    BY DEF Ahead, Filled, Passed, InHand, HandInv, ThreadInv, TypeOK
  <2> QED  BY <2>1, DataStays
<1>9. SendingInv'
  BY DEF SendingInv, BankStart
<1>10. PeerInv'
  <2>1. /\ length \in Nat /\ remaining \in 0 .. Total /\ Total \in Nat /\ length <= remaining
        /\ offset = length /\ InHand /\ remaining > 0
    BY DEF TypeOK, HandInv, InHand
  <2>2. Len(peer') = Total - remaining + length
    BY <2>1 DEF PeerInv
  <2>3. CASE state = "ERROR"
    BY <2>3 DEF PeerInv, InHand
  <2>4. CASE state # "ERROR"
    <3>1. ~InHand' /\ remaining' = remaining - length
      BY <2>1, <2>4 DEF InHand
    <3>2. Len(peer') = Total - remaining'
      BY ONLY <2>1, <2>2, <3>1
    <3> QED  BY <2>1, <3>1, <3>2 DEF PeerInv
  <2> QED  BY <2>3, <2>4
<1> QED
  BY <1>1, <1>2, <1>3, <1>4, <1>5, <1>6, <1>7, <1>8, <1>9, <1>10

LEMMA AdvanceBankKeeps ==
  ASSUME IInv, AdvanceBank
  PROVE  IInv'
<1> USE DEF IInv, AdvanceBank, IOReadAdvance
<1>1. TypeOK'
  BY DEF TypeOK, BankTypeOK, BankConservation, AckInv, HandInv, ThreadInv, RunInv
<1>2. BankConservation'
  BY DEF TypeOK, BankTypeOK, BankConservation, ThreadInv, HandInv
<1>3. RingInv'
  BY DEF TypeOK, BankTypeOK, RingInv, Ahead, Filled, ThreadInv, HandInv
<1>4. ThreadInv'
  BY DEF TypeOK, BankTypeOK, ThreadInv, RunInv
<1>5. RunInv'
  BY DEF TypeOK, BankTypeOK, RunInv, ThreadInv
<1>6. AckInv'
  BY DEF TypeOK, BankTypeOK, AckInv
<1>7. HandInv'
  BY DEF TypeOK, BankTypeOK, HandInv
<1>8. AmountInv' /\ WaitingInv'
  <2>1. Ahead' = Ahead /\ Passed' = Passed
    BY DEF Ahead, Filled, Passed, InHand, HandInv, ThreadInv, TypeOK
  <2> QED  BY <2>1, DataStays
<1>9. SendingInv'
  BY DEF SendingInv, BankStart
<1>10. PeerInv'
  BY DEF PeerInv, InHand, HandInv
<1> QED
  BY <1>1, <1>2, <1>3, <1>4, <1>5, <1>6, <1>7, <1>8, <1>9, <1>10

LEMMA ExecNextKeeps ==
  ASSUME IInv, ExecNext
  PROVE  IInv'
<1> USE DEF IInv, ExecNext, ExecRead, IOExecCmd
<1>1. TypeOK'
  BY DEF TypeOK, BankTypeOK, BankConservation, AckInv, HandInv, ThreadInv, RunInv
<1>2. BankConservation'
  BY DEF TypeOK, BankTypeOK, BankConservation, ThreadInv, HandInv
<1>3. RingInv'
  BY DEF TypeOK, BankTypeOK, RingInv, Ahead, Filled, ThreadInv, HandInv
<1>4. ThreadInv'
  BY DEF TypeOK, BankTypeOK, ThreadInv, RunInv
<1>5. RunInv'
  BY DEF TypeOK, BankTypeOK, RunInv, ThreadInv
<1>6. AckInv'
  BY DEF TypeOK, BankTypeOK, AckInv
<1>7. HandInv'
  BY DEF TypeOK, BankTypeOK, HandInv
<1>8. AmountInv' /\ WaitingInv'
  <2>1. Ahead' = Ahead /\ Passed' = Passed
    BY DEF Ahead, Filled, Passed, InHand, HandInv, ThreadInv, TypeOK
  <2> QED  BY <2>1, DataStays
<1>9. SendingInv'
  BY DEF SendingInv, BankStart
<1>10. PeerInv'
  BY DEF PeerInv, InHand, HandInv
<1> QED
  BY <1>1, <1>2, <1>3, <1>4, <1>5, <1>6, <1>7, <1>8, <1>9, <1>10

LEMMA LoopEndsKeeps ==
  ASSUME IInv, LoopEnds
  PROVE  IInv'
<1> USE DEF IInv, LoopEnds
<1>1. TypeOK'
  BY DEF TypeOK, BankTypeOK, BankConservation, AckInv, HandInv, ThreadInv, RunInv
<1>2. BankConservation'
  BY DEF TypeOK, BankTypeOK, BankConservation, ThreadInv, HandInv
<1>3. RingInv'
  BY DEF TypeOK, BankTypeOK, RingInv, Ahead, Filled, ThreadInv, HandInv
<1>4. ThreadInv'
  BY DEF TypeOK, BankTypeOK, ThreadInv, RunInv
<1>5. RunInv'
  BY DEF TypeOK, BankTypeOK, RunInv, ThreadInv
<1>6. AckInv'
  BY DEF TypeOK, BankTypeOK, AckInv
<1>7. HandInv'
  BY DEF TypeOK, BankTypeOK, HandInv
<1>8. AmountInv' /\ WaitingInv'
  <2>1. Ahead' = Ahead /\ Passed' = Passed
    BY DEF Ahead, Filled, Passed, InHand, HandInv, ThreadInv, TypeOK
  <2> QED  BY <2>1, DataStays
<1>9. SendingInv'
  BY DEF SendingInv, BankStart
<1>10. PeerInv'
  BY DEF PeerInv, InHand, HandInv
<1> QED
  BY <1>1, <1>2, <1>3, <1>4, <1>5, <1>6, <1>7, <1>8, <1>9, <1>10

LEMMA ExecEndKeeps ==
  ASSUME IInv, ExecEnd
  PROVE  IInv'
<1> USE DEF IInv, ExecEnd, ExecRead, IOExecCmd
<1>1. TypeOK'
  BY DEF TypeOK, BankTypeOK, BankConservation, AckInv, HandInv, ThreadInv, RunInv
<1>2. BankConservation'
  BY DEF TypeOK, BankTypeOK, BankConservation, ThreadInv, HandInv
<1>3. RingInv'
  BY DEF TypeOK, BankTypeOK, RingInv, Ahead, Filled, ThreadInv, HandInv
<1>4. ThreadInv'
  BY DEF TypeOK, BankTypeOK, ThreadInv, RunInv
<1>5. RunInv'
  BY DEF TypeOK, BankTypeOK, RunInv, ThreadInv
<1>6. AckInv'
  BY DEF TypeOK, BankTypeOK, AckInv
<1>7. HandInv'
  BY DEF TypeOK, BankTypeOK, HandInv
<1>8. AmountInv' /\ WaitingInv'
  <2>1. Ahead' = Ahead /\ Passed' = Passed
    BY DEF Ahead, Filled, Passed, InHand, HandInv, ThreadInv, TypeOK
  <2> QED  BY <2>1, DataStays
<1>9. SendingInv'
  BY DEF SendingInv, BankStart
<1>10. PeerInv'
  BY DEF PeerInv, InHand, HandInv
<1> QED
  BY <1>1, <1>2, <1>3, <1>4, <1>5, <1>6, <1>7, <1>8, <1>9, <1>10

LEMMA EndReturnsKeeps ==
  ASSUME IInv, EndReturns
  PROVE  IInv'
<1> USE DEF IInv, EndReturns, IOEndReadReturns
<1>1. TypeOK'
  BY DEF TypeOK, BankTypeOK, BankConservation, AckInv, HandInv, ThreadInv, RunInv
<1>2. BankConservation'
  BY DEF TypeOK, BankTypeOK, BankConservation, ThreadInv, HandInv
<1>3. RingInv'
  BY DEF TypeOK, BankTypeOK, RingInv, Ahead, Filled, ThreadInv, HandInv
<1>4. ThreadInv'
  BY DEF TypeOK, BankTypeOK, ThreadInv, RunInv
<1>5. RunInv'
  BY DEF TypeOK, BankTypeOK, RunInv, ThreadInv
<1>6. AckInv'
  BY DEF TypeOK, BankTypeOK, AckInv
<1>7. HandInv'
  BY DEF TypeOK, BankTypeOK, HandInv
<1>8. AmountInv' /\ WaitingInv'
  <2>1. Ahead' = Ahead /\ Passed' = Passed
    BY DEF Ahead, Filled, Passed, InHand, HandInv, ThreadInv, TypeOK
  <2> QED  BY <2>1, DataStays
<1>9. SendingInv'
  BY DEF SendingInv, BankStart
<1>10. PeerInv'
  BY DEF PeerInv, InHand, HandInv
<1> QED
  BY <1>1, <1>2, <1>3, <1>4, <1>5, <1>6, <1>7, <1>8, <1>9, <1>10

LEMMA FreeBanksKeeps ==
  ASSUME IInv, FreeBanks
  PROVE  IInv'
<1> USE DEF IInv, FreeBanks
<1>1. TypeOK'
  BY DEF TypeOK, BankTypeOK, BankConservation, AckInv, HandInv, ThreadInv, RunInv
<1>2. BankConservation'
  BY DEF TypeOK, BankTypeOK, BankConservation, ThreadInv, HandInv
<1>3. RingInv'
  BY DEF TypeOK, BankTypeOK, RingInv, Ahead, Filled, ThreadInv, HandInv
<1>4. ThreadInv'
  BY DEF TypeOK, BankTypeOK, ThreadInv, RunInv
<1>5. RunInv'
  BY DEF RunInv, AckInv
<1>6. AckInv'
  BY DEF TypeOK, BankTypeOK, AckInv
<1>7. HandInv'
  BY DEF TypeOK, BankTypeOK, HandInv
<1>8. AmountInv'
  BY DEF AmountInv, Ahead, Filled, First, Passed, InHand
<1>9. WaitingInv'
  BY DEF WaitingInv
<1>10. SendingInv'
  BY DEF SendingInv, BankStart
<1>11. PeerInv'
  BY DEF PeerInv, InHand, HandInv
<1> QED
  BY <1>1, <1>2, <1>3, <1>4, <1>5, <1>6, <1>7, <1>8, <1>9, <1>10, <1>11

LEMMA IOThreadWakeKeeps ==
  ASSUME IInv, IOThreadWake /\ UNCHANGED <<ioRemaining, fetched>> /\ UNCHANGED callerVars
  PROVE  IInv'
<1> USE DEF IInv, IOThreadWake
<1>1. TypeOK'
  BY DEF TypeOK, BankTypeOK, BankConservation, AckInv, HandInv, ThreadInv, RunInv
<1>2. BankConservation'
  BY DEF TypeOK, BankTypeOK, BankConservation, ThreadInv, HandInv
<1>3. RingInv'
  BY DEF TypeOK, BankTypeOK, RingInv, Ahead, Filled, ThreadInv, HandInv
<1>4. ThreadInv'
  BY DEF TypeOK, BankTypeOK, ThreadInv, RunInv
<1>5. RunInv'
  BY DEF TypeOK, BankTypeOK, RunInv, ThreadInv
<1>6. AckInv'
  BY DEF TypeOK, BankTypeOK, AckInv
<1>7. HandInv'
  BY DEF TypeOK, BankTypeOK, HandInv
<1>8. AmountInv' /\ WaitingInv'
  <2>1. Ahead' = Ahead /\ Passed' = Passed
    BY DEF Ahead, Filled, Passed, InHand, HandInv, ThreadInv, TypeOK
  <2> QED  BY <2>1, DataStays
<1>9. SendingInv'
  BY DEF SendingInv, BankStart
<1>10. PeerInv'
  BY DEF PeerInv, InHand, HandInv
<1> QED
  BY <1>1, <1>2, <1>3, <1>4, <1>5, <1>6, <1>7, <1>8, <1>9, <1>10

LEMMA IOThreadFailKeeps ==
  ASSUME IInv, IOThreadFail /\ UNCHANGED <<ioRemaining, fetched>> /\ UNCHANGED callerVars
  PROVE  IInv'
<1> USE DEF IInv, IOThreadFail
<1>1. TypeOK'
  BY DEF TypeOK, BankTypeOK, BankConservation, AckInv, HandInv, ThreadInv, RunInv
<1>2. BankConservation'
  BY DEF TypeOK, BankTypeOK, BankConservation, ThreadInv, HandInv
<1>3. RingInv'
  BY DEF TypeOK, BankTypeOK, RingInv, Ahead, Filled, ThreadInv, HandInv
<1>4. ThreadInv'
  BY DEF TypeOK, BankTypeOK, ThreadInv, RunInv
<1>5. RunInv'
  BY DEF TypeOK, BankTypeOK, RunInv, ThreadInv
<1>6. AckInv'
  BY DEF TypeOK, BankTypeOK, AckInv
<1>7. HandInv'
  BY DEF TypeOK, BankTypeOK, HandInv
<1>8. AmountInv' /\ WaitingInv'
  <2>1. Ahead' = Ahead /\ Passed' = Passed
    BY DEF Ahead, Filled, Passed, InHand, HandInv, ThreadInv, TypeOK
  <2> QED  BY <2>1, DataStays
<1>9. SendingInv'
  BY DEF SendingInv, BankStart
<1>10. PeerInv'
  BY DEF PeerInv, InHand, HandInv
<1> QED
  BY <1>1, <1>2, <1>3, <1>4, <1>5, <1>6, <1>7, <1>8, <1>9, <1>10

LEMMA IOThreadExitKeeps ==
  ASSUME IInv, IOThreadExit /\ UNCHANGED <<ioRemaining, fetched>> /\ UNCHANGED callerVars
  PROVE  IInv'
<1> USE DEF IInv, IOThreadExit
<1>1. TypeOK'
  BY DEF TypeOK, BankTypeOK, BankConservation, AckInv, HandInv, ThreadInv, RunInv
<1>2. BankConservation'
  BY DEF TypeOK, BankTypeOK, BankConservation, ThreadInv, HandInv
<1>3. RingInv'
  BY DEF TypeOK, BankTypeOK, RingInv, Ahead, Filled, ThreadInv, HandInv
<1>4. ThreadInv'
  BY DEF TypeOK, BankTypeOK, ThreadInv, RunInv
<1>5. RunInv'
  BY DEF TypeOK, BankTypeOK, RunInv, ThreadInv
<1>6. AckInv'
  BY DEF TypeOK, BankTypeOK, AckInv
<1>7. HandInv'
  BY DEF TypeOK, BankTypeOK, HandInv
<1>8. AmountInv' /\ WaitingInv'
  <2>1. Ahead' = Ahead /\ Passed' = Passed
    BY DEF Ahead, Filled, Passed, InHand, HandInv, ThreadInv, TypeOK
  <2> QED  BY <2>1, DataStays
<1>9. SendingInv'
  BY DEF SendingInv, BankStart
<1>10. PeerInv'
  BY DEF PeerInv, InHand, HandInv
<1> QED
  BY <1>1, <1>2, <1>3, <1>4, <1>5, <1>6, <1>7, <1>8, <1>9, <1>10

LEMMA TakeFreeBankKeeps ==
  ASSUME IInv, TakeFreeBank /\ UNCHANGED callerVars
  PROVE  IInv'
<1> USE DEF IInv, TakeFreeBank
<1>1. TypeOK'
  <2>1. Least(ioRemaining, BufMax) \in 0 .. BufMax
    BY DEF Least, TypeOK
  <2>2. bd' \in [Banks -> 0 .. BufMax]
    BY <2>1 DEF TypeOK, BankTypeOK
  <2> QED  BY <2>1, <2>2 DEF TypeOK, BankTypeOK
<1>2. BankConservation'
  BY DEF TypeOK, BankTypeOK, BankConservation, ThreadInv, HandInv
<1>3. RingInv'
  BY DEF TypeOK, BankTypeOK, RingInv, Ahead, Filled, ThreadInv, HandInv
<1>4. ThreadInv'
  BY DEF TypeOK, BankTypeOK, ThreadInv, RunInv
<1>5. RunInv'
  <2>1. /\ Least(ioRemaining, BufMax) \in 1 .. BufMax
        /\ Least(ioRemaining, BufMax) <= ioRemaining
        /\ Least(ioRemaining, BufMax) < BufMax => Least(ioRemaining, BufMax) = ioRemaining
        /\ WritePtr \in Banks
    BY DEF Least, TypeOK, BankTypeOK
  <2>2. bd'[WritePtr] = Least(ioRemaining, BufMax)
    BY <2>1 DEF TypeOK, BankTypeOK
  <2>3. 0 * BufMax = 0 /\ 1 * BufMax = BufMax /\ WritePtr + 0 = WritePtr
    BY <2>1
  <2>4. \A k \in 0 .. 0 : k = 0
    OBVIOUS
  <2> QED  BY <2>1, <2>2, <2>3, <2>4 DEF RunInv
<1>6. AckInv'
  BY DEF TypeOK, BankTypeOK, AckInv
<1>7. HandInv'
  BY DEF TypeOK, BankTypeOK, HandInv
<1>8. AmountInv' /\ WaitingInv'
  <2>1. Ahead' = Ahead /\ Passed' = Passed
    BY DEF Ahead, Filled, Passed, InHand
  <2>2. \A k \in 0 .. Ahead - 1 : Wrap(ReadPtr + k) \in Banks /\ Wrap(ReadPtr + k) # WritePtr + 0
    <3>1. 0 \in Nat /\ 0 < ioBanks + inBuf /\ WritePtr + 0 < NBufs
      BY Kinds
    <3> QED  BY <3>1, WaitingApart
  <2>3. \A k \in 0 .. Ahead - 1 : bd'[Wrap(ReadPtr + k)] = bd[Wrap(ReadPtr + k)]
    BY <2>2, Kinds DEF TypeOK, BankTypeOK
  <2> QED  BY <2>1, <2>3, DataStays
<1>9. SendingInv'
  BY DEF SendingInv, BankStart
<1>10. PeerInv'
  BY DEF PeerInv, InHand, HandInv
<1> QED
  BY <1>1, <1>2, <1>3, <1>4, <1>5, <1>6, <1>7, <1>8, <1>9, <1>10

LEMMA ReadNextReturnsKeeps ==
  ASSUME IInv, ReadNextReturns /\ UNCHANGED callerVars
  PROVE  IInv'
<1> USE DEF IInv, ReadNextReturns
<1>1. TypeOK'
  BY DEF TypeOK, BankTypeOK, BankConservation, AckInv, HandInv, ThreadInv, RunInv
<1>2. BankConservation'
  BY DEF TypeOK, BankTypeOK, BankConservation, ThreadInv, HandInv
<1>3. RingInv'
  BY DEF TypeOK, BankTypeOK, RingInv, Ahead, Filled, ThreadInv, HandInv
<1>4. ThreadInv'
  BY DEF TypeOK, BankTypeOK, ThreadInv, RunInv
<1>5. RunInv'
  BY DEF TypeOK, BankTypeOK, RunInv, ThreadInv
<1>6. AckInv'
  BY DEF TypeOK, BankTypeOK, AckInv
<1>7. HandInv'
  BY DEF TypeOK, BankTypeOK, HandInv
<1>8. AmountInv' /\ WaitingInv'
  <2>1. Ahead' = Ahead /\ Passed' = Passed
    BY DEF Ahead, Filled, Passed, InHand, HandInv, ThreadInv, TypeOK
  <2> QED  BY <2>1, DataStays
<1>9. SendingInv'
  BY DEF SendingInv, BankStart
<1>10. PeerInv'
  BY DEF PeerInv, InHand, HandInv
<1> QED
  BY <1>1, <1>2, <1>3, <1>4, <1>5, <1>6, <1>7, <1>8, <1>9, <1>10

LEMMA GatherFreeBankKeeps ==
  ASSUME IInv, GatherFreeBank /\ UNCHANGED callerVars
  PROVE  IInv'
<1> USE DEF IInv, GatherFreeBank
<1>1. TypeOK'
  <2>1. /\ Least(ioRemaining - ioSectors, BufMax) \in 0 .. BufMax
        /\ Least(ioRemaining - ioSectors, BufMax) <= ioRemaining - ioSectors
    BY DEF Least, TypeOK, BankTypeOK
  <2>2. bd' \in [Banks -> 0 .. BufMax]
    BY <2>1 DEF TypeOK, BankTypeOK
  <2>3. inBuf' \in 0 .. NBufs /\ ioBanks' \in 0 .. NBufs /\ ioSectors' \in Nat
    BY <2>1 DEF TypeOK, BankTypeOK
  <2> QED  BY <2>2, <2>3 DEF TypeOK, BankTypeOK
<1>2. BankConservation'
  BY DEF TypeOK, BankTypeOK, BankConservation, ThreadInv, HandInv
<1>3. RingInv'
  BY DEF TypeOK, BankTypeOK, RingInv, Ahead, Filled, ThreadInv, HandInv
<1>4. ThreadInv'
  BY DEF TypeOK, BankTypeOK, ThreadInv, RunInv
<1>5. RunInv'
  <2> DEFINE n == Least(ioRemaining - ioSectors, BufMax)
  <2>1. /\ ioBanks \in Nat \ {0} /\ ioSectors \in Nat /\ ioRemaining \in Nat
        /\ BufMax \in Nat \ {0} /\ ioRemaining - ioSectors > 0
        /\ WritePtr \in Nat /\ WritePtr + ioBanks < NBufs /\ NBufs \in Nat
        /\ bd \in [Banks -> 0 .. BufMax]
    BY DEF TypeOK, BankTypeOK, RunInv
  <2>2. /\ n \in 1 .. BufMax /\ n <= ioRemaining - ioSectors
        /\ n < BufMax => n = ioRemaining - ioSectors
    BY ONLY <2>1 DEF Least
  <2>3. /\ ioBanks * BufMax \in Nat
        /\ (ioBanks + 1) * BufMax = ioBanks * BufMax + BufMax
    BY <2>1, ProductNat, OneMoreBank
  <2>4. ioSectors = ioBanks * BufMax
    <3>1. /\ ioSectors <= ioBanks * BufMax
          /\ ioSectors < ioBanks * BufMax => ioSectors = ioRemaining
      BY DEF RunInv
    <3> QED  BY ONLY <2>1, <2>3, <3>1
  <2> HIDE DEF n
  <2>5. /\ ioBanks' = ioBanks + 1 /\ ioSectors' = ioSectors + n
        /\ bd' = [bd EXCEPT ![WritePtr + ioBanks] = n]
    BY DEF n
  <2>6. /\ ioBanks' > 0 /\ WritePtr + ioBanks' <= NBufs /\ ioSectors' <= ioRemaining
        /\ ioSectors' > ioBanks * BufMax
        /\ ioSectors' <= ioBanks' * BufMax
        /\ ioSectors' < ioBanks' * BufMax => ioSectors' = ioRemaining
        /\ ioBanks' - 1 = ioBanks
    BY ONLY <2>1, <2>2, <2>3, <2>4, <2>5
  <2>7. ASSUME NEW k \in 0 .. ioBanks
        PROVE  bd'[WritePtr + k] = IF k = ioBanks THEN ioSectors' - k * BufMax ELSE BufMax
    <3>1. CASE k = ioBanks
      <4>1. WritePtr + ioBanks \in Banks
        BY ONLY <2>1 DEF Banks
      <4>2. bd'[WritePtr + ioBanks] = n
        BY ONLY <2>1, <2>5, <4>1
      <4>3. n = ioSectors' - ioBanks * BufMax
        BY ONLY <2>1, <2>2, <2>3, <2>4, <2>5
      <4> QED  BY <3>1, <4>2, <4>3
    <3>2. CASE k # ioBanks
      <4>1. k \in Nat /\ k < ioBanks /\ k \in 0 .. ioBanks - 1
        BY <2>1, <3>2
      <4>2. bd[WritePtr + k] = IF k = ioBanks - 1 THEN ioSectors - k * BufMax ELSE BufMax
        BY <4>1 DEF RunInv
      <4>3. k = ioBanks - 1 => ioSectors - k * BufMax = BufMax
        <5>1. (k + 1) * BufMax = k * BufMax + BufMax /\ k * BufMax \in Nat
          BY <2>1, <4>1, OneMoreBank, ProductNat
        <5>2. k = ioBanks - 1 => k + 1 = ioBanks
          BY ONLY <2>1, <4>1
        <5> QED  BY ONLY <2>1, <2>4, <5>1, <5>2
      <4>4. bd'[WritePtr + k] = bd[WritePtr + k]
        <5>1. WritePtr + k \in Banks /\ WritePtr + k # WritePtr + ioBanks
          BY ONLY <2>1, <4>1 DEF Banks
        <5> QED  BY ONLY <2>1, <2>5, <5>1
      <4> QED  BY <3>2, <4>2, <4>3, <4>4
    <3> QED  BY <3>1, <3>2
  <2> QED  BY <2>6, <2>7 DEF RunInv
<1>6. AckInv'
  BY DEF TypeOK, BankTypeOK, AckInv
<1>7. HandInv'
  BY DEF TypeOK, BankTypeOK, HandInv
<1>8. AmountInv' /\ WaitingInv'
  <2>1. Ahead' = Ahead /\ Passed' = Passed
    BY DEF Ahead, Filled, Passed, InHand
  <2>2. \A k \in 0 .. Ahead - 1 : Wrap(ReadPtr + k) \in Banks /\ Wrap(ReadPtr + k) # WritePtr + ioBanks
    <3>1. ioBanks \in Nat /\ ioBanks < ioBanks + inBuf /\ WritePtr + ioBanks < NBufs
      BY Kinds
    <3> QED  BY <3>1, WaitingApart
  <2>3. \A k \in 0 .. Ahead - 1 : bd'[Wrap(ReadPtr + k)] = bd[Wrap(ReadPtr + k)]
    BY <2>2, Kinds DEF TypeOK, BankTypeOK
  <2> QED  BY <2>1, <2>3, DataStays
<1>9. SendingInv'
  BY DEF SendingInv, BankStart
<1>10. PeerInv'
  BY DEF PeerInv, InHand, HandInv
<1> QED
  BY <1>1, <1>2, <1>3, <1>4, <1>5, <1>6, <1>7, <1>8, <1>9, <1>10

LEMMA GatherFreeDoneKeeps ==
  ASSUME IInv, GatherFreeDone /\ UNCHANGED callerVars
  PROVE  IInv'
<1> USE DEF IInv, GatherFreeDone
<1>1. TypeOK'
  BY DEF TypeOK, BankTypeOK, BankConservation, AckInv, HandInv, ThreadInv, RunInv
<1>2. BankConservation'
  BY DEF TypeOK, BankTypeOK, BankConservation, ThreadInv, HandInv
<1>3. RingInv'
  BY DEF TypeOK, BankTypeOK, RingInv, Ahead, Filled, ThreadInv, HandInv
<1>4. ThreadInv'
  BY DEF TypeOK, BankTypeOK, ThreadInv, RunInv
<1>5. RunInv'
  BY DEF TypeOK, BankTypeOK, RunInv, ThreadInv
<1>6. AckInv'
  BY DEF TypeOK, BankTypeOK, AckInv
<1>7. HandInv'
  BY DEF TypeOK, BankTypeOK, HandInv
<1>8. AmountInv' /\ WaitingInv'
  <2>1. Ahead' = Ahead /\ Passed' = Passed
    BY DEF Ahead, Filled, Passed, InHand, HandInv, ThreadInv, TypeOK
  <2> QED  BY <2>1, DataStays
<1>9. SendingInv'
  BY DEF SendingInv, BankStart
<1>10. PeerInv'
  BY DEF PeerInv, InHand, HandInv
<1> QED
  BY <1>1, <1>2, <1>3, <1>4, <1>5, <1>6, <1>7, <1>8, <1>9, <1>10

LEMMA ReadBanksKeeps ==
  ASSUME IInv, ReadBanks /\ UNCHANGED callerVars
  PROVE  IInv'
<1> USE DEF IInv, ReadBanks
<1> DEFINE s == BankStart(WritePtr)
           m == BufMax
<1>a. /\ NBufs \in Nat \ {0} /\ m \in Nat \ {0} /\ Total \in Nat
      /\ outBuf \in Nat /\ ioBanks \in Nat \ {0} /\ ioSectors \in Nat /\ ioRemaining \in Nat
      /\ Ahead \in Nat /\ Ahead = outBuf /\ Passed \in Nat /\ fetched \in Nat
      /\ ReadPtr \in 0 .. NBufs - 1 /\ WritePtr \in 0 .. NBufs - 1
      /\ WritePtr + ioBanks <= NBufs
      /\ outBuf + ioBanks <= NBufs
  <2>1. ioBanks > 0 /\ WritePtr + ioBanks <= NBufs /\ ioRemaining \in Nat
    BY DEF RunInv, TypeOK
  <2>2. Filled = 0
    BY DEF Filled
  <2> QED  BY <2>1, <2>2, Kinds
<1>b. /\ ioSectors <= ioRemaining /\ ioSectors > (ioBanks - 1) * m
      /\ ioSectors <= ioBanks * m
      /\ ioSectors < ioBanks * m => ioSectors = ioRemaining
      /\ fetched + ioRemaining = Total
  BY DEF RunInv, ThreadInv
<1>c. /\ (ioBanks - 1) * m \in Nat /\ ioBanks * m \in Nat
      /\ ioBanks * m = (ioBanks - 1) * m + m
  <2>1. ioBanks - 1 \in Nat /\ (ioBanks - 1) + 1 = ioBanks
    BY ONLY <1>a
  <2> QED  BY <1>a, <2>1, ProductNat, OneMoreBank
<1>d. fetched = First(Ahead) /\ \A k \in 0 .. Ahead - 1 : Held(k) = m
  <2>1. fetched # Total
    BY ONLY <1>a, <1>b, <1>c
  <2> QED  BY <2>1, AllFull
<1>e. /\ Ahead' = Ahead + ioBanks /\ Passed' = Passed /\ fetched' = fetched + ioSectors
      /\ WritePtr' = (WritePtr + ioBanks) % NBufs /\ ReadPtr' = ReadPtr
  BY <1>a DEF Ahead, Filled, Passed, InHand
<1>f. \A k : First(k)' = First(k)
  BY <1>e DEF First
<1>g. WritePtr' = Wrap(WritePtr + ioBanks)
  <2>1. WritePtr + ioBanks \in Nat /\ WritePtr + ioBanks < 2 * NBufs
    BY <1>a
  <2> QED  BY <1>e, <2>1, WrapMod
<1>h. \A q \in Nat : First(Ahead + q) = fetched + q * m
  <2> SUFFICES ASSUME NEW q \in Nat
               PROVE  First(Ahead + q) = fetched + q * m
    OBVIOUS
  <2>1. (Ahead + q) * m = Ahead * m + q * m /\ Ahead * m \in Nat /\ q * m \in Nat
    BY <1>a, Distribute, ProductNat
  <2> QED  BY <1>a, <1>d, <2>1 DEF First
<1>i. s \in Nat
  BY <1>a, ProductNat DEF BankStart
<1>j. mem' = [c \in Cells |-> IF c \in s .. s + ioSectors - 1 THEN fetched + 1 + (c - s) ELSE mem[c]]
  OBVIOUS
(* What is outside the run is as it was. *)
<1>k. ASSUME NEW w \in Banks, w < WritePtr \/ w >= WritePtr + ioBanks, NEW j \in 0 .. m - 1
      PROVE  mem'[BankStart(w) + j] = mem[BankStart(w) + j]
  <2> DEFINE c == BankStart(w) + j
  <2>1. c \in Cells /\ BankStart(w) \in Nat /\ c \in BankStart(w) .. BankStart(w) + m - 1
    <3>1. BankStart(w) \in Nat
      BY <1>a, ProductNat DEF BankStart
    <3> QED  BY <1>a, <3>1, InBank
  <2>2. c \notin s .. s + ioSectors - 1
    <3> SUFFICES ASSUME c \in s .. s + ioSectors - 1
                 PROVE  FALSE
      OBVIOUS
    <3> DEFINE i == c - s + 1
    <3>1. i \in 1 .. ioSectors /\ s + i - 1 = c
      BY ONLY <1>a, <1>i, <2>1, c \in s .. s + ioSectors - 1
    <3>2. /\ w \in Banks /\ (w < WritePtr \/ w >= WritePtr + ioBanks)
          /\ WritePtr \in Nat /\ ioBanks \in Nat /\ ioSectors <= ioBanks * BufMax
      BY <1>a, <1>b, <1>k
    <3>3. s + i - 1 \notin BankStart(w) .. BankStart(w) + m - 1
      BY ONLY <1>a, <3>1, <3>2, RunApart
    <3> QED  BY <2>1, <3>1, <3>3
  <2> QED  BY <1>j, <2>1, <2>2
<1>1. TypeOK'
  <2>1. mem' \in [Cells -> Nat]
    <3>1. \A c \in s .. s + ioSectors - 1 : fetched + 1 + (c - s) \in Nat
      BY <1>a, <1>i
    <3>2. mem \in [Cells -> Nat]
      BY DEF TypeOK, BankTypeOK
    <3> QED  BY <1>j, <3>1, <3>2
  <2>2. WritePtr' \in Banks
    BY <1>a, <1>g DEF Wrap
  <2>3. fetched' \in 0 .. Total
    BY <1>a, <1>b, <1>e
  <2> QED  BY <2>1, <2>2, <2>3 DEF TypeOK, BankTypeOK
<1>2. BankConservation'
  BY DEF TypeOK, BankTypeOK, BankConservation, ThreadInv, HandInv
<1>3. RingInv'
  <2>1. WritePtr = Wrap(ReadPtr + Ahead)
    BY DEF RingInv
  <2>2. Wrap(WritePtr + ioBanks) = Wrap(ReadPtr + (Ahead + ioBanks))
    BY ONLY <1>a, <2>1 DEF Wrap
  <2>3. WritePtr' = Wrap(ReadPtr' + Ahead')
    BY <1>e, <1>g, <2>2
  <2> QED  BY <2>3 DEF RingInv, Wrap
<1>4. ThreadInv'
  BY <1>a, <1>b DEF ThreadInv
<1>5. RunInv'
  BY DEF TypeOK, BankTypeOK, RunInv, ThreadInv
<1>6. AckInv'
  BY DEF TypeOK, BankTypeOK, AckInv
<1>7. HandInv'
  BY DEF TypeOK, BankTypeOK, HandInv
<1>8. AmountInv'
  <2>1. /\ First(Ahead + ioBanks) = fetched + ioBanks * m
        /\ First(Ahead + ioBanks - 1) = fetched + (ioBanks - 1) * m
    <3>1. ioBanks - 1 \in Nat /\ Ahead + ioBanks - 1 = Ahead + (ioBanks - 1)
      BY ONLY <1>a
    <3> QED  BY <1>a, <1>h, <3>1
  <2>2. /\ fetched' > First(Ahead + ioBanks - 1) /\ fetched' <= First(Ahead + ioBanks)
        /\ fetched' < First(Ahead + ioBanks) => fetched' = Total
        /\ Ahead' > 0 /\ Ahead' # 0
    BY ONLY <1>a, <1>b, <1>c, <1>e, <2>1
  <2>3. First(Ahead)' = First(Ahead + ioBanks) /\ First(Ahead - 1)' = First(Ahead + ioBanks - 1)
    <3>1. First(Ahead)' = Passed' + Ahead' * BufMax /\ First(Ahead - 1)' = Passed' + (Ahead' - 1) * BufMax
      BY DEF First
    <3>2. Ahead' = Ahead + ioBanks /\ Ahead' - 1 = Ahead + ioBanks - 1 /\ Passed' = Passed
      BY ONLY <1>a, <1>e
    <3> QED  BY <3>1, <3>2 DEF First
  <2> QED  BY <2>2, <2>3 DEF AmountInv
<1>9. WaitingInv'
  <2> SUFFICES ASSUME dtPc # "done", NEW k \in 0 .. Ahead + ioBanks - 1
               PROVE  Holds(Wrap(ReadPtr + k), Held(k), First(k))'
    <3>1. Ahead' - 1 = Ahead + ioBanks - 1 /\ dtPc' = dtPc
      <4>1. Ahead' - 1 = Ahead + ioBanks - 1
        BY ONLY <1>a, <1>e
      <4> QED  BY <4>1
    <3> QED  BY <3>1 DEF WaitingInv
  <2>0. k \in Nat
    BY <1>a
  <2>1. CASE k < Ahead
    <3>1. k \in 0 .. Ahead - 1
      BY <1>a, <2>1
    <3> DEFINE w == Wrap(ReadPtr + k)
    <3>2. Holds(w, m, First(k))
      BY <1>d, <3>1 DEF WaitingInv
    <3>3. w \in Banks /\ (w < WritePtr \/ w >= WritePtr + ioBanks)
      <4>1. WritePtr = Wrap(ReadPtr + Ahead)
        BY DEF RingInv
      <4>2. k \in Nat /\ k < Ahead
        BY <2>0, <2>1
      <4> QED  BY ONLY <1>a, <4>1, <4>2 DEF Wrap, Banks
    <3>4. Held(k)' = m
      <4>1. k # Ahead' - 1
        BY ONLY <1>a, <1>e, <2>0, <2>1
      <4> QED  BY <4>1 DEF Held
    <3>5. \A j \in 0 .. m - 1 : mem'[BankStart(w) + j] = First(k) + j + 1
      BY <1>k, <3>2, <3>3 DEF Holds
    <3> QED  BY <1>e, <1>f, <3>2, <3>4, <3>5 DEF Holds, BankStart, Wrap
  <2>2. CASE k >= Ahead
    <3> DEFINE q == k - Ahead
    <3>1. q \in 0 .. ioBanks - 1 /\ k = Ahead + q /\ q \in Nat /\ q < ioBanks
      BY <1>a, <2>0, <2>2
    <3> HIDE DEF q
    <3>2. Wrap(ReadPtr + k) = WritePtr + q
      <4>1. WritePtr = Wrap(ReadPtr + Ahead)
        BY DEF RingInv
      <4> QED  BY ONLY <1>a, <3>1, <4>1 DEF Wrap
    <3>3. First(k) = fetched + q * m /\ q * m \in Nat
      BY <1>a, <1>h, <3>1, ProductNat
    <3> DEFINE n == IF q = ioBanks - 1 THEN ioSectors - q * m ELSE m
    <3>4. Held(k)' = n
      <4>1. k = Ahead' - 1 <=> q = ioBanks - 1
        BY ONLY <1>a, <1>e, <3>1
      <4>2. fetched' - First(k) = ioSectors - q * m
        BY ONLY <1>a, <1>e, <3>3
      <4> QED  BY <1>f, <4>1, <4>2 DEF Held
    <3>5. bd[WritePtr + q] = n
      BY <3>1 DEF RunInv
    <3>6. n \in Nat /\ q * m + n <= ioSectors
      <4>1. CASE q = ioBanks - 1
        BY <1>a, <1>b, <3>3, <4>1
      <4>2. CASE q # ioBanks - 1
        <5>1. q + 1 <= ioBanks - 1 /\ q + 1 \in Nat /\ ioBanks - 1 \in Nat
          BY ONLY <1>a, <3>1, <4>2
        <5>2. (q + 1) * m <= (ioBanks - 1) * m /\ (q + 1) * m = q * m + m
          BY <1>a, <3>1, <5>1, ProductMonotone, OneMoreBank
        <5> QED  BY ONLY <1>a, <1>b, <1>c, <3>3, <4>2, <5>2
      <4> QED  BY <4>1, <4>2
    <3> HIDE DEF n
    <3>7. BankStart(WritePtr + q) = s + q * m
      <4>1. (WritePtr + q) * m = WritePtr * m + q * m
        BY <1>a, <3>1, Distribute
      <4> QED  BY <4>1 DEF BankStart
    <3>8. ASSUME NEW j \in 0 .. n - 1
          PROVE  mem'[BankStart(WritePtr + q) + j] = fetched + q * m + j + 1
      <4> DEFINE c == s + q * m + j
      <4>1. j \in Nat /\ q * m + j < ioSectors
        BY ONLY <1>a, <3>3, <3>6, <3>8
      <4>2. c \in s .. s + ioSectors - 1 /\ c - s = q * m + j
        BY ONLY <1>a, <1>i, <3>3, <4>1
      <4>3. c \in Cells
        <5>1. s + ioSectors <= NBufs * m /\ NBufs * m \in Nat
          BY <1>a, <1>b, RunInRing, ProductNat DEF BankStart
        <5> QED  BY ONLY <1>a, <1>i, <4>2, <5>1 DEF Cells
      <4>4. mem'[c] = fetched + 1 + (c - s)
        BY <1>j, <4>2, <4>3
      <4>5. fetched + 1 + (c - s) = fetched + q * m + j + 1
        BY ONLY <1>a, <3>3, <4>1, <4>2
      <4> QED  BY <3>7, <4>4, <4>5
    <3> QED  BY <1>e, <1>f, <3>2, <3>3, <3>4, <3>5, <3>8 DEF Holds, BankStart, Wrap
  <2> QED  BY <1>a, <2>0, <2>1, <2>2
<1>10. SendingInv'
  <2> SUFFICES ASSUME dtPc = "send", NEW j \in 0 .. length - 1
               PROVE  mem'[BankStart(payload) + j] = Total - remaining + j + 1
    BY DEF SendingInv, BankStart
  <2>1. payload \in Banks /\ (payload < WritePtr \/ payload >= WritePtr + ioBanks)
    <3>1. payload # NoBank /\ payload \in Banks
      BY DEF HandInv, TypeOK
    <3>2. \A q \in 0 .. ioBanks - 1 : WritePtr + q # payload
      <4> SUFFICES ASSUME NEW q \in 0 .. ioBanks - 1
                   PROVE  WritePtr + q # payload
        OBVIOUS
      <4>1. inBuf \in Nat
        BY Kinds
      <4>2. q \in Nat /\ q < ioBanks + inBuf /\ ioPc # "release"
        BY <1>a, <4>1
      <4> QED  BY <3>1, <4>2, SendingApart
    <3>3. payload \in Nat
      BY <3>1
    <3>4. payload < WritePtr + ioBanks => payload < WritePtr
      <4> SUFFICES ASSUME payload < WritePtr + ioBanks, payload >= WritePtr
                   PROVE  FALSE
        BY <1>a, <3>3
      <4>1. payload - WritePtr \in 0 .. ioBanks - 1 /\ WritePtr + (payload - WritePtr) = payload
        BY <1>a, <3>3
      <4> QED  BY <3>2, <4>1
    <3> QED  BY <1>a, <3>1, <3>3, <3>4
  <2>2. j \in 0 .. m - 1
    <3>1. length \in 0 .. BufMax
      BY DEF TypeOK
    <3> QED  BY <1>a, <3>1
  <2>3. mem[BankStart(payload) + j] = Total - remaining + j + 1
    BY DEF SendingInv
  <2> QED  BY <1>k, <2>1, <2>2, <2>3
<1>11. PeerInv'
  BY DEF PeerInv, InHand, HandInv
<1> QED
  BY <1>1, <1>2, <1>3, <1>4, <1>5, <1>6, <1>7, <1>8, <1>9, <1>10, <1>11

LEMMA PublishBankKeeps ==
  ASSUME IInv, PublishBank /\ UNCHANGED callerVars
  PROVE  IInv'
<1> USE DEF IInv, PublishBank
<1>1. TypeOK'
  BY DEF TypeOK, BankTypeOK, BankConservation, AckInv, HandInv, ThreadInv, RunInv
<1>2. BankConservation'
  BY DEF TypeOK, BankTypeOK, BankConservation, ThreadInv, HandInv
<1>3. RingInv'
  BY DEF TypeOK, BankTypeOK, RingInv, Ahead, Filled, ThreadInv, HandInv
<1>4. ThreadInv'
  BY DEF TypeOK, BankTypeOK, ThreadInv, RunInv
<1>5. RunInv'
  BY DEF TypeOK, BankTypeOK, RunInv, ThreadInv
<1>6. AckInv'
  BY DEF TypeOK, BankTypeOK, AckInv
<1>7. HandInv'
  BY DEF TypeOK, BankTypeOK, HandInv
<1>8. AmountInv' /\ WaitingInv'
  <2>1. outBuf \in Nat /\ ioBanks \in Nat
    BY Kinds
  <2>2. /\ Ahead = outBuf + ioBanks /\ Ahead' = outBuf' + ioBanks'
        /\ outBuf' = outBuf + 1 /\ ioBanks' = ioBanks - 1
    BY DEF Ahead, Filled
  <2>3. Ahead' = Ahead
    BY ONLY <2>1, <2>2
  <2>4. Passed' = Passed
    BY DEF Passed, InHand
  <2> QED  BY <2>3, <2>4, DataStays
<1>9. SendingInv'
  BY DEF SendingInv, BankStart
<1>10. PeerInv'
  BY DEF PeerInv, InHand, HandInv
<1> QED
  BY <1>1, <1>2, <1>3, <1>4, <1>5, <1>6, <1>7, <1>8, <1>9, <1>10

LEMMA ReadLoopsKeeps ==
  ASSUME IInv, ReadLoops /\ UNCHANGED callerVars
  PROVE  IInv'
<1> USE DEF IInv, ReadLoops
<1>1. TypeOK'
  BY DEF TypeOK, BankTypeOK, BankConservation, AckInv, HandInv, ThreadInv, RunInv
<1>2. BankConservation'
  BY DEF TypeOK, BankTypeOK, BankConservation, ThreadInv, HandInv
<1>3. RingInv'
  BY DEF TypeOK, BankTypeOK, RingInv, Ahead, Filled, ThreadInv, HandInv
<1>4. ThreadInv'
  <2>1. /\ fetched \in Nat /\ ioRemaining \in Nat /\ ioSectors \in Nat /\ Total \in Nat
    BY DEF TypeOK, BankTypeOK
  <2>2. fetched + ioRemaining = Total + ioSectors
    BY DEF ThreadInv
  <2>3. fetched + (ioRemaining - ioSectors) = Total
    BY ONLY <2>1, <2>2
  <2>4. ioRemaining' = ioRemaining - ioSectors /\ ioSectors' = 0 /\ fetched' = fetched
    OBVIOUS
  <2> QED  BY <2>3, <2>4 DEF ThreadInv
<1>5. RunInv'
  BY DEF TypeOK, BankTypeOK, RunInv, ThreadInv
<1>6. AckInv'
  BY DEF TypeOK, BankTypeOK, AckInv
<1>7. HandInv'
  BY DEF TypeOK, BankTypeOK, HandInv
<1>8. AmountInv' /\ WaitingInv'
  <2>1. Ahead' = Ahead /\ Passed' = Passed
    BY DEF Ahead, Filled, Passed, InHand, HandInv, ThreadInv, TypeOK
  <2> QED  BY <2>1, DataStays
<1>9. SendingInv'
  BY DEF SendingInv, BankStart
<1>10. PeerInv'
  BY DEF PeerInv, InHand, HandInv
<1> QED
  BY <1>1, <1>2, <1>3, <1>4, <1>5, <1>6, <1>7, <1>8, <1>9, <1>10

(* The initial states satisfy the invariant.                               *)
LEMMA InitHolds == Init => IInv
<1> SUFFICES ASSUME Init
             PROVE  IInv
  OBVIOUS
<1> USE DEF Init, IOReadInit, IOInitCommon
<1>1. TypeOK
  <2>1. mem \in [Cells -> Nat] /\ bd \in [Banks -> 0 .. BufMax]
    OBVIOUS
  <2> QED  BY <2>1 DEF TypeOK, BankTypeOK
<1>2. Filled = 0 /\ Ahead = 0 /\ ~InHand /\ Passed = 0 /\ First(Ahead) = 0
  <2>1. Filled = 0 /\ Ahead = 0 /\ ~InHand /\ Passed = 0
    BY DEF Filled, Ahead, InHand, Passed
  <2> QED  BY <2>1 DEF First
<1>3. BankConservation
  BY DEF BankConservation
<1>4. RingInv /\ ThreadInv /\ RunInv /\ AckInv /\ HandInv
  BY <1>2 DEF RingInv, Wrap, ThreadInv, RunInv, AckInv, HandInv
<1>5. AmountInv /\ WaitingInv
  BY <1>2 DEF AmountInv, WaitingInv
<1>6. SendingInv /\ PeerInv
  BY <1>2 DEF SendingInv, PeerInv
<1> QED  BY <1>1, <1>3, <1>4, <1>5, <1>6 DEF IInv

LEMMA StutterKeeps ==
  ASSUME IInv, UNCHANGED vars
  PROVE  IInv'
<1> USE DEF vars, IInv
<1>1. AmountInv' /\ WaitingInv'
  <2>1. Ahead' = Ahead /\ Passed' = Passed
    BY DEF Ahead, Filled, Passed, InHand
  <2> QED  BY <2>1, DataStays
<1>2. TypeOK' /\ BankConservation'
  BY DEF TypeOK, BankTypeOK, BankConservation
<1>3. RingInv' /\ ThreadInv' /\ AckInv' /\ HandInv'
  BY DEF RingInv, Ahead, Filled, Wrap, ThreadInv, AckInv, HandInv
<1>4. RunInv' /\ SendingInv' /\ PeerInv'
  BY DEF RunInv, SendingInv, BankStart, PeerInv, InHand
<1> QED  BY <1>1, <1>2, <1>3, <1>4

(* The invariant is inductive.                                             *)
LEMMA NextKeeps ==
  ASSUME IInv, [Next]_vars
  PROVE  IInv'
<1>1. CASE DataThread
  BY <1>1, NextBankKeeps, SendSomeKeeps, SendDoneKeeps, SendFailsKeeps, CheckStatusKeeps,
     AdvanceBankKeeps, ExecNextKeeps, LoopEndsKeeps, ExecEndKeeps, EndReturnsKeeps,
     FreeBanksKeeps DEF DataThread
<1>2. CASE IOThread
  BY <1>2, IOThreadWakeKeeps, IOThreadFailKeeps, IOThreadExitKeeps, TakeFreeBankKeeps,
     ReadNextReturnsKeeps, GatherFreeBankKeeps, GatherFreeDoneKeeps, ReadBanksKeeps,
     PublishBankKeeps, ReadLoopsKeeps DEF IOThread, ReaderThread
<1> QED  BY <1>1, <1>2, StutterKeeps DEF Next

THEOREM Invariance == Spec => []IInv
BY InitHolds, NextKeeps, PTL DEF Spec

-----------------------------------------------------------------------------
(* What follows from it.                                                   *)

(* Types, conservation of the banks, none of them given to the I/O thread  *)
(* while send() reads from it, and none used after IOFree: BanksSound, for *)
(* any ring and whatever fails on either side.                             *)
THEOREM BanksSoundAlways == Spec => []BanksSound
<1>1. ASSUME IInv, payload # NoBank, NEW k \in 0 .. Unfilled - 1
      PROVE  (WritePtr + k) % NBufs # payload
  <2>1. /\ NBufs \in Nat \ {0} /\ WritePtr \in 0 .. NBufs - 1
        /\ inBuf \in Nat /\ ioBanks \in Nat /\ Ahead \in Nat /\ ReadPtr \in 0 .. NBufs - 1
        /\ inBuf + ioBanks + outBuf + 1 = NBufs /\ Ahead = outBuf + Filled /\ outBuf \in Nat
    BY <1>1, Kinds
  <2>2. Unfilled \in Nat /\ Unfilled <= inBuf + ioBanks - Filled
    <3>1. CASE ioPc \in {"gather", "transfer"}
      BY <2>1, <3>1 DEF Unfilled, Filled
    <3>2. CASE ioPc = "release"
      BY <2>1, <3>2 DEF Unfilled, Filled
    <3>3. CASE ioPc \in {"asleep", "poll"}
      BY <1>1, <2>1, <3>3 DEF Unfilled, Filled, IInv, ThreadInv
    <3>4. CASE ioPc \in {"acked", "exited"}
      BY <2>1, <3>4 DEF Unfilled, Filled
    <3> QED  BY <1>1, <3>1, <3>2, <3>3, <3>4 DEF IInv, TypeOK, BankTypeOK
  <2>3. k \in Nat /\ k + Ahead + 1 < NBufs
    <3>1. k \in Nat /\ k < Unfilled /\ Filled \in Nat
      BY <1>1, <2>2, Kinds
    <3> QED  BY ONLY <2>1, <2>2, <3>1
  <2>4. (WritePtr + k) % NBufs = Wrap(WritePtr + k)
    BY <2>1, <2>3, WrapMod
  <2>5. WritePtr = Wrap(ReadPtr + Ahead) /\ ReadPtr = Wrap(payload + 1) /\ payload \in 0 .. NBufs - 1
    BY <1>1 DEF IInv, RingInv, TypeOK
  <2> QED  BY ONLY <2>1, <2>3, <2>4, <2>5 DEF Wrap
<1>2. IInv => NoBankOverlap
  BY <1>1 DEF NoBankOverlap
<1>3. IInv => TypeOK /\ BankConservation /\ NoUseAfterFree
  BY DEF IInv, AckInv, NoUseAfterFree
<1>4. IInv => BanksSound
  BY <1>2, <1>3 DEF BanksSound
<1> QED  BY <1>4, Invariance, PTL

(* The peer never has more than was read from the disk.                    *)
LEMMA PeerBehind ==
  IInv => Len(peer) <= fetched
<1> SUFFICES ASSUME IInv
             PROVE  Len(peer) <= fetched
  OBVIOUS
<1>1. /\ Ahead \in Nat /\ Passed \in Nat /\ fetched \in Nat /\ BufMax \in Nat
      /\ Total \in Nat /\ remaining \in 0 .. Total /\ length \in Nat /\ offset \in 0 .. length
  BY Kinds
<1>2. Len(peer) <= Passed /\ Len(peer) \in Nat
  BY <1>1 DEF IInv, PeerInv, Passed
<1>3. Passed <= fetched
  <2>1. CASE Ahead = 0
    BY <1>1, <2>1 DEF IInv, AmountInv
  <2>2. CASE Ahead > 0
    <3>1. (Ahead - 1) * BufMax \in Nat
      <4>1. Ahead - 1 \in Nat
        BY <1>1, <2>2
      <4> QED  BY <1>1, <4>1, ProductNat
    <3>2. fetched > Passed + (Ahead - 1) * BufMax
      BY <2>2 DEF IInv, AmountInv, First
    <3> QED  BY ONLY <1>1, <3>1, <3>2
  <2> QED  BY <1>1, <2>1, <2>2
<1> QED  BY <1>1, <1>2, <1>3

(* ReadGame, whatever fails and however the threads interleave, is the     *)
(* pipe of sectors: a run read from the disk is a Put, what send() takes   *)
(* is a Get, the answer of IOEndRead is the Close, and all else is         *)
(* invisible.                                                              *)
THEOREM ReadGameImplementsPipe == Spec => ImplementsPipe
<1>1. Init => Pipe!Init
  BY DEF Init, IOReadInit, Pipe!Init
<1>2. ASSUME IInv, IInv', [Next]_vars
      PROVE  [Pipe!Next]_(Pipe!pipeVars)
  <2>1. CASE IOThread /\ ReadBanks
    <3>1. ended = "open" /\ UNCHANGED <<peer, ended, remaining>>
      BY <1>2, <2>1 DEF ReadBanks, IOThread, callerVars, IInv, AckInv
    <3>2. fetched \in Nat /\ ioSectors \in Nat /\ ioSectors > 0 /\ fetched' = fetched + ioSectors
      <4>1. /\ ioSectors \in Nat /\ fetched \in Nat /\ ioBanks \in Nat /\ BufMax \in Nat
            /\ ioBanks > 0 /\ ioSectors > (ioBanks - 1) * BufMax
        BY <1>2, <2>1, Kinds DEF ReadBanks, IInv, RunInv
      <4>2. (ioBanks - 1) * BufMax \in Nat
        <5>1. ioBanks - 1 \in Nat
          BY <4>1
        <5> QED  BY <4>1, <5>1, ProductNat
      <4>3. fetched' = fetched + ioSectors
        BY <2>1 DEF ReadBanks
      <4> QED  BY ONLY <4>1, <4>2, <4>3
    <3>3. fetched' \in Nat /\ fetched' > fetched
      BY ONLY <3>2
    <3> QED  BY <3>1, <3>3 DEF Pipe!Next, Pipe!Put
  <2>2. CASE SendSome
    <3>1. ended = "open" /\ UNCHANGED <<fetched, ended, remaining>>
      BY <1>2, <2>2 DEF SendSome, readerVars, IInv, AckInv
    <3>2. peer' = [i \in 1 .. Len(peer') |-> i] /\ Len(peer') <= fetched
      <4>1. (IInv => Len(peer) <= fetched)'
        BY PeerBehind, PTL
      <4> QED  BY <1>2, <3>1, <4>1 DEF IInv, PeerInv
    <3>3. Len(peer') > Len(peer) /\ Len(peer) \in Nat /\ Len(peer') \in Nat
      <4>1. /\ Len(peer) = Total - remaining + offset /\ Len(peer') = Total - remaining + offset'
            /\ Total \in Nat /\ remaining \in 0 .. Total /\ offset \in Nat
        BY <1>2, <2>2, Kinds DEF SendSome, IInv, PeerInv, InHand, HandInv
      <4>2. PICK len \in 1 .. length - offset : offset' = offset + len
        BY <2>2 DEF SendSome
      <4>3. len \in Nat /\ len >= 1
        BY <1>2, Kinds
      <4> QED  BY ONLY <4>1, <4>2, <4>3
    <3>4. Len(peer') \in Len(peer) + 1 .. fetched
      <4>1. fetched \in Nat
        BY <1>2, Kinds
      <4> QED  BY ONLY <3>2, <3>3, <4>1
    <3> QED  BY <3>1, <3>2, <3>4 DEF Pipe!Next, Pipe!Get
  <2>3. CASE EndReturns
    <3>1. ended = "open" /\ ended' = state /\ UNCHANGED <<fetched, peer, remaining>>
      BY <1>2, <2>3 DEF EndReturns, IOEndReadReturns, IInv, AckInv
    <3>2. state \in {"OK", "ERROR"}
      BY <1>2 DEF IInv, TypeOK, BankTypeOK
    <3>3. remaining = 0 => Len(peer) = fetched
      <4>1. remaining = 0 => Len(peer) = Total
        BY <1>2, Kinds DEF IInv, PeerInv, InHand
      <4>2. Len(peer) <= fetched /\ fetched \in 0 .. Total /\ Total \in Nat
        BY <1>2, Kinds, PeerBehind
      <4> QED  BY ONLY <4>1, <4>2
    <3> QED  BY <3>1, <3>2, <3>3 DEF Pipe!Next, Pipe!Close
  <2>4. ASSUME UNCHANGED <<fetched, peer, ended>>, ended # "open" => remaining' = remaining
        PROVE  UNCHANGED Pipe!pipeVars
    BY <2>4 DEF Pipe!pipeVars
  <2>5. CASE NextBank
    BY <2>4, <2>5 DEF NextBank, IOReadNext
  <2>6. CASE CheckStatus
    BY <1>2, <2>4, <2>6 DEF CheckStatus, readerVars, IInv, AckInv
  <2>7. CASE SendDone \/ SendFails \/ LoopEnds
    BY <2>4, <2>7 DEF SendDone, SendFails, LoopEnds, readerVars
  <2>8. CASE AdvanceBank \/ ExecNext \/ ExecEnd
    BY <2>4, <2>8 DEF AdvanceBank, ExecNext, ExecEnd, IOReadAdvance, ExecRead, IOExecCmd
  <2>9. CASE FreeBanks
    BY <2>4, <2>9 DEF FreeBanks
  <2>10. CASE IOThread /\ ~ReadBanks
    BY <2>4, <2>10 DEF IOThread, ReaderThread, callerVars, IOThreadWake, IOThreadFail, IOThreadExit,
           TakeFreeBank, ReadNextReturns, GatherFreeBank, GatherFreeDone, PublishBank, ReadLoops
  <2>11. CASE UNCHANGED vars
    BY <2>4, <2>11 DEF vars
  <2> QED
    BY <1>2, <2>1, <2>2, <2>3, <2>5, <2>6, <2>7, <2>8, <2>9, <2>10, <2>11
       DEF Next, DataThread
<1>3. Spec => Pipe!Spec
  BY <1>1, <1>2, Invariance, PTL DEF Spec, Pipe!Spec
<1> QED  BY <1>3 DEF ImplementsPipe
=============================================================================
