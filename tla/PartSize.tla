------------------------------ MODULE PartSize ------------------------------
(***************************************************************************)
(* The sizes of the partitions of a game, GetPartSize of system.c, and the *)
(* layout that hdlfs_format gives to them.  Lengths are in disc sectors of *)
(* 2048 bytes, four sectors of the hard disk each.                         *)
(***************************************************************************)
EXTENDS Integers, Sequences

CONSTANTS
  Sizes,        \* APAPartSizeList: the sizes a partition may have, ascending
  MainReserved  \* 0x800: what a main partition keeps for itself

ASSUME SizesAssumption ==
  /\ Sizes \in Seq(Nat)
  /\ Len(Sizes) > 0
  /\ \A i \in 1 .. Len(Sizes) - 1 : Sizes[i + 1] = 2 * Sizes[i]
  /\ MainReserved \in Nat \ {0}
  /\ MainReserved < Sizes[1]
  /\ Sizes[1] > 1

(* Partition 1 is the main partition; a sub-partition keeps one sector, as *)
(* its two hard disk sectors are rounded up to four.                       *)
Reserved(k) == IF k = 1 THEN MainReserved ELSE 1

Largest  == Sizes[Len(Sizes)]
Minimum(a, b) == IF a < b THEN a ELSE b

-----------------------------------------------------------------------------
(* The first size of the list that holds what is wanted, or that is the    *)
(* largest the disk allows.                                                *)
FirstFit(wanted, k, maxPart) ==
  CHOOSE i \in 1 .. Len(Sizes) :
    /\ Sizes[i] - Reserved(k) >= wanted \/ Sizes[i] >= maxPart
    /\ \A j \in 1 .. i - 1 : Sizes[j] - Reserved(k) < wanted /\ Sizes[j] < maxPart

(* A partition that would leave as much as the smallest size unused gives  *)
(* way to the size below it.  The subtraction is unsigned: a size smaller  *)
(* than what is wanted passes for one that wastes nearly everything.       *)
Wasteful(i, wanted) == Sizes[i] < wanted \/ Sizes[i] - wanted >= Sizes[1]

(* GetPartSize without an override: the index of the size for partition k, *)
(* when so many sectors are left and partitions may be maxPart long.       *)
GetPartSize(sectors, k, maxPart) ==
  LET wanted == Minimum(sectors, Largest - Reserved(k))
      i      == FirstFit(wanted, k, maxPart)
  IN  IF i > 1 /\ Wasteful(i, wanted) THEN i - 1 ELSE i

(* SectorsRemaining once partition k exists. *)
LeftAfter(sectors, size, k) ==
  IF size - Reserved(k) > sectors THEN 0 ELSE sectors - (size - Reserved(k))

-----------------------------------------------------------------------------
(* hdlfs_format.  Slices of the image lie in the partitions one after the  *)
(* other, each as long as its partition has room or the image lasts.       *)
(* SliceStart(parts, num)[k] is part_offset of partition k.                *)
SliceStart(parts, num) ==
  LET start[k \in 1 .. Len(parts) + 1] ==
        IF k = 1 THEN 0
        ELSE start[k - 1] + Minimum(parts[k - 1] - Reserved(k - 1), num - start[k - 1])
  IN  start

(* part_specs: where each slice starts in the image, and how long it is.   *)
Slices(parts, num) ==
  LET start == SliceStart(parts, num)
  IN  [k \in 1 .. Len(parts) |->
         [offset |-> start[k], size |-> start[k + 1] - start[k]]]

(* The two sanity checks: the partitions hold the image, and no slice is   *)
(* so long that its length in bytes overflows.                             *)
FormatAccepts(parts, num) ==
  /\ SliceStart(parts, num)[Len(parts) + 1] >= num
  /\ \A k \in 1 .. Len(parts) : Slices(parts, num)[k].size < Largest
=============================================================================
