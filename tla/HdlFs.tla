------------------------------- MODULE HdlFs --------------------------------
(***************************************************************************)
(* A game on the hard disk: its partitions are created one by one          *)
(* (CreateAndFormatPartition of system.c) and the hdlfs driver lays the    *)
(* image over them, mounts it, seeks in it and moves data, slice by slice. *)
(* The game has one partition list, the driver one mount; the callers take *)
(* turns, so that `pc' is the operation of whoever has its turn.           *)
(***************************************************************************)
EXTENDS PartSize, FiniteSets

CONSTANTS
  Images,    \* the lengths that images may have, in disc sectors
  MaxParts,  \* what HDIOC_MAXSECTOR may answer, in disc sectors
  Titles     \* the titles and the settings that a game may be given

ASSUME ImagesAssumption == Images \subseteq Nat \ {0}
\* The APA driver takes its answer for the size of a partition itself
\* (hdd_fio.c 333), so it is a power of two: one of the sizes, or larger.
ASSUME MaxPartsAssumption ==
  \A m \in MaxParts : m \in Nat /\ (m >= Largest \/ \E i \in 1 .. Len(Sizes) : m = Sizes[i])

VARIABLES
  maxPart,    \* the largest partition the disk allows
  num,        \* the length of the image
  pc,         \* what the caller is doing
  index,      \* PartitionSizeIndex
  remaining,  \* SectorsRemaining
  parts,      \* the lengths of the game's partitions
  info,       \* hdl_game_info on the disk: slices, title, settings
  fd,         \* the mount descriptor
  busy,       \* the APA driver has the partition open
  lost,       \* a mount failed after it opened the partition
  at,         \* the sector the caller stands at
  left,       \* how much of the caller's transfer is left
  dir,        \* its direction
  content,    \* the sectors of each partition
  out         \* what the last slice read

making == <<num, index, remaining, parts>>
moving == <<at, left, dir, content, out>>
vars   == <<maxPart, making, pc, info, fd, busy, lost, moving>>

NoGame == [slices |-> <<>>, title |-> CHOOSE t \in Titles : TRUE,
           attr   |-> CHOOSE t \in Titles : TRUE]

(* Every descriptor is free and cleared. *)
Init ==
  /\ maxPart \in MaxParts
  /\ num = 0 /\ index = 1 /\ remaining = 0 /\ parts = <<>>
  /\ pc = "idle"
  /\ info = NoGame
  /\ fd = [open |-> FALSE, slices |-> <<>>, part |-> 1, rel |-> 0, offset |-> 0]
  /\ busy = FALSE /\ lost = FALSE
  /\ at = 0 /\ left = 0 /\ dir = "read"
  /\ content = <<>> /\ out = <<>>

-----------------------------------------------------------------------------
(* CreateAndFormatPartition.                                               *)

StartCreate ==
  /\ pc = "idle"
  /\ num' \in Images
  /\ index' = GetPartSize(num', 1, maxPart)
  /\ pc' = "main"
  /\ UNCHANGED <<maxPart, remaining, parts, info, fd, busy, lost, moving>>

(* Slip: the area that a partition keeps for itself is counted as room.    *)
PartitionMadeGross(k) ==
  /\ parts' = Append(parts, Sizes[index])
  /\ LET before == IF k = 1 THEN num ELSE remaining
     IN  remaining' = IF Sizes[index] > before THEN 0 ELSE before - Sizes[index]
  /\ pc' = IF remaining' > 0 THEN "sub" ELSE "format"
  /\ index' = IF remaining' > 0 THEN GetPartSize(remaining', k + 1, maxPart) ELSE index
  /\ UNCHANGED <<maxPart, num, info, fd, busy, lost, moving>>

(* A partition was made; a size is chosen for the next one, if there must  *)
(* be one.                                                                 *)
PartitionMade(k) ==
  /\ parts' = Append(parts, Sizes[index])
  /\ remaining' = LeftAfter(IF k = 1 THEN num ELSE remaining, Sizes[index], k)
  /\ pc' = IF remaining' > 0 THEN "sub" ELSE "format"
  /\ index' = IF remaining' > 0 THEN GetPartSize(remaining', k + 1, maxPart) ELSE index
  /\ UNCHANGED <<maxPart, num, info, fd, busy, lost, moving>>

CreateMain == pc = "main" /\ PartitionMade(1)

AddSub == pc = "sub" /\ PartitionMade(Len(parts) + 1)

(* ENOSPC: the next smaller size is tried. *)
NoSpace ==
  /\ pc \in {"main", "sub"}
  /\ index > 1
  /\ index' = index - 1
  /\ UNCHANGED <<maxPart, num, remaining, parts, pc, info, fd, busy, lost, moving>>

(* No smaller size is left, or the disk fails: what exists is removed.     *)
GiveUp ==
  /\ pc \in {"main", "sub", "format"}
  /\ pc' = "idle"
  /\ parts' = <<>>
  /\ UNCHANGED <<maxPart, num, index, remaining, info, fd, busy, lost, moving>>

Format ==
  /\ pc = "format"
  /\ FormatAccepts(parts, num)
  /\ info' = [info EXCEPT !.slices = Slices(parts, num)]
  /\ content' = [k \in 1 .. Len(parts) |-> [s \in 0 .. parts[k] - 1 |-> 0]]
  /\ pc' = "closed"
  /\ UNCHANGED <<maxPart, making, fd, busy, lost, at, left, dir, out>>

RemoveGame ==
  /\ pc = "closed"
  /\ ~busy
  /\ parts' = <<>> /\ info' = NoGame /\ content' = <<>>
  /\ pc' = "idle"
  /\ UNCHANGED <<maxPart, num, index, remaining, fd, busy, lost, at, left, dir, out>>

-----------------------------------------------------------------------------
(* hdlfs_mount and unmount.                                                *)

Mount ==
  /\ pc = "closed" /\ ~busy
  /\ fd' = [open |-> TRUE, slices |-> info.slices, part |-> 1, rel |-> 0, offset |-> 0]
  /\ busy' = TRUE
  /\ at' = 0
  /\ pc' = "open"
  /\ UNCHANGED <<maxPart, making, info, lost, left, dir, content, out>>

(* The partition was opened, but its information cannot be read: the mount *)
(* fails, and the partition stays open.                                    *)
MountReadFails ==
  /\ pc = "closed" /\ ~busy
  /\ fd' = [fd EXCEPT !.open = TRUE]
  /\ busy' = TRUE
  /\ lost' = TRUE
  /\ UNCHANGED <<maxPart, making, pc, info, moving>>

(* EBUSY takes the place of the descriptor of the open partition.          *)
MountBusy ==
  /\ pc = "closed" /\ busy
  /\ fd' = [fd EXCEPT !.open = FALSE]
  /\ UNCHANGED <<maxPart, making, pc, info, busy, lost, moving>>

Umount ==
  /\ pc = "open"
  /\ fd' = [fd EXCEPT !.open = FALSE]
  /\ busy' = FALSE
  /\ at' = 0 /\ out' = <<>>
  /\ pc' = "closed"
  /\ UNCHANGED <<maxPart, making, info, lost, left, dir, content>>

-----------------------------------------------------------------------------
(* The title and the settings are changed by reading the whole block of    *)
(* information, changing a part of it and writing it back.                 *)

UpdateGameTitle ==
  /\ pc = "open"
  /\ \E t \in Titles : info' = [info EXCEPT !.title = t]
  /\ UNCHANGED <<maxPart, making, pc, fd, busy, lost, moving>>

ChStat ==
  /\ pc = "open"
  /\ \E t \in Titles : info' = [info EXCEPT !.attr = t]
  /\ UNCHANGED <<maxPart, making, pc, fd, busy, lost, moving>>

(* hdlfs_getstat_filler: the size of the game. *)
GameSize ==
  LET sum[k \in 0 .. Len(info.slices)] ==
        IF k = 0 THEN 0 ELSE sum[k - 1] + info.slices[k].size
  IN  sum[Len(info.slices)]

-----------------------------------------------------------------------------
(* hdlfs_lseek and hdlfs_io_internal.                                      *)

SliceOf(s) ==
  CHOOSE k \in 1 .. Len(fd.slices) :
    fd.slices[k].offset <= s /\ s < fd.slices[k].offset + fd.slices[k].size

(* Slip: the place within the slice is counted from the start of the image. *)
SeekAbsolute(s) ==
  /\ pc = "open"
  /\ fd' = [fd EXCEPT !.part = SliceOf(s), !.offset = s, !.rel = s]
  /\ at' = s /\ out' = <<>>
  /\ UNCHANGED <<maxPart, making, pc, info, busy, lost, left, dir, content>>

Seek(s) ==
  /\ pc = "open"
  /\ fd' = [fd EXCEPT !.part = SliceOf(s), !.offset = s,
                      !.rel = s - fd.slices[SliceOf(s)].offset]
  /\ at' = s /\ out' = <<>>
  /\ UNCHANGED <<maxPart, making, pc, info, busy, lost, left, dir, content>>

(* The caller asks for n sectors of the image. *)
StartIO(n, d) ==
  /\ pc = "open"
  /\ left' = n /\ dir' = d /\ out' = <<>>
  /\ pc' = "io"
  /\ UNCHANGED <<maxPart, making, info, fd, busy, lost, at, content>>

(* Slip: the place within the slice is kept when the next one is entered.  *)
PlaceKeepsRel ==
  IF fd.slices[fd.part].size - fd.rel < 1
  THEN [part |-> fd.part + 1, rel |-> fd.rel % fd.slices[fd.part + 1].size]
  ELSE [part |-> fd.part, rel |-> fd.rel]

(* Where the transfer goes on: at the start of the next slice when there   *)
(* is nothing left of this one.                                            *)
Place ==
  IF fd.slices[fd.part].size - fd.rel < 1
  THEN [part |-> fd.part + 1, rel |-> 0]
  ELSE [part |-> fd.part, rel |-> fd.rel]

(* The request to the APA driver: partition, sector in it, sectors.        *)
Request ==
  [sub    |-> Place.part,
   sector |-> Reserved(Place.part) + Place.rel,
   size   |-> Minimum(left, fd.slices[Place.part].size - Place.rel)]

(* ioctl2Transfer refuses what is not there, and what is reserved.         *)
Refused(r) ==
  \/ r.sub > Len(parts)
  \/ r.sector < Reserved(r.sub)
  \/ r.sector + r.size > parts[r.sub]

IOStep ==
  /\ pc = "io"
  /\ LET r == Request IN
     /\ ~Refused(r)
     /\ IF dir = "write"
        THEN /\ content' = [content EXCEPT ![r.sub] = [s \in DOMAIN @ |->
                   IF s \in r.sector .. r.sector + r.size - 1
                   THEN at + (s - r.sector) + 1 ELSE @[s]]]
             /\ UNCHANGED out
        ELSE /\ out' = [i \in 1 .. r.size |-> content[r.sub][r.sector + i - 1]]
             /\ UNCHANGED content
     /\ fd' = [fd EXCEPT !.part = r.sub, !.rel = Place.rel + r.size, !.offset = @ + r.size]
     /\ at' = at + r.size
     /\ left' = left - r.size
  /\ pc' = IF left' = 0 THEN "open" ELSE "io"
  /\ UNCHANGED <<maxPart, making, info, busy, lost, dir>>

(* EIO: the transfer ends; the driver stands where it met the error.       *)
IOError ==
  /\ pc = "io"
  /\ fd' = [fd EXCEPT !.part = Place.part, !.rel = Place.rel]
  /\ left' = 0
  /\ pc' = "open"
  /\ UNCHANGED <<maxPart, making, info, busy, lost, at, dir, content, out>>

-----------------------------------------------------------------------------
Next ==
  \/ StartCreate \/ CreateMain \/ AddSub \/ NoSpace \/ GiveUp \/ Format \/ RemoveGame
  \/ Mount \/ MountReadFails \/ MountBusy \/ Umount
  \/ UpdateGameTitle \/ ChStat
  \/ \E s \in 0 .. num - 1 : Seek(s)
  \/ \E n \in 1 .. num - at, d \in {"read", "write"} : StartIO(n, d)
  \/ IOStep \/ IOError

Spec == Init /\ [][Next]_vars

-----------------------------------------------------------------------------
(* Properties.                                                             *)

(* Type invariant of the driver's and the caller's state.                  *)
TypeOK ==
  /\ maxPart \in MaxParts /\ num \in Images \cup {0}
  /\ pc \in {"idle", "main", "sub", "format", "closed", "open", "io"}
  /\ index \in 1 .. Len(Sizes) /\ remaining \in Nat
  /\ parts \in Seq({Sizes[i] : i \in 1 .. Len(Sizes)})
  /\ fd.open \in BOOLEAN /\ busy \in BOOLEAN /\ lost \in BOOLEAN
  /\ fd.part \in Nat /\ fd.rel \in Nat /\ fd.offset \in Nat
  /\ at \in 0 .. num /\ left \in 0 .. num /\ dir \in {"read", "write"}

(* GetPartSize never asks for a partition that is larger than the disk     *)
(* allows, which the APA driver would refuse with EINVAL and no smaller    *)
(* size would be tried.                                                    *)
NeverTooBig == pc \in {"main", "sub"} => Sizes[index] <= maxPart

(* However the sizes had to shrink for lack of space, the partitions that  *)
(* system.c makes are those that hdlfs_format accepts: they hold the whole *)
(* image, and no slice overflows its length field.                         *)
FormatFits == pc = "format" => FormatAccepts(parts, num)

(* The game that getstat reports is as long as the image installed.        *)
StatIsLength == info.slices # <<>> => GameSize = num

(* The partitions that are made hold the image, however they were split.  *)
SizesFit == NeverTooBig /\ FormatFits /\ StatIsLength

(* A transfer inside the image is never refused by the APA driver: the     *)
(* only error it can meet is EIO.  Any other error would be retried by the *)
(* I/O thread for ever.                                                    *)
NeverRefused == pc = "io" => ~Refused(Request)

(* The three forms of the position agree with each other and with where    *)
(* the caller stands, after transfers that failed half-way, too.           *)
PositionAgrees ==
  pc \in {"open", "io"} =>
    /\ fd.offset = at
    /\ fd.part \in 1 .. Len(fd.slices)
    /\ fd.slices[fd.part].offset + fd.rel = at
    /\ fd.rel <= fd.slices[fd.part].size

(* A mounted game is seen as it lies on the disk, whatever was mounted or  *)
(* failed to be mounted before.                                            *)
MountIsFresh == pc \in {"open", "io"} => fd.open /\ fd.slices = info.slices

(* The partition of a game that nobody has mounted is open only after a    *)
(* mount that failed half-way; then no mount succeeds any more.            *)
BusyOnlyAfterFailure == pc \in {"idle", "closed"} /\ busy => lost

(* The handle that the I/O layer works with is sound, whatever failed.     *)
HandleSound == TypeOK /\ NeverRefused /\ PositionAgrees /\ MountIsFresh /\ BusyOnlyAfterFailure

(* Through its slices, a mounted game is one array of sectors with one     *)
(* position.                                                               *)
Image ==
  IF info.slices = <<>> THEN <<>>
  ELSE [s \in 0 .. num - 1 |->
         LET k == CHOOSE k \in 1 .. Len(info.slices) :
                    /\ info.slices[k].offset <= s
                    /\ s < info.slices[k].offset + info.slices[k].size
         IN  content[k][Reserved(k) + s - info.slices[k].offset]]

Flat == INSTANCE FlatDisk WITH image <- Image, pos <- at

(* The driver is a flat disk: what is written at a position is read at     *)
(* that position, across the borders of slices and partitions.             *)
ImplementsFlat == Flat!Spec
=============================================================================
