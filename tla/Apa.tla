-------------------------------- MODULE Apa ---------------------------------
(***************************************************************************)
(* The partition driver, hdd.c and hdd_fio.c: a disk of partitions linked  *)
(* by their headers, the slots of open partitions, and fioSema, which is   *)
(* to let one thread in at a time.  Each apaCacheFlushAllDirty is written  *)
(* through the journal of libapa and is one step; a call that flushes      *)
(* several times may be cut off between them.  Lengths are in units of     *)
(* 128 MB, the alignment of the smallest partition.                        *)
(***************************************************************************)
EXTENDS Integers, SequencesExt

CONSTANTS
  Threads,      \* the callers
  Total,        \* totalLBA
  Sizes,        \* the lengths of partitions: powers of two
  MaxSize,      \* partitionMaxSize
  Asked,        \* the lengths that callers ask for
  MaxCuts,      \* bound: how often a call of several flushes may be cut off
  MaxOpen,      \* apaMaxOpen
  MaxSub,       \* APA_MAXSUB
  SystemParts,  \* formatPartList: the names of the system partitions
  Names,        \* the names that callers use
  Temp,         \* "_tmp"
  Locked        \* the names whose partitions have a password

ASSUME ApaAssumption ==
  /\ Total \in Nat \ {0} /\ MaxOpen \in Nat /\ MaxSub \in Nat
  /\ MaxCuts \in Nat
  /\ Sizes \subseteq Nat \ {0}
  /\ 1 \in Sizes /\ MaxSize \in Sizes /\ Asked \subseteq Sizes
  /\ \A l \in Sizes : l = 1 \/ (l % 2 = 0 /\ l \div 2 \in Sizes)
  /\ SystemParts \in Seq(STRING) \ {<<>>}
  /\ \A i, j \in DOMAIN SystemParts : SystemParts[i] = SystemParts[j] => i = j
  /\ Temp \in Names /\ "" \notin Names /\ Names \cap Range(SystemParts) = {}

VARIABLES
  disk,     \* the headers on the disk, by where their partitions start
  ready,    \* hddDevices.status: the disk is formatted
  slots,    \* hddFileSlots
  op,       \* the call that flushes more than once
  sema,     \* fioSema
  inside,   \* the threads between their WaitSema and SignalSema
  between,  \* the threads between the two signals of a failed rename
  slipped,  \* a rename failed, and not all that were inside since have left
  swapped,  \* an open partition has been given another name
  cuts      \* how many calls were cut off

locks == <<sema, inside, between, slipped>>
apaVars == <<disk, ready, slots, op, locks, swapped, cuts>>

None == [do |-> "none"]
End  == -1

(* Headers. *)
Header(kind, len) ==
  [kind |-> kind, len |-> len, id |-> "", locked |-> FALSE, main |-> 0,
   subs |-> <<>>, next |-> 0, prev |-> 0]
Empty(len)    == Header("free", len)
Main(id, len) == [Header("main", len) EXCEPT !.id = id, !.locked = id \in Locked]
Sub(main, len) == [Header("sub", len) EXCEPT !.main = main]

(* A slot as hddClose leaves it.  unseen is for the properties: the main   *)
(* partitions that existed when a directory was opened, still do, and were *)
(* not read from it yet.                                                   *)
Cleared ==
  [used |-> FALSE, dir |-> FALSE, id |-> "", start |-> 0, len |-> 0,
   subs |-> <<>>, unseen |-> {}]

ApaInit ==
  /\ disk = <<>> /\ ready = FALSE
  /\ slots = [i \in 1 .. MaxOpen |-> Cleared]
  /\ op = None
  /\ sema = 1 /\ inside = {} /\ between = {}
  /\ slipped = FALSE /\ swapped = FALSE /\ cuts = 0

-----------------------------------------------------------------------------
(* The chain of headers.                                                   *)

Mains == {s \in DOMAIN disk : disk[s].kind = "main"}
Find(id) == {s \in Mains : disk[s].id = id}
LastBlock(d) == CHOOSE s \in DOMAIN d : d[s].next = 0
PartEnd(d) == LastBlock(d) + d[LastBlock(d)].len

(* How libapa links the headers it changes: by their places. *)
Chained(d) ==
  [s \in DOMAIN d |->
    [d[s] EXCEPT
      !.next = LET above == {t \in DOMAIN d : t > s} IN
               IF above = {} THEN 0 ELSE Min(above),
      !.prev = IF s = 0 THEN Max(DOMAIN d) ELSE Max({t \in DOMAIN d : t < s})]]

(* apaInsertPartition: the front of an empty block is taken, and what is   *)
(* left of it is split into blocks of half the length, a quarter, ...      *)
Inserted(d, s, h) ==
  LET rest == {s + l : l \in {k \in Sizes : h.len <= k /\ k < d[s].len}}
  IN  Chained([t \in DOMAIN d \cup rest |->
                 IF t = s THEN h ELSE IF t \in rest THEN Empty(t - s) ELSE d[t]])

(* apaDelete: the partition becomes empty; the chain never ends in an      *)
(* empty block.                                                            *)
Deleted(d, s) ==
  LET emptied == [d EXCEPT ![s] = Empty(d[s].len)]
      last    == Max({t \in DOMAIN d : emptied[t].kind # "free"})
  IN  Chained(IF d[s].next = 0
              THEN [t \in {u \in DOMAIN d : u <= last} |-> emptied[t]]
              ELSE emptied)

(* A header is put behind the last one.  The first one, which may be the   *)
(* last one as well, knows the last one as the one before it.              *)
Appended(d, h) ==
  LET last == LastBlock(d)
      end  == PartEnd(d)
  IN  [t \in DOMAIN d \cup {end} |->
        IF t = end THEN [h EXCEPT !.prev = last]
        ELSE [d[t] EXCEPT !.next = IF t = last THEN end ELSE @,
                          !.prev = IF t = 0 THEN end ELSE @]]

(* The empty blocks that hold a length, the smallest of them. *)
Holes(size) ==
  LET fit == {s \in DOMAIN disk : disk[s].kind = "free" /\ disk[s].len >= size}
  IN  {s \in fit : \A t \in fit : disk[s].len <= disk[t].len}

(* What is lost to alignment at the end of the chain. *)
Padding(size) == LET some == PartEnd(disk) % size IN IF some = 0 THEN 0 ELSE size - some

Room(size) ==
  /\ size <= MaxSize
  /\ Holes(size) # {} \/ PartEnd(disk) + size + Padding(size) <= Total

(* The filler that goes before a partition: the largest that is aligned.   *)
Filler(d, size) == Max({f \in Sizes : f < size /\ PartEnd(d) % f = 0})

(* hddAddPartitionHere up to its next flush: at is where the new partition *)
(* is, or 0 when only a filler was written.                                *)
AddTo(h, d, at) ==
  IF Holes(h.len) # {}
  THEN at \in Holes(h.len) /\ d = Inserted(disk, at, h)
  ELSE IF PartEnd(disk) % h.len = 0
  THEN at = PartEnd(disk) /\ d = Appended(disk, h)
  ELSE at = 0 /\ d = Appended(disk, Empty(Filler(disk, h.len)))

-----------------------------------------------------------------------------
(* hddFormat, before anyone uses the disk: its parts are not guarded by    *)
(* fioSema.                                                                *)

FormatMbr ==
  /\ ~ready /\ op = None
  /\ disk' = [s \in {0} |-> Header("mbr", 1)]
  /\ ready' = TRUE
  /\ op' = [do |-> "format", i |-> 1, size |-> 1]
  /\ UNCHANGED <<slots, locks, swapped, cuts>>

(* The sizes double from one system partition to the next. *)
NextSize(size) == IF MaxSize < 2 * size THEN MaxSize ELSE 2 * size

FormatPart ==
  /\ op.do = "format"
  /\ \E at \in 0 .. Total :
       IF ~Room(op.size)
       THEN at = 0 /\ op' = None /\ UNCHANGED disk
       ELSE /\ AddTo(Main(SystemParts[op.i], op.size), disk', at)
            /\ op' = IF at = 0 THEN op
                     ELSE IF op.i = Len(SystemParts) THEN None
                     ELSE [op EXCEPT !.i = @ + 1, !.size = NextSize(@)]
  /\ UNCHANGED <<ready, slots, locks, swapped, cuts>>

-----------------------------------------------------------------------------
(* Calls.  One of a single flush is one step; one of several keeps the     *)
(* semaphore in between.  Two threads inside, or an open partition with    *)
(* another name than its slot's, are the end of what is modelled.          *)

Alone == ready /\ op = None /\ sema = 1 /\ inside = {} /\ ~swapped

Stay(t) ==
  /\ sema' = 0 /\ inside' = {t}
  /\ UNCHANGED <<between, slipped>>

Leave ==
  /\ op' = None /\ sema' = 1 /\ inside' = {}
  /\ slipped' = (between # {})
  /\ UNCHANGED between

Working(do) == op.do = do /\ Cardinality(inside) = 1

SecondEnters(t) ==
  /\ sema = 1 /\ inside # {} /\ t \notin inside \cup between
  /\ sema' = 0 /\ inside' = inside \cup {t}
  /\ UNCHANGED <<disk, ready, slots, op, between, slipped, swapped, cuts>>

IsOpen(id)  == \E i \in DOMAIN slots : slots[i].used /\ slots[i].id = id
FreeSlots   == {i \in DOMAIN slots : ~slots[i].used}
System(id)  == id \in Range(SystemParts)

(* EBUSY when the name is open; else the first free slot, or EMFILE. *)
GetFileSlot(id, i) == ~IsOpen(id) /\ FreeSlots # {} /\ i = Min(FreeSlots)

Filled(s, d) ==
  [Cleared EXCEPT !.used = TRUE, !.id = d[s].id, !.start = s, !.len = d[s].len,
                  !.subs = d[s].subs]

(* hddOpen of a partition that exists.  The slot is filled before the      *)
(* password is looked at: a wrong one leaves a free slot that is not clear *)
(* (the rest of it is read by nobody before it is filled again).  That is  *)
(* tried while nothing is open.                                            *)
Open ==
  /\ Alone
  /\ \E id \in Names, i \in DOMAIN slots, right \in BOOLEAN :
       /\ GetFileSlot(id, i)
       /\ \E s \in Find(id) :
            /\ right \/ (disk[s].locked /\ slots[i] = Cleared /\ FreeSlots = DOMAIN slots)
            /\ slots' = [slots EXCEPT ![i] =
                 IF right THEN Filled(s, disk)
                 ELSE [Cleared EXCEPT !.id = id, !.start = s]]
  /\ UNCHANGED <<disk, ready, op, locks, swapped, cuts>>

(* hddOpen with O_CREAT of one that does not exist. *)
StartCreate(t) ==
  /\ Alone
  /\ \E id \in Names, i \in DOMAIN slots, size \in Asked :
       /\ GetFileSlot(id, i)
       /\ Find(id) = {}
       /\ Room(size)
       /\ op' = [do |-> "create", id |-> id, size |-> size, slot |-> i]
  /\ Stay(t)
  /\ UNCHANGED <<disk, ready, slots, swapped, cuts>>

Create ==
  /\ Working("create")
  /\ \E at \in 0 .. Total :
       /\ AddTo(Main(op.id, op.size), disk', at)
       /\ IF at = 0
          THEN UNCHANGED <<slots, op, locks>>
          ELSE /\ slots' = [slots EXCEPT ![op.slot] = Filled(at, disk')]
               /\ Leave
  /\ UNCHANGED <<ready, swapped, cuts>>

Close ==
  /\ Alone
  /\ \E i \in DOMAIN slots :
       /\ slots[i].used
       /\ slots' = [slots EXCEPT ![i] = Cleared]
  /\ UNCHANGED <<disk, ready, op, locks, swapped, cuts>>

-----------------------------------------------------------------------------
(* Sub-partitions, by the slot of their main partition.                    *)

OpenSlot(i) == slots[i].used /\ ~slots[i].dir

StartAddSub(t) ==
  /\ Alone
  /\ \E i \in DOMAIN slots, size \in Asked :
       /\ OpenSlot(i)
       /\ Len(slots[i].subs) < MaxSub
       /\ Room(size)
       /\ op' = [do |-> "sub", slot |-> i, size |-> size]
  /\ Stay(t)
  /\ UNCHANGED <<disk, ready, slots, swapped, cuts>>

(* ioctl2AddSub: the partition is made first. *)
AddSub ==
  /\ Working("sub")
  /\ \E at \in 0 .. Total :
       /\ AddTo(Sub(slots[op.slot].start, op.size), disk', at)
       /\ op' = IF at = 0 THEN op
                ELSE [do |-> "list", slot |-> op.slot, new |-> [start |-> at, len |-> op.size]]
  /\ UNCHANGED <<ready, slots, locks, swapped, cuts>>

(* Slip: the slot does not hear of the new sub-partition.                  *)
ListSubOnDisk ==
  /\ Working("list")
  /\ disk' = [disk EXCEPT ![slots[op.slot].start].subs = Append(@, op.new)]
  /\ Leave
  /\ UNCHANGED <<ready, slots, swapped, cuts>>

(* ... and the main partition lists it then, on the disk and in the slot.  *)
ListSub ==
  /\ Working("list")
  /\ disk' = [disk EXCEPT ![slots[op.slot].start].subs = Append(@, op.new)]
  /\ slots' = [slots EXCEPT ![op.slot].subs = Append(@, op.new)]
  /\ Leave
  /\ UNCHANGED <<ready, swapped, cuts>>

(* Slip: the sub-partition is deleted while it is still listed. *)
DeleteLastSubFirst(t) ==
  /\ Alone
  /\ \E i \in DOMAIN slots :
       /\ OpenSlot(i) /\ slots[i].subs # <<>>
       /\ disk' = Deleted(disk, Last(disk[slots[i].start].subs).start)
       /\ op' = [do |-> "none"]
  /\ UNCHANGED <<ready, slots, locks, swapped, cuts>>

(* ioctl2DeleteLastSub: it is taken from the list first, in the slot and   *)
(* on the disk, and deleted then.                                          *)
DeleteLastSub(t) ==
  /\ Alone
  /\ \E i \in DOMAIN slots :
       LET s == slots[i].start IN
       /\ OpenSlot(i) /\ slots[i].subs # <<>>
       /\ disk' = [disk EXCEPT ![s].subs = Front(@)]
       /\ slots' = [slots EXCEPT ![i].subs = Front(@)]
       /\ op' = [do |-> "delete", subs |-> <<Last(disk[s].subs)>>, main |-> {}]
  /\ Stay(t)
  /\ UNCHANGED <<ready, swapped, cuts>>

-----------------------------------------------------------------------------
(* hddRemove.                                                              *)

Removable(id) == ~IsOpen(id) /\ ~System(id)

(* apaRemove: the list of sub-partitions is emptied first. *)
StartRemove(t) ==
  /\ Alone
  /\ \E id \in Names \cup Range(SystemParts) : \E s \in Find(id) :
       /\ Removable(id)
       /\ disk' = [disk EXCEPT ![s].subs = <<>>]
       /\ op' = [do |-> "delete", subs |-> disk[s].subs, main |-> {s}]
  /\ Stay(t)
  /\ UNCHANGED <<ready, slots, swapped, cuts>>

(* The sub-partitions are deleted, the last one first. *)
DeleteSub ==
  /\ Working("delete") /\ op.subs # <<>>
  /\ disk' = Deleted(disk, Last(op.subs).start)
  /\ IF Len(op.subs) = 1 /\ op.main = {}
     THEN Leave
     ELSE op' = [op EXCEPT !.subs = Front(@)] /\ UNCHANGED locks
  /\ UNCHANGED <<ready, slots, swapped, cuts>>

(* The main partition comes last. *)
DeleteMain ==
  /\ Working("delete") /\ op.subs = <<>>
  /\ \E s \in op.main :
       /\ disk' = Deleted(disk, s)
       /\ slots' = [i \in DOMAIN slots |-> [slots[i] EXCEPT !.unseen = @ \ {s}]]
  /\ Leave
  /\ UNCHANGED <<ready, swapped, cuts>>

(* The disk fails between two flushes and the call gives up. *)
CallFails ==
  /\ Working("delete") \/ Working("list")
  /\ cuts < MaxCuts /\ cuts' = cuts + 1
  /\ Leave
  /\ UNCHANGED <<disk, ready, slots, swapped>>

-----------------------------------------------------------------------------
(* Names.                                                                  *)

Renamable(old, new) ==
  Find(new) = {} /\ ~IsOpen(old) /\ ~System(old) /\ Find(old) # {}

(* hddReName.  The new name comes with its passwords, or with none.        *)
Rename ==
  /\ Alone
  /\ \E old \in Names \cup Range(SystemParts), new \in Names, secret \in BOOLEAN :
       \E s \in Find(old) :
         /\ Renamable(old, new)
         /\ disk' = [disk EXCEPT ![s].id = new, ![s].locked = secret]
  /\ UNCHANGED <<ready, slots, op, locks, swapped, cuts>>

(* EEXIST, EBUSY and ENOENT: apaRename signals the semaphore, ... *)
RenameFails(t) ==
  /\ Alone /\ between = {}
  /\ \E old, new \in Names \cup Range(SystemParts) :
       Find(new) # {} \/ IsOpen(old) \/ (~System(old) /\ Find(old) = {})
  /\ between' = between \cup {t}
  /\ slipped' = TRUE
  /\ UNCHANGED <<disk, ready, slots, op, sema, inside, swapped, cuts>>

(* ... and hddReName signals it again, whoever is inside by then.  Its     *)
(* count does not exceed one.                                              *)
RenameReturns(t) ==
  /\ t \in between
  /\ between' = between \ {t}
  /\ sema' = 1
  /\ slipped' = (inside # {})
  /\ UNCHANGED <<disk, ready, slots, op, inside, swapped, cuts>>

(* devctlSwapTemp: the temporary partition and another one change names,   *)
(* open or not.                                                            *)
SwapTemp ==
  /\ Alone
  /\ \E id \in Names \ {Temp} : \E s \in Find(id), temp \in Find(Temp) :
       /\ disk' = [disk EXCEPT ![temp].id = id, ![temp].locked = disk[s].locked,
                               ![s].id = Temp, ![s].locked = FALSE]
       /\ swapped' = (swapped \/ IsOpen(id) \/ IsOpen(Temp))
  /\ UNCHANGED <<ready, slots, op, locks, cuts>>

-----------------------------------------------------------------------------
(* The directory.                                                          *)

(* hddDopen: the name is not read, and the slot is taken as it is.  One    *)
(* directory is open at a time.                                            *)
DirOpen ==
  /\ Alone
  /\ \A i \in DOMAIN slots : ~slots[i].dir
  /\ FreeSlots # {}
  /\ LET i == Min(FreeSlots) IN
     slots' = [slots EXCEPT ![i].used = TRUE, ![i].dir = TRUE, ![i].unseen = Mains]
  /\ UNCHANGED <<disk, ready, op, locks, swapped, cuts>>

(* Slip: the end is the first partition without a partition behind it in   *)
(* use.                                                                    *)
DirNextStops(s) ==
  LET next == disk[s].next IN
  IF next = 0 \/ disk[next].kind = "free" THEN End ELSE next

DirNext(s) == IF disk[s].next = 0 THEN End ELSE disk[s].next

(* hddDread: the partition at the stored place is answered, and the place  *)
(* of the next one is stored.                                              *)
DirRead ==
  /\ Alone
  /\ \E i \in DOMAIN slots :
       LET s == slots[i].start IN
       /\ slots[i].used /\ slots[i].dir
       /\ s \in DOMAIN disk
       /\ slots' = [slots EXCEPT ![i].unseen = @ \ {s}, ![i].start = DirNext(s)]
  /\ UNCHANGED <<disk, ready, op, locks, swapped, cuts>>

-----------------------------------------------------------------------------
(* The console is switched off; _start restores the journal.               *)

Crash ==
  /\ ready
  /\ IF op = None THEN UNCHANGED cuts ELSE cuts < MaxCuts /\ cuts' = cuts + 1
  /\ slots' = [i \in 1 .. MaxOpen |-> Cleared]
  /\ op' = None
  /\ sema' = 1 /\ inside' = {} /\ between' = {} /\ slipped' = FALSE
  /\ swapped' = FALSE
  /\ UNCHANGED <<disk, ready>>

ApaNext ==
  \/ FormatMbr \/ FormatPart
  \/ Open \/ Create \/ Close
  \/ AddSub \/ ListSub \/ DeleteSub \/ DeleteMain \/ CallFails
  \/ Rename \/ SwapTemp \/ DirOpen \/ DirRead \/ Crash
  \/ \E t \in Threads :
       \/ SecondEnters(t) \/ StartCreate(t) \/ StartAddSub(t) \/ DeleteLastSub(t)
       \/ StartRemove(t) \/ RenameFails(t) \/ RenameReturns(t)

ApaSpec == ApaInit /\ [][ApaNext]_apaVars

-----------------------------------------------------------------------------
(* Types. *)
ApaTypeOK ==
  /\ \A s \in DOMAIN disk :
       /\ s \in 0 .. Total - 1
       /\ disk[s].kind \in {"mbr", "free", "main", "sub"}
       /\ disk[s].len \in Sizes
       /\ Len(disk[s].subs) <= MaxSub
  /\ ready \in BOOLEAN
  /\ \A i \in 1 .. MaxOpen : slots[i].start \in -1 .. Total
  /\ op.do \in {"none", "format", "create", "sub", "list", "delete"}
  /\ sema \in {0, 1}
  /\ inside \subseteq Threads /\ between \subseteq Threads

(* After every flush, and so after a crash at any point, the partitions    *)
(* lie one behind the other from the start of the disk, none reaches past  *)
(* its end, and every header points at the one before and the one behind.  *)
ChainWhole ==
  ready =>
    \A s \in DOMAIN disk :
      LET h == disk[s] IN
      /\ s + h.len <= Total
      /\ IF h.next = 0 THEN disk[0].prev = s
         ELSE h.next = s + h.len /\ h.next \in DOMAIN disk /\ disk[h.next].prev = s
      /\ s # 0 => h.prev \in DOMAIN disk /\ disk[h.prev].next = s

(* Every partition and every empty block, however the blocks before were   *)
(* split, freed and taken again, starts at a multiple of its length.       *)
Aligned == \A s \in DOMAIN disk : s % disk[s].len = 0

(* What a main partition lists as its sub-partitions are sub-partitions of *)
(* its own of that length, and nobody else's: the list is shortened before *)
(* one is deleted and lengthened after one is made, so that a crash leaves *)
(* at worst one that nobody lists.                                         *)
ListedSubsExist ==
  \A s \in Mains : \A k \in DOMAIN disk[s].subs :
    LET sub == disk[s].subs[k] IN
    /\ sub.start \in DOMAIN disk
    /\ disk[sub.start].kind = "sub"
    /\ disk[sub.start].main = s
    /\ disk[sub.start].len = sub.len
    /\ \A j \in DOMAIN disk[s].subs : disk[s].subs[j] = sub => j = k

(* No two main partitions share a name, though names are given, changed    *)
(* and exchanged.                                                          *)
NamesUnique == \A s, t \in Mains : disk[s].id = disk[t].id => s = t

(* What lies on the disk is sound after every flush, for whoever starts    *)
(* from it after a crash.                                                  *)
DiskWhole == ApaTypeOK /\ ChainWhole /\ Aligned /\ ListedSubsExist /\ NamesUnique

(* What an open slot knows of its partition is what the disk says, and no  *)
(* open partition is removed, renamed or opened twice behind the slot's    *)
(* back: unless HDIOC_SWAPTMP changed an open name.                        *)
SlotAgrees ==
  ~swapped =>
    \A i \in DOMAIN slots :
      slots[i].used /\ ~slots[i].dir =>
        /\ slots[i].start \in Find(slots[i].id)
        /\ slots[i].len = disk[slots[i].start].len
        /\ slots[i].subs = disk[slots[i].start].subs
        /\ \A j \in DOMAIN slots : slots[j] = slots[i] => j = i

(* A walk through the directory that has come to its end has seen every    *)
(* main partition that was there all along, whatever was made, split or    *)
(* removed meanwhile: unless it was given a slot that a failed open had    *)
(* filled, where it begins at that partition.                              *)
WalkSeesAll ==
  \A i \in DOMAIN slots :
    slots[i].dir /\ slots[i].id = "" /\ slots[i].start = End =>
      slots[i].unseen = {}

(* fioSema lets one thread in at a time, unless a rename has failed: its   *)
(* error paths signal the semaphore twice.                                 *)
OneAtATime == Cardinality(inside) > 1 => slipped

(* The driver's own state is sound, for any two threads that call it.      *)
SlotsSound == SlotAgrees /\ OneAtATime
=============================================================================
