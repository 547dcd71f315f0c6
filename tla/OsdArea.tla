------------------------------ MODULE OsdArea ------------------------------
(***************************************************************************)
(* The attribute area of a game's partition, as OSD.c lays it out: a table *)
(* of one sector, then the files that the console's browser shows the game *)
(* with, each in whole sectors, in the order of their indices.  The game's *)
(* own header, which HDLoader keeps in two sectors in the middle of the    *)
(* area, must be stepped over.                                             *)
(***************************************************************************)
EXTENDS Integers

CONSTANTS
  HeaderAt,  \* HDL_GAME_DATA_OFFSET, in sectors
  AreaEnd    \* the sectors that the attribute area has

ASSUME OsdAreaAssumption ==
  /\ HeaderAt \in Nat /\ AreaEnd \in Nat
  /\ HeaderAt >= 5  \* what OldTable puts in front of the header
  /\ AreaEnd > HeaderAt + 2

Sector == 2    \* bytes of a sector, scaled down
SystemCnf == 0
IconSys == 1
ViewIcon == 2
DelIcon == 3
BootKelf == 4
F == 0 .. 4

(* What a file may hold; icon.sys holds the title.  "torn" is what a table *)
(* that describes no whole file makes of it. *)
FileSize == [system |-> 2, kelf |-> 2, view |-> 3, saveview |-> 5, savedel |-> 4,
             short |-> 1, long |-> 3, torn |-> 1, none |-> 0]
GameTitles == {"short", "long"}
Contents == DOMAIN FileSize
(* What may be taken for a file: also HDLoader's header, by a table that   *)
(* was written by two at once. *)
Known == Contents \cup {"header"}

Sectors(size) == (size + Sector - 1) \div Sector
Rounded(size) == Sectors(size) * Sector

Header == HeaderAt .. HeaderAt + 1

(* Slip: a file that ends in the header's first sector is let in. *)
HoppedLate(pos, size) ==
  LET h == HeaderAt * Sector
      e == (HeaderAt + 2) * Sector IN
  IF (pos >= h /\ pos < e) \/ (pos <= h /\ pos + Rounded(size) > h + Sector) THEN e ELSE pos

(* Where a file goes that is to go at an offset: behind the header, if it  *)
(* touched it. *)
Hopped(pos, size) ==
  LET h == HeaderAt * Sector
      e == (HeaderAt + 2) * Sector IN
  IF (pos >= h /\ pos < e) \/ (pos <= h /\ pos + Rounded(size) > h) THEN e ELSE pos

NoEntry == [offset |-> 0, size |-> 0]
NoTable == [i \in F |-> NoEntry]

(* The sectors of an entry of the table hold one file, from its beginning  *)
(* to its end. *)
Whole(area, ent) ==
  LET first == ent.offset \div Sector
      n == Sectors(ent.size) IN
  /\ first + n <= AreaEnd
  /\ \A k \in 1 .. n : area[first + k - 1] = <<area[first][1], k - 1>>

(* What reading a file of the table gives. *)
ReadBack(area, ent) ==
  IF ent.size = 0 THEN "none"
  ELSE IF Whole(area, ent) THEN area[ent.offset \div Sector][1] ELSE "torn"

(* The position of the open partition, which stays where it was if it is   *)
(* to go behind the area: nobody looks at the answer. *)
hddLseek(old, offset) == IF offset \div Sector <= AreaEnd THEN offset ELSE old

(* The area with so much of a file written as the driver, which stops at   *)
(* the end of the area, writes of it. *)
Written(area, offset, data, size) ==
  LET first == offset \div Sector IN
  [s \in DOMAIN area |->
     IF s \in first .. first + Sectors(size) - 1 THEN <<data, s - first>> ELSE area[s]]

Fits(offset, size) == offset \div Sector + Sectors(size) <= AreaEnd
Transferred(offset, size) ==
  IF Fits(offset, size) THEN offset + Rounded(size) ELSE AreaEnd * Sector

(* The resources that are built into the program: no icon.sys, no second   *)
(* icon. *)
Static(data) == [data |-> data, size |-> FileSize[data], buf |-> FALSE]
PrepareOSDDefaultResources ==
  [i \in F |-> CASE i = SystemCnf -> Static("system")
                 [] i = ViewIcon -> Static("view")
                 [] i = BootKelf -> Static("kelf")
                 [] OTHER -> Static("none")]

Optional == {IconSys, DelIcon, BootKelf}

(* The table and the area of a game that was installed with the built-in   *)
(* resources: the second icon is the first once more. *)
OldFiles == [i \in F |-> CASE i = SystemCnf -> "system"
                           [] i = IconSys -> "short"
                           [] i = BootKelf -> "kelf"
                           [] OTHER -> "view"]
OldTable ==
  LET at(s, d) == [offset |-> s * Sector, size |-> FileSize[d]] IN
  [i \in F |-> CASE i = SystemCnf -> at(1, "system")
                 [] i = IconSys -> at(2, "short")
                 [] i = BootKelf -> at(HeaderAt + 2, "kelf")
                 [] OTHER -> at(3, "view")]
OldArea ==
  LET blank == [s \in 0 .. AreaEnd - 1 |->
                  IF s \in Header THEN <<"header", s - HeaderAt>> ELSE <<"torn", 0>>]
      kelf == Written(blank, OldTable[BootKelf].offset, "kelf", FileSize["kelf"])
      view == Written(kelf, OldTable[ViewIcon].offset, "view", FileSize["view"])
      sys == Written(view, OldTable[IconSys].offset, "short", FileSize["short"]) IN
  Written(sys, OldTable[SystemCnf].offset, "system", FileSize["system"])
=============================================================================
