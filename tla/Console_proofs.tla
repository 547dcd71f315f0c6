--------------------------- MODULE Console_proofs ---------------------------
(***************************************************************************)
(* Proofs about two parts of the console that share no state: the game     *)
(* server, for every kind of failure and every schedule, and, from         *)
(* "The partition driver" on, the APA driver, for every disk.              *)
(***************************************************************************)
EXTENDS GameServer, Apa, FiniteSetTheorems, WellFoundedInduction, TLAPS

(* Who holds the semaphore of the slot's state, place by place.            *)
StateSemaInv ==
  /\ stateSema = "service" <=>
       svPc \in {"open", "connect", "end", "respond", "cleanend", "cleanslot"}
  /\ stateSema = "data" <=> dtPc = "end"

(* The open game of the slot, place by place of the service thread.        *)
OpenInv ==
  /\ svPc = "open" => task = "NONE" /\ lock = "client" /\ taskData = "game"
  /\ svPc \in {"connect", "end", "cleanend"} => task = "GAME"
  /\ svPc = "cleanslot" => task # "GAME"

(* An open game, once its data connection is made, is that of the data     *)
(* thread.                                                                 *)
ContextInv ==
  task = "GAME" /\ svPc \notin {"connect", "end"} =>
    \/ dtPc = "ready"
    \/ context = "live" /\ dtPc \in {"transfer", "disconnect", "close", "end"}

IInv ==
  /\ TypeOK
  /\ OneInstaller
  /\ ClosedOnce
  /\ RemoteScreenHonest
  /\ StateSemaInv
  /\ OpenInv
  /\ ContextInv

-----------------------------------------------------------------------------
(* The server as it starts: no client, no game, nobody has the lock.       *)
LEMMA InitHolds == Init => IInv
<1> SUFFICES ASSUME Init PROVE IInv
  OBVIOUS
<1> USE DEF Init
<1>1. TypeOK
  <2>1. dtRunning \in BOOLEAN /\ remote \in BOOLEAN /\ needReload \in BOOLEAN
    BY Zenon
  <2>2. QED
    BY <2>1 DEF TypeOK, ServicePlaces, DataPlaces, MenuPlaces
<1>2. OneInstaller /\ ClosedOnce
  BY DEF OneInstaller, ClosedOnce
<1>3. RemoteScreenHonest
  BY DEF RemoteScreenHonest
<1>4. StateSemaInv /\ OpenInv /\ ContextInv
  BY DEF StateSemaInv, OpenInv, ContextInv
<1>5. QED
  BY <1>1, <1>2, <1>3, <1>4 DEF IInv

(* What the client asks for, and its coming and going, keeps the invariant.*)
LEMMA ClientKeeps == ASSUME IInv, Client PROVE IInv'
<1> USE DEF IInv, TypeOK, OneInstaller, ClosedOnce, RemoteScreenHonest, StateSemaInv,
             OpenInv, ContextInv, ServicePlaces, DataPlaces, MenuPlaces,
             slotVars, dataVars, countVars
<1>1. CASE Accept
  <2>1. TypeOK'
    <3>1. dtRunning' \in BOOLEAN /\ remote' \in BOOLEAN /\ needReload' \in BOOLEAN
      BY <1>1, Zenon DEF Accept
    <3>2. numClients' \in 0 .. 1
      BY <1>1 DEF Accept
    <3>3. QED
      BY <1>1, <3>1, <3>2 DEF Accept
  <2>2. OneInstaller'
    BY <1>1 DEF Accept
  <2>3. ClosedOnce'
    BY <1>1 DEF Accept
  <2>4. RemoteScreenHonest'
    BY <1>1 DEF Accept
  <2>5. StateSemaInv'
    BY <1>1 DEF Accept
  <2>6. OpenInv'
    BY <1>1 DEF Accept
  <2>7. ContextInv'
    BY <1>1 DEF Accept
  <2>8. QED
    BY <2>1, <2>2, <2>3, <2>4, <2>5, <2>6, <2>7
<1>2. CASE SendVersion
  BY <1>2 DEF SendVersion, Receiving, Verified
<1>3. CASE RequestInit
  BY <1>3 DEF RequestInit, Receiving, Verified
<1>4. CASE RequestClose
  BY <1>4 DEF RequestClose, Receiving, Verified
<1>5. CASE RequestUpdate
  BY <1>5 DEF RequestUpdate, Receiving, Verified
<1>6. CASE InitOSDResources
  BY <1>6 DEF InitOSDResources, Receiving, Verified
<1>7. CASE EndOSDResources
  BY <1>7 DEF EndOSDResources, Receiving, Verified
<1>8. CASE GameListRequest
  BY <1>8 DEF GameListRequest, Receiving, Verified
<1>9. CASE Disconnected
  BY <1>9 DEF Disconnected, Receiving
<1>10. QED
  BY <1>1, <1>2, <1>3, <1>4, <1>5, <1>6, <1>7, <1>8, <1>9 DEF Client

(* The service thread keeps the invariant.                                 *)
LEMMA ServiceThreadKeeps == ASSUME IInv, ServiceThread PROVE IInv'
<1> USE DEF IInv, TypeOK, OneInstaller, ClosedOnce, RemoteScreenHonest, StateSemaInv,
             OpenInv, ContextInv, ServicePlaces, DataPlaces, MenuPlaces,
             slotVars, dataVars, countVars
<1>1. CASE InitBusy
  BY <1>1 DEF InitBusy
<1>2. CASE InitLocks
  BY <1>2 DEF InitLocks
<1>3. CASE OpenGame
  <2>1. TypeOK'
    <3>1. dtRunning' \in BOOLEAN /\ remote' \in BOOLEAN /\ needReload' \in BOOLEAN
      BY <1>3, Zenon DEF OpenGame
    <3>2. numClients' \in 0 .. 1
      BY <1>3 DEF OpenGame
    <3>3. QED
      BY <1>3, <3>1, <3>2 DEF OpenGame
  <2>2. OneInstaller'
    BY <1>3 DEF OpenGame
  <2>3. ClosedOnce'
    BY <1>3 DEF OpenGame
  <2>4. RemoteScreenHonest'
    BY <1>3 DEF OpenGame
  <2>5. StateSemaInv'
    BY <1>3 DEF OpenGame
  <2>6. OpenInv'
    BY <1>3 DEF OpenGame
  <2>7. ContextInv'
    BY <1>3 DEF OpenGame
  <2>8. QED
    BY <2>1, <2>2, <2>3, <2>4, <2>5, <2>6, <2>7
<1>4. CASE OpenFails
  BY <1>4 DEF OpenFails
<1>5. CASE Connect
  BY <1>5 DEF Connect
<1>6. CASE ConnectFails
  BY <1>6 DEF ConnectFails
<1>7. CASE InitEnds
  BY <1>7 DEF InitEnds, EndInstallation, ReleaseLock
<1>8. CASE Respond
  BY <1>8 DEF Respond
<1>9. CASE CloseGameReturns
  BY <1>9 DEF CloseGameReturns
<1>10. CASE UpdateReturns
  <2>1. TypeOK'
    <3>1. dtRunning' \in BOOLEAN /\ remote' \in BOOLEAN /\ needReload' \in BOOLEAN
      BY <1>10, Zenon DEF UpdateReturns
    <3>2. numClients' \in 0 .. 1
      BY <1>10 DEF UpdateReturns
    <3>3. QED
      BY <1>10, <3>1, <3>2 DEF UpdateReturns
  <2>2. OneInstaller'
    BY <1>10 DEF UpdateReturns
  <2>3. ClosedOnce'
    BY <1>10 DEF UpdateReturns
  <2>4. RemoteScreenHonest'
    BY <1>10 DEF UpdateReturns
  <2>5. StateSemaInv'
    BY <1>10 DEF UpdateReturns
  <2>6. OpenInv'
    BY <1>10 DEF UpdateReturns
  <2>7. ContextInv'
    BY <1>10 DEF UpdateReturns
  <2>8. QED
    BY <2>1, <2>2, <2>3, <2>4, <2>5, <2>6, <2>7
<1>11. CASE Cleanup
  BY <1>11 DEF Cleanup
<1>12. CASE CleanupEnds
  BY <1>12 DEF CleanupEnds, EndInstallation, ReleaseLock
<1>13. CASE CleanupSlot
  BY <1>13 DEF CleanupSlot
<1>14. CASE CleanupCount
  <2>1. TypeOK'
    <3>1. dtRunning' \in BOOLEAN /\ remote' \in BOOLEAN /\ needReload' \in BOOLEAN
      BY <1>14, Zenon DEF CleanupCount
    <3>2. numClients' \in 0 .. 1
      BY <1>14 DEF CleanupCount
    <3>3. QED
      BY <1>14, <3>1, <3>2 DEF CleanupCount
  <2>2. OneInstaller'
    BY <1>14 DEF CleanupCount
  <2>3. ClosedOnce'
    BY <1>14 DEF CleanupCount
  <2>4. RemoteScreenHonest'
    <3>1. numClients = 1 /\ numClients' = 0 /\ svPc' \in {"dormant", "reload"}
      BY <1>14 DEF CleanupCount
    <3>2. ~(numClients' >= 1)
      BY <3>1
    <3>3. remote' = (remote /\ numClients' >= 1)
      BY <1>14, Zenon DEF CleanupCount
    <3>4. ~remote'
      BY <3>2, <3>3, Zenon
    <3>5. QED
      BY <3>1, <3>4
  <2>5. StateSemaInv'
    BY <1>14 DEF CleanupCount
  <2>6. OpenInv'
    BY <1>14 DEF CleanupCount
  <2>7. ContextInv'
    BY <1>14 DEF CleanupCount
  <2>8. QED
    BY <2>1, <2>2, <2>3, <2>4, <2>5, <2>6, <2>7
<1>15. CASE Reload
  BY <1>15 DEF Reload
<1>16. QED
  BY <1>1, <1>2, <1>3, <1>4, <1>5, <1>6, <1>7, <1>8, <1>9, <1>10, <1>11, <1>12, <1>13, <1>14, <1>15 DEF ServiceThread

(* The data thread keeps the invariant.                                    *)
LEMMA DataThreadKeeps == ASSUME IInv, DataThread PROVE IInv'
<1> USE DEF IInv, TypeOK, OneInstaller, ClosedOnce, RemoteScreenHonest, StateSemaInv,
             OpenInv, ContextInv, ServicePlaces, DataPlaces, MenuPlaces,
             slotVars, dataVars, countVars
<1>1. CASE DataStarts
  <2>1. TypeOK'
    <3>1. dtRunning' \in BOOLEAN /\ remote' \in BOOLEAN /\ needReload' \in BOOLEAN
      BY <1>1, Zenon DEF DataStarts
    <3>2. numClients' \in 0 .. 1
      BY <1>1 DEF DataStarts
    <3>3. QED
      BY <1>1, <3>1, <3>2 DEF DataStarts
  <2>2. OneInstaller'
    BY <1>1 DEF DataStarts
  <2>3. ClosedOnce'
    BY <1>1 DEF DataStarts
  <2>4. RemoteScreenHonest'
    BY <1>1 DEF DataStarts
  <2>5. StateSemaInv'
    BY <1>1 DEF DataStarts
  <2>6. OpenInv'
    BY <1>1 DEF DataStarts
  <2>7. ContextInv'
    BY <1>1 DEF DataStarts
  <2>8. QED
    BY <2>1, <2>2, <2>3, <2>4, <2>5, <2>6, <2>7
<1>2. CASE TransferEnds
  BY <1>2 DEF TransferEnds
<1>3. CASE DataDisconnects
  BY <1>3 DEF DataDisconnects
<1>4. CASE CloseGame
  BY <1>4 DEF CloseGame
<1>5. CASE CloseGameEnds
  BY <1>5 DEF CloseGameEnds, EndInstallation, ReleaseLock
<1>6. CASE DataExits
  <2>1. TypeOK'
    <3>1. dtRunning' \in BOOLEAN /\ remote' \in BOOLEAN /\ needReload' \in BOOLEAN
      BY <1>6, Zenon DEF DataExits
    <3>2. numClients' \in 0 .. 1
      BY <1>6 DEF DataExits
    <3>3. QED
      BY <1>6, <3>1, <3>2 DEF DataExits
  <2>2. OneInstaller'
    BY <1>6 DEF DataExits
  <2>3. ClosedOnce'
    BY <1>6 DEF DataExits
  <2>4. RemoteScreenHonest'
    BY <1>6 DEF DataExits
  <2>5. StateSemaInv'
    BY <1>6 DEF DataExits
  <2>6. OpenInv'
    BY <1>6 DEF DataExits
  <2>7. ContextInv'
    BY <1>6 DEF DataExits
  <2>8. QED
    BY <2>1, <2>2, <2>3, <2>4, <2>5, <2>6, <2>7
<1>7. QED
  BY <1>1, <1>2, <1>3, <1>4, <1>5, <1>6 DEF DataThread

(* The main menu keeps the invariant.                                      *)
LEMMA MenuKeeps == ASSUME IInv, Menu PROVE IInv'
<1> USE DEF IInv, TypeOK, OneInstaller, ClosedOnce, RemoteScreenHonest, StateSemaInv,
             OpenInv, ContextInv, ServicePlaces, DataPlaces, MenuPlaces,
             slotVars, dataVars, countVars
<1>1. CASE MenuTop
  BY <1>1 DEF MenuTop
<1>2. CASE RemoteMenuEnds
  BY <1>2 DEF RemoteMenuEnds
<1>3. CASE PressStart
  BY <1>3 DEF PressStart
<1>4. CASE InstallEnds
  BY <1>4 DEF InstallEnds
<1>5. CASE PressSelect
  BY <1>5 DEF PressSelect
<1>6. CASE FrameEnds
  BY <1>6 DEF FrameEnds
<1>7. QED
  BY <1>1, <1>2, <1>3, <1>4, <1>5, <1>6 DEF Menu

(* A disk error ends the I/O thread, and the game stays open.              *)
LEMMA IOThreadDiesKeeps == ASSUME IInv, IOThreadDies PROVE IInv'
BY DEF IInv, TypeOK, OneInstaller, ClosedOnce, RemoteScreenHonest, StateSemaInv,
        OpenInv, ContextInv, ServicePlaces, DataPlaces, MenuPlaces,
        slotVars, dataVars, countVars, IOThreadDies

(* Every step keeps the invariant.                                         *)
LEMMA NextKeeps == IInv /\ [Next]_vars => IInv'
<1> SUFFICES ASSUME IInv, [Next]_vars PROVE IInv'
  OBVIOUS
<1>1. CASE Next
  BY <1>1, ClientKeeps, ServiceThreadKeeps, DataThreadKeeps, IOThreadDiesKeeps, MenuKeeps
     DEF Next
<1>2. CASE UNCHANGED vars
  BY <1>2 DEF vars, IInv, TypeOK, OneInstaller, ClosedOnce, RemoteScreenHonest, StateSemaInv,
             OpenInv, ContextInv, ServicePlaces, DataPlaces, MenuPlaces,
             slotVars, dataVars, countVars
<1>3. QED
  BY <1>1, <1>2

(* The invariant holds from the start on.                                  *)
THEOREM Invariance == Spec => []IInv
BY InitHolds, NextKeeps, PTL DEF Spec

-----------------------------------------------------------------------------
(* The variables of slot, threads, lock and menu stay in their ranges; in  *)
(* particular the count of clients, which the accept loop increments and   *)
(* the cleanup decrements, stays 0 or 1.                                   *)
THEOREM TypeCorrect == Spec => []TypeOK
<1>1. IInv => TypeOK
  BY DEF IInv
<1>2. QED
  BY <1>1, Invariance, PTL

(* The installation lock keeps the menu's disc installer and the client's  *)
(* open game apart, whatever fails on either side.                         *)
THEOREM LockExcludes == Spec => []OneInstaller
<1>1. IInv => OneInstaller
  BY DEF IInv
<1>2. QED
  BY <1>1, Invariance, PTL

(* The service thread, after a failed Init or in a cleanup, and the data   *)
(* thread never both end the same installation.                            *)
THEOREM EndedByOne == Spec => []ClosedOnce
<1>1. IInv => ClosedOnce
  BY DEF IInv
<1>2. QED
  BY <1>1, Invariance, PTL

(* The remote screen and the count of clients follow the service thread.   *)
THEOREM ScreenFollows == Spec => []RemoteScreenHonest
<1>1. IInv => RemoteScreenHonest
  BY DEF IInv
<1>2. QED
  BY <1>1, Invariance, PTL

-----------------------------------------------------------------------------
(***************************************************************************)
(* The partition driver.  Layout and links of the chain come first, then   *)
(* the slots, the call in progress and the semaphore.                      *)
(***************************************************************************)

(* The names a partition may have: that of a header which is in use, or    *)
(* none.                                                                   *)
AnyName == Names \cup Range(SystemParts) \cup {""}

(* What a main partition, or its slot, keeps of a sub-partition.           *)
SubRef == [start : Nat, len : Sizes]

(* The headers that the driver writes. *)
HeaderType ==
  [kind : {"mbr", "free", "main", "sub"}, len : Sizes, id : AnyName, locked : BOOLEAN,
   main : Nat, subs : Seq(SubRef), next : Nat, prev : Nat]

(* The layout of a chain: the blocks lie on the disk, each at a multiple   *)
(* of its length, each behind the one before, and the last of them is the  *)
(* one with the largest place.                                             *)
Laid(d) ==
  /\ DOMAIN d \subseteq 0 .. Total - 1 /\ 0 \in DOMAIN d
  /\ \A s \in DOMAIN d :
       /\ d[s].len \in Sizes /\ s + d[s].len <= Total /\ s % d[s].len = 0
       /\ s + d[s].len \in DOMAIN d \/ \A t \in DOMAIN d : t <= s
       /\ \A t \in DOMAIN d : s < t => s + d[s].len <= t

(* The links of a chain agree with its layout. ChainWhole is read off      *)
(* these two; Laid is what Inserted and Deleted keep, and libapa links     *)
(* from there.                                                             *)
Linked(d) ==
  \A s \in DOMAIN d :
    /\ IF d[s].next = 0 THEN d[0].prev = s /\ \A t \in DOMAIN d : t <= s
       ELSE d[s].next = s + d[s].len /\ d[s].next \in DOMAIN d /\ d[d[s].next].prev = s
    /\ s # 0 => d[s].prev \in DOMAIN d /\ d[d[s].prev].next = s

(* The disk: once it is formatted the chain is laid out and linked, and    *)
(* begins with the only header of kind mbr.                                *)
DiskInv ==
  /\ disk \in [DOMAIN disk -> HeaderType]
  /\ \A s \in DOMAIN disk : Len(disk[s].subs) <= MaxSub /\ (disk[s].kind = "mbr" <=> s = 0)
  /\ ready => Laid(disk) /\ Linked(disk)
  /\ ~ready => DOMAIN disk = {}

(* What a slot holds. *)
SlotType ==
  [used : BOOLEAN, dir : BOOLEAN, id : AnyName, start : -1 .. Total, len : {0} \cup Sizes,
   subs : Seq(SubRef), unseen : SUBSET Nat]

(* The slots of open partitions; the others are free or a directory.       *)
Files == {i \in DOMAIN slots : slots[i].used /\ ~slots[i].dir}

(* A free slot is no directory, and begins at no partition unless a        *)
(* failed open has left a name in it; no name is open twice.               *)
SlotInv ==
  /\ slots \in [1 .. MaxOpen -> SlotType]
  /\ \A i \in DOMAIN slots :
       ~slots[i].used => ~slots[i].dir /\ (slots[i].id = "" => slots[i].start = 0)
  /\ \A i, j \in Files : slots[i].id = slots[j].id => i = j
  /\ ~ready => \A i \in DOMAIN slots : slots[i] = Cleared

(* What a directory has still to see lies behind the place it has come     *)
(* to. A walk that has come to its end has nothing left to see.            *)
Walk ==
  \A i \in DOMAIN slots :
    slots[i].dir =>
      /\ slots[i].unseen \subseteq Mains
      /\ slots[i].id = "" =>
           IF slots[i].start = End THEN slots[i].unseen = {}
           ELSE \A u \in slots[i].unseen : slots[i].start <= u

(* What an open slot knows of its partition is what the disk says.         *)
Agree ==
  ~swapped =>
    \A i \in Files :
        /\ slots[i].start \in Find(slots[i].id)
        /\ slots[i].len = disk[slots[i].start].len
        /\ slots[i].subs = disk[slots[i].start].subs

(* No main partition lists the one at this place. *)
Unlisted(at) == \A s \in Mains : \A k \in DOMAIN disk[s].subs : disk[s].subs[k].start # at

(* A call that deletes sub-partitions after their list was written: they   *)
(* are there, nobody lists them, and each is named once.                   *)
Deletable(subs) ==
  /\ subs \in Seq(SubRef)
  /\ \A k \in DOMAIN subs :
       /\ subs[k].start \in DOMAIN disk /\ disk[subs[k].start].kind = "sub"
       /\ Unlisted(subs[k].start)
       /\ \A j \in DOMAIN subs : subs[j].start = subs[k].start => j = k

(* What a call of several flushes has found out before the first of them   *)
(* still holds between them: there is room for the partition it makes,     *)
(* its name is not taken, the slot it works on is open, and what it will   *)
(* delete is still its own to delete.                                      *)
OpInv ==
  /\ op.do \in {"none", "format", "create", "sub", "list", "delete"}
  /\ op.do = "none" <=> op = None
  /\ op.do \in {"create", "sub", "list", "delete"} <=> inside # {}
  /\ op.do # "none" => ready /\ ~swapped
  /\ op.do = "format" =>
       /\ op \in [do : {"format"}, i : 1 .. Len(SystemParts), size : Sizes]
       /\ op.size <= MaxSize
       /\ \A s \in Mains : \E j \in 1 .. op.i - 1 : disk[s].id = SystemParts[j]
  /\ op.do = "create" =>
       /\ op.id \in Names /\ op.size \in Sizes /\ Room(op.size)
       /\ op.slot \in DOMAIN slots /\ ~slots[op.slot].used
       /\ Find(op.id) = {} /\ ~IsOpen(op.id)
  /\ op.do \in {"sub", "list"} =>
       /\ op.slot \in Files /\ Len(slots[op.slot].subs) < MaxSub
  /\ op.do = "sub" => op.size \in Sizes /\ Room(op.size)
  /\ op.do = "list" =>
       /\ op.new \in SubRef /\ op.new.start \in DOMAIN disk
       /\ disk[op.new.start].kind = "sub" /\ disk[op.new.start].main = slots[op.slot].start
       /\ disk[op.new.start].len = op.new.len /\ Unlisted(op.new.start)
  /\ op.do = "delete" =>
       /\ op \in [do : {"delete"}, subs : Seq(SubRef), main : SUBSET Nat]
       /\ Deletable(op.subs)
       /\ op.subs = <<>> => op.main # {}
       /\ \A s \in op.main :
            /\ s \in Mains /\ disk[s].subs = <<>>
            /\ \A i \in Files : slots[i].start # s

(* The semaphore: as long as no rename has failed, it is free when nobody  *)
(* is inside, and nobody but one thread is.                                *)
SemaInv ==
  /\ sema \in {0, 1} /\ inside \subseteq Threads
  /\ between \subseteq Threads /\ \A t, u \in between : t = u
  /\ ~slipped =>
       /\ between = {} /\ (sema = 1 <=> inside = {})
       /\ \A t, u \in inside : t = u

(* The inductive invariant of the driver. *)
DriverInv ==
  /\ ready \in BOOLEAN /\ swapped \in BOOLEAN /\ (swapped => ready)
  /\ DiskInv /\ ListedSubsExist /\ NamesUnique
  /\ SlotInv /\ Walk /\ Agree /\ OpInv /\ SemaInv

-----------------------------------------------------------------------------
(* The order of the natural numbers, as a relation. *)
Below == {ss \in Nat \X Nat : ss[1] < ss[2]}

(* A set of natural numbers has a least one. *)
LEMMA Least ==
  ASSUME NEW S \in SUBSET Nat, S # {}
  PROVE  \E n \in S : \A m \in S : n <= m
<1>1. IsWellFoundedOn(Below, Nat)
  BY NatLessThanWellFounded DEF OpToRel, Below
<1>2. \A m, n \in Nat : <<m, n>> \in Below <=> m < n
  BY DEF Below
<1>3. PICK n \in S : \A m \in S : ~(<<m, n>> \in Below)
  BY <1>1, WFMin
<1>4. \A m \in S : m \in Nat /\ n \in Nat /\ ~(m < n)
  BY <1>2, <1>3
<1>5. \A m \in S : n <= m
  BY <1>4
<1> QED  BY <1>5

(* A number is its quotient and its rest. *)
LEMMA ModParts ==
  ASSUME NEW a \in Nat, NEW k \in Nat, k > 0
  PROVE  a = k * (a \div k) + (a % k)
BY Z3

(* A number is a multiple and a rest. *)
LEMMA ModOf ==
  ASSUME NEW a \in Nat, NEW k \in Nat \ {0}
  PROVE  \E q \in Nat : a = k * q + (a % k) /\ a % k \in 0 .. k - 1
<1>1. a % k \in 0 .. k - 1
  BY SMT
<1>2. k \in Nat /\ k > 0
  OBVIOUS
<1>3. a = k * (a \div k) + (a % k)
  BY <1>2, ModParts
<1>4. a \div k \in Nat
  BY SMT
<1> QED  BY <1>1, <1>3, <1>4

(* Multiples of k that lie apart differ by k at least. *)
LEMMA Gap ==
  ASSUME NEW k \in Nat \ {0}, NEW p \in Nat, NEW q \in Nat, p < q
  PROVE  k * p + k <= k * q /\ k * p \in Nat /\ k * q \in Nat
<1>1. k * q >= k * (p + 1)
  BY SMT
<1>2. k * (p + 1) = k * p + k
  BY SMT
<1>3. k * p \in Nat /\ k * q \in Nat
  BY SMT
<1> QED  BY <1>1, <1>2, <1>3

(* There is only one such rest. *)
LEMMA OneQuotient ==
  ASSUME NEW k \in Nat \ {0}, NEW p \in Nat, NEW q \in Nat,
         NEW r \in 0 .. k - 1, NEW m \in 0 .. k - 1, k * p + m = k * q + r
  PROVE  m = r
<1>1. k * p \in Nat /\ k * q \in Nat
  BY SMT
<1> DEFINE kp == k * p
           kq == k * q
<1>2. kp \in Nat /\ kq \in Nat /\ kp + m = kq + r
  BY <1>1
<1>3. p < q => kp + k <= kq
  BY Gap
<1>4. q < p => kq + k <= kp
  BY Gap
<1>5. p = q => kp = kq
  OBVIOUS
<1> HIDE DEF kp, kq
<1> QED  BY <1>2, <1>3, <1>4, <1>5

(* The rest of a multiple and a rest. *)
LEMMA ModIs ==
  ASSUME NEW k \in Nat \ {0}, NEW q \in Nat, NEW r \in 0 .. k - 1
  PROVE  (k * q + r) % k = r
<1>1. k * q + r \in Nat
  BY SMT
<1>2. PICK p \in Nat : /\ k * q + r = k * p + ((k * q + r) % k)
                       /\ (k * q + r) % k \in 0 .. k - 1
  BY <1>1, ModOf
<1> QED  BY <1>2, OneQuotient

(* A number is a multiple of k when nothing is left of it. *)
LEMMA Multiple ==
  ASSUME NEW k \in Nat \ {0}, NEW a \in Nat
  PROVE  a % k = 0 <=> \E q \in Nat : a = k * q
<1>1. ASSUME a % k = 0 PROVE \E q \in Nat : a = k * q
  <2>1. PICK q \in Nat : a = k * q + (a % k)
    BY ModOf
  <2>2. k * q \in Nat
    BY SMT
  <2> QED  BY <1>1, <2>1, <2>2
<1>2. ASSUME NEW q \in Nat, a = k * q PROVE a % k = 0
  <2>1. k * q \in Nat /\ 0 \in 0 .. k - 1
    BY SMT
  <2>2. (k * q + 0) % k = 0
    BY <2>1, ModIs
  <2> QED  BY <1>2, <2>1, <2>2
<1> QED  BY <1>1, <1>2

(* Multiples of k add up to one. *)
LEMMA MultiplesAdd ==
  ASSUME NEW k \in Nat \ {0}, NEW a \in Nat, NEW b \in Nat, a % k = 0, b % k = 0
  PROVE  (a + b) % k = 0
<1>1. PICK p \in Nat : a = k * p
  BY Multiple
<1>2. PICK q \in Nat : b = k * q
  BY Multiple
<1>3. k * (p + q) = k * p + k * q /\ p + q \in Nat
  BY SMT
<1>4. a + b = k * (p + q) /\ a + b \in Nat
  BY <1>1, <1>2, <1>3
<1> QED  BY <1>3, <1>4, Multiple

(* k and zero are multiples of k. *)
LEMMA MultipleOfItself == ASSUME NEW k \in Nat \ {0} PROVE k % k = 0 /\ 0 % k = 0
<1>1. k = k * 1 /\ 0 = k * 0
  BY SMT
<1> QED  BY <1>1, Multiple

(* Sizes are powers of two: what is more than one of them is twice it at   *)
(* least, and a multiple of it.                                            *)
LEMMA SizeDoubles ==
  ASSUME NEW m \in Sizes, NEW l \in Sizes, l < m
  PROVE  2 * l \in Sizes /\ 2 * l <= m
<1> DEFINE Good(n) == \A k \in Sizes : k < n => 2 * k \in Sizes /\ 2 * k <= n
           Bad == {n \in Sizes : ~Good(n)}
<1> SUFFICES ASSUME Bad # {} PROVE FALSE
  OBVIOUS
<1>1. Sizes \subseteq Nat \ {0} /\ 1 \in Sizes
  BY ApaAssumption DEF ApaAssumption
<1>2. \A n \in Sizes : n # 1 => \E h \in Sizes : n = 2 * h
  <2> SUFFICES ASSUME NEW n \in Sizes, n # 1 PROVE \E h \in Sizes : n = 2 * h
    OBVIOUS
  <2>1. n % 2 = 0 /\ n \div 2 \in Sizes /\ n \in Nat
    BY <1>1, ApaAssumption DEF ApaAssumption
  <2>2. n = 2 * (n \div 2)
    BY <2>1
  <2> QED  BY <2>1, <2>2
<1>3. PICK n \in Bad : \A k \in Bad : n <= k
  BY <1>1, Least
<1> HIDE DEF Good
<1>4. n \in Sizes /\ ~Good(n) /\ n \in Nat \ {0}
  BY <1>1
<1>5. \A k \in Sizes : k < n => Good(k)
  BY <1>1, <1>3
<1> HIDE DEF Bad
<1>6. PICK k \in Sizes : k < n /\ ~(2 * k \in Sizes /\ 2 * k <= n)
  BY <1>4 DEF Good
<1>7. k \in Nat \ {0} /\ n # 1
  BY <1>1, <1>4, <1>6
<1>8. PICK h \in Sizes : n = 2 * h
  BY <1>2, <1>4, <1>7
<1>9. h \in Nat \ {0} /\ h < n /\ h # k
  BY <1>1, <1>4, <1>6, <1>8
<1>10. Good(h)
  BY <1>5, <1>9
<1>11. ~(k < h)
  BY <1>6, <1>7, <1>8, <1>9, <1>10 DEF Good
<1>12. h < k
  BY <1>7, <1>9, <1>11
<1>13. k # 1
  BY <1>7, <1>9, <1>12
<1>14. PICK g \in Sizes : k = 2 * g
  BY <1>2, <1>13
<1>15. g \in Nat \ {0}
  BY <1>1
<1>16. g < h
  BY <1>6, <1>8, <1>9, <1>14, <1>15
<1>17. 2 * g <= h
  BY <1>10, <1>16 DEF Good
<1> QED  BY <1>7, <1>9, <1>12, <1>14, <1>17

(* The smaller of two sizes divides the larger one. *)
LEMMA SizeDivides ==
  ASSUME NEW m \in Sizes, NEW l \in Sizes, l <= m
  PROVE  m % l = 0
<1> DEFINE Good(n) == n % l = 0
           Bad == {n \in Sizes : l <= n /\ ~Good(n)}
<1> SUFFICES ASSUME Bad # {} PROVE FALSE
  OBVIOUS
<1>1. Sizes \subseteq Nat \ {0} /\ l \in Nat \ {0}
  BY ApaAssumption DEF ApaAssumption
<1> HIDE DEF Good
<1>2. PICK n \in Bad : \A k \in Bad : n <= k
  BY <1>1, Least
<1>3. n \in Sizes /\ l <= n /\ ~Good(n) /\ n \in Nat \ {0}
  BY <1>1
<1>4. \A k \in Sizes : l <= k /\ k < n => Good(k)
  BY <1>1, <1>2
<1> HIDE DEF Bad
<1>5. n # l
  BY <1>1, <1>3, MultipleOfItself DEF Good
<1>6. n # 1
  BY <1>1, <1>3, <1>5
<1>7. n % 2 = 0 /\ n \div 2 \in Sizes
  BY <1>3, <1>6, ApaAssumption DEF ApaAssumption
<1>8. PICK h \in Sizes : n = 2 * h /\ h \in Nat \ {0}
  BY <1>1, <1>3, <1>7
<1>9. 2 * l <= n
  BY <1>1, <1>3, <1>5, SizeDoubles
<1>10. l <= h /\ h < n
  BY <1>1, <1>8, <1>9
<1>11. h % l = 0
  BY <1>4, <1>10 DEF Good
<1>12. (h + h) % l = 0
  BY <1>1, <1>8, <1>11, MultiplesAdd
<1>13. n % l = 0
  BY <1>8, <1>12
<1> QED  BY <1>3, <1>13 DEF Good

(* What is aligned to a size is aligned to the smaller ones. *)
LEMMA AlignedDown ==
  ASSUME NEW m \in Sizes, NEW l \in Sizes, l <= m, NEW a \in Nat, a % m = 0
  PROVE  a % l = 0
<1>1. m \in Nat \ {0} /\ l \in Nat \ {0}
  BY ApaAssumption DEF ApaAssumption
<1>2. PICK p \in Nat : a = m * p
  BY <1>1, Multiple
<1>3. PICK q \in Nat : m = l * q
  BY <1>1, SizeDivides, Multiple
<1>4. a = l * (q * p) /\ q * p \in Nat
  BY <1>1, <1>2, <1>3, SMT
<1> QED  BY <1>1, <1>4, Multiple

-----------------------------------------------------------------------------
(* The chain. *)

(* The least of a set of numbers is in it, and below all of it.            *)
LEMMA MinOf ==
  ASSUME NEW S \in SUBSET Nat, S # {}
  PROVE  Min(S) \in S /\ \A n \in S : Min(S) <= n
BY Least DEF Min

(* There is only one that is. *)
LEMMA MinIs ==
  ASSUME NEW S \in SUBSET Nat, NEW m \in S, \A n \in S : m <= n
  PROVE  Min(S) = m
<1>1. Min(S) \in S /\ Min(S) <= m
  BY MinOf
<1>2. m <= Min(S) /\ m \in Nat /\ Min(S) \in Nat
  BY <1>1
<1> QED  BY <1>1, <1>2

(* The same of the largest, of a bounded set. *)
LEMMA MaxOf ==
  ASSUME NEW N \in Nat, NEW S \in SUBSET (0 .. N), S # {}
  PROVE  Max(S) \in S /\ \A n \in S : n <= Max(S)
<1> DEFINE R == {k \in 0 .. N : N - k \in S}
<1>1. R \in SUBSET Nat
  OBVIOUS
<1>2. R # {}
  <2>1. PICK n \in S : n \in 0 .. N
    OBVIOUS
  <2>2. N - n \in 0 .. N /\ N - (N - n) = n
    BY <2>1
  <2> QED  BY <2>1, <2>2
<1>3. PICK k \in R : \A j \in R : k <= j
  BY <1>1, <1>2, Least
<1>4. k \in 0 .. N /\ N - k \in S
  BY <1>3
<1>5. \A n \in S : N - k >= n
  <2> SUFFICES ASSUME NEW n \in S PROVE N - k >= n
    OBVIOUS
  <2>1. n \in 0 .. N /\ N - n \in 0 .. N /\ N - (N - n) = n
    OBVIOUS
  <2>2. N - n \in R
    BY <2>1
  <2> HIDE DEF R
  <2>3. k <= N - n
    BY <1>3, <2>2
  <2> QED  BY <1>4, <2>1, <2>3
<1>6. \E x \in S : \A y \in S : x >= y
  BY <1>4, <1>5
<1>7. Max(S) \in S /\ \A y \in S : Max(S) >= y
  BY <1>6 DEF Max
<1> QED  BY <1>7

(* There is only one that is. *)
LEMMA MaxIs ==
  ASSUME NEW N \in Nat, NEW S \in SUBSET (0 .. N), NEW m \in S, \A n \in S : n <= m
  PROVE  Max(S) = m
<1>1. Max(S) \in S /\ m <= Max(S)
  BY MaxOf
<1>2. \A n \in S : n \in Nat
  OBVIOUS
<1>3. Max(S) <= m /\ m \in Nat /\ Max(S) \in Nat
  BY <1>1, <1>2
<1> QED  BY <1>1, <1>3

(* The names of callers and of the system are names of partitions.         *)
LEMMA NamesAre ==
  /\ \A id \in Names : id \in AnyName /\ id # ""
  /\ \A id \in Range(SystemParts) : id \in AnyName
<1>1. "" \notin Names
  BY ApaAssumption DEF ApaAssumption
<1>2. ASSUME NEW id \in Names PROVE id \in AnyName
  BY DEF AnyName
<1>3. ASSUME NEW id \in Range(SystemParts) PROVE id \in AnyName
  BY DEF AnyName
<1> QED  BY <1>1, <1>2, <1>3

(* The types of the constants. *)
LEMMA SizesType ==
  /\ Sizes \subseteq Nat \ {0} /\ \A l \in Sizes : l \in Nat /\ l > 0
  /\ 1 \in Sizes /\ MaxSize \in Sizes
  /\ Total \in Nat /\ Total > 0 /\ MaxSub \in Nat /\ MaxOpen \in Nat
<1>1. Sizes \subseteq Nat \ {0} /\ 1 \in Sizes /\ MaxSize \in Sizes
  BY ApaAssumption DEF ApaAssumption
<1>2. Total \in Nat \ {0} /\ MaxSub \in Nat /\ MaxOpen \in Nat
  BY ApaAssumption DEF ApaAssumption
<1> QED  BY <1>1, <1>2

(* A block of the layout, and the last one. *)
LEMMA LaidBlock ==
  ASSUME NEW d, Laid(d), NEW s \in DOMAIN d
  PROVE  /\ s \in Nat /\ s < Total /\ d[s].len \in Nat \ {0} /\ s + d[s].len \in Nat
         /\ \A t \in DOMAIN d : s < t => s + d[s].len <= t
<1>1. s \in 0 .. Total - 1 /\ d[s].len \in Sizes
  BY DEF Laid
<1>2. s \in Nat /\ s < Total
  BY <1>1, SizesType
<1>3. d[s].len \in Nat \ {0}
  BY <1>1, SizesType
<1>4. s + d[s].len \in Nat
  BY <1>2, <1>3
<1>5. \A t \in DOMAIN d : s < t => s + d[s].len <= t
  BY DEF Laid
<1> QED  BY <1>2, <1>3, <1>4, <1>5

(* A layout has a last block, and every other one has one behind it.       *)
LEMMA LastExists ==
  ASSUME NEW d, Laid(d)
  PROVE  /\ Max(DOMAIN d) \in DOMAIN d /\ \A t \in DOMAIN d : t <= Max(DOMAIN d)
         /\ \A s \in DOMAIN d : s # Max(DOMAIN d) => s + d[s].len \in DOMAIN d
<1>1. Total - 1 \in Nat /\ DOMAIN d \in SUBSET (0 .. Total - 1) /\ DOMAIN d # {}
  BY SizesType DEF Laid
<1>2. Max(DOMAIN d) \in DOMAIN d /\ \A t \in DOMAIN d : t <= Max(DOMAIN d)
  BY <1>1, MaxOf
<1>3. ASSUME NEW s \in DOMAIN d, s # Max(DOMAIN d) PROVE s + d[s].len \in DOMAIN d
  <2>1. s < Max(DOMAIN d)
    BY <1>1, <1>2, <1>3
  <2>2. ~ \A t \in DOMAIN d : t <= s
    BY <1>1, <1>2, <2>1
  <2> QED  BY <2>2 DEF Laid
<1> QED  BY <1>2, <1>3

(* The last block of a chain is the one that the first points back to,     *)
(* and its end is the end of the chain.                                    *)
LEMMA LastOf ==
  ASSUME NEW d, Laid(d), Linked(d)
  PROVE  /\ LastBlock(d) \in DOMAIN d /\ d[LastBlock(d)].next = 0
         /\ \A t \in DOMAIN d : t <= LastBlock(d)
         /\ \A s \in DOMAIN d : d[s].next = 0 => s = LastBlock(d)
         /\ d[0].prev = LastBlock(d)
         /\ PartEnd(d) \in Nat /\ PartEnd(d) > LastBlock(d)
         /\ PartEnd(d) \notin DOMAIN d /\ PartEnd(d) <= Total
<1> DEFINE m == Max(DOMAIN d)
           l == LastBlock(d)
<1>1. m \in DOMAIN d /\ \A t \in DOMAIN d : t <= m
  BY LastExists
<1>2. \A s \in DOMAIN d : s \in Nat /\ d[s].len \in Nat \ {0}
  BY LaidBlock
<1> HIDE DEF m
<1>3. d[m].next = 0
  <2>1. ~(d[m].next = m + d[m].len /\ d[m].next \in DOMAIN d)
    BY <1>1, <1>2
  <2> QED  BY <1>1, <2>1 DEF Linked
<1>4. l \in DOMAIN d /\ d[l].next = 0
  BY <1>1, <1>3 DEF LastBlock
<1> HIDE DEF l
<1>5. \A s \in DOMAIN d : d[s].next = 0 => d[0].prev = s /\ \A t \in DOMAIN d : t <= s
  BY DEF Linked
<1>6. \A t \in DOMAIN d : t <= l
  BY <1>4, <1>5
<1>7. PartEnd(d) = l + d[l].len
  BY DEF PartEnd, l
<1>8. PartEnd(d) \in Nat /\ PartEnd(d) > l
  BY <1>2, <1>4, <1>7
<1>9. PartEnd(d) \notin DOMAIN d
  BY <1>2, <1>4, <1>6, <1>8
<1>10. PartEnd(d) <= Total
  BY <1>4, <1>7 DEF Laid
<1> QED  BY <1>4, <1>5, <1>6, <1>8, <1>9, <1>10 DEF l

(* Headers that differ in their links only. *)
Same(h, g) ==
  /\ h.kind = g.kind /\ h.len = g.len /\ h.id = g.id
  /\ h.main = g.main /\ h.subs = g.subs

(* The layout is a matter of places and lengths. *)
LEMMA LaidAlike ==
  ASSUME NEW d, Laid(d), NEW e, DOMAIN e = DOMAIN d,
         \A s \in DOMAIN d : e[s].len = d[s].len
  PROVE  Laid(e)
BY DEF Laid

(* The links are a matter of places and lengths as well. *)
LEMMA LinkedAlike ==
  ASSUME NEW d, Laid(d), Linked(d), NEW e, DOMAIN e = DOMAIN d,
         \A s \in DOMAIN d : e[s].len = d[s].len /\ e[s].next = d[s].next /\ e[s].prev = d[s].prev
  PROVE  Laid(e) /\ Linked(e)
<1>1. Laid(e)
  BY LaidAlike
<1>2. 0 \in DOMAIN d
  BY DEF Laid
<1>3. Linked(e)
  BY <1>2 DEF Linked
<1> QED  BY <1>1, <1>3

(* libapa's links: from a layout to a whole chain. *)
LEMMA ChainedIs ==
  ASSUME NEW d, Laid(d), d \in [DOMAIN d -> HeaderType]
  PROVE  LET e == Chained(d) IN
         /\ DOMAIN e = DOMAIN d /\ e \in [DOMAIN d -> HeaderType]
         /\ \A s \in DOMAIN d : Same(e[s], d[s])
         /\ Laid(e) /\ Linked(e)
<1> DEFINE e == Chained(d)
           m == Max(DOMAIN d)
           above(s) == {t \in DOMAIN d : t > s}
           below(s) == {t \in DOMAIN d : t < s}
           next(s) == IF above(s) = {} THEN 0 ELSE Min(above(s))
           prev(s) == IF s = 0 THEN m ELSE Max(below(s))
<1>1. m \in DOMAIN d /\ \A t \in DOMAIN d : t <= m
  BY LastExists
<1>2. \A s \in DOMAIN d : s # m => s + d[s].len \in DOMAIN d
  BY LastExists
<1>3. \A s \in DOMAIN d : s \in Nat /\ d[s].len \in Nat \ {0} /\ d[s] \in HeaderType
  BY LaidBlock
<1>4. e = [s \in DOMAIN d |-> [d[s] EXCEPT !.next = next(s), !.prev = prev(s)]]
  BY DEF Chained
<1> HIDE DEF e, m
<1>5. ASSUME NEW s \in DOMAIN d, s # m PROVE next(s) = s + d[s].len
  <2>1. s + d[s].len \in above(s)
    BY <1>2, <1>3, <1>5
  <2>2. \A t \in above(s) : s + d[s].len <= t
    BY LaidBlock
  <2>3. above(s) \in SUBSET Nat
    BY <1>3
  <2> HIDE DEF above
  <2>4. Min(above(s)) = s + d[s].len
    BY <2>1, <2>2, <2>3, MinIs
  <2> QED  BY <2>1, <2>4
<1>6. next(m) = 0
  <2>1. above(m) = {}
    BY <1>1, <1>3
  <2> QED  BY <2>1
<1>7. ASSUME NEW s \in DOMAIN d, s # 0
      PROVE  prev(s) \in DOMAIN d /\ prev(s) # m /\ prev(s) + d[prev(s)].len = s
  <2>1. 0 \in below(s) /\ s \in Nat
    BY <1>3, <1>7 DEF Laid
  <2>2. below(s) \in SUBSET (0 .. s)
    BY <1>3
  <2>3. Max(below(s)) \in below(s) /\ \A t \in below(s) : t <= Max(below(s))
    <3> HIDE DEF below
    <3> QED  BY <2>1, <2>2, MaxOf
  <2> DEFINE p == Max(below(s))
  <2>4. p \in DOMAIN d /\ p < s /\ p # m
    <3>1. p \in DOMAIN d /\ p < s
      BY <2>3
    <3>2. s <= m
      BY <1>1
    <3> QED  BY <1>1, <1>3, <3>1, <3>2
  <2>5. p + d[p].len \in DOMAIN d /\ p + d[p].len <= s
    BY <1>2, <2>4, LaidBlock
  <2>6. ~(p + d[p].len < s)
    <3> SUFFICES ASSUME p + d[p].len < s PROVE FALSE
      OBVIOUS
    <3>1. p + d[p].len <= p
      BY <2>3, <2>5
    <3> QED  BY <1>3, <2>4, <3>1
  <2>7. p + d[p].len = s
    BY <1>3, <2>1, <2>4, <2>5, <2>6
  <2>8. prev(s) = p
    BY <1>7
  <2> QED  BY <2>4, <2>7, <2>8
<1>8. \A s \in DOMAIN d : next(s) \in Nat /\ prev(s) \in Nat
  <2> SUFFICES ASSUME NEW s \in DOMAIN d PROVE next(s) \in Nat /\ prev(s) \in Nat
    OBVIOUS
  <2>1. next(s) \in Nat
    <3>1. CASE s = m
      BY <1>6, <3>1
    <3>2. CASE s # m
      BY <1>5, <1>3, <3>2
    <3> QED  BY <3>1, <3>2
  <2>2. prev(s) \in Nat
    <3>1. CASE s = 0
      BY <1>1, <1>3, <3>1
    <3>2. CASE s # 0
      BY <1>7, <1>3, <3>2
    <3> QED  BY <3>1, <3>2
  <2> QED  BY <2>1, <2>2
<1>9. prev(0) = m
  OBVIOUS
<1> HIDE DEF next, prev
<1>10. \A s \in DOMAIN d : /\ e[s] \in HeaderType /\ Same(e[s], d[s])
                          /\ e[s].next = next(s) /\ e[s].prev = prev(s)
  <2> SUFFICES ASSUME NEW s \in DOMAIN d
               PROVE  /\ e[s] \in HeaderType /\ Same(e[s], d[s])
                      /\ e[s].next = next(s) /\ e[s].prev = prev(s)
    OBVIOUS
  <2>1. e[s] = [d[s] EXCEPT !.next = next(s), !.prev = prev(s)]
    BY <1>4
  <2>2. d[s] \in HeaderType /\ next(s) \in Nat /\ prev(s) \in Nat
    BY <1>3, <1>8
  <2> DEFINE n == next(s)
             p == prev(s)
             h == d[s]
             g == e[s]
  <2>3. h \in HeaderType /\ n \in Nat /\ p \in Nat /\ g = [h EXCEPT !.next = n, !.prev = p]
    BY <2>1, <2>2
  <2> HIDE DEF n, p, h, g
  <2>4. g \in HeaderType /\ Same(g, h) /\ g.next = n /\ g.prev = p
    BY ONLY <2>3 DEF HeaderType, Same
  <2> QED  BY <2>4 DEF n, p, h, g
<1>11. DOMAIN e = DOMAIN d /\ e = [s \in DOMAIN e |-> e[s]]
  BY <1>4
<1>12. e \in [DOMAIN d -> HeaderType]
  BY <1>10, <1>11
<1>13. \A s \in DOMAIN d : e[s].len = d[s].len
  BY <1>10 DEF Same
<1>14. Laid(e)
  BY <1>11, <1>13, LaidAlike
<1>15. Linked(e)
  <2> SUFFICES ASSUME NEW s \in DOMAIN d
               PROVE  /\ IF e[s].next = 0 THEN e[0].prev = s /\ \A t \in DOMAIN d : t <= s
                         ELSE /\ e[s].next = s + e[s].len /\ e[s].next \in DOMAIN d
                              /\ e[e[s].next].prev = s
                      /\ s # 0 => e[s].prev \in DOMAIN d /\ e[e[s].prev].next = s
    BY <1>11 DEF Linked
  <2>1. 0 \in DOMAIN d
    BY DEF Laid
  <2>2. ASSUME s = m
        PROVE  e[s].next = 0 /\ e[0].prev = s /\ \A t \in DOMAIN d : t <= s
    BY <1>1, <1>6, <1>9, <1>10, <2>1, <2>2
  <2>3. ASSUME s # m PROVE e[s].next = s + e[s].len /\ e[s].next \in DOMAIN d /\ e[s].next # 0
    BY <1>2, <1>3, <1>5, <1>10, <1>13, <2>3
  <2>4. ASSUME s # m PROVE e[e[s].next].prev = s
    <3> DEFINE n == e[s].next
               q == prev(n)
    <3>1. n = s + d[s].len /\ n \in DOMAIN d /\ n # 0
      BY <1>13, <2>3, <2>4
    <3>2. q \in DOMAIN d /\ q # m /\ q + d[q].len = n
      BY <1>7, <3>1
    <3>3. ~(q < s) /\ ~(s < q)
      BY <1>3, <3>1, <3>2, LaidBlock
    <3>4. q = s
      BY <1>3, <3>2, <3>3
    <3> QED  BY <1>10, <3>1, <3>4
  <2>5. ASSUME s # 0 PROVE e[s].prev \in DOMAIN d /\ e[e[s].prev].next = s
    BY <1>5, <1>7, <1>10, <2>5
  <2>6. IF e[s].next = 0 THEN e[0].prev = s /\ \A t \in DOMAIN d : t <= s
        ELSE e[s].next = s + e[s].len /\ e[s].next \in DOMAIN d /\ e[e[s].next].prev = s
    BY <2>2, <2>3, <2>4
  <2> QED  BY <2>5, <2>6
<1> QED  BY <1>10, <1>11, <1>12, <1>14, <1>15 DEF e

(* A chain on the disk. *)
Whole(d) == d \in [DOMAIN d -> HeaderType] /\ Laid(d) /\ Linked(d)

(* The header of an empty block. *)
LEMMA EmptyIs ==
  ASSUME NEW l \in Sizes
  PROVE  /\ Empty(l) \in HeaderType /\ Empty(l).len = l /\ Empty(l).kind = "free"
         /\ Empty(l).subs = <<>>
<1>1. "" \in AnyName /\ <<>> \in Seq(SubRef)
  BY DEF AnyName
<1> QED  BY <1>1 DEF Empty, Header, HeaderType

(* The front of a block is taken, and the rest of it split.                *)
LEMMA InsertedIs ==
  ASSUME NEW d, Whole(d), NEW s \in DOMAIN d, NEW h \in HeaderType, h.len <= d[s].len,
         NEW e, e = Inserted(d, s, h)
  PROVE  /\ Whole(e) /\ DOMAIN d \subseteq DOMAIN e /\ Same(e[s], h)
         /\ \A t \in DOMAIN d : t # s => Same(e[t], d[t])
         /\ \A t \in DOMAIN e : t \notin DOMAIN d => e[t].kind = "free" /\ e[t].subs = <<>>
<1> DEFINE L == d[s].len
           rest == {s + l : l \in {k \in Sizes : h.len <= k /\ k < L}}
           g == [t \in DOMAIN d \cup rest |->
                   IF t = s THEN h ELSE IF t \in rest THEN Empty(t - s) ELSE d[t]]
<1>1. Laid(d) /\ Linked(d) /\ \A t \in DOMAIN d : d[t] \in HeaderType
  BY DEF Whole
<1>2. /\ L \in Sizes /\ h.len \in Sizes /\ s \in Nat /\ s % L = 0 /\ s + L <= Total
      /\ s + L \in DOMAIN d \/ \A t \in DOMAIN d : t <= s
  BY <1>1, LaidBlock DEF Laid, HeaderType
<1>3. \A l \in Sizes : l \in Nat /\ l > 0
  BY SizesType
<1>4. \A t : t \in rest <=> \E l \in Sizes : h.len <= l /\ l < L /\ t = s + l
  OBVIOUS
<1>5. e = Chained(g) /\ h.len <= L
  BY DEF Inserted
<1> HIDE DEF rest, L
<1>6. \A t \in rest : /\ t \in Nat /\ s < t /\ t < s + L /\ t - s \in Sizes /\ t = s + (t - s)
                     /\ h.len <= t - s /\ t - s < L
  <2> SUFFICES ASSUME NEW t \in rest
               PROVE  /\ t \in Nat /\ s < t /\ t < s + L /\ t - s \in Sizes /\ t = s + (t - s)
                      /\ h.len <= t - s /\ t - s < L
    OBVIOUS
  <2>1. PICK l \in Sizes : h.len <= l /\ l < L /\ t = s + l
    BY <1>4
  <2>2. l \in Nat /\ l > 0 /\ L \in Nat /\ t - s = l
    BY <1>2, <1>3, <2>1
  <2> QED  BY <1>2, <2>1, <2>2
<1>7. \A t \in DOMAIN d : t \in Nat /\ (s < t => s + L <= t)
  BY <1>1, LaidBlock DEF L
<1>8. \A t \in rest : t \notin DOMAIN d /\ t # s
  BY <1>2, <1>3, <1>6, <1>7
<1>9. /\ DOMAIN g = DOMAIN d \cup rest /\ g[s] = h
      /\ \A t \in rest : g[t] = Empty(t - s)
      /\ \A t \in DOMAIN d : t # s => g[t] = d[t]
  BY <1>8
<1>10. g = [t \in DOMAIN g |-> g[t]]
  OBVIOUS
<1> HIDE DEF g
<1>11. \A t \in rest : g[t] \in HeaderType /\ g[t].len = t - s /\ g[t].kind = "free" /\ g[t].subs = <<>>
  BY <1>6, <1>9, EmptyIs
<1>12. \A t \in DOMAIN g : g[t] \in HeaderType
  BY <1>1, <1>9, <1>11
<1>13. g \in [DOMAIN g -> HeaderType]
  BY <1>10, <1>12
<1>14. \A t \in DOMAIN d : t # s => g[t].len = d[t].len
  BY <1>9
<1>15. DOMAIN g \subseteq 0 .. Total - 1 /\ 0 \in DOMAIN g
  <2>1. \A t \in rest : t \in 0 .. Total - 1
    BY <1>2, <1>3, <1>6, SizesType
  <2> QED  BY <1>1, <1>9, <2>1 DEF Laid
<1>16. ASSUME NEW t \in DOMAIN g
       PROVE  g[t].len \in Sizes /\ t + g[t].len <= Total /\ t % g[t].len = 0
  <2>1. CASE t = s
    <3>1. s + h.len <= Total
      <4>1. h.len \in Nat /\ L \in Nat /\ Total \in Nat /\ s \in Nat
        BY <1>2, <1>3, SizesType
      <4>2. h.len <= L /\ s + L <= Total
        BY <1>2, <1>5
      <4> QED  BY ONLY <4>1, <4>2
    <3>2. s % h.len = 0
      BY <1>2, AlignedDown DEF L
    <3> QED  BY <1>2, <1>9, <2>1, <3>1, <3>2
  <2>2. CASE t \in rest
    <3> DEFINE l == t - s
    <3>1. l \in Sizes /\ l < L /\ t = s + l /\ l \in Nat \ {0} /\ g[t].len = l
      BY <1>3, <1>6, <1>11, <2>2
    <3> HIDE DEF l
    <3>2. 2 * l <= L
      BY <1>2, <3>1, SizeDoubles
    <3>3. t + l <= Total
      BY <1>2, <1>3, <3>1, <3>2, SizesType
    <3>4. l <= L
      BY <1>2, <1>3, <3>1
    <3>5. s % l = 0
      BY <1>2, <3>1, <3>4, AlignedDown
    <3>6. l % l = 0
      BY <3>1, MultipleOfItself
    <3>7. t % l = 0
      BY <1>2, <3>1, <3>5, <3>6, MultiplesAdd
    <3> QED  BY <3>1, <3>3, <3>7
  <2>3. CASE t \in DOMAIN d /\ t # s
    BY <1>1, <1>9, <2>3 DEF Laid
  <2> QED  BY <1>9, <2>1, <2>2, <2>3
<1>17. ASSUME NEW t \in DOMAIN g
       PROVE  t + g[t].len \in DOMAIN g \/ \A u \in DOMAIN g : u <= t
  <2>1. CASE t = s
    <3>1. CASE h.len < L
      <4>1. s + h.len \in rest
        BY <1>2, <1>3, <1>4, <3>1
      <4> QED  BY <1>9, <2>1, <4>1
    <3>2. CASE h.len = L
      <4>1. rest = {}
        BY <1>2, <1>3, <1>6, <3>2
      <4> QED  BY <1>2, <1>9, <2>1, <3>2, <4>1
    <3>3. h.len < L \/ h.len = L
      BY <1>2, <1>3, <1>5
    <3> QED  BY <3>1, <3>2, <3>3
  <2>2. CASE t \in rest
    <3> DEFINE l == t - s
    <3>1. l \in Sizes /\ l < L /\ t = s + l /\ l \in Nat \ {0} /\ g[t].len = l /\ h.len <= l
      BY <1>3, <1>6, <1>11, <2>2
    <3> HIDE DEF l
    <3>2. 2 * l \in Sizes /\ 2 * l <= L /\ t + l = s + 2 * l /\ L \in Nat
      BY <1>2, <1>3, <3>1, SizeDoubles
    <3>3. CASE 2 * l < L
      <4>1. s + 2 * l \in rest
        <5>1. h.len <= 2 * l
          <6>1. h.len \in Nat
            BY <1>2, <1>3
          <6> QED  BY <3>1, <6>1
        <5> QED  BY <1>4, <3>2, <3>3, <5>1
      <4> QED  BY <1>9, <3>1, <3>2, <4>1
    <3>4. CASE 2 * l = L
      <4>1. ASSUME \A u \in DOMAIN d : u <= s, NEW u \in DOMAIN g PROVE u <= t
        <5>1. CASE u \in DOMAIN d
          BY <1>2, <1>7, <3>1, <4>1, <5>1
        <5>2. CASE u \in rest
          <6> DEFINE k == u - s
          <6>1. k \in Sizes /\ k < L /\ u = s + k /\ k \in Nat
            BY <1>3, <1>6, <5>2
          <6> HIDE DEF k
          <6>2. ~(l < k)
            <7> SUFFICES ASSUME l < k PROVE FALSE
              OBVIOUS
            <7>1. 2 * l <= k
              BY <3>1, <6>1, SizeDoubles
            <7> QED  BY <3>1, <3>2, <3>4, <6>1, <7>1
          <6> QED  BY <1>2, <3>1, <6>1, <6>2
        <5> QED  BY <1>9, <4>1, <5>1, <5>2
      <4> QED  BY <1>2, <1>9, <3>1, <3>2, <3>4, <4>1
    <3>5. 2 * l < L \/ 2 * l = L
      BY <3>1, <3>2
    <3> QED  BY <3>3, <3>4, <3>5
  <2>3. CASE t \in DOMAIN d /\ t # s
    <3>1. CASE t + d[t].len \in DOMAIN d
      BY <1>9, <2>3, <3>1
    <3>2. CASE \A u \in DOMAIN d : u <= t
      <4>1. s < t
        BY <1>2, <1>7, <2>3, <3>2
      <4>2. s + L <= t
        BY <1>7, <2>3, <4>1
      <4>3. \A u \in rest : u <= t
        BY <1>2, <1>3, <1>6, <1>7, <2>3, <4>2
      <4> QED  BY <1>9, <3>2, <4>3
    <3> QED  BY <1>1, <2>3, <3>1, <3>2 DEF Laid
  <2> QED  BY <1>9, <2>1, <2>2, <2>3
<1>18. ASSUME NEW t \in DOMAIN g, NEW u \in DOMAIN g, t < u
       PROVE  t + g[t].len <= u
  <2>1. CASE t \in DOMAIN d /\ t # s /\ u \in DOMAIN d
    BY <1>1, <1>14, <1>18, <2>1, LaidBlock
  <2>2. CASE t \in DOMAIN d /\ t # s /\ u \in rest
    <3>1. t < s
      BY <1>2, <1>3, <1>6, <1>7, <1>18, <2>2
    <3>2. t + d[t].len <= s
      BY <1>1, <2>2, <3>1, LaidBlock
    <3>3. t + d[t].len \in Nat /\ s < u /\ u \in Nat
      BY <1>1, <1>6, <2>2, LaidBlock
    <3> QED  BY <1>2, <1>14, <2>2, <3>2, <3>3
  <2>3. CASE t = s /\ u \in DOMAIN d
    <3>1. s + L <= u
      BY <1>7, <1>18, <2>3
    <3> QED  BY <1>2, <1>3, <1>7, <1>9, <2>3, <3>1 DEF L
  <2>4. CASE t = s /\ u \in rest
    BY <1>2, <1>3, <1>6, <1>9, <2>4
  <2>5. CASE t \in rest /\ u \in DOMAIN d
    <3>1. s < u /\ u \in Nat
      BY <1>2, <1>6, <1>7, <1>18, <2>5
    <3>2. s + L <= u
      BY <1>7, <2>5, <3>1
    <3> DEFINE l == t - s
    <3>3. l \in Sizes /\ l < L /\ t = s + l /\ l \in Nat \ {0} /\ g[t].len = l
      BY <1>3, <1>6, <1>11, <2>5
    <3> HIDE DEF l
    <3>4. 2 * l <= L
      BY <1>2, <3>3, SizeDoubles
    <3> QED  BY <1>2, <1>3, <3>1, <3>2, <3>3, <3>4
  <2>6. CASE t \in rest /\ u \in rest
    <3> DEFINE l == t - s
               k == u - s
    <3>1. l \in Sizes /\ t = s + l /\ l \in Nat \ {0} /\ g[t].len = l
      BY <1>3, <1>6, <1>11, <2>6
    <3>2. k \in Sizes /\ u = s + k /\ k \in Nat \ {0}
      BY <1>3, <1>6, <2>6
    <3> HIDE DEF l, k
    <3>3. l < k
      BY <1>2, <1>18, <3>1, <3>2
    <3>4. 2 * l <= k
      BY <3>1, <3>2, <3>3, SizeDoubles
    <3> QED  BY <1>2, <3>1, <3>2, <3>4
  <2> QED  BY <1>9, <2>1, <2>2, <2>3, <2>4, <2>5, <2>6
<1>19. Laid(g)
  BY <1>15, <1>16, <1>17, <1>18 DEF Laid
<1>20. /\ DOMAIN e = DOMAIN g /\ e \in [DOMAIN g -> HeaderType]
       /\ \A t \in DOMAIN g : Same(e[t], g[t])
       /\ Laid(e) /\ Linked(e)
  BY <1>5, <1>13, <1>19, ChainedIs
<1>21. Whole(e)
  BY <1>20 DEF Whole
<1>22. DOMAIN d \subseteq DOMAIN e /\ Same(e[s], h) /\ \A t \in DOMAIN d : t # s => Same(e[t], d[t])
  BY <1>9, <1>20
<1>23. \A t \in DOMAIN e : t \notin DOMAIN d => e[t].kind = "free" /\ e[t].subs = <<>>
  BY <1>9, <1>11, <1>20 DEF Same
<1> QED  BY <1>21, <1>22, <1>23

(* A block is given back, and what is empty at the end of the chain cut off. *)
LEMMA DeletedIs ==
  ASSUME NEW d, Whole(d), NEW s \in DOMAIN d, s # 0, d[0].kind # "free",
         NEW e, e = Deleted(d, s)
  PROVE  /\ Whole(e) /\ DOMAIN e \subseteq DOMAIN d
         /\ \A t \in DOMAIN e : t # s => Same(e[t], d[t])
         /\ s \in DOMAIN e => e[s].kind = "free" /\ e[s].subs = <<>>
         /\ \A t \in DOMAIN d : t # s /\ d[t].kind # "free" => t \in DOMAIN e
<1> DEFINE m == [d EXCEPT ![s] = Empty(d[s].len)]
           used == {t \in DOMAIN d : m[t].kind # "free"}
           last == Max(used)
           g == IF d[s].next = 0 THEN [t \in {u \in DOMAIN d : u <= last} |-> m[t]] ELSE m
<1>1. Laid(d) /\ Linked(d) /\ (\A t \in DOMAIN d : d[t] \in HeaderType) /\ d = [t \in DOMAIN d |-> d[t]]
  BY DEF Whole
<1>2. e = Chained(g)
  BY DEF Deleted
<1>3. d[s].len \in Sizes
  BY <1>1 DEF Laid
<1>4. /\ DOMAIN m = DOMAIN d /\ m = [t \in DOMAIN d |-> m[t]]
      /\ m[s] = Empty(d[s].len) /\ \A t \in DOMAIN d : t # s => m[t] = d[t]
  BY <1>1
<1> HIDE DEF m
<1>5. \A t \in DOMAIN d : m[t] \in HeaderType /\ m[t].len = d[t].len
  BY <1>1, <1>3, <1>4, EmptyIs
<1>6. Laid(m)
  BY <1>1, <1>4, <1>5, LaidAlike
<1>7. last \in DOMAIN d /\ \A t \in used : t <= last
  <2>1. 0 \in DOMAIN d /\ DOMAIN d \subseteq 0 .. Total - 1 /\ Total - 1 \in Nat
    BY <1>1, SizesType DEF Laid
  <2>2. 0 \in used
    BY <1>4, <2>1
  <2>3. used \in SUBSET (0 .. Total - 1) /\ used \subseteq DOMAIN d
    BY <2>1
  <2> HIDE DEF used
  <2> QED  BY <2>1, <2>2, <2>3, MaxOf
<1> HIDE DEF last
<1>8. \A t \in DOMAIN d : t \in Nat
  BY <1>1, LaidBlock
<1>9. /\ Laid(g) /\ g \in [DOMAIN g -> HeaderType] /\ DOMAIN g \subseteq DOMAIN d
      /\ (\A t \in DOMAIN g : g[t] = m[t]) /\ used \subseteq DOMAIN g
  <2>1. CASE d[s].next # 0
    <3>1. g = m
      BY <2>1
    <3> HIDE DEF g
    <3>2. m \in [DOMAIN d -> HeaderType]
      BY <1>4, <1>5
    <3> QED  BY <1>4, <1>6, <3>1, <3>2
  <2>2. CASE d[s].next = 0
    <3>1. g = [t \in {u \in DOMAIN d : u <= last} |-> m[t]]
      BY <2>2
    <3> HIDE DEF g
    <3>2. /\ \A t : t \in DOMAIN g <=> t \in DOMAIN d /\ t <= last
          /\ \A t \in DOMAIN g : g[t] = m[t]
          /\ g = [t \in DOMAIN g |-> g[t]]
      BY <3>1
    <3>3. \A t \in DOMAIN g : g[t] \in HeaderType /\ g[t].len = d[t].len
      BY <1>5, <3>2
    <3>4. g \in [DOMAIN g -> HeaderType]
      BY <3>2, <3>3
    <3>5. used \subseteq DOMAIN g
      BY <1>7, <3>2
    <3>6. DOMAIN g \subseteq 0 .. Total - 1 /\ 0 \in DOMAIN g
      <4>1. 0 <= last
        BY <1>7, <1>8
      <4> QED  BY <1>1, <3>2, <4>1 DEF Laid
    <3>7. ASSUME NEW t \in DOMAIN g
          PROVE  t + g[t].len \in DOMAIN g \/ \A u \in DOMAIN g : u <= t
      <4>1. CASE t = last
        BY <3>2, <4>1
      <4>2. CASE t # last
        <5>1. t < last /\ t \in DOMAIN d
          BY <1>7, <1>8, <3>2, <4>2
        <5>2. t + d[t].len <= last
          BY <1>1, <1>7, <5>1, LaidBlock
        <5>3. ~ \A u \in DOMAIN d : u <= t
          BY <1>7, <1>8, <5>1
        <5>4. t + d[t].len \in DOMAIN d
          BY <1>1, <5>1, <5>3 DEF Laid
        <5> QED  BY <3>2, <3>3, <5>2, <5>4
      <4> QED  BY <4>1, <4>2
    <3>8. \A t \in DOMAIN g :
            /\ g[t].len \in Sizes /\ t + g[t].len <= Total /\ t % g[t].len = 0
            /\ \A u \in DOMAIN g : t < u => t + g[t].len <= u
      BY <1>1, <3>2, <3>3 DEF Laid
    <3>9. Laid(g)
      BY <3>6, <3>7, <3>8 DEF Laid
    <3> QED  BY <3>2, <3>4, <3>5, <3>9
  <2> QED  BY <2>1, <2>2
<1> HIDE DEF g
<1>10. /\ DOMAIN e = DOMAIN g /\ e \in [DOMAIN g -> HeaderType]
       /\ \A t \in DOMAIN g : Same(e[t], g[t])
       /\ Laid(e) /\ Linked(e)
  BY <1>2, <1>9, ChainedIs
<1>11. Whole(e) /\ DOMAIN e \subseteq DOMAIN d
  BY <1>9, <1>10 DEF Whole
<1>12. \A t \in DOMAIN e : t # s => Same(e[t], d[t])
  BY <1>4, <1>9, <1>10
<1>13. s \in DOMAIN e => e[s].kind = "free" /\ e[s].subs = <<>>
  <2>1. m[s].kind = "free" /\ m[s].subs = <<>>
    BY <1>3, <1>4, EmptyIs
  <2>2. s \in DOMAIN e => Same(e[s], m[s])
    BY <1>9, <1>10
  <2> QED  BY <2>1, <2>2 DEF Same
<1>14. \A t \in DOMAIN d : t # s /\ d[t].kind # "free" => t \in DOMAIN e
  BY <1>4, <1>9, <1>10
<1> QED  BY <1>11, <1>12, <1>13, <1>14

(* A block is put behind the last one. *)
LEMMA AppendedIs ==
  ASSUME NEW d, Whole(d), NEW h \in HeaderType, h.next = 0,
         PartEnd(d) + h.len <= Total, PartEnd(d) % h.len = 0,
         NEW e, e = Appended(d, h)
  PROVE  /\ Whole(e) /\ DOMAIN e = DOMAIN d \cup {PartEnd(d)} /\ PartEnd(d) \notin DOMAIN d
         /\ PartEnd(d) \in Nat \ {0}
         /\ Same(e[PartEnd(d)], h) /\ \A t \in DOMAIN d : Same(e[t], d[t])
         /\ PartEnd(e) = PartEnd(d) + h.len
<1> DEFINE last == LastBlock(d)
           end == PartEnd(d)
<1>1. Laid(d) /\ Linked(d) /\ (\A t \in DOMAIN d : d[t] \in HeaderType)
  BY DEF Whole
<1>2. /\ last \in DOMAIN d /\ d[last].next = 0
      /\ \A t \in DOMAIN d : t <= last
      /\ \A s \in DOMAIN d : d[s].next = 0 => s = last
      /\ d[0].prev = last
      /\ end \in Nat /\ end > last
      /\ end \notin DOMAIN d /\ end <= Total
  BY <1>1, LastOf
<1>3. end = last + d[last].len
  BY DEF PartEnd
<1>4. e = [t \in DOMAIN d \cup {end} |->
             IF t = end THEN [h EXCEPT !.prev = last]
             ELSE [d[t] EXCEPT !.next = IF t = last THEN end ELSE @,
                               !.prev = IF t = 0 THEN end ELSE @]]
  BY DEF Appended
<1> HIDE DEF last, end
<1>5. /\ \A t \in DOMAIN d : t \in Nat /\ d[t].len \in Nat \ {0} /\ t < Total
      /\ h.len \in Sizes /\ h.len \in Nat \ {0} /\ 0 \in DOMAIN d
      /\ end + h.len <= Total /\ end % h.len = 0 /\ end # 0
  <2>1. \A t \in DOMAIN d : t \in Nat /\ d[t].len \in Nat \ {0} /\ t < Total
    BY <1>1, LaidBlock
  <2>2. h.len \in Sizes /\ h.len \in Nat \ {0} /\ 0 \in DOMAIN d
    BY <1>1, SizesType DEF HeaderType, Laid
  <2>3. end + h.len <= Total /\ end % h.len = 0
    BY DEF end
  <2> QED  BY <1>2, <2>1, <2>2, <2>3
<1>6. e[end] \in HeaderType /\ Same(e[end], h) /\ e[end].next = 0 /\ e[end].prev = last
  <2>1. e[end] = [h EXCEPT !.prev = last] /\ last \in Nat
    BY <1>2, <1>4, <1>5
  <2>2. h \in HeaderType /\ h.next = 0
    OBVIOUS
  <2> QED  BY ONLY <2>1, <2>2 DEF HeaderType, Same
<1>7. ASSUME NEW t \in DOMAIN d
      PROVE  /\ e[t] \in HeaderType /\ Same(e[t], d[t])
             /\ e[t].next = IF t = last THEN end ELSE d[t].next
             /\ e[t].prev = IF t = 0 THEN end ELSE d[t].prev
  <2> DEFINE n == IF t = last THEN end ELSE d[t].next
             p == IF t = 0 THEN end ELSE d[t].prev
             hd == d[t]
             g == e[t]
  <2>1. hd \in HeaderType /\ g = [hd EXCEPT !.next = n, !.prev = p]
    BY <1>1, <1>2, <1>4
  <2>2. n \in Nat /\ p \in Nat
    BY <1>1, <1>2 DEF HeaderType
  <2> HIDE DEF n, p, hd, g
  <2>3. g \in HeaderType /\ Same(g, hd) /\ g.next = n /\ g.prev = p
    BY ONLY <2>1, <2>2 DEF HeaderType, Same
  <2> QED  BY <2>3 DEF n, p, hd, g
<1>8. DOMAIN e = DOMAIN d \cup {end} /\ e = [t \in DOMAIN e |-> e[t]]
  BY <1>4
<1>9. e \in [DOMAIN e -> HeaderType]
  BY <1>6, <1>7, <1>8
<1>10. (\A t \in DOMAIN d : e[t].len = d[t].len) /\ e[end].len = h.len
  BY <1>6, <1>7 DEF Same
<1>11. Laid(e)
  <2>1. DOMAIN e \subseteq 0 .. Total - 1 /\ 0 \in DOMAIN e
    BY <1>2, <1>5, <1>8, SizesType
  <2>2. ASSUME NEW t \in DOMAIN e
        PROVE  /\ e[t].len \in Sizes /\ t + e[t].len <= Total /\ t % e[t].len = 0
               /\ t + e[t].len \in DOMAIN e \/ \A u \in DOMAIN e : u <= t
               /\ \A u \in DOMAIN e : t < u => t + e[t].len <= u
    <3>1. CASE t = end
      <4>1. \A u \in DOMAIN e : u <= t /\ u \in Nat
        BY <1>2, <1>5, <1>8, <3>1
      <4> QED  BY <1>2, <1>5, <1>10, <3>1, <4>1
    <3>2. CASE t \in DOMAIN d
      <4>1. e[t].len \in Sizes /\ t + e[t].len <= Total /\ t % e[t].len = 0
        BY <1>1, <1>10, <3>2 DEF Laid
      <4>2. t + e[t].len \in DOMAIN e
        <5>1. CASE t = last
          BY <1>3, <1>8, <1>10, <3>2, <5>1
        <5>2. CASE t # last
          <6>1. ~ \A u \in DOMAIN d : u <= t
            BY <1>2, <1>5, <3>2, <5>2
          <6> QED  BY <1>1, <1>8, <1>10, <3>2, <6>1 DEF Laid
        <5> QED  BY <5>1, <5>2
      <4>3. ASSUME NEW u \in DOMAIN e, t < u PROVE t + e[t].len <= u
        <5>1. CASE u \in DOMAIN d
          BY <1>1, <1>10, <3>2, <4>3, <5>1, LaidBlock
        <5>2. CASE u = end
          <6>1. CASE t = last
            BY <1>2, <1>3, <1>10, <5>2, <6>1
          <6>2. CASE t # last
            <7>1. t < last
              BY <1>2, <1>5, <3>2, <6>2
            <7>2. t + d[t].len <= last
              BY <1>1, <1>2, <3>2, <7>1, LaidBlock
            <7> QED  BY <1>2, <1>5, <1>10, <3>2, <5>2, <7>2
          <6> QED  BY <6>1, <6>2
        <5> QED  BY <1>8, <5>1, <5>2
      <4> QED  BY <4>1, <4>2, <4>3
    <3> QED  BY <1>8, <3>1, <3>2
  <2> QED  BY <2>1, <2>2 DEF Laid
<1>12. Linked(e)
  <2> SUFFICES ASSUME NEW t \in DOMAIN e
               PROVE  /\ IF e[t].next = 0 THEN e[0].prev = t /\ \A u \in DOMAIN e : u <= t
                         ELSE /\ e[t].next = t + e[t].len /\ e[t].next \in DOMAIN e
                              /\ e[e[t].next].prev = t
                      /\ t # 0 => e[t].prev \in DOMAIN e /\ e[e[t].prev].next = t
    BY DEF Linked
  <2>1. e[0].prev = end
    BY <1>5, <1>7
  <2>2. CASE t = end
    <3>1. \A u \in DOMAIN e : u <= t
      BY <1>2, <1>5, <1>8, <2>2
    <3>2. e[last].next = end
      BY <1>2, <1>7
    <3> QED  BY <1>2, <1>6, <1>8, <2>1, <2>2, <3>1, <3>2
  <2>3. CASE t = last
    <3>1. e[t].next = end /\ end = t + e[t].len /\ e[end].prev = t
      BY <1>2, <1>3, <1>6, <1>7, <1>10, <2>3
    <3>2. t # 0 => d[t].prev \in DOMAIN d /\ d[d[t].prev].next = t
      BY <1>1, <1>2, <2>3 DEF Linked
    <3>3. t # 0 => e[t].prev = d[t].prev /\ d[t].prev # last
      BY <1>2, <1>7, <2>3, <3>2
    <3>4. t # 0 => e[e[t].prev].next = t
      BY <1>7, <3>2, <3>3
    <3> QED  BY <1>5, <1>8, <3>1, <3>2, <3>3, <3>4
  <2>4. CASE t \in DOMAIN d /\ t # last
    <3>1. d[t].next # 0
      BY <1>2, <2>4
    <3>2. d[t].next = t + d[t].len /\ d[t].next \in DOMAIN d /\ d[d[t].next].prev = t
      BY <1>1, <2>4, <3>1 DEF Linked
    <3>3. e[t].next = d[t].next /\ e[d[t].next].prev = t
      BY <1>7, <2>4, <3>1, <3>2
    <3>4. t # 0 => d[t].prev \in DOMAIN d /\ d[d[t].prev].next = t
      BY <1>1, <2>4 DEF Linked
    <3>5. t # 0 => e[t].prev = d[t].prev /\ d[t].prev # last
      BY <1>2, <1>7, <2>4, <3>4
    <3>6. t # 0 => e[e[t].prev].next = t
      BY <1>7, <3>4, <3>5
    <3> QED  BY <1>8, <1>10, <2>4, <3>1, <3>2, <3>3, <3>4, <3>5, <3>6
  <2> QED  BY <1>8, <2>2, <2>3, <2>4
<1>13. Whole(e)
  BY <1>9, <1>11, <1>12 DEF Whole
<1>14. PartEnd(e) = end + h.len
  <2>1. LastBlock(e) \in DOMAIN e /\ \A t \in DOMAIN e : t <= LastBlock(e)
    BY <1>11, <1>12, LastOf
  <2>2. LastBlock(e) = end
    BY <1>2, <1>5, <1>8, <2>1
  <2> QED  BY <1>10, <2>2 DEF PartEnd
<1> QED  BY <1>2, <1>5, <1>6, <1>7, <1>8, <1>13, <1>14 DEF end

-----------------------------------------------------------------------------
(* Room on the disk. *)

(* The filler fits between the end of the chain and the place that is      *)
(* aligned.                                                                *)
LEMMA PaddingIs ==
  ASSUME NEW size \in Sizes, NEW end \in Nat, NEW f \in Sizes, f < size, end % f = 0,
         end % size # 0
  PROVE  /\ f <= size - (end % size)
         /\ (end + f) % size = 0 => f = size - (end % size)
         /\ (end + f) % size # 0 => (end + f) % size = (end % size) + f
<1> DEFINE r == end % size
<1>1. size \in Nat \ {0} /\ f \in Nat \ {0}
  BY SizesType
<1>2. PICK q \in Nat : end = size * q + r /\ r \in 0 .. size - 1
  BY <1>1, ModOf
<1>3. PICK b \in Nat : end = f * b
  BY <1>1, Multiple
<1>4. size % f = 0
  BY <1>1, SizeDivides
<1>5. PICK a \in Nat : size = f * a
  BY <1>1, <1>4, Multiple
<1> HIDE DEF r
<1>6. r \in Nat /\ r # 0 /\ r < size
  BY <1>1, <1>2 DEF r
<1>7. size * q + size = f * (a * q + a) /\ a * q + a \in Nat
  BY <1>1, <1>5, SMT
<1> DEFINE c == a * q + a
           top == size * q + size
<1>8. top = f * c /\ c \in Nat
  BY <1>7
<1>9. top = end + (size - r) /\ top \in Nat
  BY <1>1, <1>2, <1>6, <1>8
<1> HIDE DEF c, top
<1>10. b < c
  <2>1. f * b < f * c
    BY <1>1, <1>3, <1>6, <1>8, <1>9
  <2>2. ~(c < b)
    <3> SUFFICES ASSUME c < b PROVE FALSE
      OBVIOUS
    <3>1. f * c + f <= f * b /\ f * c \in Nat /\ f * b \in Nat
      BY <1>1, <1>8, Gap
    <3> QED  BY <1>1, <2>1, <3>1
  <2>3. b # c
    BY <1>1, <1>3, <1>8, <2>1
  <2> QED  BY <1>8, <2>2, <2>3
<1>11. f * b + f <= f * c
  BY <1>1, <1>8, <1>10, Gap
<1>12. f <= size - r
  BY <1>1, <1>3, <1>6, <1>8, <1>9, <1>11
<1>13. CASE f = size - r
  <2>1. 0 \in 0 .. size - 1 /\ q + 1 \in Nat
    BY <1>1
  <2> DEFINE n == size * (q + 1)
  <2>2. n = size * q + size /\ size * q \in Nat
    BY <1>1, SMT
  <2>3. (n + 0) % size = 0
    BY <1>1, <2>1, ModIs
  <2>4. n \in Nat /\ n + 0 = n /\ end + f = n
    <3> DEFINE k == size * q
    <3>1. n = k + size /\ k \in Nat /\ end = k + r
      BY <1>2, <2>2
    <3> HIDE DEF n, k
    <3> QED  BY <1>1, <1>6, <1>13, <3>1
  <2>5. (end + f) % size = 0
    BY <2>3, <2>4
  <2> QED  BY <1>12, <1>13, <2>5 DEF r
<1>14. CASE f # size - r
  <2>1. r + f \in 0 .. size - 1 /\ r + f # 0
    BY <1>1, <1>6, <1>12, <1>14
  <2>2. end + f = size * q + (r + f)
    <3> DEFINE k == size * q
    <3>1. k \in Nat /\ end = k + r
      BY <1>1, <1>2, SMT
    <3> HIDE DEF k
    <3>2. end + f = k + (r + f)
      BY <1>1, <1>6, <3>1
    <3> QED  BY <3>2 DEF k
  <2> DEFINE m == r + f
             n == end + f
  <2>3. n % size = m
    <3>1. m \in 0 .. size - 1 /\ n = size * q + m
      BY <2>1, <2>2
    <3> HIDE DEF m, n
    <3> QED  BY <1>1, <3>1, ModIs
  <2> QED  BY <1>12, <1>14, <2>1, <2>3 DEF r
<1> QED  BY <1>13, <1>14

(* Room for a length behind the last block of a chain. *)
PadOf(d, size) == IF PartEnd(d) % size = 0 THEN 0 ELSE size - (PartEnd(d) % size)
Fits(d, size)  == PartEnd(d) + size + PadOf(d, size) <= Total

(* The filler is a size below the one it makes place for, and is aligned   *)
(* itself.                                                                 *)
LEMMA FillerIs ==
  ASSUME NEW d, Whole(d), NEW size \in Sizes, PartEnd(d) % size # 0
  PROVE  /\ Filler(d, size) \in Sizes /\ Filler(d, size) < size
         /\ PartEnd(d) % Filler(d, size) = 0
<1> DEFINE end == PartEnd(d)
           S == {f \in Sizes : f < size /\ end % f = 0}
<1>1. /\ end \in Nat /\ size \in Nat \ {0} /\ 1 \in Sizes
      /\ \A f \in Sizes : f \in Nat
  BY LastOf, SizesType DEF Whole
<1> HIDE DEF end
<1>2. \A a \in Nat : a % 1 = 0
  <2> SUFFICES ASSUME NEW a \in Nat PROVE a % 1 = 0
    OBVIOUS
  <2>1. a = 1 * a
    OBVIOUS
  <2> QED  BY <2>1, Multiple
<1>3. size # 1
  BY <1>1, <1>2 DEF end
<1>4. 1 \in S
  BY <1>1, <1>2, <1>3
<1>5. S \in SUBSET (0 .. size)
  <2> SUFFICES ASSUME NEW f \in S PROVE f \in 0 .. size
    OBVIOUS
  <2>1. f \in Nat /\ f < size /\ size \in Nat
    BY <1>1
  <2> QED  BY ONLY <2>1
<1> HIDE DEF S
<1>6. Max(S) \in S
  BY <1>1, <1>4, <1>5, MaxOf
<1>7. Filler(d, size) = Max(S)
  BY DEF Filler, S, end
<1> QED  BY <1>6, <1>7 DEF S, end

(* After a filler there still is room for what it was written for. *)
LEMMA FillerFits ==
  ASSUME NEW d, Whole(d), NEW size \in Sizes, PartEnd(d) % size # 0, Fits(d, size)
  PROVE  /\ PartEnd(d) + Filler(d, size) <= Total
         /\ \A e : PartEnd(e) = PartEnd(d) + Filler(d, size) => Fits(e, size)
<1> DEFINE end == PartEnd(d)
           f == Filler(d, size)
           r == end % size
<1>1. end \in Nat /\ size \in Nat \ {0} /\ size \in Nat /\ Total \in Nat
  BY LastOf, SizesType DEF Whole
<1>2. f \in Sizes /\ f < size /\ end % f = 0
  BY FillerIs
<1>3. f \in Nat
  BY <1>2, SizesType
<1>4. r \in 0 .. size - 1
  BY <1>1, ModOf
<1>5. end + size + (size - r) <= Total
  BY DEF Fits, PadOf
<1> HIDE DEF f, end
<1>6. end % size # 0
  BY DEF end
<1>7. /\ f <= size - r
      /\ (end + f) % size = 0 => f = size - r
      /\ (end + f) % size # 0 => (end + f) % size = r + f
  BY <1>1, <1>2, <1>6, PaddingIs
<1> HIDE DEF r
<1>8. end + f <= Total
  BY <1>1, <1>3, <1>4, <1>5, <1>7
<1>9. ASSUME NEW e, PartEnd(e) = end + f PROVE Fits(e, size)
  <2> DEFINE n == end + f
  <2>1. PartEnd(e) = n /\ n \in Nat
    BY <1>1, <1>3, <1>9
  <2> HIDE DEF n
  <2>2. CASE n % size = 0
    <3>1. f = size - r
      BY <1>7, <2>2 DEF n
    <3>2. n + size <= Total
      BY <1>1, <1>3, <1>4, <1>5, <3>1 DEF n
    <3>3. PadOf(e, size) = 0
      BY <2>1, <2>2 DEF PadOf
    <3> QED  BY <1>1, <2>1, <3>2, <3>3 DEF Fits
  <2>3. CASE n % size # 0
    <3>1. PadOf(e, size) = size - (r + f)
      BY <1>7, <2>1, <2>3 DEF PadOf, n
    <3>2. n + size + (size - (r + f)) <= Total
      BY <1>1, <1>3, <1>4, <1>5 DEF n
    <3> QED  BY <2>1, <3>1, <3>2 DEF Fits
  <2> QED  BY <2>2, <2>3
<1> QED  BY <1>8, <1>9 DEF end, f

(* A header that is put on the disk whole. *)
New(h) ==
  /\ h \in HeaderType /\ h.next = 0 /\ h.kind \in {"main", "sub"} /\ h.subs = <<>>

(* What a step of hddAddPartitionHere leaves: the blocks in use are where  *)
(* they were, and the new one, when it is there, has taken nobody's place. *)
Added(d, e, h, at) ==
  /\ Whole(e) /\ DOMAIN d \subseteq DOMAIN e
  /\ \A t \in DOMAIN d : t # at => Same(e[t], d[t])
  /\ \A t \in DOMAIN e : t \notin DOMAIN d /\ t # at => e[t].kind = "free" /\ e[t].subs = <<>>
  /\ IF at = 0 THEN Fits(e, h.len) /\ Same(e[0], d[0])
     ELSE at \in DOMAIN e /\ Same(e[at], h) /\ (at \in DOMAIN d => d[at].kind = "free")

(* hddAddPartitionHere, up to its next flush: a hole is split, the chain   *)
(* is made longer by the partition, or by a filler and there still is      *)
(* room.                                                                   *)
LEMMA AddToIs ==
  ASSUME DiskInv, ready, NEW h, New(h), Room(h.len), NEW e, NEW at, AddTo(h, e, at)
  PROVE  Added(disk, e, h, at)
<1>1. Whole(disk) /\ h \in HeaderType /\ h.next = 0
  BY DEF DiskInv, Whole, New
<1>2. h.len \in Sizes /\ h.len \in Nat \ {0}
  BY <1>1, SizesType DEF HeaderType
<1>3. CASE Holes(h.len) # {}
  <2>1. at \in Holes(h.len) /\ e = Inserted(disk, at, h)
    BY <1>3 DEF AddTo
  <2>2. at \in DOMAIN disk /\ disk[at].kind = "free" /\ h.len <= disk[at].len
    <3>1. at \in DOMAIN disk /\ disk[at].kind = "free" /\ disk[at].len >= h.len
      BY <2>1 DEF Holes
    <3>2. disk[at].len \in Nat
      BY <1>1, <3>1, LaidBlock DEF Whole
    <3> QED  BY <1>2, <3>1, <3>2
  <2>3. at # 0
    BY <2>2 DEF DiskInv
  <2>4. /\ Whole(e) /\ DOMAIN disk \subseteq DOMAIN e /\ Same(e[at], h)
        /\ \A t \in DOMAIN disk : t # at => Same(e[t], disk[t])
        /\ \A t \in DOMAIN e : t \notin DOMAIN disk => e[t].kind = "free" /\ e[t].subs = <<>>
    BY <1>1, <2>1, <2>2, InsertedIs
  <2> QED  BY <2>2, <2>3, <2>4 DEF Added
<1>4. CASE Holes(h.len) = {}
  <2>1. Fits(disk, h.len)
    BY <1>4 DEF Room, Fits, Padding, PadOf
  <2>2. PartEnd(disk) \in Nat /\ 0 \in DOMAIN disk
    BY <1>1, LastOf DEF Whole, Laid
  <2>3. CASE PartEnd(disk) % h.len = 0
    <3>1. at = PartEnd(disk) /\ e = Appended(disk, h)
      BY <1>4, <2>3 DEF AddTo
    <3>2. PartEnd(disk) + h.len <= Total
      BY <1>2, <2>1, <2>2, <2>3 DEF Fits, PadOf
    <3>3. /\ Whole(e) /\ DOMAIN e = DOMAIN disk \cup {at} /\ at \notin DOMAIN disk
          /\ at \in Nat \ {0}
          /\ Same(e[at], h) /\ \A t \in DOMAIN disk : Same(e[t], disk[t])
      BY <1>1, <2>3, <3>1, <3>2, AppendedIs
    <3> QED  BY <3>3 DEF Added
  <2>4. CASE PartEnd(disk) % h.len # 0
    <3> DEFINE f == Filler(disk, h.len)
               g == Empty(f)
    <3>1. at = 0 /\ e = Appended(disk, g)
      BY <1>4, <2>4 DEF AddTo
    <3>2. f \in Sizes /\ PartEnd(disk) % f = 0
      BY <1>1, <1>2, <2>4, FillerIs
    <3>3. g \in HeaderType /\ g.len = f /\ g.kind = "free" /\ g.subs = <<>> /\ g.next = 0
      BY <3>2, EmptyIs DEF Empty, Header
    <3>4. /\ PartEnd(disk) + f <= Total
          /\ \A x : PartEnd(x) = PartEnd(disk) + f => Fits(x, h.len)
      BY <1>1, <1>2, <2>1, <2>4, FillerFits
    <3> HIDE DEF f, g
    <3>5. PartEnd(disk) + g.len <= Total /\ PartEnd(disk) % g.len = 0
      BY <3>2, <3>3, <3>4
    <3>6. /\ Whole(e) /\ DOMAIN e = DOMAIN disk \cup {PartEnd(disk)}
          /\ Same(e[PartEnd(disk)], g) /\ \A t \in DOMAIN disk : Same(e[t], disk[t])
          /\ PartEnd(e) = PartEnd(disk) + g.len
      BY <1>1, <3>1, <3>3, <3>5, AppendedIs
    <3>7. Fits(e, h.len)
      BY <3>3, <3>4, <3>6
    <3>8. \A t \in DOMAIN e : t \notin DOMAIN disk => e[t].kind = "free" /\ e[t].subs = <<>>
      BY <3>3, <3>6 DEF Same
    <3> QED  BY <2>2, <3>1, <3>6, <3>7, <3>8 DEF Added
  <2> QED  BY <2>3, <2>4
<1> QED  BY <1>3, <1>4

-----------------------------------------------------------------------------
(* What the steps leave alone. *)

(* A formatted disk has a chain, and its first header is the only one of   *)
(* kind mbr.                                                               *)
LEMMA ReadyDisk ==
  ASSUME DiskInv, ready
  PROVE  /\ Whole(disk) /\ Laid(disk) /\ Linked(disk)
         /\ 0 \in DOMAIN disk /\ disk[0].kind = "mbr"
         /\ \A s \in DOMAIN disk : /\ s \in Nat /\ s < Total /\ disk[s] \in HeaderType
                                   /\ s # 0 => disk[s].kind # "mbr"
<1>1. Whole(disk) /\ Laid(disk) /\ Linked(disk) /\ 0 \in DOMAIN disk
  BY DEF DiskInv, Whole, Laid
<1>2. \A s \in DOMAIN disk : s \in Nat /\ s < Total
  BY <1>1, LaidBlock
<1> QED  BY <1>1, <1>2 DEF DiskInv

(* A disk that is whole again, its partitions in use typed. *)
LEMMA WholeDisk ==
  ASSUME ready', Whole(disk'),
         \A s \in DOMAIN disk' :
           Len(disk'[s].subs) <= MaxSub /\ (disk'[s].kind = "mbr" <=> s = 0)
  PROVE  DiskInv'
BY DEF DiskInv, Whole, Laid, Linked

(* Who leaves the disk alone leaves what is sound on it. *)
LEMMA DiskKept ==
  ASSUME DiskInv, ListedSubsExist, NamesUnique, UNCHANGED <<disk, ready>>
  PROVE  DiskInv' /\ ListedSubsExist' /\ NamesUnique'
<1>1. DiskInv'
  BY DEF DiskInv, Laid, Linked
<1>2. ListedSubsExist'
  BY DEF ListedSubsExist, Mains
<1>3. NamesUnique'
  BY DEF NamesUnique, Mains
<1> QED  BY <1>1, <1>2, <1>3

(* The same of the slots. *)
LEMMA SlotsKept == ASSUME SlotInv, UNCHANGED <<slots, ready>> PROVE SlotInv' /\ Files' = Files
<1>1. Files' = Files
  BY DEF Files
<1>2. SlotInv'
  BY <1>1 DEF SlotInv, Cleared
<1> QED  BY <1>1, <1>2

(* A walk is not disturbed by partitions that are made. *)
LEMMA WalkKept == ASSUME Walk, UNCHANGED slots, Mains \subseteq Mains' PROVE Walk'
BY DEF Walk

(* The partitions of open slots keep what the slots know of them. *)
LEMMA AgreeKept ==
  ASSUME Agree, UNCHANGED <<slots, swapped>>,
         \A i \in Files : LET s == slots[i].start IN
           s \in Mains => /\ s \in Mains' /\ disk'[s].id = disk[s].id
                          /\ disk'[s].len = disk[s].len /\ disk'[s].subs = disk[s].subs
  PROVE  Agree'
<1> SUFFICES ASSUME ~swapped, NEW i \in Files
             PROVE  /\ slots[i].start \in Mains' /\ disk'[slots[i].start].id = slots[i].id
                    /\ slots[i].len = disk'[slots[i].start].len
                    /\ slots[i].subs = disk'[slots[i].start].subs
  BY DEF Agree, Find, Files
<1> DEFINE s == slots[i].start
<1>1. s \in Mains /\ disk[s].id = slots[i].id /\ slots[i].len = disk[s].len
      /\ slots[i].subs = disk[s].subs
  BY DEF Agree, Find
<1> QED  BY <1>1

(* Between two calls nothing is promised. *)
LEMMA NoneIs == ASSUME op' = None, inside' = {} PROVE OpInv'
<1>1. op'.do = "none"
  BY DEF None
<1> QED  BY <1>1 DEF OpInv

(* Who leaves the semaphore alone leaves what is known of it. *)
LEMMA SemaKept == ASSUME SemaInv, UNCHANGED locks PROVE SemaInv'
BY DEF SemaInv, locks

(* A call leaves with the semaphore signalled. *)
LEMMA LeaveIs ==
  ASSUME SemaInv, Leave
  PROVE  SemaInv' /\ OpInv'
<1>1. SemaInv'
  BY DEF SemaInv, Leave
<1>2. OpInv'
  BY NoneIs DEF Leave
<1> QED  BY <1>1, <1>2

(* A call of several flushes keeps the semaphore. *)
LEMMA StayIs ==
  ASSUME SemaInv, NEW t \in Threads, inside = {}, Stay(t)
  PROVE  SemaInv' /\ inside' # {}
BY DEF SemaInv, Stay

(* The partition of an open slot is that slot's only. *)
LEMMA OneSlot ==
  ASSUME SlotInv, Agree, ~swapped, NEW i \in Files, NEW j \in Files,
         slots[i].start = slots[j].start
  PROVE  i = j
<1>1. slots[i].start \in Find(slots[i].id) /\ slots[j].start \in Find(slots[j].id)
  BY DEF Agree
<1>2. slots[i].id = slots[j].id
  BY <1>1 DEF Find
<1> QED  BY <1>2 DEF SlotInv

(* The partition of an open slot is a main partition on the disk.          *)
LEMMA FileIs ==
  ASSUME DriverInv, ready, ~swapped, NEW i \in Files
  PROVE  LET s == slots[i].start IN
         /\ i \in DOMAIN slots /\ slots[i] \in SlotType
         /\ s \in Mains /\ s \in DOMAIN disk /\ s \in Nat /\ s # 0 /\ disk[s].kind = "main"
         /\ disk[s].id = slots[i].id /\ disk[s].subs = slots[i].subs
<1> DEFINE s == slots[i].start
<1>1. i \in DOMAIN slots /\ slots[i] \in SlotType
  BY DEF DriverInv, SlotInv, Files
<1>2. s \in Find(slots[i].id) /\ disk[s].subs = slots[i].subs
  BY DEF DriverInv, Agree
<1>3. s \in Mains /\ s \in DOMAIN disk /\ disk[s].kind = "main" /\ disk[s].id = slots[i].id
  BY <1>2 DEF Find, Mains
<1>4. s \in Nat /\ s # 0
  BY <1>3, ReadyDisk DEF DriverInv
<1> QED  BY <1>1, <1>2, <1>3, <1>4

(* A step of hddAddPartitionHere, for everyone else. *)
LEMMA Grows ==
  ASSUME DiskInv, ListedSubsExist, ready, ready', NEW h, New(h), NEW at, Added(disk, disk', h, at)
  PROVE  /\ DiskInv' /\ ListedSubsExist'
         /\ Mains \subseteq Mains' /\ \A s \in Mains : Same(disk'[s], disk[s])
         /\ \A s \in Mains' : s \in Mains \/ (at # 0 /\ s = at /\ h.kind = "main")
         /\ at # 0 => /\ at \in DOMAIN disk' /\ Same(disk'[at], h) /\ at \notin Mains
                      /\ Unlisted(at)'
<1> DEFINE e == disk'
<1>1. Whole(e) /\ DOMAIN disk \subseteq DOMAIN e
  BY DEF Added
<1>2. ASSUME NEW s \in DOMAIN disk, disk[s].kind # "free" PROVE s \in DOMAIN e /\ Same(e[s], disk[s])
  <2>1. CASE s = at
    BY <1>2, <2>1 DEF Added
  <2>2. CASE s # at
    BY <1>1, <2>2 DEF Added
  <2> QED  BY <2>1, <2>2
<1>3. at # 0 => /\ at \in DOMAIN e /\ Same(e[at], h)
                /\ (at \in DOMAIN disk => disk[at].kind = "free")
  BY DEF Added
<1>4. ASSUME NEW s \in DOMAIN e
      PROVE  \/ s \in DOMAIN disk /\ Same(e[s], disk[s])
             \/ at # 0 /\ s = at
             \/ s \notin DOMAIN disk /\ e[s].kind = "free" /\ e[s].subs = <<>>
  <2>1. CASE s = at /\ at = 0
    BY <2>1, ReadyDisk DEF Added
  <2>2. CASE s # at
    BY <2>2 DEF Added
  <2> QED  BY <2>1, <2>2
<1> HIDE DEF e
<1>5. h.kind \in {"main", "sub"} /\ h.subs = <<>>
  BY DEF New
<1>6. ASSUME NEW s \in DOMAIN e
      PROVE  Len(e[s].subs) <= MaxSub /\ (e[s].kind = "mbr" <=> s = 0)
  <2>1. CASE s \in DOMAIN disk /\ Same(e[s], disk[s])
    BY <2>1 DEF DiskInv, Same
  <2>2. CASE at # 0 /\ s = at
    BY <1>3, <1>5, <2>2, SizesType DEF Same
  <2>3. CASE s \notin DOMAIN disk /\ e[s].kind = "free" /\ e[s].subs = <<>>
    <3>1. s # 0
      BY <2>3, ReadyDisk
    <3> QED  BY <2>3, <3>1, SizesType
  <2> QED  BY <1>4, <2>1, <2>2, <2>3
<1>7. DiskInv'
  BY <1>1, <1>6, WholeDisk DEF e
<1>8. Mains \subseteq Mains' /\ \A s \in Mains : Same(e[s], disk[s])
  <2>1. ASSUME NEW s \in Mains PROVE s \in Mains' /\ Same(e[s], disk[s])
    <3>1. s \in DOMAIN disk /\ disk[s].kind = "main"
      BY DEF Mains
    <3>2. s \in DOMAIN e /\ Same(e[s], disk[s])
      BY <1>2, <3>1
    <3> QED  BY <3>1, <3>2 DEF Mains, Same, e
  <2> QED  BY <2>1
<1>9. ASSUME NEW s \in Mains' PROVE s \in Mains \/ (at # 0 /\ s = at /\ h.kind = "main")
  <2>1. s \in DOMAIN e /\ e[s].kind = "main"
    BY DEF Mains, e
  <2> QED  BY <1>3, <1>4, <2>1 DEF Mains, Same
<1>10. at # 0 => at \notin Mains
  BY <1>3 DEF Mains
<1>11. ASSUME NEW s \in Mains', NEW k \in DOMAIN e[s].subs
       PROVE  /\ s \in Mains /\ e[s].subs = disk[s].subs
              /\ LET sub == e[s].subs[k] IN
                 /\ sub.start \in DOMAIN disk /\ disk[sub.start].kind = "sub"
                 /\ Same(e[sub.start], disk[sub.start]) /\ sub.start \in DOMAIN e
                 /\ disk[sub.start].main = s /\ disk[sub.start].len = sub.len
                 /\ \A j \in DOMAIN e[s].subs : e[s].subs[j] = sub => j = k
  <2>1. s \in Mains
    <3> SUFFICES ASSUME at # 0, s = at PROVE FALSE
      BY <1>9
    <3>1. e[s].subs = <<>>
      BY <1>3, <1>5 DEF Same
    <3> QED  BY <3>1
  <2>2. e[s].subs = disk[s].subs
    BY <1>8, <2>1 DEF Same
  <2> DEFINE sub == e[s].subs[k]
  <2>3. /\ sub.start \in DOMAIN disk /\ disk[sub.start].kind = "sub"
        /\ disk[sub.start].main = s /\ disk[sub.start].len = sub.len
        /\ \A j \in DOMAIN e[s].subs : e[s].subs[j] = sub => j = k
    BY <2>1, <2>2 DEF ListedSubsExist
  <2> DEFINE x == sub.start
  <2>4. x \in DOMAIN disk /\ disk[x].kind # "free"
    BY <2>3
  <2> HIDE DEF x
  <2>5. x \in DOMAIN e /\ Same(e[x], disk[x])
    BY ONLY <1>2, <2>4
  <2> QED  BY <2>1, <2>2, <2>3, <2>5 DEF x
<1>12. ListedSubsExist'
  <2> SUFFICES ASSUME NEW s \in Mains', NEW k \in DOMAIN e[s].subs
               PROVE  LET sub == e[s].subs[k] IN
                      /\ sub.start \in DOMAIN e /\ e[sub.start].kind = "sub"
                      /\ e[sub.start].main = s /\ e[sub.start].len = sub.len
                      /\ \A j \in DOMAIN e[s].subs : e[s].subs[j] = sub => j = k
    BY DEF ListedSubsExist, e
  <2> DEFINE sub == e[s].subs[k]
             x == sub.start
  <2>1. /\ disk[x].kind = "sub" /\ Same(e[x], disk[x]) /\ x \in DOMAIN e
        /\ disk[x].main = s /\ disk[x].len = sub.len
        /\ \A j \in DOMAIN e[s].subs : e[s].subs[j] = sub => j = k
    BY <1>11
  <2> HIDE DEF sub, x
  <2>2. e[x].kind = "sub" /\ e[x].main = s /\ e[x].len = sub.len
    BY <2>1 DEF Same
  <2>3. /\ x \in DOMAIN e /\ e[x].kind = "sub" /\ e[x].main = s /\ e[x].len = sub.len
        /\ \A j \in DOMAIN e[s].subs : e[s].subs[j] = sub => j = k
    BY <2>1, <2>2
  <2> QED  BY SMTT(20), <2>3 DEF sub, x
<1>13. at # 0 => Unlisted(at)'
  <2> SUFFICES ASSUME at # 0, NEW s \in Mains', NEW k \in DOMAIN e[s].subs, e[s].subs[k].start = at
               PROVE  FALSE
    BY DEF Unlisted, e
  <2> QED  BY <1>3, <1>11
<1> QED  BY <1>3, <1>7, <1>8, <1>9, <1>10, <1>12, <1>13 DEF e

(* After a filler there still is room. *)
LEMMA StillRoom ==
  ASSUME NEW h, Room(h.len), Added(disk, disk', h, 0)
  PROVE  Room(h.len)'
BY DEF Room, Added, Fits, PadOf, Padding

(* The headers of new partitions are put on the disk whole. *)
LEMMA HeadersNew ==
  ASSUME NEW size \in Sizes
  PROVE  /\ \A id \in AnyName : /\ New(Main(id, size)) /\ Main(id, size).len = size
                                /\ Main(id, size).kind = "main" /\ Main(id, size).id = id
                                /\ Main(id, size).subs = <<>>
         /\ \A m \in Nat : /\ New(Sub(m, size)) /\ Sub(m, size).len = size
                           /\ Sub(m, size).kind = "sub" /\ Sub(m, size).main = m
<1>1. "" \in AnyName /\ <<>> \in Seq(SubRef) /\ 0 \in Nat
  BY DEF AnyName
<1>2. ASSUME NEW id \in AnyName
      PROVE  /\ New(Main(id, size)) /\ Main(id, size).len = size
             /\ Main(id, size).kind = "main" /\ Main(id, size).id = id
             /\ Main(id, size).subs = <<>>
  <2> DEFINE l == id \in Locked
  <2>1. Main(id, size) = [Header("main", size) EXCEPT !.id = id, !.locked = l] /\ l \in BOOLEAN
    BY DEF Main
  <2> HIDE DEF l
  <2> QED  BY <1>1, <2>1 DEF Header, New, HeaderType
<1>3. ASSUME NEW m \in Nat
      PROVE  /\ New(Sub(m, size)) /\ Sub(m, size).len = size
             /\ Sub(m, size).kind = "sub" /\ Sub(m, size).main = m
  BY <1>1 DEF Sub, Header, New, HeaderType
<1> QED  BY <1>2, <1>3

-----------------------------------------------------------------------------
(* The steps. *)

(* A cleared slot is a slot. *)
LEMMA ClearedIs == Cleared \in SlotType
<1>1. /\ "" \in AnyName /\ 0 \in -1 .. Total /\ <<>> \in Seq(SubRef)
      /\ FALSE \in BOOLEAN /\ {} \in SUBSET Nat
  BY SizesType DEF AnyName
<1> QED  BY <1>1 DEF Cleared, SlotType

(* The slots as the driver starts with them. *)
LEMMA AllCleared ==
  ASSUME slots' = [i \in 1 .. MaxOpen |-> Cleared]
  PROVE  SlotInv' /\ Walk' /\ Agree' /\ Files' = {}
<1>1. \A i \in DOMAIN slots' : slots'[i] = Cleared
  OBVIOUS
<1>2. ~Cleared.used /\ ~Cleared.dir /\ Cleared.start = 0
  BY DEF Cleared
<1>3. Files' = {}
  BY <1>1, <1>2 DEF Files
<1>4. slots' \in [1 .. MaxOpen -> SlotType]
  BY ClearedIs
<1>5. SlotInv'
  BY <1>1, <1>2, <1>3, <1>4 DEF SlotInv
<1>6. Walk'
  BY <1>1, <1>2 DEF Walk
<1>7. Agree'
  BY <1>3 DEF Agree
<1> QED  BY <1>3, <1>5, <1>6, <1>7

(* A disk that is not formatted yet, and no call. *)
LEMMA ApaInitHolds == ASSUME ApaInit PROVE DriverInv
<1>1. disk = <<>> /\ DOMAIN disk = {} /\ ready = FALSE /\ swapped = FALSE
  BY DEF ApaInit
<1>2. disk = [s \in {} |-> disk[s]] /\ Mains = {}
  BY <1>1 DEF Mains
<1>3. DiskInv
  BY <1>1, <1>2 DEF DiskInv
<1>4. ListedSubsExist /\ NamesUnique
  BY <1>2 DEF ListedSubsExist, NamesUnique
<1>5. \A i \in DOMAIN slots : slots[i] = Cleared
  BY DEF ApaInit
<1>6. ~Cleared.used /\ ~Cleared.dir /\ Cleared.start = 0
  BY DEF Cleared
<1>7. Files = {}
  BY <1>5, <1>6 DEF Files
<1>8. SlotInv
  BY <1>5, <1>6, <1>7, ClearedIs DEF SlotInv, ApaInit
<1>9. Walk /\ Agree
  BY <1>5, <1>6, <1>7 DEF Walk, Agree
<1>10. OpInv
  <2>1. op = None /\ inside = {} /\ op.do = "none"
    BY DEF ApaInit, None
  <2> QED  BY <2>1 DEF OpInv
<1>11. SemaInv
  BY DEF ApaInit, SemaInv
<1> QED  BY <1>1, <1>3, <1>4, <1>8, <1>9, <1>10, <1>11 DEF DriverInv

(* A crash between any two flushes finds a disk that is sound. *)
LEMMA CrashKeeps == ASSUME DriverInv, Crash PROVE DriverInv'
<1>1. DiskInv' /\ ListedSubsExist' /\ NamesUnique'
  BY DiskKept DEF DriverInv, Crash
<1>2. SlotInv' /\ Walk' /\ Agree'
  BY AllCleared DEF Crash
<1>3. OpInv'
  BY NoneIs DEF Crash
<1>4. SemaInv'
  BY DEF Crash, SemaInv
<1>5. ready' \in BOOLEAN /\ swapped' = FALSE
  BY DEF Crash, DriverInv
<1> QED  BY <1>1, <1>2, <1>3, <1>4, <1>5 DEF DriverInv

(* Steps that leave the disk and the slots as they are. *)
LEMMA SameDisk ==
  ASSUME DriverInv, UNCHANGED <<disk, ready, slots, swapped>>, OpInv', SemaInv'
  PROVE  DriverInv'
<1>1. DiskInv' /\ ListedSubsExist' /\ NamesUnique'
  BY DiskKept DEF DriverInv
<1>2. SlotInv' /\ Walk'
  BY SlotsKept, WalkKept DEF DriverInv, Mains
<1>3. Agree'
  BY AgreeKept DEF DriverInv, Mains
<1> QED  BY <1>1, <1>2, <1>3 DEF DriverInv

(* So does a call that gives up: what is not deleted yet is listed by      *)
(* nobody.                                                                 *)
LEMMA CallFailsKeeps == ASSUME DriverInv, CallFails PROVE DriverInv'
<1>1. OpInv' /\ SemaInv'
  BY LeaveIs DEF DriverInv, CallFails
<1> QED  BY <1>1, SameDisk DEF CallFails

(* The operation is of the same state. *)
LEMMA OpKept ==
  ASSUME OpInv, UNCHANGED <<disk, ready, slots, op, swapped>>, inside' # {} <=> inside # {}
  PROVE  OpInv'
<1>1. /\ Mains' = Mains /\ Files' = Files /\ \A id : Find(id)' = Find(id) /\ IsOpen(id)' = IsOpen(id)
      /\ \A size : Room(size)' = Room(size)
      /\ \A at : Unlisted(at)' = Unlisted(at)
      /\ \A subs : Deletable(subs)' = Deletable(subs)
  BY DEF Mains, Files, Find, IsOpen, Room, Holes, Padding, PartEnd, LastBlock, Unlisted, Deletable
<1> QED  BY <1>1 DEF OpInv

(* A second thread gets inside only after a rename has failed. *)
LEMMA SecondEntersKeeps ==
  ASSUME DriverInv, NEW t \in Threads, SecondEnters(t) PROVE DriverInv'
<1>1. OpInv'
  BY OpKept DEF SecondEnters, DriverInv
<1>2. SemaInv'
  BY DEF SecondEnters, DriverInv, SemaInv
<1> QED  BY <1>1, <1>2, SameDisk DEF SecondEnters

(* The first signal of a failed rename. *)
LEMMA RenameFailsKeeps ==
  ASSUME DriverInv, NEW t \in Threads, RenameFails(t) PROVE DriverInv'
<1>1. OpInv'
  BY OpKept DEF RenameFails, DriverInv
<1>2. SemaInv'
  BY DEF RenameFails, DriverInv, SemaInv
<1> QED  BY <1>1, <1>2, SameDisk DEF RenameFails

(* The second one. *)
LEMMA RenameReturnsKeeps ==
  ASSUME DriverInv, NEW t \in Threads, RenameReturns(t) PROVE DriverInv'
<1>1. OpInv'
  BY OpKept DEF RenameReturns, DriverInv
<1>2. SemaInv'
  BY DEF RenameReturns, DriverInv, SemaInv
<1> QED  BY <1>1, <1>2, SameDisk DEF RenameReturns

(* A slot is filled or cleared, and the partitions stay. *)
LEMMA SlotPut ==
  ASSUME DriverInv, ready', UNCHANGED swapped, NEW i \in DOMAIN slots, NEW g \in SlotType, ~g.dir,
         slots' = [slots EXCEPT ![i] = g],
         ~g.used /\ g.id = "" => g.start = 0,
         g.used => \A j \in Files : j # i => slots[j].id # g.id,
         Mains \subseteq Mains', \A s \in Mains : Same(disk'[s], disk[s]),
         g.used /\ ~swapped => /\ g.start \in Mains' /\ disk'[g.start].id = g.id
                               /\ g.len = disk'[g.start].len /\ g.subs = disk'[g.start].subs
  PROVE  SlotInv' /\ Walk' /\ Agree'
<1>1. /\ slots \in [1 .. MaxOpen -> SlotType]
      /\ \A j \in DOMAIN slots :
           ~slots[j].used => ~slots[j].dir /\ (slots[j].id = "" => slots[j].start = 0)
      /\ \A j, k \in Files : slots[j].id = slots[k].id => j = k
  BY DEF DriverInv, SlotInv
<1>2. /\ slots' \in [1 .. MaxOpen -> SlotType] /\ DOMAIN slots' = DOMAIN slots
      /\ slots'[i] = g /\ \A j \in DOMAIN slots : j # i => slots'[j] = slots[j]
  BY <1>1
<1>3. \A j : j \in Files' <=> IF j = i THEN g.used ELSE j \in Files
  BY <1>2 DEF Files
<1>4. \A j \in Files' : j \in DOMAIN slots
  BY <1>2 DEF Files
<1>5. SlotInv'
  <2>1. \A j \in DOMAIN slots' :
           ~slots'[j].used => ~slots'[j].dir /\ (slots'[j].id = "" => slots'[j].start = 0)
    BY <1>1, <1>2
  <2>2. \A j, k \in Files' : slots'[j].id = slots'[k].id => j = k
    <3> SUFFICES ASSUME NEW j \in Files', NEW k \in Files', slots'[j].id = slots'[k].id PROVE j = k
      OBVIOUS
    <3>1. CASE j # i /\ k # i
      <4>1. j \in Files /\ k \in Files /\ slots'[j] = slots[j] /\ slots'[k] = slots[k]
        BY <1>2, <1>3, <1>4, <3>1
      <4> QED  BY <1>1, <4>1
    <3>2. ASSUME NEW l \in Files', l # i PROVE ~(g.used /\ slots'[l].id = g.id)
      <4>1. l \in Files /\ slots'[l] = slots[l]
        BY <1>2, <1>3, <1>4, <3>2
      <4> QED  BY <3>2, <4>1
    <3>3. i \in Files' => slots'[i].used /\ slots'[i] = g
      BY <1>2 DEF Files
    <3> QED  BY <3>1, <3>2, <3>3
  <2> QED  BY <1>2, <2>1, <2>2 DEF SlotInv
<1>6. Walk'
  <2> SUFFICES ASSUME NEW j \in DOMAIN slots', slots'[j].dir
               PROVE  /\ slots'[j].unseen \subseteq Mains'
                      /\ slots'[j].id = "" =>
                           IF slots'[j].start = End THEN slots'[j].unseen = {}
                           ELSE \A u \in slots'[j].unseen : slots'[j].start <= u
    BY DEF Walk
  <2>1. j # i /\ j \in DOMAIN slots /\ slots'[j] = slots[j]
    BY <1>2
  <2>2. /\ slots[j].unseen \subseteq Mains
        /\ slots[j].id = "" =>
             IF slots[j].start = End THEN slots[j].unseen = {}
             ELSE \A u \in slots[j].unseen : slots[j].start <= u
    BY <2>1 DEF DriverInv, Walk
  <2> QED  BY <2>1, <2>2
<1>7. Agree'
  <2> SUFFICES ASSUME ~swapped, NEW j \in Files'
               PROVE  /\ slots'[j].start \in Mains' /\ disk'[slots'[j].start].id = slots'[j].id
                      /\ slots'[j].len = disk'[slots'[j].start].len
                      /\ slots'[j].subs = disk'[slots'[j].start].subs
    BY DEF Agree, Find
  <2>1. CASE j = i
    BY <1>2, <1>3, <2>1
  <2>2. CASE j # i
    <3>1. j \in Files /\ slots'[j] = slots[j]
      BY <1>2, <1>3, <1>4, <2>2
    <3> DEFINE s == slots[j].start
    <3>2. s \in Mains /\ disk[s].id = slots[j].id /\ slots[j].len = disk[s].len
          /\ slots[j].subs = disk[s].subs
      BY <3>1 DEF DriverInv, Agree, Find
    <3>3. s \in Mains' /\ Same(disk'[s], disk[s])
      BY <3>2
    <3> QED  BY <3>1, <3>2, <3>3 DEF Same
  <2> QED  BY <2>1, <2>2
<1> QED  BY <1>5, <1>6, <1>7

(* A slot that is filled from a main partition agrees with it. *)
LEMMA FilledIs ==
  ASSUME NEW d, Whole(d), NEW s \in DOMAIN d
  PROVE  LET g == Filled(s, d) IN
         /\ g \in SlotType /\ g.used /\ ~g.dir /\ g.start = s
         /\ g.id = d[s].id /\ g.len = d[s].len /\ g.subs = d[s].subs
<1>1. s \in Nat /\ s < Total
  BY LaidBlock DEF Whole
<1>2. s \in -1 .. Total
  BY <1>1, SizesType
<1>3. d[s].id \in AnyName /\ d[s].len \in Sizes /\ d[s].subs \in Seq(SubRef)
  BY DEF Whole, HeaderType
<1> QED  BY <1>2, <1>3, ClearedIs DEF Filled, Cleared, SlotType

(* hddOpen of a partition that exists: the name was not open. *)
LEMMA OpenKeeps == ASSUME DriverInv, Open PROVE DriverInv'
<1>1. ready /\ ~swapped /\ op = None /\ inside = {}
  BY DEF Open, Alone
<1>2. DiskInv' /\ ListedSubsExist' /\ NamesUnique'
  BY DiskKept DEF DriverInv, Open
<1>3. PICK id \in Names, i \in DOMAIN slots, right \in BOOLEAN :
        /\ GetFileSlot(id, i)
        /\ \E s \in Find(id) :
             /\ right \/ (disk[s].locked /\ slots[i] = Cleared /\ FreeSlots = DOMAIN slots)
             /\ slots' = [slots EXCEPT ![i] = IF right THEN Filled(s, disk)
                                              ELSE [Cleared EXCEPT !.id = id, !.start = s]]
  BY Zenon DEF Open
<1>4. PICK s \in Find(id) :
        slots' = [slots EXCEPT ![i] = IF right THEN Filled(s, disk)
                                      ELSE [Cleared EXCEPT !.id = id, !.start = s]]
  BY <1>3
<1>5. s \in Mains /\ s \in DOMAIN disk /\ disk[s].id = id
  BY DEF Find, Mains
<1>6. Mains' = Mains /\ \A t \in Mains : Same(disk'[t], disk[t])
  BY DEF Open, Mains, Same
<1>7. UNCHANGED <<disk, ready, op, locks, swapped>>
  BY DEF Open
<1>8. SlotInv' /\ Walk' /\ Agree'
  <2>1. CASE right
    <3> DEFINE g == Filled(s, disk)
    <3>1. /\ g \in SlotType /\ g.used /\ ~g.dir /\ g.start = s
          /\ g.id = disk[s].id /\ g.len = disk[s].len /\ g.subs = disk[s].subs
      BY <1>1, <1>5, ReadyDisk, FilledIs DEF DriverInv
    <3>2. slots' = [slots EXCEPT ![i] = g]
      BY <1>4, <2>1
    <3> HIDE DEF g
    <3>3. \A j \in Files : slots[j].id # id
      BY <1>3 DEF GetFileSlot, IsOpen, Files
    <3> QED  BY <1>1, <1>5, <1>6, <1>7, <3>1, <3>2, <3>3, SlotPut
  <2>2. CASE ~right
    <3> DEFINE g == [Cleared EXCEPT !.id = id, !.start = s]
    <3>1. slots' = [slots EXCEPT ![i] = g]
      BY <1>4, <2>2
    <3>2. s \in -1 .. Total /\ id \in AnyName /\ id # ""
      <4>1. s \in Nat /\ s < Total
        BY <1>1, <1>5, ReadyDisk DEF DriverInv
      <4>2. s \in -1 .. Total
        BY <4>1, SizesType
      <4>3. id \in AnyName /\ id # ""
        BY NamesAre
      <4> QED  BY <4>2, <4>3
    <3>3. g \in SlotType /\ ~g.used /\ ~g.dir /\ g.id # ""
      BY <3>2, ClearedIs DEF Cleared, SlotType
    <3> HIDE DEF g
    <3> QED  BY <1>1, <1>6, <1>7, <3>1, <3>3, SlotPut
  <2> QED  BY <2>1, <2>2
<1>9. OpInv' /\ SemaInv'
  BY <1>1, <1>7, NoneIs, SemaKept DEF locks, DriverInv
<1> QED  BY <1>2, <1>7, <1>8, <1>9 DEF DriverInv

(* hddClose: one slot less has to agree. *)
LEMMA CloseKeeps == ASSUME DriverInv, Close PROVE DriverInv'
<1>1. ready /\ op = None /\ inside = {} /\ UNCHANGED <<disk, ready, op, locks, swapped>>
  BY DEF Close, Alone
<1>2. DiskInv' /\ ListedSubsExist' /\ NamesUnique'
  BY <1>1, DiskKept DEF DriverInv
<1>3. PICK i \in DOMAIN slots : slots' = [slots EXCEPT ![i] = Cleared]
  BY DEF Close
<1>4. Cleared \in SlotType /\ ~Cleared.used /\ ~Cleared.dir /\ Cleared.start = 0
  BY ClearedIs DEF Cleared
<1>5. Mains' = Mains /\ \A t \in Mains : Same(disk'[t], disk[t])
  BY <1>1 DEF Mains, Same
<1>6. SlotInv' /\ Walk' /\ Agree'
  BY <1>1, <1>3, <1>4, <1>5, SlotPut
<1>7. OpInv' /\ SemaInv'
  BY <1>1, NoneIs, SemaKept DEF locks, DriverInv
<1> QED  BY <1>1, <1>2, <1>6, <1>7 DEF DriverInv

(* The first header of a disk is a chain of one. *)
LEMMA FormatMbrKeeps == ASSUME DriverInv, FormatMbr PROVE DriverInv'
<1> DEFINE h == Header("mbr", 1)
<1>1. ~ready /\ ready' /\ disk' = [s \in {0} |-> h] /\ UNCHANGED <<slots, locks, swapped>>
  BY DEF FormatMbr
<1>2. /\ h \in HeaderType /\ h.kind = "mbr" /\ h.len = 1 /\ h.subs = <<>>
      /\ h.next = 0 /\ h.prev = 0
  BY SizesType DEF Header, HeaderType, AnyName
<1> HIDE DEF h
<1>3. DOMAIN disk' = {0} /\ disk'[0] = h /\ disk' \in [{0} -> HeaderType]
  BY <1>1, <1>2
<1>4. 0 \in 0 .. Total - 1 /\ 0 + 1 <= Total /\ 0 % 1 = 0 /\ 1 \in Sizes
  <2>1. 0 % 1 = 0
    BY MultipleOfItself
  <2> QED  BY <2>1, SizesType
<1>5. Laid(disk')
  BY <1>2, <1>3, <1>4 DEF Laid
<1>6. Linked(disk')
  BY <1>2, <1>3 DEF Linked
<1>7. DiskInv'
  BY <1>1, <1>2, <1>3, <1>5, <1>6, WholeDisk, SizesType DEF Whole
<1>8. Mains' = {}
  BY <1>2, <1>3 DEF Mains
<1>9. ListedSubsExist' /\ NamesUnique'
  BY <1>8 DEF ListedSubsExist, NamesUnique
<1>10. \A i \in DOMAIN slots : slots'[i] = Cleared
  BY <1>1 DEF DriverInv, SlotInv
<1>11. ~Cleared.used /\ ~Cleared.dir /\ Cleared.start = 0
  BY DEF Cleared
<1>12. Files' = {}
  BY <1>1, <1>10, <1>11 DEF Files
<1>13. SlotInv'
  BY <1>1, <1>10, <1>11, <1>12 DEF DriverInv, SlotInv
<1>14. Walk' /\ Agree'
  BY <1>1, <1>10, <1>11, <1>12 DEF Walk, Agree
<1>15. OpInv'
  <2>1. op = None /\ op.do = "none" /\ op' = [do |-> "format", i |-> 1, size |-> 1]
    BY DEF FormatMbr, None
  <2>2. inside' = {} /\ ~swapped'
    <3>1. inside = {}
      BY <2>1 DEF DriverInv, OpInv
    <3>2. ~swapped
      BY <1>1, <2>1 DEF DriverInv
    <3> QED  BY <1>1, <3>1, <3>2 DEF locks
  <2>3. 1 \in 1 .. Len(SystemParts) /\ 1 \in Sizes /\ 1 <= MaxSize
    <3>1. SystemParts # <<>> /\ SystemParts \in Seq(STRING)
      BY ApaAssumption DEF ApaAssumption
    <3> QED  BY <3>1, SizesType
  <2> QED  BY <1>1, <1>8, <2>1, <2>2, <2>3 DEF OpInv, None
<1>16. SemaInv' /\ ready' \in BOOLEAN /\ swapped' \in BOOLEAN /\ ready'
  BY <1>1, SemaKept DEF DriverInv, FormatMbr, locks
<1> QED  BY <1>7, <1>9, <1>13, <1>14, <1>15, <1>16 DEF DriverInv

(* Partitions are added and the slots stay as they are. *)
LEMMA GrowsOnly ==
  ASSUME DriverInv, ready, UNCHANGED <<ready, slots, swapped>>,
         DiskInv', Mains \subseteq Mains', \A s \in Mains : Same(disk'[s], disk[s])
  PROVE  SlotInv' /\ Files' = Files /\ Walk' /\ Agree'
<1>1. SlotInv' /\ Files' = Files /\ Walk'
  BY SlotsKept, WalkKept DEF DriverInv
<1>2. Agree'
  BY AgreeKept DEF DriverInv, Same
<1> QED  BY <1>1, <1>2

(* The list of system partitions is not empty. *)
LEMMA PartsType ==
  /\ Len(SystemParts) \in Nat \ {0} /\ DOMAIN SystemParts = 1 .. Len(SystemParts)
<1>1. SystemParts \in Seq(STRING) /\ SystemParts # <<>>
  BY ApaAssumption DEF ApaAssumption
<1> QED  BY <1>1

(* The next system partition's size is a size again. *)
LEMMA NextSizeIs ==
  ASSUME NEW size \in Sizes, size <= MaxSize
  PROVE  NextSize(size) \in Sizes /\ NextSize(size) <= MaxSize
<1>1. size \in Nat /\ MaxSize \in Nat /\ MaxSize \in Sizes
  BY SizesType
<1>2. CASE size = MaxSize
  BY <1>1, <1>2, SizesType DEF NextSize
<1>3. CASE size < MaxSize
  <2>1. 2 * size \in Sizes /\ 2 * size <= MaxSize
    BY <1>1, <1>3, SizeDoubles
  <2> QED  BY <1>1, <2>1 DEF NextSize
<1> QED  BY <1>1, <1>2, <1>3

(* The system partitions are made, each under a name of its own.           *)
LEMMA FormatPartKeeps == ASSUME DriverInv, FormatPart PROVE DriverInv'
<1>1. /\ op.do = "format" /\ UNCHANGED <<ready, slots, locks, swapped>>
  BY DEF FormatPart
<1>2. /\ ready /\ ~swapped /\ op # None
      /\ op \in [do : {"format"}, i : 1 .. Len(SystemParts), size : Sizes]
      /\ op.i \in 1 .. Len(SystemParts) /\ op.size \in Sizes /\ op.size <= MaxSize
      /\ \A s \in Mains : \E j \in 1 .. op.i - 1 : disk[s].id = SystemParts[j]
  BY <1>1 DEF DriverInv, OpInv
<1>3. inside = {} /\ inside' = {}
  BY <1>1 DEF DriverInv, OpInv, locks
<1>4. SemaInv'
  BY <1>1, SemaKept DEF DriverInv
<1>5. PICK at \in 0 .. Total :
        IF ~Room(op.size)
        THEN at = 0 /\ op' = None /\ UNCHANGED disk
        ELSE /\ AddTo(Main(SystemParts[op.i], op.size), disk', at)
             /\ op' = IF at = 0 THEN op
                      ELSE IF op.i = Len(SystemParts) THEN None
                      ELSE [op EXCEPT !.i = @ + 1, !.size = NextSize(@)]
  BY DEF FormatPart
<1>6. CASE ~Room(op.size)
  <2>1. op' = None /\ UNCHANGED disk
    BY <1>5, <1>6
  <2>2. OpInv'
    BY <1>3, <2>1, NoneIs
  <2> QED  BY <1>1, <1>4, <2>1, <2>2, SameDisk
<1>7. CASE Room(op.size)
  <2> DEFINE name == SystemParts[op.i]
             h == Main(name, op.size)
  <2>1. AddTo(h, disk', at)
    BY <1>5, <1>7
  <2>2. name \in AnyName
    <3>1. op.i \in DOMAIN SystemParts
      BY <1>2, PartsType
    <3> QED  BY <3>1 DEF AnyName, Range
  <2>3. New(h) /\ h.len = op.size /\ h.kind = "main" /\ h.id = name /\ h.subs = <<>>
    BY <1>2, <2>2, HeadersNew
  <2> HIDE DEF h
  <2>4. Added(disk, disk', h, at)
    BY <1>2, <1>7, <2>1, <2>3, AddToIs DEF DriverInv
  <2>5. /\ DiskInv' /\ ListedSubsExist'
        /\ Mains \subseteq Mains' /\ \A s \in Mains : Same(disk'[s], disk[s])
        /\ \A s \in Mains' : s \in Mains \/ (at # 0 /\ s = at /\ h.kind = "main")
        /\ at # 0 => at \in DOMAIN disk' /\ Same(disk'[at], h) /\ at \notin Mains
    BY <1>1, <1>2, <2>3, <2>4, Grows DEF DriverInv
  <2>6. SlotInv' /\ Walk' /\ Agree'
    BY <1>1, <1>2, <2>5, GrowsOnly
  <2>7. \A s \in Mains' : disk'[s].id = IF s \in Mains THEN disk[s].id ELSE name
    BY <2>3, <2>5 DEF Same
  <2>8. \A i, j \in 1 .. Len(SystemParts) : SystemParts[i] = SystemParts[j] => i = j
    BY PartsType, ApaAssumption DEF ApaAssumption
  <2>9. \A s \in Mains : disk[s].id # name
    <3> SUFFICES ASSUME NEW s \in Mains, disk[s].id = name PROVE FALSE
      OBVIOUS
    <3>1. PICK j \in 1 .. op.i - 1 : disk[s].id = SystemParts[j]
      BY <1>2
    <3>2. j \in 1 .. Len(SystemParts) /\ j # op.i
      BY <1>2
    <3> QED  BY <1>2, <2>8, <3>1, <3>2
  <2>10. NamesUnique'
    <3> SUFFICES ASSUME NEW s \in Mains', NEW t \in Mains', disk'[s].id = disk'[t].id PROVE s = t
      BY DEF NamesUnique
    <3>1. CASE s \in Mains /\ t \in Mains
      <4>1. disk[s].id = disk[t].id
        BY <2>7, <3>1
      <4> QED  BY <3>1, <4>1 DEF DriverInv, NamesUnique
    <3>2. CASE s \notin Mains /\ t \notin Mains
      BY <2>5, <3>2
    <3> HIDE DEF name
    <3>3. ~(s \in Mains /\ t \notin Mains) /\ ~(t \in Mains /\ s \notin Mains)
      BY <2>7, <2>9
    <3> QED  BY <3>1, <3>2, <3>3
  <2>11. OpInv'
    <3>1. CASE at = 0
      <4>1. op' = op /\ Mains' = Mains
        BY <1>5, <1>7, <2>5, <3>1
      <4>2. \A s \in Mains' : disk'[s].id = disk[s].id
        BY <2>7, <4>1
      <4>3. op'.do = "format"
        BY <1>1, <4>1
      <4> QED  BY <1>1, <1>2, <1>3, <4>1, <4>2, <4>3 DEF OpInv
    <3>2. CASE at # 0 /\ op.i = Len(SystemParts)
      <4>1. op' = None
        BY <1>5, <1>7, <3>2
      <4> QED  BY <1>3, <4>1, NoneIs
    <3>3. CASE at # 0 /\ op.i # Len(SystemParts)
      <4>1. op' = [op EXCEPT !.i = @ + 1, !.size = NextSize(@)]
        BY <1>5, <1>7, <3>3
      <4> DEFINE m == NextSize(op.size)
                 n == op.i + 1
      <4>2. m \in Sizes /\ m <= MaxSize /\ n \in 1 .. Len(SystemParts)
        BY <1>2, <3>3, NextSizeIs, PartsType
      <4>3. op' = [op EXCEPT !.i = n, !.size = m]
        BY <4>1
      <4> HIDE DEF m, n
      <4>4. /\ op' \in [do : {"format"}, i : 1 .. Len(SystemParts), size : Sizes]
            /\ op'.do = "format" /\ op'.i = n /\ op'.size = m
        BY <1>2, <4>2, <4>3
      <4>5. ASSUME NEW s \in Mains' PROVE \E j \in 1 .. n - 1 : disk'[s].id = SystemParts[j]
        <5>1. CASE s \in Mains
          <6>1. PICK j \in 1 .. op.i - 1 : disk[s].id = SystemParts[j]
            BY <1>2, <5>1
          <6>2. j \in 1 .. n - 1
            BY <1>2 DEF n
          <6> QED  BY <2>7, <5>1, <6>1, <6>2
        <5>2. CASE s \notin Mains
          <6>1. op.i \in 1 .. n - 1
            BY <1>2 DEF n
          <6> QED  BY <2>7, <5>2, <6>1
        <5> QED  BY <5>1, <5>2
      <4> QED  BY <1>1, <1>2, <1>3, <4>2, <4>4, <4>5 DEF OpInv, None
    <3> QED  BY <3>1, <3>2, <3>3
  <2> QED  BY <1>1, <1>2, <1>4, <2>5, <2>6, <2>10, <2>11 DEF DriverInv
<1> QED  BY <1>6, <1>7

(* What the operations look at, when disk and slots stay. *)
LEMMA SameView ==
  ASSUME UNCHANGED <<disk, slots>>
  PROVE  /\ Mains' = Mains /\ Files' = Files
         /\ \A id : Find(id)' = Find(id) /\ IsOpen(id)' = IsOpen(id)
         /\ \A size : Room(size)' = Room(size)
BY DEF Mains, Files, Find, IsOpen, Room, Holes, Padding, PartEnd, LastBlock

(* hddOpen with O_CREAT keeps what it has found out about the name, the    *)
(* slot and the room.                                                      *)
LEMMA StartCreateKeeps ==
  ASSUME DriverInv, NEW t \in Threads, StartCreate(t) PROVE DriverInv'
<1>1. ready /\ ~swapped /\ inside = {} /\ UNCHANGED <<disk, ready, slots, swapped>> /\ Stay(t)
  BY DEF StartCreate, Alone
<1>2. SemaInv' /\ inside' # {}
  BY <1>1, StayIs DEF DriverInv
<1>3. PICK id \in Names, i \in DOMAIN slots, size \in Asked :
        /\ GetFileSlot(id, i) /\ Find(id) = {} /\ Room(size)
        /\ op' = [do |-> "create", id |-> id, size |-> size, slot |-> i]
  BY DEF StartCreate
<1>4. SlotInv
  BY DEF DriverInv
<1>5. ~slots[i].used /\ ~IsOpen(id)
  <2>1. FreeSlots \in SUBSET Nat
    <3>1. DOMAIN slots = 1 .. MaxOpen
      BY <1>4 DEF SlotInv
    <3> QED  BY <3>1, SizesType DEF FreeSlots
  <2>2. i \in FreeSlots
    BY <1>3, <2>1, MinOf DEF GetFileSlot
  <2> QED  BY <1>3, <2>2 DEF GetFileSlot, FreeSlots
<1>6. size \in Sizes
  BY ApaAssumption DEF ApaAssumption
<1>7. OpInv'
  <2>1. op'.do = "create" /\ op'.id = id /\ op'.size = size /\ op'.slot = i
    BY <1>3
  <2>2. Find(id)' = {} /\ ~IsOpen(id)' /\ Room(size)' /\ ~slots'[i].used /\ i \in DOMAIN slots'
    BY <1>1, <1>3, <1>5, SameView
  <2> QED  BY <1>1, <1>2, <1>6, <2>1, <2>2 DEF OpInv, None
<1> QED  BY <1>1, <1>2, <1>7, SameDisk

(* ioctl2AddSub keeps what it has found out about the room and the slot.   *)
LEMMA StartAddSubKeeps ==
  ASSUME DriverInv, NEW t \in Threads, StartAddSub(t) PROVE DriverInv'
<1>1. ready /\ ~swapped /\ inside = {} /\ UNCHANGED <<disk, ready, slots, swapped>> /\ Stay(t)
  BY DEF StartAddSub, Alone
<1>2. SemaInv' /\ inside' # {}
  BY <1>1, StayIs DEF DriverInv
<1>3. PICK i \in DOMAIN slots, size \in Asked :
        /\ OpenSlot(i) /\ Len(slots[i].subs) < MaxSub /\ Room(size)
        /\ op' = [do |-> "sub", slot |-> i, size |-> size]
  BY DEF StartAddSub
<1>4. i \in Files /\ size \in Sizes
  BY <1>3, ApaAssumption DEF OpenSlot, Files, ApaAssumption
<1>5. OpInv'
  <2>1. op'.do = "sub" /\ op'.size = size /\ op'.slot = i
    BY <1>3
  <2>2. i \in Files' /\ Room(size)' /\ Len(slots'[i].subs) < MaxSub
    BY <1>1, <1>3, <1>4, SameView
  <2> QED  BY <1>1, <1>2, <1>4, <2>1, <2>2 DEF OpInv, None
<1> QED  BY <1>1, <1>2, <1>5, SameDisk

(* The partition, or a filler before it: nobody has taken the name and     *)
(* the slot, for nobody else was inside.                                   *)
LEMMA CreateKeeps == ASSUME DriverInv, Create PROVE DriverInv'
<1>1. op.do = "create" /\ UNCHANGED <<ready, swapped>>
  BY DEF Create, Working
<1>2. /\ ready /\ ~swapped /\ inside # {}
      /\ op.id \in Names /\ op.size \in Sizes /\ Room(op.size)
      /\ op.slot \in DOMAIN slots /\ ~slots[op.slot].used
      /\ Find(op.id) = {} /\ ~IsOpen(op.id)
  BY <1>1 DEF DriverInv, OpInv
<1>3. PICK id \in Names, size \in Sizes, i \in DOMAIN slots :
       op.id = id /\ op.size = size /\ op.slot = i
  BY <1>2
<1> DEFINE h == Main(id, size)
<1>4. PICK at \in 0 .. Total :
        /\ AddTo(h, disk', at)
        /\ IF at = 0 THEN UNCHANGED <<slots, op, locks>>
           ELSE slots' = [slots EXCEPT ![i] = Filled(at, disk')] /\ Leave
  BY <1>3 DEF Create
<1>5. New(h) /\ h.len = size /\ h.kind = "main" /\ h.id = id /\ h.subs = <<>>
  <2>1. id \in AnyName
    BY NamesAre
  <2> QED  BY <2>1, HeadersNew
<1>6. \A s \in Mains : disk[s].id # id
  BY <1>2, <1>3 DEF Find
<1>7. \A j \in Files : slots[j].id # id
  BY <1>2, <1>3 DEF Files, IsOpen
<1>8. Room(h.len)
  BY <1>2, <1>3, <1>5
<1> HIDE DEF h
<1>9. Added(disk, disk', h, at)
  BY <1>2, <1>4, <1>5, <1>8, AddToIs DEF DriverInv
<1>10. /\ DiskInv' /\ ListedSubsExist'
       /\ Mains \subseteq Mains' /\ \A s \in Mains : Same(disk'[s], disk[s])
       /\ \A s \in Mains' : s \in Mains \/ (at # 0 /\ s = at /\ h.kind = "main")
       /\ at # 0 => at \in DOMAIN disk' /\ Same(disk'[at], h) /\ at \notin Mains
  BY <1>1, <1>2, <1>5, <1>9, Grows DEF DriverInv
<1>11. NamesUnique'
  <2> SUFFICES ASSUME NEW s \in Mains', NEW t \in Mains', disk'[s].id = disk'[t].id PROVE s = t
    BY DEF NamesUnique
  <2>1. \A u \in Mains' : disk'[u].id = IF u \in Mains THEN disk[u].id ELSE id
    BY <1>5, <1>10 DEF Same
  <2>2. CASE s \in Mains /\ t \in Mains
    <3>1. disk[s].id = disk[t].id
      BY <2>1, <2>2
    <3> QED  BY <2>2, <3>1 DEF DriverInv, NamesUnique
  <2>3. CASE s \notin Mains /\ t \notin Mains
    BY <1>10, <2>3
  <2>4. ~(s \in Mains /\ t \notin Mains) /\ ~(t \in Mains /\ s \notin Mains)
    BY <1>6, <2>1
  <2> QED  BY <2>2, <2>3, <2>4
<1>12. CASE at = 0
  <2>1. UNCHANGED <<slots, op, locks>>
    BY <1>4, <1>12
  <2>2. SlotInv' /\ Walk' /\ Agree'
    BY <1>1, <1>2, <1>10, <2>1, GrowsOnly
  <2>3. Mains' = Mains
    BY <1>10, <1>12
  <2>4. Find(id)' = {} /\ IsOpen(id)' = IsOpen(id)
    <3>1. \A s \in Mains' : disk'[s].id # id
      BY <1>6, <1>10, <2>3 DEF Same
    <3> QED  BY <2>1, <3>1 DEF Find, IsOpen
  <2>5. Room(size)'
    BY <1>8, <1>5, <1>9, <1>12, StillRoom
  <2>6. SemaInv' /\ inside' # {}
    BY <1>2, <2>1, SemaKept DEF DriverInv, locks
  <2>7. OpInv'
    <3>1. op'.do = "create" /\ op' = op /\ op' # None
      BY <1>1, <2>1 DEF None
    <3>2. op'.id = id /\ op'.size = size /\ op'.slot = i /\ ~slots'[i].used /\ ~IsOpen(id)'
      BY <1>2, <1>3, <2>1, <2>4, <3>1
    <3> QED  BY <1>1, <1>2, <2>1, <2>4, <2>5, <2>6, <3>1, <3>2 DEF OpInv
  <2> QED  BY <1>1, <1>2, <1>10, <1>11, <2>2, <2>6, <2>7 DEF DriverInv
<1>13. CASE at # 0
  <2> DEFINE g == Filled(at, disk')
  <2>1. slots' = [slots EXCEPT ![i] = g] /\ Leave
    BY <1>4, <1>13
  <2>2. at \in DOMAIN disk' /\ disk'[at].id = id /\ disk'[at].kind = "main" /\ Whole(disk')
    BY <1>1, <1>2, <1>5, <1>10, <1>13 DEF Same, DiskInv, Whole
  <2>3. at \in Mains'
    BY <2>2 DEF Mains
  <2>4. /\ g \in SlotType /\ g.used /\ ~g.dir /\ g.start = at
        /\ g.id = id /\ g.len = disk'[at].len /\ g.subs = disk'[at].subs
    BY <2>2, FilledIs
  <2> HIDE DEF g
  <2>5. i \in DOMAIN slots /\ ready'
    BY <1>1, <1>2
  <2>6. SlotInv' /\ Walk' /\ Agree'
    BY <1>1, <1>7, <1>10, <2>1, <2>2, <2>3, <2>4, <2>5, SlotPut
  <2>7. SemaInv' /\ OpInv'
    BY <2>1, LeaveIs DEF DriverInv
  <2> QED  BY <1>1, <1>2, <1>10, <1>11, <2>6, <2>7 DEF DriverInv
<1> QED  BY <1>12, <1>13

(* The sub-partition, or a filler before it: it belongs to the slot's      *)
(* partition, and nobody lists it yet.                                     *)
LEMMA AddSubKeeps == ASSUME DriverInv, AddSub PROVE DriverInv'
<1>1. op.do = "sub" /\ UNCHANGED <<ready, slots, locks, swapped>>
  BY DEF AddSub, Working
<1>2. /\ ready /\ ~swapped /\ inside # {} /\ op.size \in Sizes /\ Room(op.size)
      /\ op.slot \in Files /\ Len(slots[op.slot].subs) < MaxSub
  BY <1>1 DEF DriverInv, OpInv
<1>3. PICK size \in Sizes, i \in Files : op.size = size /\ op.slot = i
  BY <1>2
<1>4. slots[i].start \in Nat
  BY <1>2, FileIs
<1> DEFINE m == slots[i].start
           h == Sub(m, size)
<1>5. PICK at \in 0 .. Total :
        /\ AddTo(h, disk', at)
        /\ op' = IF at = 0 THEN op
                 ELSE [do |-> "list", slot |-> i, new |-> [start |-> at, len |-> size]]
  BY <1>3 DEF AddSub
<1>6. New(h) /\ h.len = size /\ h.kind = "sub" /\ h.main = m
  BY <1>4, HeadersNew
<1>7. Room(h.len)
  BY <1>2, <1>3, <1>6
<1> HIDE DEF h
<1>8. Added(disk, disk', h, at)
  BY <1>2, <1>5, <1>6, <1>7, AddToIs DEF DriverInv
<1>9. /\ DiskInv' /\ ListedSubsExist'
      /\ Mains \subseteq Mains' /\ \A s \in Mains : Same(disk'[s], disk[s])
      /\ \A s \in Mains' : s \in Mains \/ (at # 0 /\ s = at /\ h.kind = "main")
      /\ at # 0 => at \in DOMAIN disk' /\ Same(disk'[at], h) /\ Unlisted(at)'
  BY <1>1, <1>2, <1>6, <1>8, Grows DEF DriverInv
<1>10. Mains' = Mains
  BY <1>6, <1>9
<1>11. NamesUnique'
  BY <1>9, <1>10 DEF NamesUnique, DriverInv, Same
<1>12. SlotInv' /\ Files' = Files /\ Walk' /\ Agree'
  BY <1>1, <1>2, <1>9, GrowsOnly
<1>13. SemaInv' /\ inside' # {}
  BY <1>1, <1>2, SemaKept DEF DriverInv, locks
<1>14. i \in Files' /\ Len(slots'[i].subs) < MaxSub /\ slots'[i].start = m
  BY <1>1, <1>2, <1>3, <1>12
<1>15. CASE at = 0
  <2>1. Room(size)'
    BY <1>6, <1>7, <1>8, <1>15, StillRoom
  <2>2. op' = op /\ op'.do = "sub" /\ op'.size = size /\ op'.slot = i
    BY <1>1, <1>3, <1>5, <1>15
  <2>3. OpInv'
    BY <1>1, <1>2, <1>13, <1>14, <2>1, <2>2 DEF OpInv, None
  <2> QED  BY <1>1, <1>2, <1>9, <1>11, <1>12, <1>13, <2>3 DEF DriverInv
<1>16. CASE at # 0
  <2> DEFINE new == [start |-> at, len |-> size]
  <2>1. op'.do = "list" /\ op'.slot = i /\ op'.new = new
    BY <1>5, <1>16
  <2>2. new \in SubRef /\ new.start = at /\ new.len = size
    BY SizesType DEF SubRef
  <2> HIDE DEF new, m
  <2>3. /\ at \in DOMAIN disk' /\ disk'[at].kind = "sub" /\ disk'[at].main = m
        /\ disk'[at].len = size /\ Unlisted(at)'
    BY <1>6, <1>9, <1>16 DEF Same
  <2>4. OpInv'
    <3>1. /\ op'.new.start = at /\ op'.new.len = size /\ op'.new \in SubRef
          /\ op'.do = "list" /\ op'.slot = i
      BY <2>1, <2>2
    <3>2. op'.new.start \in DOMAIN disk' /\ Unlisted(op.new.start)'
      BY <2>3, <3>1 DEF Unlisted
    <3>3. /\ disk'[op'.new.start].kind = "sub" /\ disk'[op'.new.start].main = slots'[op'.slot].start
          /\ disk'[op'.new.start].len = op'.new.len
      BY <1>14, <2>3, <3>1
    <3>4. op'.slot \in Files' /\ Len(slots'[op'.slot].subs) < MaxSub
      BY <1>14, <3>1
    <3> QED  BY <1>1, <1>2, <1>13, <3>1, <3>2, <3>3, <3>4 DEF OpInv, None
  <2> QED  BY <1>1, <1>2, <1>9, <1>11, <1>12, <1>13, <2>4 DEF DriverInv
<1> QED  BY <1>15, <1>16

(* A main partition is given another list. *)
LEMMA SubsOnDisk ==
  ASSUME DiskInv, NamesUnique, ready, ready', NEW s \in Mains, NEW q \in Seq(SubRef),
         Len(q) <= MaxSub, disk' = [disk EXCEPT ![s].subs = q]
  PROVE  /\ DiskInv' /\ NamesUnique' /\ Mains' = Mains /\ DOMAIN disk' = DOMAIN disk
         /\ disk'[s].subs = q /\ \A t \in DOMAIN disk : t # s => disk'[t].subs = disk[t].subs
         /\ \A t \in DOMAIN disk :
              /\ disk'[t].kind = disk[t].kind /\ disk'[t].id = disk[t].id
              /\ disk'[t].len = disk[t].len /\ disk'[t].main = disk[t].main
<1> DEFINE h == disk[s]
           g == [h EXCEPT !.subs = q]
<1>1. s \in DOMAIN disk /\ disk[s].kind = "main"
  BY DEF Mains
<1>2. Whole(disk) /\ Laid(disk) /\ Linked(disk) /\ \A t \in DOMAIN disk : disk[t] \in HeaderType
  BY ReadyDisk
<1>3. h \in HeaderType /\ q \in Seq(SubRef)
  BY <1>1, <1>2
<1>4. DOMAIN disk' = DOMAIN disk /\ disk'[s] = g /\ \A t \in DOMAIN disk : t # s => disk'[t] = disk[t]
  BY <1>1
<1>5. disk' = [t \in DOMAIN disk' |-> disk'[t]]
  <2>1. disk = [t \in DOMAIN disk |-> disk[t]]
    BY <1>2 DEF Whole
  <2> QED  BY <2>1
<1> HIDE DEF h
<1>6. /\ g \in HeaderType /\ g.kind = h.kind /\ g.id = h.id /\ g.len = h.len
      /\ g.main = h.main /\ g.next = h.next /\ g.prev = h.prev /\ g.subs = q
  BY ONLY <1>3 DEF HeaderType
<1> HIDE DEF g
<1>7. \A t \in DOMAIN disk :
        /\ disk'[t] \in HeaderType
        /\ disk'[t].kind = disk[t].kind /\ disk'[t].id = disk[t].id
        /\ disk'[t].len = disk[t].len /\ disk'[t].main = disk[t].main
        /\ disk'[t].next = disk[t].next /\ disk'[t].prev = disk[t].prev
  BY <1>2, <1>4, <1>6 DEF h
<1>8. Laid(disk') /\ Linked(disk')
  BY <1>2, <1>4, <1>7, LinkedAlike
<1>9. disk' \in [DOMAIN disk' -> HeaderType]
  BY <1>4, <1>5, <1>7
<1>10. \A t \in DOMAIN disk' :
         Len(disk'[t].subs) <= MaxSub /\ (disk'[t].kind = "mbr" <=> t = 0)
  BY <1>4, <1>6, <1>7 DEF DiskInv
<1>11. DiskInv'
  BY <1>8, <1>9, <1>10, WholeDisk DEF Whole
<1>12. Mains' = Mains
  BY <1>4, <1>7 DEF Mains
<1>13. NamesUnique'
  BY <1>7, <1>12 DEF NamesUnique, Mains
<1> QED  BY <1>4, <1>6, <1>7, <1>11, <1>12, <1>13

(* ... and the slot that has it open hears of it. *)
LEMMA SubsInSlot ==
  ASSUME DriverInv, ready, ~swapped, UNCHANGED <<ready, swapped>>, NEW i \in Files,
         NEW q \in Seq(SubRef), Len(q) <= MaxSub,
         disk' = [disk EXCEPT ![slots[i].start].subs = q],
         slots' = [slots EXCEPT ![i].subs = q]
  PROVE  SlotInv' /\ Files' = Files /\ Walk' /\ Agree'
<1> DEFINE s == slots[i].start
           h == slots[i]
           g == [h EXCEPT !.subs = q]
<1>1. /\ i \in DOMAIN slots /\ h \in SlotType /\ s \in Mains /\ s \in DOMAIN disk
      /\ slots \in [1 .. MaxOpen -> SlotType]
  BY FileIs DEF DriverInv, SlotInv
<1>2. /\ Mains' = Mains /\ DOMAIN disk' = DOMAIN disk
      /\ disk'[s].subs = q /\ \A t \in DOMAIN disk : t # s => disk'[t].subs = disk[t].subs
      /\ \A t \in DOMAIN disk : disk'[t].id = disk[t].id /\ disk'[t].len = disk[t].len
  BY <1>1, SubsOnDisk DEF DriverInv
<1>3. /\ DOMAIN slots' = DOMAIN slots /\ slots'[i] = g
      /\ \A j \in DOMAIN slots : j # i => slots'[j] = slots[j]
  BY <1>1
<1> HIDE DEF h
<1>4. /\ g \in SlotType /\ g.used = h.used /\ g.dir = h.dir /\ g.id = h.id
      /\ g.start = h.start /\ g.len = h.len /\ g.unseen = h.unseen /\ g.subs = q
  BY ONLY <1>1 DEF SlotType
<1>5. slots' \in [1 .. MaxOpen -> SlotType]
  BY <1>1, <1>3, <1>4
<1> HIDE DEF g
<1>6. /\ \A j \in DOMAIN slots :
           /\ slots'[j].used = slots[j].used /\ slots'[j].dir = slots[j].dir
           /\ slots'[j].id = slots[j].id /\ slots'[j].start = slots[j].start
           /\ slots'[j].len = slots[j].len /\ slots'[j].unseen = slots[j].unseen
      /\ slots'[i].subs = q
  BY <1>3, <1>4 DEF h
<1>7. Files' = Files
  BY <1>3, <1>6 DEF Files
<1>8. /\ \A j \in DOMAIN slots :
           ~slots[j].used => ~slots[j].dir /\ (slots[j].id = "" => slots[j].start = 0)
      /\ \A j, k \in Files : slots[j].id = slots[k].id => j = k
  BY Zenon DEF DriverInv, SlotInv
<1>9. \A j \in DOMAIN slots : slots[j].dir =>
        /\ slots[j].unseen \subseteq Mains
        /\ slots[j].id = "" =>
             IF slots[j].start = End THEN slots[j].unseen = {}
             ELSE \A u \in slots[j].unseen : slots[j].start <= u
  BY Zenon DEF DriverInv, Walk
<1>10. SlotInv'
  <2>1. \A j \in DOMAIN slots' :
          ~slots'[j].used => ~slots'[j].dir /\ (slots'[j].id = "" => slots'[j].start = 0)
    BY ONLY <1>3, <1>6, <1>8
  <2>2. \A j, k \in Files' : slots'[j].id = slots'[k].id => j = k
    <3> SUFFICES ASSUME NEW j \in Files, NEW k \in Files, slots'[j].id = slots'[k].id PROVE j = k
      BY <1>7
    <3>1. slots'[j].id = slots[j].id /\ slots'[k].id = slots[k].id
      BY <1>6 DEF Files
    <3>2. slots[j].id = slots[k].id
      BY ONLY <3>1, slots'[j].id = slots'[k].id
    <3> QED  BY Zenon, <1>8, <3>2
  <2>3. ~ready' => FALSE
    OBVIOUS
  <2> QED  BY ONLY <1>5, <2>1, <2>2, <2>3 DEF SlotInv
<1>11. Walk'
  <2> SUFFICES ASSUME NEW j \in DOMAIN slots, slots'[j].dir
               PROVE  /\ slots'[j].unseen \subseteq Mains'
                      /\ slots'[j].id = "" =>
                           IF slots'[j].start = End THEN slots'[j].unseen = {}
                           ELSE \A u \in slots'[j].unseen : slots'[j].start <= u
    BY <1>3 DEF Walk
  <2>1. /\ slots[j].unseen \subseteq Mains
        /\ slots[j].id = "" =>
             IF slots[j].start = End THEN slots[j].unseen = {}
             ELSE \A u \in slots[j].unseen : slots[j].start <= u
    BY ONLY <1>6, <1>9, j \in DOMAIN slots, slots'[j].dir
  <2> QED  BY <1>2, <1>6, <2>1
<1>12. Agree'
  <2> SUFFICES ASSUME NEW j \in Files
               PROVE  /\ slots'[j].start \in Mains' /\ disk'[slots'[j].start].id = slots'[j].id
                      /\ slots'[j].len = disk'[slots'[j].start].len
                      /\ slots'[j].subs = disk'[slots'[j].start].subs
    BY <1>7 DEF Agree, Find
  <2> DEFINE m == slots[j].start
  <2>1. /\ j \in DOMAIN slots /\ m \in Mains /\ m \in DOMAIN disk
        /\ disk[m].id = slots[j].id /\ disk[m].subs = slots[j].subs
    BY FileIs
  <2>2. slots[j].len = disk[m].len
    BY DEF DriverInv, Agree
  <2>3. slots'[j].subs = disk'[m].subs
    <3>1. CASE j = i
      BY <1>2, <1>6, <3>1
    <3>2. CASE j # i
      <4>1. m # s
        BY <3>2, OneSlot DEF DriverInv
      <4> QED  BY <1>2, <1>3, <2>1, <3>2, <4>1
    <3> QED  BY <3>1, <3>2
  <2> QED  BY <1>2, <1>6, <2>1, <2>2, <2>3
<1> QED  BY <1>7, <1>10, <1>11, <1>12

(* The places of a sequence. *)
LEMMA SeqIs ==
  ASSUME NEW S, NEW q \in Seq(S)
  PROVE  Len(q) \in Nat /\ DOMAIN q = 1 .. Len(q) /\ \A k \in DOMAIN q : q[k] \in S
OBVIOUS

(* A list that has become longer by one. *)
LEMMA SeqAppend ==
  ASSUME NEW S, NEW q \in Seq(S), NEW x \in S
  PROVE  /\ Append(q, x) \in Seq(S) /\ Len(Append(q, x)) = Len(q) + 1
         /\ \A k \in DOMAIN Append(q, x) : Append(q, x)[k] = IF k \in DOMAIN q THEN q[k] ELSE x
         /\ \A k \in DOMAIN Append(q, x) : k \in DOMAIN q \/ k = Len(q) + 1
         /\ Len(q) + 1 \notin DOMAIN q
<1>1. Len(q) \in Nat /\ DOMAIN q = 1 .. Len(q)
  BY SeqIs
<1>2. Append(q, x) \in Seq(S) /\ Len(Append(q, x)) = Len(q) + 1
  OBVIOUS
<1>3. DOMAIN Append(q, x) = 1 .. Len(q) + 1
  BY <1>2
<1>4. \A k \in 1 .. Len(q) + 1 : Append(q, x)[k] = IF k \in 1 .. Len(q) THEN q[k] ELSE x
  OBVIOUS
<1> QED  BY <1>1, <1>2, <1>3, <1>4

(* A list without its last entry. *)
LEMMA SeqFront ==
  ASSUME NEW S, NEW q \in Seq(S), q # <<>>
  PROVE  /\ Front(q) \in Seq(S) /\ Len(Front(q)) = Len(q) - 1
         /\ Len(q) \in DOMAIN q /\ Last(q) = q[Len(q)] /\ Last(q) \in S
         /\ Len(q) > 0 /\ Len(q) \notin DOMAIN Front(q)
         /\ \A k \in DOMAIN Front(q) : k \in DOMAIN q /\ Front(q)[k] = q[k]
<1>1. Len(q) \in Nat /\ DOMAIN q = 1 .. Len(q) /\ \A k \in DOMAIN q : q[k] \in S
  BY SeqIs
<1>2. Len(q) > 0 /\ Len(q) \in DOMAIN q
  BY <1>1
<1>3. Last(q) = q[Len(q)] /\ Last(q) \in S
  BY <1>1, <1>2 DEF Last
<1>4. Front(q) = SubSeq(q, 1, Len(q) - 1)
  BY DEF Front
<1>5. /\ Front(q) \in Seq(S) /\ Len(Front(q)) = Len(q) - 1
      /\ \A k \in 1 .. Len(q) - 1 : Front(q)[k] = q[k]
  BY <1>1, <1>2, <1>4
<1>6. DOMAIN Front(q) = 1 .. Len(q) - 1
  BY <1>1, <1>2, <1>5
<1> QED  BY <1>1, <1>2, <1>3, <1>5, <1>6

(* The new sub-partition is listed on the disk and in the slot: it is      *)
(* there, its owner is right, and nobody has listed it.                    *)
LEMMA ListSubKeeps == ASSUME DriverInv, ListSub PROVE DriverInv'
<1>1. op.do = "list" /\ UNCHANGED <<ready, swapped>> /\ Leave
  BY DEF ListSub, Working
<1>2. /\ ready /\ ~swapped /\ op.slot \in Files /\ Len(slots[op.slot].subs) < MaxSub
      /\ op.new \in SubRef /\ op.new.start \in DOMAIN disk
      /\ disk[op.new.start].kind = "sub" /\ disk[op.new.start].main = slots[op.slot].start
      /\ disk[op.new.start].len = op.new.len /\ Unlisted(op.new.start)
  BY <1>1 DEF DriverInv, OpInv
<1> DEFINE i == op.slot
           s == slots[i].start
           new == op.new
           old == disk[s].subs
           q == Append(old, new)
<1>3. /\ i \in DOMAIN slots /\ s \in Mains /\ s \in DOMAIN disk /\ old = slots[i].subs
      /\ slots[i] \in SlotType
  BY <1>2, FileIs
<1>4. old \in Seq(SubRef) /\ Len(old) < MaxSub
  BY <1>2, <1>3 DEF SlotType
<1>5. disk' = [disk EXCEPT ![s].subs = q] /\ slots' = [slots EXCEPT ![i].subs = q]
  <2>1. disk' = [disk EXCEPT ![s].subs = Append(disk[s].subs, new)]
    BY <1>3 DEF ListSub
  <2>2. slots' = [slots EXCEPT ![i].subs = Append(slots[i].subs, new)]
    BY <1>3 DEF ListSub
  <2> QED  BY <1>3, <2>1, <2>2
<1>6. i \in Files /\ new \in SubRef /\ new.start \in DOMAIN disk /\ Unlisted(new.start)
      /\ disk[new.start].kind = "sub" /\ disk[new.start].main = s /\ disk[new.start].len = new.len
  BY <1>2
<1> HIDE DEF i, new, old
<1>7. /\ q \in Seq(SubRef) /\ Len(q) <= MaxSub
      /\ \A k \in DOMAIN q : q[k] = IF k \in DOMAIN old THEN old[k] ELSE new
      /\ \A k \in DOMAIN q : k \in DOMAIN old \/ k = Len(old) + 1
  <2>1. Len(q) = Len(old) + 1 /\ Len(old) \in Nat
    BY <1>4, <1>6, SeqIs, SeqAppend
  <2>2. Len(q) <= MaxSub
    BY <1>4, <2>1, SizesType
  <2> QED  BY <1>4, <1>6, <2>2, SeqAppend
<1> HIDE DEF q
<1>8. SlotInv' /\ Walk' /\ Agree'
  BY <1>1, <1>2, <1>5, <1>6, <1>7, SubsInSlot
<1> HIDE DEF s
<1>9. /\ DiskInv' /\ NamesUnique' /\ Mains' = Mains /\ DOMAIN disk' = DOMAIN disk
      /\ disk'[s].subs = q /\ \A t \in DOMAIN disk : t # s => disk'[t].subs = disk[t].subs
      /\ \A t \in DOMAIN disk :
           /\ disk'[t].kind = disk[t].kind /\ disk'[t].len = disk[t].len
           /\ disk'[t].main = disk[t].main
  BY <1>1, <1>2, <1>3, <1>5, <1>7, SubsOnDisk DEF DriverInv
<1>10. ListedSubsExist'
  <2> SUFFICES ASSUME NEW m \in Mains, NEW k \in DOMAIN disk'[m].subs
               PROVE  LET sub == disk'[m].subs[k] IN
                      /\ sub.start \in DOMAIN disk /\ disk[sub.start].kind = "sub"
                      /\ disk[sub.start].main = m /\ disk[sub.start].len = sub.len
                      /\ \A j \in DOMAIN disk'[m].subs : disk'[m].subs[j] = sub => j = k
    BY SMTT(20), <1>9 DEF ListedSubsExist
  <2>1. m \in DOMAIN disk
    BY DEF Mains
  <2>2. CASE m # s
    <3>1. disk'[m].subs = disk[m].subs
      BY SMTT(20), <1>9, <2>1, <2>2
    <3> QED  BY <3>1 DEF DriverInv, ListedSubsExist
  <2>3. CASE m = s
    <3>1. \A j \in DOMAIN old : old[j] # new
      BY <1>3, <1>6 DEF Unlisted, old
    <3>2. \A j \in DOMAIN old :
            /\ old[j].start \in DOMAIN disk /\ disk[old[j].start].kind = "sub"
            /\ disk[old[j].start].main = s /\ disk[old[j].start].len = old[j].len
            /\ \A l \in DOMAIN old : old[l] = old[j] => l = j
      BY <1>3 DEF DriverInv, ListedSubsExist, old
    <3>3. CASE k \in DOMAIN old
      BY <1>7, <1>9, <2>3, <3>1, <3>2, <3>3
    <3>4. CASE k \notin DOMAIN old
      BY <1>6, <1>7, <1>9, <2>3, <3>1, <3>4
    <3> QED  BY <3>3, <3>4
  <2> QED  BY <2>2, <2>3
<1>11. SemaInv' /\ OpInv'
  BY <1>1, LeaveIs DEF DriverInv
<1> QED  BY SMTT(20), <1>1, <1>2, <1>8, <1>9, <1>10, <1>11 DEF DriverInv

(* A partition that nobody lists is given back. *)
LEMMA Shrinks ==
  ASSUME DiskInv, ListedSubsExist, NamesUnique, ready, ready', NEW s \in DOMAIN disk, s # 0,
         Unlisted(s), disk' = Deleted(disk, s)
  PROVE  /\ DiskInv' /\ ListedSubsExist' /\ NamesUnique' /\ Mains' = Mains \ {s}
         /\ \A t \in DOMAIN disk : t # s /\ disk[t].kind # "free" =>
              t \in DOMAIN disk' /\ Same(disk'[t], disk[t])
<1> DEFINE e == disk'
<1>1. Whole(disk) /\ 0 \in DOMAIN disk /\ disk[0].kind = "mbr"
  BY ReadyDisk
<1>2. /\ Whole(e) /\ DOMAIN e \subseteq DOMAIN disk
      /\ \A t \in DOMAIN e : t # s => Same(e[t], disk[t])
      /\ s \in DOMAIN e => e[s].kind = "free" /\ e[s].subs = <<>>
      /\ \A t \in DOMAIN disk : t # s /\ disk[t].kind # "free" => t \in DOMAIN e
  <2>1. disk[0].kind # "free" /\ e = Deleted(disk, s)
    BY <1>1
  <2> QED  BY <1>1, <2>1, DeletedIs
<1> HIDE DEF e
<1>3. \A t \in DOMAIN disk : t # s /\ disk[t].kind # "free" => t \in DOMAIN e /\ Same(e[t], disk[t])
  BY <1>2
<1>4. \A t \in DOMAIN e : Len(e[t].subs) <= MaxSub /\ (e[t].kind = "mbr" <=> t = 0)
  <2> SUFFICES ASSUME NEW t \in DOMAIN e
               PROVE  Len(e[t].subs) <= MaxSub /\ (e[t].kind = "mbr" <=> t = 0)
    OBVIOUS
  <2>1. CASE t = s
    BY <1>2, <2>1, SizesType
  <2>2. CASE t # s
    <3>1. t \in DOMAIN disk /\ Same(e[t], disk[t])
      BY <1>2, <2>2
    <3> QED  BY <3>1 DEF DiskInv, Same
  <2> QED  BY <2>1, <2>2
<1>5. DiskInv'
  BY <1>2, <1>4, WholeDisk DEF e
<1>6. ASSUME NEW t PROVE t \in Mains' <=> t \in Mains /\ t # s
  <2>1. t \in Mains' <=> t \in DOMAIN e /\ e[t].kind = "main"
    BY DEF Mains, e
  <2>2. t \in Mains <=> t \in DOMAIN disk /\ disk[t].kind = "main"
    BY DEF Mains
  <2>3. t \in DOMAIN e /\ e[t].kind = "main" => t # s /\ t \in DOMAIN disk /\ disk[t].kind = "main"
    BY <1>2 DEF Same
  <2>4. t \in DOMAIN disk /\ disk[t].kind = "main" /\ t # s => t \in DOMAIN e /\ e[t].kind = "main"
    BY <1>3 DEF Same
  <2> QED  BY <2>1, <2>2, <2>3, <2>4
<1>7. Mains' = Mains \ {s}
  BY <1>6
<1>8. ASSUME NEW t \in Mains' PROVE t \in Mains /\ t # s /\ Same(e[t], disk[t])
  <2>1. t \in Mains /\ t # s
    BY <1>6
  <2>2. t \in DOMAIN disk /\ disk[t].kind # "free"
    BY <2>1 DEF Mains
  <2> QED  BY <1>3, <2>1, <2>2
<1>9. NamesUnique'
  <2> SUFFICES ASSUME NEW t \in Mains', NEW u \in Mains', e[t].id = e[u].id PROVE t = u
    BY DEF NamesUnique, e
  <2> QED  BY <1>8 DEF NamesUnique, Same
<1>10. ListedSubsExist'
  <2> SUFFICES ASSUME NEW m \in Mains', NEW k \in DOMAIN e[m].subs
               PROVE  LET sub == e[m].subs[k] IN
                      /\ sub.start \in DOMAIN e /\ e[sub.start].kind = "sub"
                      /\ e[sub.start].main = m /\ e[sub.start].len = sub.len
                      /\ \A j \in DOMAIN e[m].subs : e[m].subs[j] = sub => j = k
    BY DEF ListedSubsExist, e
  <2>1. m \in Mains /\ e[m].subs = disk[m].subs
    BY <1>8 DEF Same
  <2> DEFINE sub == e[m].subs[k]
             x == sub.start
  <2>2. /\ x \in DOMAIN disk /\ disk[x].kind = "sub" /\ disk[x].main = m
        /\ disk[x].len = sub.len /\ \A j \in DOMAIN e[m].subs : e[m].subs[j] = sub => j = k
    BY <2>1 DEF ListedSubsExist
  <2>3. x # s
    BY <2>1 DEF Unlisted
  <2> HIDE DEF x, sub
  <2>4. x \in DOMAIN e /\ Same(e[x], disk[x])
    BY <1>3, <2>2, <2>3
  <2>5. e[x].kind = "sub" /\ e[x].main = m /\ e[x].len = sub.len
    BY <2>2, <2>4 DEF Same
  <2> QED  BY ONLY SMTT(20), <2>2, <2>4, <2>5 DEF x, sub
<1> QED  BY <1>3, <1>5, <1>7, <1>9, <1>10 DEF e

(* Those that wait to be deleted are still there, and nobody lists them.   *)
LEMMA StillDeletable ==
  ASSUME NEW subs, Deletable(subs), Mains' \subseteq Mains,
         \A t \in Mains' : disk'[t].subs = disk[t].subs,
         \A k \in DOMAIN subs : subs[k].start \in DOMAIN disk' /\ disk'[subs[k].start].kind = "sub"
  PROVE  Deletable(subs)'
BY DEF Deletable, Unlisted

(* The next sub-partition is given back: nobody lists it, and it is none   *)
(* of those that follow.                                                   *)
LEMMA DeleteSubKeeps == ASSUME DriverInv, DeleteSub PROVE DriverInv'
<1>1. /\ op.do = "delete" /\ op.subs # <<>> /\ disk' = Deleted(disk, Last(op.subs).start)
      /\ UNCHANGED <<ready, slots, swapped>>
  BY DEF DeleteSub, Working
<1>2. /\ ready /\ ~swapped /\ inside # {}
      /\ op \in [do : {"delete"}, subs : Seq(SubRef), main : SUBSET Nat]
      /\ Deletable(op.subs)
      /\ \A s \in op.main : /\ s \in Mains /\ disk[s].subs = <<>>
                            /\ \A i \in Files : slots[i].start # s
  BY <1>1 DEF DriverInv, OpInv
<1>3. PICK subs \in Seq(SubRef) : op.subs = subs
  BY <1>2
<1> DEFINE s == Last(subs).start
<1>4. /\ Front(subs) \in Seq(SubRef) /\ Len(Front(subs)) = Len(subs) - 1
      /\ Len(subs) \in DOMAIN subs /\ Last(subs) = subs[Len(subs)]
      /\ Len(subs) \in Nat /\ Len(subs) \notin DOMAIN Front(subs)
      /\ \A k \in DOMAIN Front(subs) : k \in DOMAIN subs /\ Front(subs)[k] = subs[k]
  BY <1>1, <1>3, SeqIs, SeqFront
<1>5. \A k \in DOMAIN subs :
        /\ subs[k].start \in DOMAIN disk /\ disk[subs[k].start].kind = "sub"
        /\ Unlisted(subs[k].start)
        /\ \A j \in DOMAIN subs : subs[j].start = subs[k].start => j = k
  BY <1>2, <1>3 DEF Deletable
<1>6. /\ s \in DOMAIN disk /\ disk[s].kind = "sub" /\ Unlisted(s) /\ s # 0
      /\ disk' = Deleted(disk, s)
  BY <1>1, <1>2, <1>3, <1>4, <1>5, ReadyDisk DEF DriverInv
<1>7. /\ DiskInv' /\ ListedSubsExist' /\ NamesUnique' /\ Mains' = Mains \ {s}
      /\ \A t \in DOMAIN disk : t # s /\ disk[t].kind # "free" =>
           t \in DOMAIN disk' /\ Same(disk'[t], disk[t])
  <2> HIDE DEF s
  <2> QED  BY <1>1, <1>2, <1>6, Shrinks DEF DriverInv
<1>8. Mains' = Mains /\ \A t \in Mains : t # s /\ t \in DOMAIN disk /\ Same(disk'[t], disk[t])
  BY <1>6, <1>7 DEF Mains
<1>9. SlotInv' /\ Files' = Files /\ Walk' /\ Agree'
  BY <1>1, <1>2, <1>7, <1>8, GrowsOnly
<1>10. IF Len(subs) = 1 /\ op.main = {} THEN Leave
       ELSE op' = [op EXCEPT !.subs = Front(op.subs)] /\ UNCHANGED locks
  BY <1>3 DEF DeleteSub
<1>11. CASE Len(subs) = 1 /\ op.main = {}
  <2>1. SemaInv' /\ OpInv'
    BY <1>10, <1>11, LeaveIs DEF DriverInv
  <2> QED  BY <1>1, <1>2, <1>7, <1>9, <2>1 DEF DriverInv
<1>12. CASE ~(Len(subs) = 1 /\ op.main = {})
  <2> DEFINE q == Front(subs)
  <2>1. op' = [op EXCEPT !.subs = q] /\ UNCHANGED locks
    BY <1>3, <1>10, <1>12
  <2>2. q \in Seq(SubRef) /\ \A k \in DOMAIN q : k \in DOMAIN subs /\ q[k] = subs[k] /\ k # Len(subs)
    BY <1>4
  <2>3. q = <<>> => op.main # {}
    BY <1>4, <1>12
  <2> HIDE DEF q
  <2>4. /\ op' \in [do : {"delete"}, subs : Seq(SubRef), main : SUBSET Nat]
        /\ op'.do = "delete" /\ op'.subs = q /\ op'.main = op.main
    BY <1>2, <2>1, <2>2
  <2>5. Deletable(q)
    BY <1>5, <2>2 DEF Deletable
  <2>6. \A k \in DOMAIN q : q[k].start \in DOMAIN disk' /\ disk'[q[k].start].kind = "sub"
    <3> SUFFICES ASSUME NEW k \in DOMAIN q
                 PROVE  q[k].start \in DOMAIN disk' /\ disk'[q[k].start].kind = "sub"
      OBVIOUS
    <3> DEFINE x == q[k].start
    <3>1. x \in DOMAIN disk /\ disk[x].kind = "sub" /\ x # s
      BY <1>4, <1>5, <2>2
    <3> HIDE DEF x, s
    <3>2. x \in DOMAIN disk' /\ Same(disk'[x], disk[x])
      BY <1>7, <3>1
    <3> QED  BY <3>1, <3>2 DEF Same, x
  <2>7. Deletable(q)'
    <3>1. \A t \in Mains' : disk'[t].subs = disk[t].subs
      BY <1>8 DEF Same
    <3> QED  BY <1>8, <2>5, <2>6, <3>1, StillDeletable
  <2>8. \A t \in op.main : /\ t \in Mains' /\ disk'[t].subs = <<>>
                           /\ \A i \in Files' : slots'[i].start # t
    BY <1>1, <1>2, <1>8, <1>9 DEF Same
  <2>9. SemaInv' /\ inside' # {}
    BY <1>2, <2>1, SemaKept DEF DriverInv, locks
  <2>10. OpInv'
    BY <1>1, <1>2, <2>3, <2>4, <2>7, <2>8, <2>9 DEF OpInv, None
  <2> QED  BY <1>1, <1>2, <1>7, <1>9, <2>9, <2>10 DEF DriverInv
<1> QED  BY <1>11, <1>12

(* A shorter list is sound when the old one was. *)
LEMMA ShorterList ==
  ASSUME ListedSubsExist, NEW s \in Mains, NEW q,
         \A k \in DOMAIN q : k \in DOMAIN disk[s].subs /\ q[k] = disk[s].subs[k],
         Mains' = Mains, DOMAIN disk' = DOMAIN disk, disk'[s].subs = q,
         \A t \in DOMAIN disk : t # s => disk'[t].subs = disk[t].subs,
         \A t \in DOMAIN disk :
           /\ disk'[t].kind = disk[t].kind /\ disk'[t].len = disk[t].len
           /\ disk'[t].main = disk[t].main
  PROVE  ListedSubsExist'
<1> SUFFICES ASSUME NEW m \in Mains, NEW k \in DOMAIN disk'[m].subs
             PROVE  LET sub == disk'[m].subs[k] IN
                    /\ sub.start \in DOMAIN disk /\ disk[sub.start].kind = "sub"
                    /\ disk[sub.start].main = m /\ disk[sub.start].len = sub.len
                    /\ \A j \in DOMAIN disk'[m].subs : disk'[m].subs[j] = sub => j = k
  BY DEF ListedSubsExist
<1> DEFINE old == disk[m].subs
           new == disk'[m].subs
<1>1. m \in DOMAIN disk
  BY DEF Mains
<1>2. \A j \in DOMAIN new : j \in DOMAIN old /\ new[j] = old[j]
  <2>1. CASE m = s
    BY <2>1
  <2>2. CASE m # s
    <3>1. new = old
      BY SMTT(20), <1>1, <2>2
    <3> QED  BY <3>1
  <2> QED  BY <2>1, <2>2
<1>3. \A j \in DOMAIN old :
        /\ old[j].start \in DOMAIN disk /\ disk[old[j].start].kind = "sub"
        /\ disk[old[j].start].main = m /\ disk[old[j].start].len = old[j].len
        /\ \A l \in DOMAIN old : old[l] = old[j] => l = j
  BY DEF ListedSubsExist
<1> HIDE DEF old, new
<1>4. k \in DOMAIN new
  BY DEF new
<1>5. k \in DOMAIN old /\ new[k] = old[k]
  BY <1>2, <1>4
<1>6. \A j \in DOMAIN new : new[j] = new[k] => j = k
  BY <1>2, <1>3, <1>5
<1>7. LET sub == new[k] IN
      /\ sub.start \in DOMAIN disk /\ disk[sub.start].kind = "sub"
      /\ disk[sub.start].main = m /\ disk[sub.start].len = sub.len
      /\ \A j \in DOMAIN new : new[j] = sub => j = k
  BY <1>3, <1>5, <1>6
<1> QED  BY ONLY SMTT(20), <1>7 DEF new

(* What is taken from a list is its owner's, and in one place of the list. *)
LEMMA OneOwner ==
  ASSUME DiskInv, ListedSubsExist, ready, NEW s \in Mains, NEW k \in DOMAIN disk[s].subs,
         NEW t \in Mains, NEW j \in DOMAIN disk[t].subs,
         disk[t].subs[j].start = disk[s].subs[k].start
  PROVE  t = s /\ j = k
<1> DEFINE a == disk[s].subs[k]
           b == disk[t].subs[j]
<1>1. /\ a.start \in DOMAIN disk /\ disk[a.start].main = s /\ disk[a.start].len = a.len
      /\ \A l \in DOMAIN disk[s].subs : disk[s].subs[l] = a => l = k
  BY DEF ListedSubsExist
<1>2. disk[b.start].main = t /\ disk[b.start].len = b.len
  BY DEF ListedSubsExist
<1>3. a \in SubRef /\ b \in SubRef
  <2>1. s \in DOMAIN disk /\ t \in DOMAIN disk
    BY DEF Mains
  <2>2. disk[s].subs \in Seq(SubRef) /\ disk[t].subs \in Seq(SubRef)
    BY <2>1, ReadyDisk DEF HeaderType
  <2> QED  BY <2>2
<1>4. a.start = b.start
  OBVIOUS
<1> HIDE DEF a, b
<1>5. t = s /\ a = b
  BY <1>1, <1>2, <1>3, <1>4 DEF SubRef
<1> QED  BY SMTT(20), <1>1, <1>5 DEF a, b

(* ioctl2DeleteLastSub, the list: what is taken from it nobody lists any   *)
(* more, since lists share no entries.                                     *)
LEMMA DeleteLastSubKeeps ==
  ASSUME DriverInv, NEW t \in Threads, DeleteLastSub(t) PROVE DriverInv'
<1>1. ready /\ ~swapped /\ inside = {} /\ UNCHANGED <<ready, swapped>> /\ Stay(t)
  BY DEF DeleteLastSub, Alone
<1>2. PICK i \in DOMAIN slots :
        /\ OpenSlot(i) /\ slots[i].subs # <<>>
        /\ disk' = [disk EXCEPT ![slots[i].start].subs = Front(disk[slots[i].start].subs)]
        /\ slots' = [slots EXCEPT ![i].subs = Front(slots[i].subs)]
        /\ op' = [do |-> "delete", subs |-> <<Last(disk[slots[i].start].subs)>>, main |-> {}]
  BY DEF DeleteLastSub
<1>3. i \in Files
  BY <1>2 DEF OpenSlot, Files
<1> DEFINE s == slots[i].start
           old == disk[s].subs
           q == Front(old)
           last == Last(old)
<1>4. s \in Mains /\ s \in DOMAIN disk /\ old = slots[i].subs /\ slots[i] \in SlotType
  BY <1>1, <1>3, FileIs
<1>5. old \in Seq(SubRef) /\ old # <<>>
  BY <1>2, <1>4 DEF SlotType
<1>6. disk' = [disk EXCEPT ![s].subs = q] /\ slots' = [slots EXCEPT ![i].subs = q]
  BY <1>2, <1>4
<1>7. op' = [do |-> "delete", subs |-> <<last>>, main |-> {}]
  BY <1>2
<1> HIDE DEF old
<1>8. Len(old) <= MaxSub /\ Len(old) \in Nat
  BY <1>4, <1>5, SeqIs DEF DriverInv, DiskInv, old
<1>9. /\ q \in Seq(SubRef) /\ Len(q) <= MaxSub
      /\ Len(old) \in DOMAIN old /\ last = old[Len(old)] /\ last \in SubRef
      /\ Len(old) \notin DOMAIN q /\ \A k \in DOMAIN q : k \in DOMAIN old /\ q[k] = old[k]
  <2>1. /\ q \in Seq(SubRef) /\ Len(q) = Len(old) - 1
        /\ Len(old) \in DOMAIN old /\ last = old[Len(old)] /\ last \in SubRef
        /\ Len(old) \notin DOMAIN q /\ \A k \in DOMAIN q : k \in DOMAIN old /\ q[k] = old[k]
    BY <1>5, SeqFront
  <2>2. Len(q) <= MaxSub
    BY <1>8, <2>1, SizesType
  <2> QED  BY <2>1, <2>2
<1> HIDE DEF q, last
<1>10. PICK x \in SubRef : x = last /\ x = old[Len(old)]
  BY <1>9
<1>11. SlotInv' /\ Files' = Files /\ Walk' /\ Agree'
  BY <1>1, <1>3, <1>6, <1>9, SubsInSlot
<1> HIDE DEF s
<1>12. /\ DiskInv' /\ NamesUnique' /\ Mains' = Mains /\ DOMAIN disk' = DOMAIN disk
       /\ disk'[s].subs = q /\ \A u \in DOMAIN disk : u # s => disk'[u].subs = disk[u].subs
       /\ \A u \in DOMAIN disk :
            /\ disk'[u].kind = disk[u].kind /\ disk'[u].len = disk[u].len
            /\ disk'[u].main = disk[u].main
  BY <1>1, <1>4, <1>6, <1>9, SubsOnDisk DEF DriverInv
<1>13. ListedSubsExist'
  <2>1. \A k \in DOMAIN q : k \in DOMAIN disk[s].subs /\ q[k] = disk[s].subs[k]
    BY <1>9 DEF old
  <2>2. ListedSubsExist
    BY DEF DriverInv
  <2> QED  BY <1>4, <1>12, <2>1, <2>2, ShorterList
<1>14. Deletable(<<x>>)'
  <2>1. x.start \in DOMAIN disk /\ disk[x.start].kind = "sub"
    BY <1>4, <1>9, <1>10 DEF DriverInv, ListedSubsExist, old
  <2>2. Unlisted(x.start)'
    <3> SUFFICES ASSUME NEW m \in Mains, NEW k \in DOMAIN disk'[m].subs,
                        disk'[m].subs[k].start = x.start
                 PROVE  FALSE
      BY <1>12 DEF Unlisted
    <3>1. k \in DOMAIN disk[m].subs /\ disk[m].subs[k] = disk'[m].subs[k] /\ (m = s => k # Len(old))
      <4>1. m \in DOMAIN disk
        BY DEF Mains
      <4>2. CASE m = s
        BY <1>9, <1>12, <4>2 DEF old
      <4>3. CASE m # s
        BY <1>12, <4>1, <4>3
      <4> QED  BY <4>2, <4>3
    <3>2. DiskInv /\ ListedSubsExist /\ Len(old) \in DOMAIN disk[s].subs
          /\ disk[m].subs[k].start = disk[s].subs[Len(old)].start
      BY <1>9, <1>10, <3>1 DEF DriverInv, old
    <3>3. m = s /\ k = Len(old)
      BY <1>1, <1>4, <3>1, <3>2, OneOwner
    <3> QED  BY <3>1, <3>3
  <2>3. <<x>> \in Seq(SubRef) /\ \A k \in DOMAIN <<x>> : k = 1 /\ <<x>>[k] = x
    BY <1>9
  <2> QED  BY <1>12, <2>1, <2>2, <2>3 DEF Deletable, Unlisted
<1>15. SemaInv' /\ inside' # {}
  BY <1>1, StayIs DEF DriverInv
<1>16. OpInv'
  <2>1. /\ op' \in [do : {"delete"}, subs : Seq(SubRef), main : SUBSET Nat]
        /\ op'.do = "delete" /\ op'.subs = <<x>> /\ op'.main = {} /\ <<x>> # <<>>
    BY <1>7, <1>10
  <2> QED  BY <1>1, <1>14, <1>15, <2>1 DEF OpInv, None
<1> QED  BY <1>1, <1>11, <1>12, <1>13, <1>15, <1>16 DEF DriverInv

(* apaRemove, the list: no slot has the partition open, and what it        *)
(* listed nobody lists any more.                                           *)
LEMMA StartRemoveKeeps ==
  ASSUME DriverInv, NEW t \in Threads, StartRemove(t) PROVE DriverInv'
<1>1. ready /\ ~swapped /\ inside = {} /\ UNCHANGED <<ready, slots, swapped>> /\ Stay(t)
  BY DEF StartRemove, Alone
<1>2. PICK id \in Names \cup Range(SystemParts) : \E s \in Find(id) :
       /\ Removable(id) /\ disk' = [disk EXCEPT ![s].subs = <<>>]
       /\ op' = [do |-> "delete", subs |-> disk[s].subs, main |-> {s}]
  BY DEF StartRemove
<1>3. PICK s \in Find(id) :
        /\ Removable(id) /\ disk' = [disk EXCEPT ![s].subs = <<>>]
        /\ op' = [do |-> "delete", subs |-> disk[s].subs, main |-> {s}]
  BY <1>2
<1> DEFINE old == disk[s].subs
           q == <<>>
<1>4. s \in Mains /\ s \in DOMAIN disk /\ disk[s].id = id /\ s \in Nat /\ disk[s] \in HeaderType
  <2>1. s \in Mains /\ s \in DOMAIN disk /\ disk[s].id = id
    BY DEF Find, Mains
  <2> QED  BY <1>1, <2>1, ReadyDisk DEF DriverInv
<1>5. old \in Seq(SubRef)
  BY <1>4 DEF HeaderType
<1>6. PICK subs \in Seq(SubRef) : subs = old
  BY <1>5
<1>7. q \in Seq(SubRef) /\ Len(q) <= MaxSub /\ DOMAIN q = {} /\ disk' = [disk EXCEPT ![s].subs = q]
  BY <1>3, SizesType
<1>8. \A i \in Files : slots[i].start # s
  <2> SUFFICES ASSUME NEW i \in Files, slots[i].start = s PROVE FALSE
    OBVIOUS
  <2>1. slots[i].id = id
    BY <1>1, <1>4, FileIs
  <2> QED  BY <1>3, <2>1 DEF Removable, IsOpen, Files
<1> HIDE DEF old, q
<1>9. /\ DiskInv' /\ NamesUnique' /\ Mains' = Mains /\ DOMAIN disk' = DOMAIN disk
      /\ disk'[s].subs = q /\ \A u \in DOMAIN disk : u # s => disk'[u].subs = disk[u].subs
      /\ \A u \in DOMAIN disk :
           /\ disk'[u].kind = disk[u].kind /\ disk'[u].len = disk[u].len
           /\ disk'[u].main = disk[u].main /\ disk'[u].id = disk[u].id
  BY <1>1, <1>4, <1>7, SubsOnDisk DEF DriverInv
<1>10. ListedSubsExist'
  <2>1. ListedSubsExist
    BY DEF DriverInv
  <2> QED  BY <1>4, <1>7, <1>9, <2>1, ShorterList
<1>11. SlotInv' /\ Files' = Files /\ Walk'
  BY <1>1, <1>9, SlotsKept, WalkKept DEF DriverInv
<1>12. Agree'
  <2>1. ASSUME NEW i \in Files
        PROVE  LET m == slots[i].start IN
               m \in Mains => /\ m \in Mains' /\ disk'[m].id = disk[m].id
                              /\ disk'[m].len = disk[m].len /\ disk'[m].subs = disk[m].subs
    BY <1>8, <1>9 DEF Mains
  <2> QED  BY <1>1, <2>1, AgreeKept DEF DriverInv
<1>13. Deletable(subs)'
  <2>1. \A k \in DOMAIN subs : /\ subs[k].start \in DOMAIN disk /\ disk[subs[k].start].kind = "sub"
                              /\ disk[subs[k].start].main = s
    BY <1>4, <1>6 DEF DriverInv, ListedSubsExist, old
  <2>2. ASSUME NEW k \in DOMAIN subs PROVE Unlisted(subs[k].start)'
    <3> SUFFICES ASSUME NEW m \in Mains, NEW j \in DOMAIN disk'[m].subs,
                        disk'[m].subs[j].start = subs[k].start
                 PROVE  FALSE
      BY <1>9 DEF Unlisted
    <3>1. m # s
      BY <1>7, <1>9
    <3>2. disk'[m].subs = disk[m].subs
      BY <1>9, <3>1 DEF Mains
    <3>3. DiskInv /\ ListedSubsExist
      BY DEF DriverInv
    <3>4. m = s
      BY <1>1, <1>4, <1>6, <3>2, <3>3, OneOwner DEF old
    <3> QED  BY <3>1, <3>4
  <2>3. ASSUME NEW k \in DOMAIN subs, NEW j \in DOMAIN subs, subs[j].start = subs[k].start PROVE j = k
    <3>1. DiskInv /\ ListedSubsExist
      BY DEF DriverInv
    <3> QED  BY <1>1, <1>4, <1>6, <2>3, <3>1, OneOwner DEF old
  <2> QED  BY <1>9, <2>1, <2>2, <2>3 DEF Deletable, Unlisted
<1>14. SemaInv' /\ inside' # {}
  BY <1>1, StayIs DEF DriverInv
<1>15. OpInv'
  <2>1. /\ op' \in [do : {"delete"}, subs : Seq(SubRef), main : SUBSET Nat]
        /\ op'.do = "delete" /\ op'.subs = subs /\ op'.main = {s}
    BY <1>3, <1>4, <1>6 DEF old
  <2>2. \A u \in op'.main : /\ u \in Mains' /\ disk'[u].subs = <<>>
                            /\ \A i \in Files' : slots'[i].start # u
    BY <1>1, <1>4, <1>8, <1>9, <1>11, <2>1 DEF q
  <2> QED  BY <1>1, <1>13, <1>14, <2>1, <2>2 DEF OpInv, None
<1> QED  BY <1>1, <1>9, <1>10, <1>11, <1>12, <1>14, <1>15 DEF DriverInv

(* Names change, and nothing else. *)
LEMMA NamesOnDisk ==
  ASSUME DiskInv, ListedSubsExist, ready, ready', DOMAIN disk' = DOMAIN disk,
         disk' = [t \in DOMAIN disk' |-> disk'[t]],
         \A t \in DOMAIN disk :
           /\ disk'[t] \in HeaderType
           /\ disk'[t].kind = disk[t].kind /\ disk'[t].len = disk[t].len
           /\ disk'[t].main = disk[t].main /\ disk'[t].subs = disk[t].subs
           /\ disk'[t].next = disk[t].next /\ disk'[t].prev = disk[t].prev
  PROVE  DiskInv' /\ ListedSubsExist' /\ Mains' = Mains
<1>1. Laid(disk) /\ Linked(disk)
  BY ReadyDisk
<1>2. Laid(disk') /\ Linked(disk')
  BY <1>1, LinkedAlike
<1>3. disk' \in [DOMAIN disk' -> HeaderType]
  <2>1. \A t \in DOMAIN disk' : disk'[t] \in HeaderType
    OBVIOUS
  <2> QED  BY <2>1
<1>4. \A t \in DOMAIN disk' : Len(disk'[t].subs) <= MaxSub /\ (disk'[t].kind = "mbr" <=> t = 0)
  BY DEF DiskInv
<1>5. DiskInv'
  BY <1>2, <1>3, <1>4, WholeDisk DEF Whole
<1>6. Mains' = Mains
  BY DEF Mains
<1>7. ListedSubsExist'
  <2> SUFFICES ASSUME NEW m \in Mains, NEW k \in DOMAIN disk'[m].subs
               PROVE  LET sub == disk'[m].subs[k] IN
                      /\ sub.start \in DOMAIN disk /\ disk'[sub.start].kind = "sub"
                      /\ disk'[sub.start].main = m /\ disk'[sub.start].len = sub.len
                      /\ \A j \in DOMAIN disk'[m].subs : disk'[m].subs[j] = sub => j = k
    BY <1>6 DEF ListedSubsExist
  <2>1. disk'[m].subs = disk[m].subs
    BY DEF Mains
  <2> DEFINE sub == disk'[m].subs[k]
             x == sub.start
  <2>2. /\ x \in DOMAIN disk /\ disk[x].kind = "sub" /\ disk[x].main = m
        /\ disk[x].len = sub.len /\ \A j \in DOMAIN disk'[m].subs : disk'[m].subs[j] = sub => j = k
    BY <2>1 DEF ListedSubsExist
  <2> HIDE DEF x, sub
  <2>3. disk'[x].kind = "sub" /\ disk'[x].main = m /\ disk'[x].len = sub.len
    BY <2>2
  <2>4. /\ x \in DOMAIN disk /\ disk'[x].kind = "sub" /\ disk'[x].main = m
        /\ disk'[x].len = sub.len /\ \A j \in DOMAIN disk'[m].subs : disk'[m].subs[j] = sub => j = k
    BY <2>2, <2>3
  <2> QED  BY SMTT(20), <2>4 DEF x, sub
<1> QED  BY <1>5, <1>6, <1>7

(* hddReName: the new name is not taken, and the old one is not open.      *)
LEMMA RenameKeeps == ASSUME DriverInv, Rename PROVE DriverInv'
<1>1. ready /\ ~swapped /\ op = None /\ inside = {} /\ UNCHANGED <<ready, slots, op, locks, swapped>>
  BY DEF Rename, Alone
<1>2. PICK old \in Names \cup Range(SystemParts), new \in Names, secret \in BOOLEAN :
        \E s \in Find(old) :
          Renamable(old, new)
          /\ disk' = [disk EXCEPT ![s].id = new, ![s].locked = secret]
  BY DEF Rename
<1>3. PICK s \in Find(old) :
        Renamable(old, new) /\ disk' = [disk EXCEPT ![s].id = new, ![s].locked = secret]
  BY <1>2
<1>4. s \in Mains /\ s \in DOMAIN disk /\ disk[s].id = old
  BY DEF Find, Mains
<1>5. \A t \in DOMAIN disk : disk[t] \in HeaderType
  BY <1>1, ReadyDisk DEF DriverInv
<1> DEFINE h == disk[s]
           g == [h EXCEPT !.id = new, !.locked = secret]
<1>6. /\ DOMAIN disk' = DOMAIN disk /\ disk'[s] = g
      /\ \A t \in DOMAIN disk : t # s => disk'[t] = disk[t]
      /\ disk' = [t \in DOMAIN disk' |-> disk'[t]]
  <2>1. disk = [t \in DOMAIN disk |-> disk[t]]
    BY DEF DriverInv, DiskInv
  <2> QED  BY <1>3, <1>4, <2>1
<1>7. h \in HeaderType /\ new \in AnyName
  BY <1>4, <1>5, NamesAre
<1> HIDE DEF h
<1>8. /\ g \in HeaderType /\ g.id = new /\ g.kind = h.kind /\ g.len = h.len
      /\ g.main = h.main /\ g.subs = h.subs /\ g.next = h.next /\ g.prev = h.prev
  BY ONLY <1>7 DEF HeaderType
<1> HIDE DEF g
<1>9. /\ \A t \in DOMAIN disk :
           /\ disk'[t] \in HeaderType
           /\ disk'[t].kind = disk[t].kind /\ disk'[t].len = disk[t].len
           /\ disk'[t].main = disk[t].main /\ disk'[t].subs = disk[t].subs
           /\ disk'[t].next = disk[t].next /\ disk'[t].prev = disk[t].prev
           /\ t # s => disk'[t].id = disk[t].id
      /\ disk'[s].id = new
  BY <1>5, <1>6, <1>8 DEF h
<1>10. DiskInv' /\ ListedSubsExist' /\ Mains' = Mains
  BY <1>1, <1>6, <1>9, NamesOnDisk DEF DriverInv
<1>11. \A t \in Mains : disk[t].id # new
  BY <1>3 DEF Renamable, Find
<1>12. NamesUnique'
  <2> SUFFICES ASSUME NEW t \in Mains, NEW u \in Mains, disk'[t].id = disk'[u].id PROVE t = u
    BY <1>10 DEF NamesUnique
  <2>1. t \in DOMAIN disk /\ u \in DOMAIN disk
    BY DEF Mains
  <2> QED  BY <1>9, <1>11, <2>1 DEF DriverInv, NamesUnique
<1>13. \A i \in Files : slots[i].start # s
  <2> SUFFICES ASSUME NEW i \in Files, slots[i].start = s PROVE FALSE
    OBVIOUS
  <2>1. slots[i].id = old
    BY <1>1, <1>4, FileIs
  <2> QED  BY <1>3, <2>1 DEF Renamable, IsOpen, Files
<1>14. SlotInv' /\ Walk'
  BY <1>1, <1>10, SlotsKept, WalkKept DEF DriverInv
<1>15. Agree'
  <2>1. ASSUME NEW i \in Files
        PROVE  LET m == slots[i].start IN
               m \in Mains => /\ m \in Mains' /\ disk'[m].id = disk[m].id
                              /\ disk'[m].len = disk[m].len /\ disk'[m].subs = disk[m].subs
    BY <1>9, <1>10, <1>13 DEF Mains
  <2> QED  BY <1>1, <2>1, AgreeKept DEF DriverInv
<1>16. SemaInv' /\ OpInv'
  BY <1>1, SemaKept, NoneIs DEF DriverInv, locks
<1> QED  BY <1>1, <1>10, <1>12, <1>14, <1>15, <1>16 DEF DriverInv

(* devctlSwapTemp: two names are exchanged, so none is there twice; a      *)
(* slot that had one of them open does not agree any more.                 *)
LEMMA SwapTempKeeps == ASSUME DriverInv, SwapTemp PROVE DriverInv'
<1>1. ready /\ ~swapped /\ op = None /\ inside = {} /\ UNCHANGED <<ready, slots, op, locks>>
  BY SMTT(20) DEF SwapTemp, Alone
<1>2. PICK id \in Names \ {Temp} : \E s \in Find(id), temp \in Find(Temp) :
        /\ disk' = [disk EXCEPT ![temp].id = id, ![temp].locked = disk[s].locked,
                                ![s].id = Temp, ![s].locked = FALSE]
        /\ swapped' = (swapped \/ IsOpen(id) \/ IsOpen(Temp))
  BY DEF SwapTemp
<1>3. PICK s \in Find(id), temp \in Find(Temp) :
        /\ disk' = [disk EXCEPT ![temp].id = id, ![temp].locked = disk[s].locked,
                                ![s].id = Temp, ![s].locked = FALSE]
        /\ swapped' = (swapped \/ IsOpen(id) \/ IsOpen(Temp))
  BY <1>2
<1>4. /\ s \in Mains /\ s \in DOMAIN disk /\ disk[s].id = id
      /\ temp \in Mains /\ temp \in DOMAIN disk /\ disk[temp].id = Temp
      /\ s # temp
  BY DEF Find, Mains
<1>5. \A t \in DOMAIN disk : disk[t] \in HeaderType
  BY <1>1, ReadyDisk DEF DriverInv
<1> DEFINE hs == disk[s]
           ht == disk[temp]
           ls == disk[s].locked
           gs == [hs EXCEPT !.id = Temp, !.locked = FALSE]
           gt == [ht EXCEPT !.id = id, !.locked = ls]
<1>6. /\ DOMAIN disk' = DOMAIN disk /\ disk'[s] = gs /\ disk'[temp] = gt
      /\ \A t \in DOMAIN disk : t # s /\ t # temp => disk'[t] = disk[t]
      /\ disk' = [t \in DOMAIN disk' |-> disk'[t]]
  <2>1. disk = [t \in DOMAIN disk |-> disk[t]]
    BY DEF DriverInv, DiskInv
  <2> QED  BY <1>3, <1>4, <2>1
<1>7. hs \in HeaderType /\ ht \in HeaderType /\ Temp \in AnyName /\ id \in AnyName
  BY <1>4, <1>5, NamesAre, ApaAssumption DEF ApaAssumption
<1>8. ls \in BOOLEAN
  BY <1>7 DEF HeaderType
<1> HIDE DEF hs, ht, ls
<1>9. /\ gs \in HeaderType /\ gs.id = Temp /\ gs.kind = hs.kind /\ gs.len = hs.len
      /\ gs.main = hs.main /\ gs.subs = hs.subs /\ gs.next = hs.next /\ gs.prev = hs.prev
  BY ONLY <1>7 DEF HeaderType
<1>10. /\ gt \in HeaderType /\ gt.id = id /\ gt.kind = ht.kind /\ gt.len = ht.len
       /\ gt.main = ht.main /\ gt.subs = ht.subs /\ gt.next = ht.next /\ gt.prev = ht.prev
  BY ONLY <1>7, <1>8 DEF HeaderType
<1> HIDE DEF gs, gt
<1>11. /\ \A t \in DOMAIN disk :
            /\ disk'[t] \in HeaderType
            /\ disk'[t].kind = disk[t].kind /\ disk'[t].len = disk[t].len
            /\ disk'[t].main = disk[t].main /\ disk'[t].subs = disk[t].subs
            /\ disk'[t].next = disk[t].next /\ disk'[t].prev = disk[t].prev
            /\ t # s /\ t # temp => disk'[t].id = disk[t].id
       /\ disk'[s].id = Temp /\ disk'[temp].id = id
  BY <1>5, <1>6, <1>9, <1>10 DEF hs, ht
<1>12. DiskInv' /\ ListedSubsExist' /\ Mains' = Mains
  BY <1>1, <1>6, <1>11, NamesOnDisk DEF DriverInv
<1>13. \A t \in Mains : (disk[t].id = id => t = s) /\ (disk[t].id = Temp => t = temp)
  BY <1>4 DEF DriverInv, NamesUnique
<1>14. NamesUnique'
  <2> SUFFICES ASSUME NEW t \in Mains, NEW u \in Mains, disk'[t].id = disk'[u].id PROVE t = u
    BY <1>12 DEF NamesUnique
  <2>1. t \in DOMAIN disk /\ u \in DOMAIN disk
    BY DEF Mains
  <2>2. id # Temp
    OBVIOUS
  <2> QED  BY <1>11, <1>13, <2>1, <2>2 DEF DriverInv, NamesUnique
<1>15. SlotInv' /\ Files' = Files /\ Walk'
  BY <1>1, <1>12, SlotsKept, WalkKept DEF DriverInv
<1>16. swapped' \in BOOLEAN
  BY Zenon, <1>3
<1>17. Agree'
  <2> SUFFICES ASSUME ~swapped' PROVE Agree'
    BY DEF Agree
  <2>1. ~IsOpen(id) /\ ~IsOpen(Temp)
    BY Zenon, <1>3
  <2>2. swapped \in BOOLEAN /\ swapped' \in BOOLEAN
    BY <1>16 DEF DriverInv
  <2>3. swapped' = swapped
    BY ONLY <1>1, <2>2, ~swapped'
  <2>4. ~IsOpen(id) /\ ~IsOpen(Temp) /\ UNCHANGED <<slots, swapped>>
    BY <1>1, <2>1, <2>3
  <2>5. ASSUME NEW i \in Files
        PROVE  LET m == slots[i].start IN
               m \in Mains => /\ m \in Mains' /\ disk'[m].id = disk[m].id
                              /\ disk'[m].len = disk[m].len /\ disk'[m].subs = disk[m].subs
    <3>1. slots[i].id # id /\ slots[i].id # Temp
      BY <2>4 DEF IsOpen, Files
    <3>2. slots[i].start # s /\ slots[i].start # temp
      BY <1>1, <1>4, <3>1, FileIs
    <3> QED  BY <1>11, <1>12, <3>2 DEF Mains
  <2> QED  BY <2>4, <2>5, AgreeKept DEF DriverInv
<1>18. SemaInv' /\ OpInv'
  BY <1>1, SemaKept, NoneIs DEF DriverInv, locks
<1> QED  BY <1>1, <1>12, <1>14, <1>15, <1>17, <1>18, <1>16 DEF DriverInv

(* Slots that only walks have changed. *)
LEMMA SlotsAlike ==
  ASSUME SlotInv, ready', slots' \in [1 .. MaxOpen -> SlotType],
         \A j \in DOMAIN slots :
           IF slots'[j].used /\ slots'[j].dir
           THEN j \notin Files
           ELSE /\ slots'[j].used = slots[j].used /\ slots'[j].dir = slots[j].dir
                /\ slots'[j].id = slots[j].id /\ slots'[j].start = slots[j].start
  PROVE  SlotInv' /\ Files' = Files
<1>1. /\ \A j \in DOMAIN slots :
           ~slots[j].used => ~slots[j].dir /\ (slots[j].id = "" => slots[j].start = 0)
      /\ \A j, k \in Files : slots[j].id = slots[k].id => j = k
      /\ DOMAIN slots' = DOMAIN slots
  BY DEF SlotInv
<1>2. Files' = Files
  <2>1. ASSUME NEW j PROVE j \in Files' <=> j \in Files
    <3>1. j \in Files' <=> j \in DOMAIN slots /\ slots'[j].used /\ ~slots'[j].dir
      BY <1>1 DEF Files
    <3>2. j \in Files <=> j \in DOMAIN slots /\ slots[j].used /\ ~slots[j].dir
      BY DEF Files
    <3> QED  BY <3>1, <3>2
  <2> QED  BY <2>1
<1>3. \A j \in Files' : j \in Files /\ slots'[j].id = slots[j].id
  <2> SUFFICES ASSUME NEW j \in Files' PROVE j \in Files /\ slots'[j].id = slots[j].id
    OBVIOUS
  <2>1. j \in DOMAIN slots /\ slots'[j].used /\ ~slots'[j].dir
    BY <1>1 DEF Files
  <2> QED  BY <1>2, <2>1
<1>4. \A j \in DOMAIN slots' :
        ~slots'[j].used => ~slots'[j].dir /\ (slots'[j].id = "" => slots'[j].start = 0)
  <2> SUFFICES ASSUME NEW j \in DOMAIN slots, ~slots'[j].used
               PROVE  ~slots'[j].dir /\ (slots'[j].id = "" => slots'[j].start = 0)
    BY <1>1
  <2>1. /\ slots'[j].used = slots[j].used /\ slots'[j].dir = slots[j].dir
        /\ slots'[j].id = slots[j].id /\ slots'[j].start = slots[j].start
    OBVIOUS
  <2> QED  BY <1>1, <2>1
<1>5. \A j, k \in Files' : slots'[j].id = slots'[k].id => j = k
  <2> SUFFICES ASSUME NEW j \in Files', NEW k \in Files', slots'[j].id = slots'[k].id PROVE j = k
    OBVIOUS
  <2>1. j \in Files /\ k \in Files /\ slots[j].id = slots[k].id
    BY <1>3
  <2> QED  BY <1>1, <2>1
<1>6. SlotInv'
  BY <1>4, <1>5 DEF SlotInv
<1> QED  BY <1>2, <1>6

(* The main partition is given back last: it lists nothing, nobody has it  *)
(* open, and a directory does not wait for it.                             *)
LEMMA DeleteMainKeeps == ASSUME DriverInv, DeleteMain PROVE DriverInv'
<1>1. op.do = "delete" /\ UNCHANGED <<ready, swapped>> /\ Leave
  BY DEF DeleteMain, Working
<1>2. /\ ready /\ ~swapped
      /\ \A s \in op.main : /\ s \in Mains /\ disk[s].subs = <<>>
                            /\ \A i \in Files : slots[i].start # s
  BY <1>1 DEF DriverInv, OpInv
<1>3. PICK s \in op.main :
        /\ disk' = Deleted(disk, s)
        /\ slots' = [i \in DOMAIN slots |-> [slots[i] EXCEPT !.unseen = slots[i].unseen \ {s}]]
  BY DEF DeleteMain
<1>4. s \in DOMAIN disk /\ s # 0 /\ disk[s].kind = "main" /\ \A i \in Files : slots[i].start # s
  BY <1>2, ReadyDisk DEF DriverInv, Mains
<1>5. Unlisted(s)
  BY <1>4 DEF Unlisted, DriverInv, ListedSubsExist
<1>6. /\ DiskInv' /\ ListedSubsExist' /\ NamesUnique' /\ Mains' = Mains \ {s}
      /\ \A t \in DOMAIN disk : t # s /\ disk[t].kind # "free" =>
           t \in DOMAIN disk' /\ Same(disk'[t], disk[t])
  BY <1>1, <1>2, <1>3, <1>4, <1>5, Shrinks DEF DriverInv
<1>7. slots \in [1 .. MaxOpen -> SlotType]
  BY DEF DriverInv, SlotInv
<1>8. ASSUME NEW i \in DOMAIN slots
      PROVE  /\ slots'[i] \in SlotType /\ slots'[i].unseen = slots[i].unseen \ {s}
             /\ slots'[i].used = slots[i].used /\ slots'[i].dir = slots[i].dir
             /\ slots'[i].id = slots[i].id /\ slots'[i].start = slots[i].start
             /\ slots'[i].len = slots[i].len /\ slots'[i].subs = slots[i].subs
  <2> DEFINE h == slots[i]
             g == slots'[i]
             r == slots[i].unseen \ {s}
  <2>1. g = [h EXCEPT !.unseen = r] /\ h \in SlotType
    BY <1>3, <1>7
  <2>2. r \in SUBSET Nat
    BY <2>1 DEF SlotType
  <2> HIDE DEF h, g, r
  <2>3. /\ g \in SlotType /\ g.unseen = r /\ g.used = h.used /\ g.dir = h.dir
        /\ g.id = h.id /\ g.start = h.start /\ g.len = h.len /\ g.subs = h.subs
    BY ONLY <2>1, <2>2 DEF SlotType
  <2> QED  BY <2>3 DEF h, g, r
<1>9. DOMAIN slots' = DOMAIN slots /\ slots' \in [1 .. MaxOpen -> SlotType]
  BY <1>3, <1>7, <1>8
<1>10. SlotInv' /\ Files' = Files
  <2>1. SlotInv /\ ready'
    BY <1>1, <1>2 DEF DriverInv
  <2>2. \A j \in DOMAIN slots : slots'[j].used /\ slots'[j].dir => j \notin Files
    BY <1>8 DEF Files
  <2> QED  BY <1>8, <1>9, <2>1, <2>2, SlotsAlike
<1>11. Walk'
  <2> SUFFICES ASSUME NEW j \in DOMAIN slots, slots'[j].dir
               PROVE  /\ slots'[j].unseen \subseteq Mains'
                      /\ slots'[j].id = "" =>
                           IF slots'[j].start = End THEN slots'[j].unseen = {}
                           ELSE \A u \in slots'[j].unseen : slots'[j].start <= u
    BY <1>9 DEF Walk
  <2>1. /\ slots[j].unseen \subseteq Mains
        /\ slots[j].id = "" =>
             IF slots[j].start = End THEN slots[j].unseen = {}
             ELSE \A u \in slots[j].unseen : slots[j].start <= u
    BY <1>8 DEF DriverInv, Walk
  <2> QED  BY <1>6, <1>8, <2>1
<1>12. Agree'
  <2> SUFFICES ASSUME NEW j \in Files
               PROVE  /\ slots'[j].start \in Mains' /\ disk'[slots'[j].start].id = slots'[j].id
                      /\ slots'[j].len = disk'[slots'[j].start].len
                      /\ slots'[j].subs = disk'[slots'[j].start].subs
    BY <1>10 DEF Agree, Find
  <2> DEFINE m == slots[j].start
  <2>1. /\ j \in DOMAIN slots /\ m \in Mains /\ m \in DOMAIN disk /\ disk[m].kind = "main"
        /\ disk[m].id = slots[j].id /\ disk[m].subs = slots[j].subs /\ m # s
    BY <1>2, <1>4, FileIs
  <2>2. slots[j].len = disk[m].len
    BY <1>2 DEF DriverInv, Agree
  <2>3. Same(disk'[m], disk[m]) /\ m \in Mains'
    BY <1>6, <2>1
  <2> QED  BY <1>8, <2>1, <2>2, <2>3 DEF Same
<1>13. SemaInv' /\ OpInv'
  BY <1>1, LeaveIs DEF DriverInv
<1> QED  BY <1>1, <1>2, <1>6, <1>10, <1>11, <1>12, <1>13 DEF DriverInv

(* hddDopen: the slot has no place yet, or a name that a failed open       *)
(* left.                                                                   *)
LEMMA DirOpenKeeps == ASSUME DriverInv, DirOpen PROVE DriverInv'
<1>1. ready /\ op = None /\ inside = {} /\ UNCHANGED <<disk, ready, op, locks, swapped>>
  BY DEF DirOpen, Alone
<1>2. DiskInv' /\ ListedSubsExist' /\ NamesUnique'
  BY <1>1, DiskKept DEF DriverInv
<1>3. /\ slots \in [1 .. MaxOpen -> SlotType]
      /\ \A j \in DOMAIN slots :
           ~slots[j].used => ~slots[j].dir /\ (slots[j].id = "" => slots[j].start = 0)
  BY DEF DriverInv, SlotInv
<1>4. PICK i \in FreeSlots :
        slots' = [slots EXCEPT ![i].used = TRUE, ![i].dir = TRUE, ![i].unseen = Mains]
  <2>1. FreeSlots # {} /\ slots' = [slots EXCEPT ![Min(FreeSlots)].used = TRUE,
                                  ![Min(FreeSlots)].dir = TRUE, ![Min(FreeSlots)].unseen = Mains]
    BY DEF DirOpen
  <2>2. FreeSlots \in SUBSET Nat
    <3>1. DOMAIN slots = 1 .. MaxOpen
      BY <1>3
    <3> QED  BY <3>1, SizesType DEF FreeSlots
  <2>3. Min(FreeSlots) \in FreeSlots
    BY ONLY <2>1, <2>2, MinOf
  <2> QED  BY <2>1, <2>3
<1>5. i \in DOMAIN slots /\ ~slots[i].used
  BY DEF FreeSlots
<1>6. \A s \in Mains : s \in DOMAIN disk /\ s \in Nat
  BY <1>1, ReadyDisk DEF DriverInv, Mains
<1> DEFINE h == slots[i]
           g == [h EXCEPT !.used = TRUE, !.dir = TRUE, !.unseen = Mains]
<1>7. /\ DOMAIN slots' = DOMAIN slots /\ slots'[i] = g
      /\ \A j \in DOMAIN slots : j # i => slots'[j] = slots[j]
  BY <1>3, <1>4, <1>5
<1>8. h \in SlotType /\ Mains \in SUBSET Nat /\ (h.id = "" => h.start = 0)
  BY <1>3, <1>5, <1>6
<1> HIDE DEF h
<1>9. /\ g \in SlotType /\ g.used /\ g.dir /\ g.unseen = Mains /\ g.id = h.id /\ g.start = h.start
  BY ONLY <1>8 DEF SlotType
<1> HIDE DEF g
<1>10. slots' \in [1 .. MaxOpen -> SlotType]
  <2>1. \A j \in DOMAIN slots : slots'[j] \in SlotType
    BY <1>3, <1>7, <1>9
  <2>2. slots' = [j \in DOMAIN slots |-> slots'[j]]
    BY <1>4, <1>3
  <2> QED  BY ONLY <1>3, <1>7, <2>1, <2>2
<1>11. SlotInv' /\ Files' = Files
  <2>1. SlotInv /\ ready'
    BY <1>1 DEF DriverInv
  <2>2. ASSUME NEW j \in DOMAIN slots
        PROVE  IF slots'[j].used /\ slots'[j].dir
               THEN j \notin Files
               ELSE /\ slots'[j].used = slots[j].used /\ slots'[j].dir = slots[j].dir
                    /\ slots'[j].id = slots[j].id /\ slots'[j].start = slots[j].start
    <3>1. CASE j = i
      BY <1>5, <1>7, <1>9, <3>1 DEF Files
    <3>2. CASE j # i
      BY <1>7, <3>2 DEF Files
    <3> QED  BY <3>1, <3>2
  <2> QED  BY <1>10, <2>1, <2>2, SlotsAlike
<1>12. Mains' = Mains
  BY <1>1 DEF Mains
<1>13. Walk'
  <2> SUFFICES ASSUME NEW j \in DOMAIN slots, slots'[j].dir
               PROVE  /\ slots'[j].unseen \subseteq Mains
                      /\ slots'[j].id = "" =>
                           IF slots'[j].start = End THEN slots'[j].unseen = {}
                           ELSE \A u \in slots'[j].unseen : slots'[j].start <= u
    BY <1>7, <1>12 DEF Walk
  <2>1. CASE j = i
    <3>1. slots'[j].unseen = Mains
      BY <1>7, <1>9, <2>1
    <3>2. slots'[j].id = "" => slots'[j].start = 0
      BY <1>7, <1>8, <1>9, <2>1
    <3>3. slots'[j].id = "" => slots'[j].start # End /\ \A u \in Mains : slots'[j].start <= u
      <4>1. 0 # End /\ \A u \in Mains : 0 <= u
        BY <1>6 DEF End
      <4> QED  BY <3>2, <4>1
    <3> QED  BY <3>1, <3>3
  <2>2. CASE j # i
    BY <1>7, <2>2 DEF DriverInv, Walk
  <2> QED  BY <2>1, <2>2
<1>14. Agree'
  <2>1. \A j \in Files : slots'[j] = slots[j]
    BY <1>5, <1>7 DEF Files
  <2>2. \A id : Find(id)' = Find(id)
    BY <1>1, <1>12 DEF Find
  <2> QED  BY <1>1, <1>11, <2>1, <2>2 DEF DriverInv, Agree
<1>15. SemaInv' /\ OpInv'
  BY <1>1, SemaKept, NoneIs DEF DriverInv, locks
<1> QED  BY <1>1, <1>2, <1>11, <1>13, <1>14, <1>15 DEF DriverInv

(* hddDread: no main partition lies between the one that is answered and   *)
(* the next place.                                                         *)
LEMMA DirReadKeeps == ASSUME DriverInv, DirRead PROVE DriverInv'
<1>1. ready /\ op = None /\ inside = {} /\ UNCHANGED <<disk, ready, op, locks, swapped>>
  BY DEF DirRead, Alone
<1>2. DiskInv' /\ ListedSubsExist' /\ NamesUnique'
  BY <1>1, DiskKept DEF DriverInv
<1>3. slots \in [1 .. MaxOpen -> SlotType]
  BY DEF DriverInv, SlotInv
<1>4. PICK i \in DOMAIN slots :
        /\ slots[i].used /\ slots[i].dir /\ slots[i].start \in DOMAIN disk
        /\ slots' = [slots EXCEPT ![i].unseen = slots[i].unseen \ {slots[i].start},
                                  ![i].start = DirNext(slots[i].start)]
  BY DEF DirRead
<1> DEFINE s == slots[i].start
           h == slots[i]
           r == slots[i].unseen \ {s}
           n == DirNext(s)
           g == [h EXCEPT !.unseen = r, !.start = n]
<1>5. Laid(disk) /\ Linked(disk) /\ \A t \in DOMAIN disk : t \in Nat /\ t < Total
  BY <1>1, ReadyDisk DEF DriverInv
<1>6. s \in DOMAIN disk /\ s \in Nat
  BY <1>4, <1>5
<1>7. n \in -1 .. Total /\ IF n = End THEN \A t \in DOMAIN disk : t <= s
                           ELSE \A t \in DOMAIN disk : s < t => n <= t
  <2>1. CASE disk[s].next = 0
    <3>1. n = End /\ \A t \in DOMAIN disk : t <= s
      BY <1>5, <1>6, <2>1 DEF DirNext, Linked
    <3> QED  BY <3>1, SizesType DEF End
  <2>2. CASE disk[s].next # 0
    <3>1. n = s + disk[s].len /\ n \in DOMAIN disk
      BY <1>5, <1>6, <2>2 DEF DirNext, Linked
    <3> HIDE DEF n, s
    <3>2. \A t \in DOMAIN disk : s < t => n <= t
      BY <1>5, <1>6, <3>1, LaidBlock
    <3>3. n \in Nat /\ n < Total
      BY <1>5, <3>1
    <3> QED  BY <3>2, <3>3, SizesType DEF End
  <2> QED  BY <2>1, <2>2
<1>8. /\ DOMAIN slots' = DOMAIN slots /\ slots'[i] = g
      /\ \A j \in DOMAIN slots : j # i => slots'[j] = slots[j]
  BY <1>3, <1>4
<1>9. h \in SlotType /\ h.used /\ h.dir
  BY <1>3, <1>4
<1>10. r \in SUBSET Nat
  BY <1>9 DEF SlotType
<1>11. n \in -1 .. Total
  BY <1>7
<1> HIDE DEF h, r, n
<1>12. /\ g \in SlotType /\ g.used /\ g.dir /\ g.unseen = r /\ g.id = h.id /\ g.start = n
  BY ONLY <1>9, <1>10, <1>11 DEF SlotType
<1> HIDE DEF g
<1>13. slots' \in [1 .. MaxOpen -> SlotType]
  <2>1. \A j \in DOMAIN slots : slots'[j] \in SlotType
    BY <1>3, <1>8, <1>12
  <2>2. slots' = [j \in DOMAIN slots |-> slots'[j]]
    BY <1>3, <1>4
  <2> QED  BY ONLY <1>3, <1>8, <2>1, <2>2
<1>14. SlotInv' /\ Files' = Files
  <2>1. SlotInv /\ ready'
    BY <1>1 DEF DriverInv
  <2>2. ASSUME NEW j \in DOMAIN slots
        PROVE  IF slots'[j].used /\ slots'[j].dir
               THEN j \notin Files
               ELSE /\ slots'[j].used = slots[j].used /\ slots'[j].dir = slots[j].dir
                    /\ slots'[j].id = slots[j].id /\ slots'[j].start = slots[j].start
    <3>1. CASE j = i
      BY <1>4, <1>8, <1>12, <3>1 DEF Files
    <3>2. CASE j # i
      BY <1>8, <3>2 DEF Files
    <3> QED  BY <3>1, <3>2
  <2> QED  BY <1>13, <2>1, <2>2, SlotsAlike
<1>15. Mains' = Mains
  BY <1>1 DEF Mains
<1>16. Walk'
  <2> SUFFICES ASSUME NEW j \in DOMAIN slots, slots'[j].dir
               PROVE  /\ slots'[j].unseen \subseteq Mains
                      /\ slots'[j].id = "" =>
                           IF slots'[j].start = End THEN slots'[j].unseen = {}
                           ELSE \A u \in slots'[j].unseen : slots'[j].start <= u
    BY <1>8, <1>15 DEF Walk
  <2>1. CASE j = i
    <3>1. /\ slots[i].unseen \subseteq Mains
          /\ slots[i].id = "" => s = End \/ \A u \in slots[i].unseen : s <= u
      BY <1>4 DEF DriverInv, Walk
    <3>2. s # End
      BY <1>6 DEF End
    <3>3. slots'[j].unseen = r /\ slots'[j].id = slots[i].id /\ slots'[j].start = n
      BY <1>8, <1>12, <2>1 DEF h
    <3>4. \A u : u \in r <=> u \in slots[i].unseen /\ u # s
      BY DEF r
    <3>5. r \subseteq Mains /\ \A u \in r : u \in DOMAIN disk /\ u \in Nat
      BY <1>5, <3>1, <3>4 DEF Mains
    <3> HIDE DEF s
    <3>6. ASSUME slots[i].id = "" PROVE IF n = End THEN r = {} ELSE \A u \in r : n <= u
      <4>1. \A u \in r : s < u
        <5> SUFFICES ASSUME NEW u \in r PROVE s < u
          OBVIOUS
        <5>1. u \in slots[i].unseen /\ u # s /\ u \in Nat
          BY <3>4, <3>5
        <5>2. \A v \in slots[i].unseen : s <= v
          BY ONLY <3>1, <3>2, <3>6
        <5>3. s <= u
          BY <5>1, <5>2
        <5> QED  BY <1>6, <5>1, <5>3
      <4>2. CASE n = End
        <5>1. \A u \in r : u <= s
          BY <1>7, <3>5, <4>2
        <5>2. r = {}
          BY <1>6, <3>5, <4>1, <5>1
        <5> QED  BY <4>2, <5>2
      <4>3. CASE n # End
        BY <1>7, <3>5, <4>1, <4>3
      <4> QED  BY <4>2, <4>3
    <3> QED  BY <3>3, <3>5, <3>6
  <2>2. CASE j # i
    BY <1>8, <2>2 DEF DriverInv, Walk
  <2> QED  BY <2>1, <2>2
<1>17. Agree'
  <2>1. \A j \in Files : slots'[j] = slots[j]
    BY <1>4, <1>8 DEF Files
  <2>2. \A id : Find(id)' = Find(id)
    BY <1>1, <1>15 DEF Find
  <2> QED  BY <1>1, <1>14, <2>1, <2>2 DEF DriverInv, Agree
<1>18. SemaInv' /\ OpInv'
  BY <1>1, SemaKept, NoneIs DEF DriverInv, locks
<1> QED  BY <1>1, <1>2, <1>14, <1>16, <1>17, <1>18 DEF DriverInv

(* Every step of the driver keeps the invariant. *)
LEMMA DriverKeeps == ASSUME DriverInv, [ApaNext]_apaVars PROVE DriverInv'
<1>1. CASE ApaNext
  <2>1. ASSUME NEW t \in Threads,
               \/ SecondEnters(t) \/ StartCreate(t) \/ StartAddSub(t) \/ DeleteLastSub(t)
               \/ StartRemove(t) \/ RenameFails(t) \/ RenameReturns(t)
        PROVE  DriverInv'
    BY <2>1, SecondEntersKeeps, StartCreateKeeps, StartAddSubKeeps, DeleteLastSubKeeps,
       StartRemoveKeeps, RenameFailsKeeps, RenameReturnsKeeps
  <2>2. CASE \/ FormatMbr \/ FormatPart \/ Open \/ Create \/ Close
             \/ AddSub \/ ListSub \/ DeleteSub \/ DeleteMain \/ CallFails
             \/ Rename \/ SwapTemp \/ DirOpen \/ DirRead \/ Crash
    BY <2>2, FormatMbrKeeps, FormatPartKeeps, OpenKeeps, CreateKeeps, CloseKeeps, AddSubKeeps,
       ListSubKeeps, DeleteSubKeeps, DeleteMainKeeps, CallFailsKeeps, RenameKeeps,
       SwapTempKeeps, DirOpenKeeps, DirReadKeeps, CrashKeeps
  <2> QED  BY <1>1, <2>1, <2>2 DEF ApaNext
<1>2. CASE UNCHANGED apaVars
  <2>1. UNCHANGED <<disk, ready, slots, op, locks, swapped>>
    BY <1>2 DEF apaVars
  <2>2. OpInv'
    BY <2>1, OpKept DEF DriverInv, locks
  <2>3. SemaInv'
    BY <2>1, SemaKept DEF DriverInv
  <2> QED  BY <2>1, <2>2, <2>3, SameDisk
<1> QED  BY <1>1, <1>2

(* For every size of disk, list of names and number of slots,              *)
(* sub-partitions, threads, failing calls and crashes, what the driver's   *)
(* calls rely on between their flushes holds: hdd.c and hdd_fio.c keep it  *)
(* in every step.                                                          *)
THEOREM DriverInvariance == ApaSpec => []DriverInv
BY ApaInitHolds, DriverKeeps, PTL DEF ApaSpec

(* The invariant has a sound disk in it. *)
LEMMA DiskWholeHolds == DriverInv => DiskWhole
<1> SUFFICES ASSUME DriverInv PROVE DiskWhole
  OBVIOUS
<1>1. /\ \A s \in DOMAIN disk : disk[s] \in HeaderType /\ Len(disk[s].subs) <= MaxSub
      /\ ready => Laid(disk) /\ Linked(disk)
      /\ ~ready => DOMAIN disk = {}
  BY DEF DriverInv, DiskInv
<1>2. ApaTypeOK
  <2>1. \A s \in DOMAIN disk :
          /\ s \in 0 .. Total - 1
          /\ disk[s].kind \in {"mbr", "free", "main", "sub"}
          /\ disk[s].len \in Sizes
          /\ Len(disk[s].subs) <= MaxSub
    BY <1>1 DEF Laid, HeaderType
  <2>2. \A i \in 1 .. MaxOpen : slots[i].start \in -1 .. Total
    BY DEF DriverInv, SlotInv, SlotType
  <2>3. /\ op.do \in {"none", "format", "create", "sub", "list", "delete"}
        /\ sema \in {0, 1} /\ inside \subseteq Threads /\ between \subseteq Threads
        /\ ready \in BOOLEAN
    BY DEF DriverInv, OpInv, SemaInv
  <2> QED  BY <2>1, <2>2, <2>3 DEF ApaTypeOK
<1>3. ChainWhole
  <2> SUFFICES ASSUME ready, NEW s \in DOMAIN disk
               PROVE  /\ s + disk[s].len <= Total
                      /\ IF disk[s].next = 0 THEN disk[0].prev = s
                         ELSE /\ disk[s].next = s + disk[s].len
                              /\ disk[s].next \in DOMAIN disk /\ disk[disk[s].next].prev = s
                      /\ s # 0 => disk[s].prev \in DOMAIN disk /\ disk[disk[s].prev].next = s
    BY DEF ChainWhole
  <2>1. s + disk[s].len <= Total
    BY <1>1 DEF Laid
  <2>2. /\ IF disk[s].next = 0 THEN disk[0].prev = s /\ \A t \in DOMAIN disk : t <= s
           ELSE /\ disk[s].next = s + disk[s].len
                /\ disk[s].next \in DOMAIN disk /\ disk[disk[s].next].prev = s
        /\ s # 0 => disk[s].prev \in DOMAIN disk /\ disk[disk[s].prev].next = s
    BY <1>1 DEF Linked
  <2> QED  BY <2>1, <2>2
<1>4. Aligned
  BY <1>1 DEF Aligned, Laid, DriverInv
<1>5. ListedSubsExist /\ NamesUnique
  BY DEF DriverInv
<1> QED  BY <1>2, <1>3, <1>4, <1>5 DEF DiskWhole

(* The invariant has sound slots and the semaphore's exclusion in it.      *)
LEMMA SlotsSoundHolds == DriverInv => SlotsSound
<1> SUFFICES ASSUME DriverInv PROVE SlotsSound
  OBVIOUS
<1>1. SlotAgrees
  <2> SUFFICES ASSUME ~swapped, NEW i \in DOMAIN slots, slots[i].used, ~slots[i].dir
               PROVE  /\ slots[i].start \in Find(slots[i].id)
                      /\ slots[i].len = disk[slots[i].start].len
                      /\ slots[i].subs = disk[slots[i].start].subs
                      /\ \A j \in DOMAIN slots : slots[j] = slots[i] => j = i
    BY DEF SlotAgrees
  <2>1. i \in Files
    BY DEF Files
  <2>2. /\ slots[i].start \in Find(slots[i].id)
        /\ slots[i].len = disk[slots[i].start].len
        /\ slots[i].subs = disk[slots[i].start].subs
    BY <2>1 DEF DriverInv, Agree
  <2>3. ASSUME NEW j \in DOMAIN slots, slots[j] = slots[i] PROVE j = i
    <3>1. j \in Files
      BY <2>3 DEF Files
    <3> QED  BY <2>1, <2>3, <3>1 DEF DriverInv, SlotInv
  <2> QED  BY <2>2, <2>3
<1>2. OneAtATime
  <2> SUFFICES ASSUME ~slipped PROVE ~(Cardinality(inside) > 1)
    BY DEF OneAtATime
  <2>1. \A t, u \in inside : t = u
    BY DEF DriverInv, SemaInv
  <2>2. CASE inside = {}
    BY <2>2, FS_EmptySet
  <2>3. CASE inside # {}
    <3>1. PICK t \in inside : TRUE
      BY <2>3
    <3>2. inside = {t}
      BY <2>1, <3>1
    <3>3. Cardinality({t}) = 1
      BY FS_Singleton
    <3>4. Cardinality(inside) = 1
      BY <3>2, <3>3
    <3> QED  BY <3>4
  <2> QED  BY <2>2, <2>3
<1> QED  BY <1>1, <1>2 DEF SlotsSound

(* The invariant has a complete walk in it. *)
LEMMA WalkHolds == DriverInv => WalkSeesAll
BY DEF DriverInv, Walk, WalkSeesAll

(* After every flush of hddFormat, hddOpen, hddRemove, hddReName,          *)
(* hddIoctl2 and hddDevctl, and so after a crash or a failing disk         *)
(* between any two, the chain has no gap and no overlap and its links      *)
(* agree, every block is aligned to its length, every listed               *)
(* sub-partition is there and is its owner's only, and no main             *)
(* partition's name is there twice.                                        *)
THEOREM DiskStaysWhole == ApaSpec => []DiskWhole
BY DriverInvariance, DiskWholeHolds, PTL

(* hddFileSlots: what an open slot knows of its partition is what the      *)
(* disk says, until devctlSwapTemp exchanges an open name; and fioSema     *)
(* lets one thread in at a time, until the error path of apaRename         *)
(* signals it twice.                                                       *)
THEOREM SlotsStaySound == ApaSpec => []SlotsSound
BY DriverInvariance, SlotsSoundHolds, PTL

(* hddDopen and hddDread: a directory that has come to its end has         *)
(* answered every main partition that was there all along, whatever was    *)
(* made, split, cut off and given back while it was read.                  *)
THEOREM WalkComplete == ApaSpec => []WalkSeesAll
BY DriverInvariance, WalkHolds, PTL
=============================================================================
