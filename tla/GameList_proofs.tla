-------------------------- MODULE GameList_proofs --------------------------
(***************************************************************************)
(* Proofs about what the menu, the service thread and a client share.      *)
(* About GameList, for any number of games on the disk and of games on the *)
(* screen, whoever loads the list and however their steps mix; then about  *)
(* Osd, the resources of a game, for every number of games, whatever is    *)
(* installed, by the menu and a client at once or one after the other, and *)
(* whatever fails.                                                         *)
(***************************************************************************)
EXTENDS GameList, Osd, FiniteSetTheorems, SequenceTheorems, WellFoundedInduction, TLAPS

USE GameListAssumption
USE DEF GameListAssumption, Names

(* A list never counts more games than the disk may hold. *)
LEMMA CountBound == \A l : Count(l) \in 0 .. Games
<1> SUFFICES ASSUME NEW l PROVE Count(l) \in 0 .. Games
  OBVIOUS
<1> DEFINE present == {g \in 1 .. Games : l[g] # 0}
<1>1. Games \in Nat
  OBVIOUS
<1>2. IsFiniteSet(1 .. Games) /\ Cardinality(1 .. Games) = Games
  BY <1>1, FS_Interval
<1>3. present \subseteq 1 .. Games
  OBVIOUS
<1>4. IsFiniteSet(present) /\ Cardinality(present) <= Games
  BY <1>2, <1>3, FS_Subset
<1>5. Cardinality(present) \in Nat
  BY <1>4, FS_CardinalityType
<1>6. Count(l) = Cardinality(present)
  BY DEF Count
<1> QED  BY <1>1, <1>4, <1>5, <1>6

(* A title that is changed is a title. *)
LEMMA RetitledType ==
  ASSUME NEW d \in [Names -> 0 .. 2], NEW g PROVE Retitled(d, g) \in [Names -> 0 .. 2]
<1> DEFINE e == IF d[g] = 0 THEN 0 ELSE 3 - d[g]
<1>1. g \in Names => e \in 0 .. 2
  <2> SUFFICES ASSUME g \in Names PROVE e \in 0 .. 2
    OBVIOUS
  <2>1. d[g] \in 0 .. 2
    OBVIOUS
  <2> HIDE DEF Names
  <2> QED  BY <2>1
<1>2. Retitled(d, g) = [d EXCEPT ![g] = e]
  BY DEF Retitled
<1> HIDE DEF e, Names
<1> QED  BY <1>1, <1>2

(* The type invariant, in parts.                                           *)
TypeDisk ==
  /\ changes \in 0 .. MaxChanges
  /\ onDisk \in [Names -> 0 .. 2] /\ list \in [Names -> 0 .. 2]

TypeList ==
  /\ central \in {"null", "live"} /\ ptr \in {"null", "live", "freed"}
  /\ num \in 0 .. Games /\ count \in 0 .. Games
  /\ lock \in {"free", "menu", "service", "deleted"}

TypeTalk ==
  /\ sent \in 0 .. Games /\ want \in 0 .. Games /\ got \in 0 .. want
  /\ surplus \in 0 .. Games

TypePlaces ==
  /\ ui \in {"start", "space", "draw", "drawing", "top", "keys", "up", "buttons", "games",
             "triangle", "install", "options", "update", "delete", "copy", "reload",
             "loading", "loaded", "exit", "stop", "sleep", "deinit", "over"}
  /\ after \in {"draw", "games", "triangle"} /\ quits \in BOOLEAN
  /\ sv \in {"off", "idle", "reload", "loading", "answer", "read", "send", "byereload",
             "byeloading"}
  /\ awaits \in {"gone", "idle", "count", "list", "recv"}

(* Whoever loads the list, or sends it, or draws from it, has its lock.    *)
LoadPlaces == {"loading", "byeloading"}
LockInv ==
  /\ lock = "menu" <=> ui \in {"loading", "drawing"}
  /\ lock = "service" <=> sv \in LoadPlaces \cup {"send"}

(* While the list is loaded there is none, and the menu has none of it.    *)
LoadInv == ui = "loading" \/ sv \in LoadPlaces => central = "null" /\ ptr # "live"

(* StaleIsNoticed between the steps, too.                                  *)
NoticedInv ==
  sv \notin LoadPlaces /\ ui \notin {"start", "loading", "over"} /\ ~early
      /\ (known \/ ui = "space") =>
    ptr = central /\ count = num

(* The selection is in view from frame to frame. *)
ViewInv ==
  /\ sel \in Nat /\ view \in Nat
  /\ count > 0 =>
       /\ sel < count /\ view <= sel /\ sel < view + Displayed
       /\ count >= Displayed => view + Displayed <= count

(* As long as the menu's list is not freed, what was shown is selected.    *)
ShownInv ==
  /\ ui = "start" => shown = 0
  /\ ui # "over" /\ ptr = "live" /\ shown # 0 => EntryAt(list, sel) = shown

(* The list is that of the disk unless someone knows that it is not.       *)
FreshInv ==
  /\ sv \in {"off", "byereload", "byeloading"} => ~needReload
  /\ ~halfway /\ ~needReload /\ sv \notin LoadPlaces \cup {"reload", "byereload"}
       /\ ui \notin {"copy", "reload", "loading", "over"} => list = onDisk

(* What the client waits for goes with what the service thread is at.      *)
TalkInv ==
  /\ sv \in {"off", "byereload", "byeloading"} => awaits = "gone"
  /\ sv \in {"reload", "loading", "answer"} => awaits \in {"count", "gone"}
  /\ sv \in {"read", "send"} => awaits \in {"recv", "gone"}
  /\ sv = "idle" => awaits # "count"
  /\ awaits = "gone" => surplus = 0
  /\ awaits \in {"count", "list"} => surplus = 0
  /\ awaits = "list" => got = 0
  /\ awaits = "recv" /\ sv = "read" => got = 0 /\ surplus = 0
  /\ awaits = "recv" /\ sv = "send" => got + surplus = sent

(* Without a load by the menu in between, the client expects what there is *)
(* to send.                                                                *)
ToldInv ==
  ~between =>
    /\ surplus = 0
    /\ awaits = "recv" => sv \in {"read", "send"}
    /\ Running /\ awaits \in {"list", "recv"} => want = num /\ num > 0

IInv ==
  /\ TypeDisk /\ TypeList /\ TypeTalk /\ TypePlaces
  /\ LockInv /\ LoadInv /\ NoticedInv /\ ViewInv /\ ShownInv /\ FreshInv /\ TalkInv
  /\ ToldInv

-----------------------------------------------------------------------------

(* What does not mention a variable that a step changes is kept.           *)
LEMMA Unmoved ==
  ASSUME IInv
  PROVE  /\ UNCHANGED <<onDisk, changes, list>> => TypeDisk'
         /\ UNCHANGED <<central, num, ptr, count, lock>> => TypeList'
         /\ UNCHANGED <<sent, want, got, surplus>> => TypeTalk'
         /\ UNCHANGED <<ui, after, quits, sv, awaits>> => TypePlaces'
         /\ UNCHANGED <<lock, ui, sv>> => LockInv'
         /\ UNCHANGED <<ui, sv, central, ptr>> => LoadInv'
         /\ UNCHANGED <<sv, ui, early, known, ptr, central, count, num>> => NoticedInv'
         /\ UNCHANGED <<sel, view, count>> => ViewInv'
         /\ UNCHANGED <<ui, ptr, shown, list, sel>> => ShownInv'
         /\ UNCHANGED <<sv, needReload, halfway, ui, list, onDisk>> => FreshInv'
         /\ UNCHANGED <<sv, awaits, surplus, got, sent>> => TalkInv'
         /\ UNCHANGED <<between, surplus, awaits, sv, ui, want, num>> => ToldInv'
<1>1. UNCHANGED <<onDisk, changes, list>> => TypeDisk'
  BY DEF IInv, TypeDisk
<1>2. UNCHANGED <<central, num, ptr, count, lock>> => TypeList'
  BY DEF IInv, TypeList
<1>3. UNCHANGED <<sent, want, got, surplus>> => TypeTalk'
  BY DEF IInv, TypeTalk
<1>4. UNCHANGED <<ui, after, quits, sv, awaits>> => TypePlaces'
  BY DEF IInv, TypePlaces
<1>5. UNCHANGED <<lock, ui, sv>> => LockInv'
  BY DEF IInv, LockInv, LoadPlaces
<1>6. UNCHANGED <<ui, sv, central, ptr>> => LoadInv'
  BY DEF IInv, LoadInv, LoadPlaces
<1>7. UNCHANGED <<sv, ui, early, known, ptr, central, count, num>> => NoticedInv'
  BY DEF IInv, NoticedInv, LoadPlaces
<1>8. UNCHANGED <<sel, view, count>> => ViewInv'
  BY DEF IInv, ViewInv
<1>9. UNCHANGED <<ui, ptr, shown, list, sel>> => ShownInv'
  BY DEF IInv, ShownInv
<1>10. UNCHANGED <<sv, needReload, halfway, ui, list, onDisk>> => FreshInv'
  BY DEF IInv, FreshInv, LoadPlaces
<1>11. UNCHANGED <<sv, awaits, surplus, got, sent>> => TalkInv'
  BY DEF IInv, TalkInv
<1>12. UNCHANGED <<between, surplus, awaits, sv, ui, want, num>> => ToldInv'
  BY DEF IInv, ToldInv, Running
<1> QED  BY <1>1, <1>2, <1>3, <1>4, <1>5, <1>6, <1>7, <1>8, <1>9, <1>10, <1>11, <1>12

(* Where the menu is changes, between places where it neither loads the    *)
(* list nor draws from it, and nothing else does.                          *)
Elsewhere == <<diskVars, listVars, known, needReload, ptr, count, sel, view, shown, servVars,
               clntVars, loop, histVars>>

Steady ==
  {"draw", "top", "keys", "up", "buttons", "games", "triangle", "install", "options",
   "update", "delete", "exit", "stop", "sleep", "deinit"}

LEMMA Walks ==
  ASSUME IInv, UNCHANGED Elsewhere,
         ui \in Steady \/ (ui = "copy" /\ ui' = "reload"), ui' \in Steady \cup {"reload"},
         after' \in {"draw", "games", "triangle"}, quits' \in BOOLEAN
  PROVE  IInv'
<1>1. UNCHANGED <<onDisk, changes, list, central, num, lock, known, needReload, ptr, count,
                  sel, view, shown, sv, sent, remote, awaits, want, got, surplus, early,
                  halfway, between>>
  BY DEF Elsewhere, clntVars, diskVars, histVars, listVars, servVars
<1>2. TypeDisk' /\ TypeList' /\ TypeTalk' /\ ViewInv' /\ TalkInv'
  BY <1>1, Unmoved
<1>3. TypePlaces'
  BY <1>1 DEF IInv, TypePlaces, Steady
<1>4. LockInv' /\ LoadInv'
  BY <1>1 DEF IInv, LockInv, LoadInv, LoadPlaces, Steady
<1>5. NoticedInv'
  BY <1>1 DEF IInv, NoticedInv, LoadPlaces, Steady
<1>6. ShownInv'
  BY <1>1 DEF IInv, ShownInv, Steady
<1>7. FreshInv'
  BY <1>1 DEF IInv, FreshInv, LoadPlaces, Steady
<1>8. ToldInv'
  BY <1>1 DEF IInv, ToldInv, Running, Steady
<1> QED  BY <1>2, <1>3, <1>4, <1>5, <1>6, <1>7, <1>8 DEF IInv

(* The steps of the menu keep the invariant. *)
LEMMA MenuStartKeeps == ASSUME IInv, MenuStart PROVE IInv'
<1> USE DEF IInv
<1>1. UNCHANGED <<after, quits, onDisk, changes, list, central, num, lock, known,
                  needReload, shown, sv, sent, remote, awaits, want, got, surplus, loop,
                  early, halfway, between>>
  BY DEF MenuStart, frame, clntVars, diskVars, histVars, listVars, servVars
<1>2. TypeDisk' /\ TypeTalk' /\ TalkInv'
  BY <1>1, Unmoved
<1>3. TypeList'
  BY DEF MenuStart, frame, GetGameListData, clntVars, diskVars, histVars, listVars,
         servVars, TypeList
<1>4. TypePlaces'
  BY DEF MenuStart, frame, GetGameListData, clntVars, diskVars, histVars, listVars,
         servVars, TypePlaces
<1>5. LockInv'
  BY DEF MenuStart, frame, GetGameListData, clntVars, diskVars, histVars, listVars,
         servVars, LockInv, LoadPlaces, TypePlaces
<1>6. LoadInv'
  BY DEF MenuStart, frame, GetGameListData, clntVars, diskVars, histVars, listVars,
         servVars, LoadInv, LockInv, LoadPlaces
<1>7. NoticedInv'
  BY DEF MenuStart, frame, GetGameListData, clntVars, diskVars, histVars, listVars,
         servVars, NoticedInv, LockInv, LoadInv, LoadPlaces, TypePlaces
<1>8. ViewInv'
  BY DEF MenuStart, frame, GetGameListData, clntVars, diskVars, histVars, listVars,
         servVars, ViewInv, TypeList
<1>9. ShownInv'
  BY DEF MenuStart, frame, GetGameListData, clntVars, diskVars, histVars, listVars,
         servVars, ShownInv, LoadInv, LockInv, LoadPlaces
<1>10. FreshInv'
  BY DEF MenuStart, frame, GetGameListData, clntVars, diskVars, histVars, listVars,
         servVars, FreshInv, LockInv, LoadPlaces, TypePlaces
<1>11. ToldInv'
  BY DEF MenuStart, frame, GetGameListData, clntVars, diskVars, histVars, listVars,
         servVars, ToldInv, Running, TalkInv, TypePlaces, TypeTalk, TypeList, LockInv,
         LoadPlaces
<1> QED
  BY <1>1, <1>2, <1>3, <1>4, <1>5, <1>6, <1>7, <1>8, <1>9, <1>10, <1>11

LEMMA MenuSpaceKeeps == ASSUME IInv, MenuSpace PROVE IInv'
<1> USE DEF IInv
<1>1. UNCHANGED <<after, quits, onDisk, changes, list, central, num, lock, needReload, ptr,
                  count, sel, view, shown, sv, sent, remote, awaits, want, got, surplus,
                  loop, early, halfway, between>>
  BY DEF MenuSpace, frame, clntVars, diskVars, histVars, listVars, servVars
<1>2. TypeDisk' /\ TypeList' /\ TypeTalk' /\ ViewInv' /\ TalkInv'
  BY <1>1, Unmoved
<1>3. TypePlaces'
  BY DEF MenuSpace, frame, clntVars, diskVars, histVars, listVars, servVars, TypePlaces
<1>4. LockInv'
  BY DEF MenuSpace, frame, clntVars, diskVars, histVars, listVars, servVars, LockInv,
         LoadPlaces, TypePlaces
<1>5. LoadInv'
  BY DEF MenuSpace, frame, clntVars, diskVars, histVars, listVars, servVars, LoadInv,
         LockInv, LoadPlaces
<1>6. NoticedInv'
  BY DEF MenuSpace, frame, clntVars, diskVars, histVars, listVars, servVars, NoticedInv,
         LockInv, LoadInv, LoadPlaces, TypePlaces
<1>7. ShownInv'
  BY DEF MenuSpace, frame, clntVars, diskVars, histVars, listVars, servVars, ShownInv,
         LoadInv, LockInv, LoadPlaces
<1>8. FreshInv'
  BY DEF MenuSpace, frame, clntVars, diskVars, histVars, listVars, servVars, FreshInv,
         LockInv, LoadPlaces, TypePlaces
<1>9. ToldInv'
  BY DEF MenuSpace, frame, clntVars, diskVars, histVars, listVars, servVars, ToldInv,
         Running, TalkInv, TypePlaces, TypeTalk, TypeList, LockInv, LoadPlaces
<1> QED
  BY <1>1, <1>2, <1>3, <1>4, <1>5, <1>6, <1>7, <1>8, <1>9

LEMMA MenuTopKeeps == ASSUME IInv, MenuTop PROVE IInv'
<1>1. UNCHANGED Elsewhere
  BY DEF MenuTop, Elsewhere
<1>2. /\ ui \in Steady \/ (ui = "copy" /\ ui' = "reload")
      /\ ui' \in Steady \cup {"reload"}
      /\ after' \in {"draw", "games", "triangle"} /\ quits' \in BOOLEAN
  BY DEF MenuTop, Steady, frame, IInv, TypePlaces
<1> QED  BY <1>1, <1>2, Walks

LEMMA LockForDrawKeeps == ASSUME IInv, LockForDraw PROVE IInv'
<1> USE DEF IInv
<1>1. UNCHANGED <<after, quits, onDisk, changes, list, central, num, needReload, sv, sent,
                  remote, awaits, want, got, surplus, loop, early, halfway, between>>
  BY DEF LockForDraw, frame, clntVars, diskVars, histVars, servVars
<1>2. TypeDisk' /\ TypeTalk' /\ TalkInv'
  BY <1>1, Unmoved
<1>3. TypeList'
  BY DEF LockForDraw, frame, GetGameListData, clntVars, diskVars, histVars, servVars,
         TypeList
<1>4. TypePlaces'
  BY DEF LockForDraw, frame, GetGameListData, clntVars, diskVars, histVars, servVars,
         TypePlaces
<1>5. LockInv'
  BY DEF LockForDraw, frame, GetGameListData, clntVars, diskVars, histVars, servVars,
         LockInv, LoadPlaces, TypePlaces
<1>6. LoadInv'
  BY DEF LockForDraw, frame, GetGameListData, clntVars, diskVars, histVars, servVars,
         LoadInv, LockInv, LoadPlaces
<1>7. NoticedInv'
  BY DEF LockForDraw, frame, GetGameListData, clntVars, diskVars, histVars, servVars,
         NoticedInv, LockInv, LoadInv, LoadPlaces, TypePlaces
<1>8. ViewInv'
  BY DEF LockForDraw, frame, GetGameListData, clntVars, diskVars, histVars, servVars,
         ViewInv, TypeList
<1>9. ShownInv'
  BY DEF LockForDraw, frame, GetGameListData, clntVars, diskVars, histVars, servVars,
         ShownInv, LoadInv, LockInv, LoadPlaces
<1>10. FreshInv'
  BY DEF LockForDraw, frame, GetGameListData, clntVars, diskVars, histVars, servVars,
         FreshInv, LockInv, LoadPlaces, TypePlaces
<1>11. ToldInv'
  BY DEF LockForDraw, frame, GetGameListData, clntVars, diskVars, histVars, servVars,
         ToldInv, Running, TalkInv, TypePlaces, TypeTalk, TypeList, LockInv, LoadPlaces
<1> QED
  BY <1>1, <1>2, <1>3, <1>4, <1>5, <1>6, <1>7, <1>8, <1>9, <1>10, <1>11

LEMMA DrawKeeps == ASSUME IInv, Draw PROVE IInv'
<1> USE DEF IInv
<1>1. UNCHANGED <<after, quits, onDisk, changes, list, central, num, known, needReload, ptr,
                  count, sel, view, sv, sent, remote, awaits, want, got, surplus, loop,
                  early, halfway, between>>
  BY DEF Draw, frame, clntVars, diskVars, histVars, servVars
<1>2. TypeDisk' /\ TypeTalk' /\ ViewInv' /\ TalkInv'
  BY <1>1, Unmoved
<1>3. TypeList'
  BY DEF Draw, frame, clntVars, diskVars, histVars, servVars, TypeList
<1>4. TypePlaces'
  BY DEF Draw, frame, clntVars, diskVars, histVars, servVars, TypePlaces
<1>5. LockInv'
  BY DEF Draw, frame, clntVars, diskVars, histVars, servVars, LockInv, LoadPlaces,
         TypePlaces
<1>6. LoadInv'
  BY DEF Draw, frame, clntVars, diskVars, histVars, servVars, LoadInv, LockInv, LoadPlaces
<1>7. NoticedInv'
  BY DEF Draw, frame, clntVars, diskVars, histVars, servVars, NoticedInv, LockInv, LoadInv,
         LoadPlaces, TypePlaces
<1>8. ShownInv'
  BY DEF Draw, frame, clntVars, diskVars, histVars, servVars, ShownInv, LoadInv, LockInv,
         LoadPlaces
<1>9. FreshInv'
  BY DEF Draw, frame, clntVars, diskVars, histVars, servVars, FreshInv, LockInv,
         LoadPlaces, TypePlaces
<1>10. ToldInv'
  BY DEF Draw, frame, clntVars, diskVars, histVars, servVars, ToldInv, Running, TalkInv,
         TypePlaces, TypeTalk, TypeList, LockInv, LoadPlaces
<1> QED
  BY <1>1, <1>2, <1>3, <1>4, <1>5, <1>6, <1>7, <1>8, <1>9, <1>10

LEMMA MenuFreesKeeps == ASSUME IInv, MenuFrees PROVE IInv'
<1> USE DEF IInv
<1>1. UNCHANGED <<after, quits, onDisk, changes, known, needReload, count, sel, view, shown,
                  sv, sent, remote, awaits, want, got, surplus, loop, early, halfway,
                  between>>
  BY DEF MenuFrees, frame, clntVars, diskVars, histVars, servVars
<1>2. TypeTalk' /\ ViewInv' /\ TalkInv'
  BY <1>1, Unmoved
<1>3. TypeDisk'
  BY DEF MenuFrees, frame, FreeList, clntVars, diskVars, histVars, servVars, TypeDisk
<1>4. TypeList'
  BY DEF MenuFrees, frame, FreeList, clntVars, diskVars, histVars, servVars, TypeList
<1>5. TypePlaces'
  BY DEF MenuFrees, frame, FreeList, clntVars, diskVars, histVars, servVars, TypePlaces
<1>6. LockInv'
  BY DEF MenuFrees, frame, FreeList, clntVars, diskVars, histVars, servVars, LockInv,
         LoadPlaces, TypePlaces
<1>7. LoadInv'
  BY DEF MenuFrees, frame, FreeList, clntVars, diskVars, histVars, servVars, LoadInv,
         LockInv, LoadPlaces
<1>8. NoticedInv'
  BY DEF MenuFrees, frame, FreeList, clntVars, diskVars, histVars, servVars, NoticedInv,
         LockInv, LoadInv, LoadPlaces, TypePlaces
<1>9. ShownInv'
  BY DEF MenuFrees, frame, FreeList, clntVars, diskVars, histVars, servVars, ShownInv,
         LoadInv, LockInv, LoadPlaces
<1>10. FreshInv'
  BY DEF MenuFrees, frame, FreeList, clntVars, diskVars, histVars, servVars, FreshInv,
         LockInv, LoadPlaces, TypePlaces
<1>11. ToldInv'
  BY DEF MenuFrees, frame, FreeList, clntVars, diskVars, histVars, servVars, ToldInv,
         Running, TalkInv, TypePlaces, TypeTalk, TypeList, LockInv, LoadPlaces
<1> QED
  BY <1>1, <1>2, <1>3, <1>4, <1>5, <1>6, <1>7, <1>8, <1>9, <1>10, <1>11

LEMMA MenuBuildsKeeps == ASSUME IInv, MenuBuilds PROVE IInv'
<1> USE DEF IInv
<1>1. UNCHANGED <<after, quits, onDisk, changes, needReload, ptr, count, sel, view, shown,
                  sv, sent, remote, awaits, want, got, surplus, loop>>
  BY DEF MenuBuilds, frame, clntVars, diskVars, servVars
<1>2. TypeTalk' /\ ViewInv' /\ TalkInv'
  BY <1>1, Unmoved
<1>3. TypeDisk'
  BY DEF MenuBuilds, frame, BuildList, clntVars, diskVars, servVars, TypeDisk
<1>4. TypeList'
  BY CountBound DEF MenuBuilds, BuildList, TypeList, TypeDisk, menuVars
<1>5. TypePlaces'
  BY DEF MenuBuilds, frame, BuildList, clntVars, diskVars, servVars, TypePlaces
<1>6. LockInv'
  BY DEF MenuBuilds, frame, BuildList, clntVars, diskVars, servVars, LockInv, LoadPlaces,
         TypePlaces
<1>7. LoadInv'
  BY DEF MenuBuilds, frame, BuildList, clntVars, diskVars, servVars, LoadInv, LockInv,
         LoadPlaces
<1>8. NoticedInv'
  BY DEF MenuBuilds, frame, BuildList, clntVars, diskVars, servVars, NoticedInv, LockInv,
         LoadInv, LoadPlaces, TypePlaces
<1>9. ShownInv'
  BY DEF MenuBuilds, frame, BuildList, clntVars, diskVars, servVars, ShownInv, LoadInv,
         LockInv, LoadPlaces
<1>10. FreshInv'
  BY DEF MenuBuilds, frame, BuildList, clntVars, diskVars, servVars, FreshInv, LockInv,
         LoadPlaces, TypePlaces
<1>11. ToldInv'
  BY DEF MenuBuilds, frame, BuildList, clntVars, diskVars, servVars, ToldInv, Running,
         TalkInv, TypePlaces, TypeTalk, TypeList, LockInv, LoadPlaces
<1> QED
  BY <1>1, <1>2, <1>3, <1>4, <1>5, <1>6, <1>7, <1>8, <1>9, <1>10, <1>11

LEMMA MenuLoadedKeeps == ASSUME IInv, MenuLoaded PROVE IInv'
<1> USE DEF IInv
<1>1. UNCHANGED <<after, quits, onDisk, changes, list, central, num, lock, known,
                  needReload, sv, sent, remote, awaits, want, got, surplus, loop,
                  early, halfway, between>>
  BY DEF MenuLoaded, frame, clntVars, diskVars, histVars, listVars, servVars
<1>2. TypeDisk' /\ TypeTalk' /\ TalkInv'
  BY <1>1, Unmoved
<1>3. TypeList'
  BY DEF MenuLoaded, frame, GetGameListData, clntVars, diskVars, histVars, listVars,
         servVars, TypeList
<1>4. TypePlaces'
  BY DEF MenuLoaded, frame, GetGameListData, clntVars, diskVars, histVars, listVars,
         servVars, TypePlaces
<1>5. LockInv'
  BY DEF MenuLoaded, frame, GetGameListData, clntVars, diskVars, histVars, listVars,
         servVars, LockInv, LoadPlaces, TypePlaces
<1>6. LoadInv'
  BY DEF MenuLoaded, frame, GetGameListData, clntVars, diskVars, histVars, listVars,
         servVars, LoadInv, LockInv, LoadPlaces, TypePlaces
<1>7. NoticedInv'
  BY DEF MenuLoaded, frame, GetGameListData, clntVars, diskVars, histVars, listVars,
         servVars, NoticedInv, LockInv, LoadInv, LoadPlaces, TypePlaces
<1>8. ViewInv'
  BY DEF MenuLoaded, frame, GetGameListData, clntVars, diskVars, histVars, listVars,
         servVars, ViewInv, TypeList
<1>9. ShownInv'
  BY DEF MenuLoaded, frame, GetGameListData, clntVars, diskVars, histVars, listVars,
         servVars, ShownInv, LoadInv, LockInv, LoadPlaces, TypePlaces
<1>10. FreshInv'
  BY DEF MenuLoaded, frame, GetGameListData, clntVars, diskVars, histVars, listVars,
         servVars, FreshInv, LockInv, LoadPlaces, TypePlaces
<1>11. ToldInv'
  BY DEF MenuLoaded, frame, GetGameListData, clntVars, diskVars, histVars, listVars,
         servVars, ToldInv, Running, TalkInv, TypePlaces, TypeTalk, TypeList, LockInv,
         LoadPlaces
<1> QED
  BY <1>1, <1>2, <1>3, <1>4, <1>5, <1>6, <1>7, <1>8, <1>9, <1>10, <1>11

LEMMA ExitChecksKeeps == ASSUME IInv, ExitChecks PROVE IInv'
<1>1. UNCHANGED Elsewhere
  BY DEF ExitChecks, Elsewhere
<1>2. /\ ui \in Steady \/ (ui = "copy" /\ ui' = "reload")
      /\ ui' \in Steady \cup {"reload"}
      /\ after' \in {"draw", "games", "triangle"} /\ quits' \in BOOLEAN
  BY DEF ExitChecks, Steady, frame, IInv, TypePlaces
<1> QED  BY <1>1, <1>2, Walks

LEMMA ExitStopsKeeps == ASSUME IInv, ExitStops PROVE IInv'
<1>1. UNCHANGED Elsewhere
  BY DEF ExitStops, Elsewhere
<1>2. /\ ui \in Steady \/ (ui = "copy" /\ ui' = "reload")
      /\ ui' \in Steady \cup {"reload"}
      /\ after' \in {"draw", "games", "triangle"} /\ quits' \in BOOLEAN
  BY DEF ExitStops, Steady, frame, IInv, TypePlaces
<1> QED  BY <1>1, <1>2, Walks

LEMMA DeinitKeeps == ASSUME IInv, Deinit PROVE IInv'
<1> USE DEF IInv
<1>1. UNCHANGED <<after, quits, onDisk, changes, known, needReload, ptr, count, sel, view,
                  shown, sv, sent, remote, awaits, want, got, surplus, loop, early, halfway,
                  between>>
  BY DEF Deinit, frame, clntVars, diskVars, histVars, servVars
<1>2. TypeTalk' /\ ViewInv' /\ TalkInv'
  BY <1>1, Unmoved
<1>3. TypeDisk'
  BY DEF Deinit, frame, clntVars, diskVars, histVars, servVars, TypeDisk
<1>4. TypeList'
  BY DEF Deinit, frame, clntVars, diskVars, histVars, servVars, TypeList
<1>5. TypePlaces'
  BY DEF Deinit, frame, clntVars, diskVars, histVars, servVars, TypePlaces
<1>6. LockInv'
  BY DEF Deinit, frame, clntVars, diskVars, histVars, servVars, LockInv, LoadPlaces,
         TypePlaces
<1>7. LoadInv'
  BY DEF Deinit, frame, clntVars, diskVars, histVars, servVars, LoadInv, LockInv,
         LoadPlaces
<1>8. NoticedInv'
  BY DEF Deinit, frame, clntVars, diskVars, histVars, servVars, NoticedInv, LockInv,
         LoadInv, LoadPlaces, TypePlaces
<1>9. ShownInv'
  BY DEF Deinit, frame, clntVars, diskVars, histVars, servVars, ShownInv, LoadInv, LockInv,
         LoadPlaces
<1>10. FreshInv'
  BY DEF Deinit, frame, clntVars, diskVars, histVars, servVars, FreshInv, LockInv,
         LoadPlaces, TypePlaces
<1>11. ToldInv'
  BY DEF Deinit, frame, clntVars, diskVars, histVars, servVars, ToldInv, Running, TalkInv,
         TypePlaces, TypeTalk, TypeList, LockInv, LoadPlaces
<1> QED
  BY <1>1, <1>2, <1>3, <1>4, <1>5, <1>6, <1>7, <1>8, <1>9, <1>10, <1>11

(* The steps of the user keep it. *)
LEMMA KeyDownKeeps == ASSUME IInv, KeyDown PROVE IInv'
<1> USE DEF IInv
<1>1. UNCHANGED <<after, quits, onDisk, changes, list, central, num, lock, known,
                  needReload, ptr, count, sv, sent, remote, awaits, want, got, surplus,
                  loop, early, halfway, between>>
  BY DEF KeyDown, frame, clntVars, diskVars, histVars, listVars, servVars
<1>2. TypeDisk' /\ TypeList' /\ TypeTalk' /\ TalkInv'
  BY <1>1, Unmoved
<1>3. TypePlaces'
  BY DEF KeyDown, frame, Moved, clntVars, diskVars, histVars, listVars, servVars,
         TypePlaces
<1>4. LockInv'
  BY DEF KeyDown, frame, Moved, clntVars, diskVars, histVars, listVars, servVars, LockInv,
         LoadPlaces, TypePlaces
<1>5. LoadInv'
  BY DEF KeyDown, frame, Moved, clntVars, diskVars, histVars, listVars, servVars, LoadInv,
         LockInv, LoadPlaces
<1>6. NoticedInv'
  BY DEF KeyDown, frame, Moved, clntVars, diskVars, histVars, listVars, servVars,
         NoticedInv, LockInv, LoadInv, LoadPlaces, TypePlaces
<1>7. ViewInv'
  BY DEF KeyDown, frame, Moved, clntVars, diskVars, histVars, listVars, servVars, ViewInv,
         TypeList
<1>8. ShownInv'
  BY DEF KeyDown, frame, Moved, clntVars, diskVars, histVars, listVars, servVars, ShownInv,
         LoadInv, LockInv, LoadPlaces
<1>9. FreshInv'
  BY DEF KeyDown, frame, Moved, clntVars, diskVars, histVars, listVars, servVars, FreshInv,
         LockInv, LoadPlaces, TypePlaces
<1>10. ToldInv'
  BY DEF KeyDown, frame, Moved, clntVars, diskVars, histVars, listVars, servVars, ToldInv,
         Running, TalkInv, TypePlaces, TypeTalk, TypeList, LockInv, LoadPlaces
<1> QED
  BY <1>1, <1>2, <1>3, <1>4, <1>5, <1>6, <1>7, <1>8, <1>9, <1>10

LEMMA KeyUpKeeps == ASSUME IInv, KeyUp PROVE IInv'
<1> USE DEF IInv
<1>1. UNCHANGED <<after, quits, onDisk, changes, list, central, num, lock, known,
                  needReload, ptr, count, sv, sent, remote, awaits, want, got, surplus,
                  loop, early, halfway, between>>
  BY DEF KeyUp, frame, clntVars, diskVars, histVars, listVars, servVars
<1>2. TypeDisk' /\ TypeList' /\ TypeTalk' /\ TalkInv'
  BY <1>1, Unmoved
<1>3. TypePlaces'
  BY DEF KeyUp, frame, Moved, clntVars, diskVars, histVars, listVars, servVars, TypePlaces
<1>4. LockInv'
  BY DEF KeyUp, frame, Moved, clntVars, diskVars, histVars, listVars, servVars, LockInv,
         LoadPlaces, TypePlaces
<1>5. LoadInv'
  BY DEF KeyUp, frame, Moved, clntVars, diskVars, histVars, listVars, servVars, LoadInv,
         LockInv, LoadPlaces
<1>6. NoticedInv'
  BY DEF KeyUp, frame, Moved, clntVars, diskVars, histVars, listVars, servVars, NoticedInv,
         LockInv, LoadInv, LoadPlaces, TypePlaces
<1>7. ViewInv'
  BY DEF KeyUp, frame, Moved, clntVars, diskVars, histVars, listVars, servVars, ViewInv,
         TypeList
<1>8. ShownInv'
  BY DEF KeyUp, frame, Moved, clntVars, diskVars, histVars, listVars, servVars, ShownInv,
         LoadInv, LockInv, LoadPlaces
<1>9. FreshInv'
  BY DEF KeyUp, frame, Moved, clntVars, diskVars, histVars, listVars, servVars, FreshInv,
         LockInv, LoadPlaces, TypePlaces
<1>10. ToldInv'
  BY DEF KeyUp, frame, Moved, clntVars, diskVars, histVars, listVars, servVars, ToldInv,
         Running, TalkInv, TypePlaces, TypeTalk, TypeList, LockInv, LoadPlaces
<1> QED
  BY <1>1, <1>2, <1>3, <1>4, <1>5, <1>6, <1>7, <1>8, <1>9, <1>10

LEMMA CancelButtonKeeps == ASSUME IInv, CancelButton PROVE IInv'
<1>1. UNCHANGED Elsewhere
  BY DEF CancelButton, Elsewhere
<1>2. /\ ui \in Steady \/ (ui = "copy" /\ ui' = "reload")
      /\ ui' \in Steady \cup {"reload"}
      /\ after' \in {"draw", "games", "triangle"} /\ quits' \in BOOLEAN
  BY DEF CancelButton, Steady, frame, IInv, TypePlaces
<1> QED  BY <1>1, <1>2, Walks

LEMMA ButtonKeeps == ASSUME IInv, Button PROVE IInv'
<1>1. UNCHANGED Elsewhere
  BY DEF Button, Elsewhere
<1>2. /\ ui \in Steady \/ (ui = "copy" /\ ui' = "reload")
      /\ ui' \in Steady \cup {"reload"}
      /\ after' \in {"draw", "games", "triangle"} /\ quits' \in BOOLEAN
  BY DEF Button, Steady, frame, IInv, TypePlaces
<1> QED  BY <1>1, <1>2, Walks

LEMMA GameButtonsKeeps == ASSUME IInv, GameButtons PROVE IInv'
<1>1. UNCHANGED Elsewhere
  BY DEF GameButtons, Elsewhere
<1>2. /\ ui \in Steady \/ (ui = "copy" /\ ui' = "reload")
      /\ ui' \in Steady \cup {"reload"}
      /\ after' \in {"draw", "games", "triangle"} /\ quits' \in BOOLEAN
  BY DEF GameButtons, Steady, frame, IInv, TypePlaces
<1> QED  BY <1>1, <1>2, Walks

LEMMA TriangleKeeps == ASSUME IInv, Triangle PROVE IInv'
<1>1. UNCHANGED Elsewhere
  BY DEF Triangle, Elsewhere
<1>2. /\ ui \in Steady \/ (ui = "copy" /\ ui' = "reload")
      /\ ui' \in Steady \cup {"reload"}
      /\ after' \in {"draw", "games", "triangle"} /\ quits' \in BOOLEAN
  BY DEF Triangle, Steady, frame, IInv, TypePlaces
<1> QED  BY <1>1, <1>2, Walks

LEMMA DialogLeftKeeps == ASSUME IInv, DialogLeft PROVE IInv'
<1>1. UNCHANGED Elsewhere
  BY DEF DialogLeft, Elsewhere
<1>2. /\ ui \in Steady \/ (ui = "copy" /\ ui' = "reload")
      /\ ui' \in Steady \cup {"reload"}
      /\ after' \in {"draw", "games", "triangle"} /\ quits' \in BOOLEAN
  BY DEF DialogLeft, Steady, frame, IInv, TypePlaces
<1> QED  BY <1>1, <1>2, Walks

LEMMA OptionsChangedKeeps == ASSUME IInv, OptionsChanged PROVE IInv'
<1>1. UNCHANGED Elsewhere
  BY DEF OptionsChanged, Elsewhere
<1>2. /\ ui \in Steady \/ (ui = "copy" /\ ui' = "reload")
      /\ ui' \in Steady \cup {"reload"}
      /\ after' \in {"draw", "games", "triangle"} /\ quits' \in BOOLEAN
  BY DEF OptionsChanged, Steady, frame, IInv, TypePlaces
<1> QED  BY <1>1, <1>2, Walks

LEMMA InstallBeginsKeeps == ASSUME IInv, InstallBegins PROVE IInv'
<1> USE DEF IInv
<1>1. UNCHANGED <<after, quits, list, central, num, lock, known, needReload, ptr, count,
                  sel, view, shown, sv, sent, remote, awaits, want, got, surplus, loop,
                  early, halfway, between>>
  BY DEF InstallBegins, frame, clntVars, histVars, listVars, servVars
<1>2. TypeList' /\ TypeTalk' /\ ViewInv' /\ TalkInv'
  BY <1>1, Unmoved
<1>3. TypeDisk'
  BY DEF InstallBegins, frame, Change, clntVars, histVars, listVars, servVars, TypeDisk
<1>4. TypePlaces'
  BY DEF InstallBegins, frame, Change, clntVars, histVars, listVars, servVars, TypePlaces
<1>5. LockInv'
  BY DEF InstallBegins, frame, Change, clntVars, histVars, listVars, servVars, LockInv,
         LoadPlaces, TypePlaces
<1>6. LoadInv'
  BY DEF InstallBegins, frame, Change, clntVars, histVars, listVars, servVars, LoadInv,
         LockInv, LoadPlaces
<1>7. NoticedInv'
  BY DEF InstallBegins, frame, Change, clntVars, histVars, listVars, servVars, NoticedInv,
         LockInv, LoadInv, LoadPlaces, TypePlaces
<1>8. ShownInv'
  BY DEF InstallBegins, frame, Change, clntVars, histVars, listVars, servVars, ShownInv,
         LoadInv, LockInv, LoadPlaces
<1>9. FreshInv'
  BY DEF InstallBegins, frame, Change, clntVars, histVars, listVars, servVars, FreshInv,
         LockInv, LoadPlaces, TypePlaces
<1>10. ToldInv'
  BY DEF InstallBegins, frame, Change, clntVars, histVars, listVars, servVars, ToldInv,
         Running, TalkInv, TypePlaces, TypeTalk, TypeList, LockInv, LoadPlaces
<1> QED
  BY <1>1, <1>2, <1>3, <1>4, <1>5, <1>6, <1>7, <1>8, <1>9, <1>10

LEMMA InstallEndsKeeps == ASSUME IInv, InstallEnds PROVE IInv'
<1>1. UNCHANGED Elsewhere
  BY DEF InstallEnds, Elsewhere
<1>2. /\ ui \in Steady \/ (ui = "copy" /\ ui' = "reload")
      /\ ui' \in Steady \cup {"reload"}
      /\ after' \in {"draw", "games", "triangle"} /\ quits' \in BOOLEAN
  BY DEF InstallEnds, Steady, frame, IInv, TypePlaces
<1> QED  BY <1>1, <1>2, Walks

LEMMA InstallFailsKeeps == ASSUME IInv, InstallFails PROVE IInv'
<1> USE DEF IInv
<1>1. UNCHANGED <<after, quits, changes, list, central, num, lock, known, needReload, ptr,
                  count, sel, view, shown, sv, sent, remote, awaits, want, got, surplus,
                  loop, early, between>>
  BY DEF InstallFails, frame, clntVars, listVars, servVars
<1>2. TypeList' /\ TypeTalk' /\ ViewInv' /\ TalkInv'
  BY <1>1, Unmoved
<1>3. TypeDisk'
  BY DEF InstallFails, frame, clntVars, listVars, servVars, TypeDisk
<1>4. TypePlaces'
  BY DEF InstallFails, frame, clntVars, listVars, servVars, TypePlaces
<1>5. LockInv'
  BY DEF InstallFails, frame, clntVars, listVars, servVars, LockInv, LoadPlaces, TypePlaces
<1>6. LoadInv'
  BY DEF InstallFails, frame, clntVars, listVars, servVars, LoadInv, LockInv, LoadPlaces,
         TypePlaces
<1>7. NoticedInv'
  BY DEF InstallFails, frame, clntVars, listVars, servVars, NoticedInv, LockInv, LoadInv,
         LoadPlaces, TypePlaces
<1>8. ShownInv'
  BY DEF InstallFails, frame, clntVars, listVars, servVars, ShownInv, LoadInv, LockInv,
         LoadPlaces, TypePlaces
<1>9. FreshInv'
  BY DEF InstallFails, frame, clntVars, listVars, servVars, FreshInv, LockInv, LoadPlaces,
         TypePlaces
<1>10. ToldInv'
  BY DEF InstallFails, frame, clntVars, listVars, servVars, ToldInv, Running, TalkInv,
         TypePlaces, TypeTalk, TypeList, LockInv, LoadPlaces
<1> QED
  BY <1>1, <1>2, <1>3, <1>4, <1>5, <1>6, <1>7, <1>8, <1>9, <1>10

LEMMA UpdateDoneKeeps == ASSUME IInv, UpdateDone PROVE IInv'
<1> USE DEF IInv
<1>1. UNCHANGED <<after, quits, list, central, num, lock, known, needReload, ptr, count,
                  sel, view, shown, sv, sent, remote, awaits, want, got, surplus, loop,
                  early, between>>
  BY DEF UpdateDone, frame, clntVars, listVars, servVars
<1>2. TypeList' /\ TypeTalk' /\ ViewInv' /\ TalkInv'
  BY <1>1, Unmoved
<1>3. TypeDisk'
  BY RetitledType DEF UpdateDone, frame, Change, TypeDisk, Chosen, listVars
<1>4. TypePlaces'
  BY DEF UpdateDone, frame, Change, Retitled, clntVars, listVars, servVars, TypePlaces
<1>5. LockInv'
  BY DEF UpdateDone, frame, Change, Retitled, clntVars, listVars, servVars, LockInv,
         LoadPlaces, TypePlaces
<1>6. LoadInv'
  BY DEF UpdateDone, frame, Change, Retitled, clntVars, listVars, servVars, LoadInv,
         LockInv, LoadPlaces, TypePlaces
<1>7. NoticedInv'
  BY DEF UpdateDone, frame, Change, Retitled, clntVars, listVars, servVars, NoticedInv,
         LockInv, LoadInv, LoadPlaces, TypePlaces
<1>8. ShownInv'
  BY DEF UpdateDone, frame, Change, Retitled, clntVars, listVars, servVars, ShownInv,
         LoadInv, LockInv, LoadPlaces, TypePlaces
<1>9. FreshInv'
  BY DEF UpdateDone, frame, Change, Retitled, clntVars, listVars, servVars, FreshInv,
         LockInv, LoadPlaces, TypePlaces
<1>10. ToldInv'
  BY DEF UpdateDone, frame, Change, Retitled, clntVars, listVars, servVars, ToldInv,
         Running, TalkInv, TypePlaces, TypeTalk, TypeList, LockInv, LoadPlaces
<1> QED
  BY <1>1, <1>2, <1>3, <1>4, <1>5, <1>6, <1>7, <1>8, <1>9, <1>10

LEMMA DeleteDoneKeeps == ASSUME IInv, DeleteDone PROVE IInv'
<1> USE DEF IInv
<1>1. UNCHANGED <<after, quits, list, central, num, lock, known, needReload, ptr, count,
                  sel, view, shown, sv, sent, remote, awaits, want, got, surplus, loop,
                  early, halfway, between>>
  BY DEF DeleteDone, frame, clntVars, histVars, listVars, servVars
<1>2. TypeList' /\ TypeTalk' /\ ViewInv' /\ TalkInv'
  BY <1>1, Unmoved
<1>3. TypeDisk'
  <2>1. PICK g \in Chosen : Change([onDisk EXCEPT ![g] = 0])
    BY DEF DeleteDone
  <2>2. onDisk' = [onDisk EXCEPT ![g] = 0] /\ changes' \in 0 .. MaxChanges
    BY <2>1 DEF Change, TypeDisk
  <2>3. onDisk' \in [Names -> 0 .. 2]
    <3>1. onDisk \in [Names -> 0 .. 2] /\ 0 \in 0 .. 2
      BY DEF TypeDisk
    <3> HIDE DEF Names, IInv
    <3> QED  BY ONLY <2>2, <3>1
  <2> QED  BY <2>2, <2>3 DEF DeleteDone, TypeDisk, listVars
<1>4. TypePlaces'
  BY DEF DeleteDone, frame, Change, clntVars, histVars, listVars, servVars, TypePlaces
<1>5. LockInv'
  BY DEF DeleteDone, frame, Change, clntVars, histVars, listVars, servVars, LockInv,
         LoadPlaces, TypePlaces
<1>6. LoadInv'
  BY DEF DeleteDone, frame, Change, clntVars, histVars, listVars, servVars, LoadInv,
         LockInv, LoadPlaces
<1>7. NoticedInv'
  BY DEF DeleteDone, frame, Change, clntVars, histVars, listVars, servVars, NoticedInv,
         LockInv, LoadInv, LoadPlaces, TypePlaces
<1>8. ShownInv'
  BY DEF DeleteDone, frame, Change, clntVars, histVars, listVars, servVars, ShownInv,
         LoadInv, LockInv, LoadPlaces
<1>9. FreshInv'
  BY DEF DeleteDone, frame, Change, clntVars, histVars, listVars, servVars, FreshInv,
         LockInv, LoadPlaces, TypePlaces
<1>10. ToldInv'
  BY DEF DeleteDone, frame, Change, clntVars, histVars, listVars, servVars, ToldInv,
         Running, TalkInv, TypePlaces, TypeTalk, TypeList, LockInv, LoadPlaces
<1> QED
  BY <1>1, <1>2, <1>3, <1>4, <1>5, <1>6, <1>7, <1>8, <1>9, <1>10

(* The steps of the service thread keep it. *)
LEMMA ServiceFreesKeeps == ASSUME IInv, ServiceFrees PROVE IInv'
<1> USE DEF IInv
<1>1. UNCHANGED <<after, quits, onDisk, changes, known, needReload, ui, count, sel, view,
                  shown, sent, remote, awaits, want, got, surplus, loop, early, halfway,
                  between>>
  BY DEF ServiceFrees, frame, clntVars, diskVars, histVars
<1>2. TypeTalk' /\ ViewInv'
  BY <1>1, Unmoved
<1>3. TypeDisk'
  BY DEF ServiceFrees, frame, FreeList, Running, clntVars, diskVars, histVars, TypeDisk
<1>4. TypeList'
  BY DEF ServiceFrees, frame, FreeList, Running, clntVars, diskVars, histVars, TypeList
<1>5. TypePlaces'
  BY DEF ServiceFrees, frame, FreeList, Running, clntVars, diskVars, histVars, TypePlaces
<1>6. LockInv'
  BY DEF ServiceFrees, frame, FreeList, Running, clntVars, diskVars, histVars, LockInv,
         LoadPlaces, TypePlaces
<1>7. LoadInv'
  BY DEF ServiceFrees, frame, FreeList, Running, clntVars, diskVars, histVars, LoadInv,
         LockInv, LoadPlaces
<1>8. NoticedInv'
  BY DEF ServiceFrees, frame, FreeList, Running, clntVars, diskVars, histVars, NoticedInv,
         LockInv, LoadInv, LoadPlaces, TypePlaces
<1>9. ShownInv'
  BY DEF ServiceFrees, frame, FreeList, Running, clntVars, diskVars, histVars, ShownInv,
         LoadInv, LockInv, LoadPlaces
<1>10. FreshInv'
  BY DEF ServiceFrees, frame, FreeList, Running, clntVars, diskVars, histVars, FreshInv,
         LockInv, LoadPlaces, TypePlaces
<1>11. TalkInv'
  BY DEF ServiceFrees, frame, FreeList, Running, clntVars, diskVars, histVars, TalkInv,
         TypePlaces, TypeTalk, TypeList
<1>12. ToldInv'
  BY DEF ServiceFrees, frame, FreeList, Running, clntVars, diskVars, histVars, ToldInv,
         Running, TalkInv, TypePlaces, TypeTalk, TypeList, LockInv, LoadPlaces
<1> QED
  BY <1>1, <1>2, <1>3, <1>4, <1>5, <1>6, <1>7, <1>8, <1>9, <1>10, <1>11, <1>12

LEMMA ServiceBuildsKeeps == ASSUME IInv, ServiceBuilds PROVE IInv'
<1> USE DEF IInv
<1>1. UNCHANGED <<after, quits, onDisk, changes, needReload, ui, ptr, count, sel, view,
                  shown, sent, remote, awaits, want, got, surplus, loop>>
  BY DEF ServiceBuilds, frame, clntVars, diskVars, menuVars
<1>2. TypeTalk' /\ ViewInv'
  BY <1>1, Unmoved
<1>3. TypeDisk'
  BY DEF ServiceBuilds, frame, BuildList, Running, clntVars, diskVars, menuVars, TypeDisk
<1>4. TypeList'
  BY CountBound DEF ServiceBuilds, BuildList, TypeList, TypeDisk, menuVars
<1>5. TypePlaces'
  BY DEF ServiceBuilds, frame, BuildList, Running, clntVars, diskVars, menuVars, TypePlaces
<1>6. LockInv'
  BY DEF ServiceBuilds, frame, BuildList, Running, clntVars, diskVars, menuVars, LockInv,
         LoadPlaces, TypePlaces
<1>7. LoadInv'
  BY DEF ServiceBuilds, frame, BuildList, Running, clntVars, diskVars, menuVars, LoadInv,
         LockInv, LoadPlaces
<1>8. NoticedInv'
  BY DEF ServiceBuilds, frame, BuildList, Running, clntVars, diskVars, menuVars,
         NoticedInv, LockInv, LoadInv, LoadPlaces, TypePlaces
<1>9. ShownInv'
  BY DEF ServiceBuilds, frame, BuildList, Running, clntVars, diskVars, menuVars, ShownInv,
         LoadInv, LockInv, LoadPlaces
<1>10. FreshInv'
  BY DEF ServiceBuilds, frame, BuildList, Running, clntVars, diskVars, menuVars, FreshInv,
         LockInv, LoadPlaces, TypePlaces
<1>11. TalkInv'
  BY DEF ServiceBuilds, frame, BuildList, Running, clntVars, diskVars, menuVars, TalkInv,
         TypePlaces, TypeTalk, TypeList
<1>12. ToldInv'
  BY DEF ServiceBuilds, frame, BuildList, Running, clntVars, diskVars, menuVars, ToldInv,
         Running, TalkInv, TypePlaces, TypeTalk, TypeList, LockInv, LoadPlaces
<1> QED
  BY <1>1, <1>2, <1>3, <1>4, <1>5, <1>6, <1>7, <1>8, <1>9, <1>10, <1>11, <1>12

LEMMA AnswerCountKeeps == ASSUME IInv, AnswerCount PROVE IInv'
<1> USE DEF IInv
<1>1. UNCHANGED <<after, quits, onDisk, changes, list, central, num, lock, known,
                  needReload, ui, ptr, count, sel, view, shown, sent, remote, surplus, loop,
                  early, halfway, between>>
  BY DEF AnswerCount, frame, diskVars, histVars, listVars, menuVars
<1>2. TypeDisk' /\ TypeList' /\ ViewInv' /\ ShownInv'
  BY <1>1, Unmoved
<1>3. TypeTalk'
  BY DEF AnswerCount, frame, Running, diskVars, histVars, listVars, menuVars, TypeTalk,
         TypeList, TalkInv, TypePlaces
<1>4. TypePlaces'
  BY DEF AnswerCount, frame, Running, diskVars, histVars, listVars, menuVars, TypePlaces
<1>5. LockInv'
  BY DEF AnswerCount, frame, Running, diskVars, histVars, listVars, menuVars, LockInv,
         LoadPlaces, TypePlaces
<1>6. LoadInv'
  BY DEF AnswerCount, frame, Running, diskVars, histVars, listVars, menuVars, LoadInv,
         LockInv, LoadPlaces
<1>7. NoticedInv'
  BY DEF AnswerCount, frame, Running, diskVars, histVars, listVars, menuVars, NoticedInv,
         LockInv, LoadInv, LoadPlaces, TypePlaces
<1>8. FreshInv'
  BY DEF AnswerCount, frame, Running, diskVars, histVars, listVars, menuVars, FreshInv,
         LockInv, LoadPlaces, TypePlaces
<1>9. TalkInv'
  BY DEF AnswerCount, frame, Running, diskVars, histVars, listVars, menuVars, TalkInv,
         TypePlaces, TypeTalk, TypeList
<1>10. ToldInv'
  BY DEF AnswerCount, frame, Running, diskVars, histVars, listVars, menuVars, ToldInv,
         Running, TalkInv, TypePlaces, TypeTalk, TypeList, LockInv, LoadPlaces
<1> QED
  BY <1>1, <1>2, <1>3, <1>4, <1>5, <1>6, <1>7, <1>8, <1>9, <1>10

LEMMA ReadStartsKeeps == ASSUME IInv, ReadStarts PROVE IInv'
<1> USE DEF IInv
<1>1. UNCHANGED <<after, quits, onDisk, changes, list, central, num, known, needReload, ui,
                  ptr, count, sel, view, shown, remote, awaits, want, got, surplus, loop,
                  early, halfway, between>>
  BY DEF ReadStarts, frame, clntVars, diskVars, histVars, menuVars
<1>2. TypeDisk' /\ ViewInv' /\ ShownInv'
  BY <1>1, Unmoved
<1>3. TypeList'
  BY DEF ReadStarts, frame, Running, clntVars, diskVars, histVars, menuVars, TypeList
<1>4. TypeTalk'
  BY DEF ReadStarts, frame, Running, clntVars, diskVars, histVars, menuVars, TypeTalk,
         TypeList, TalkInv, TypePlaces
<1>5. TypePlaces'
  BY DEF ReadStarts, frame, Running, clntVars, diskVars, histVars, menuVars, TypePlaces
<1>6. LockInv'
  BY DEF ReadStarts, frame, Running, clntVars, diskVars, histVars, menuVars, LockInv,
         LoadPlaces, TypePlaces
<1>7. LoadInv'
  BY DEF ReadStarts, frame, Running, clntVars, diskVars, histVars, menuVars, LoadInv,
         LockInv, LoadPlaces
<1>8. NoticedInv'
  BY DEF ReadStarts, frame, Running, clntVars, diskVars, histVars, menuVars, NoticedInv,
         LockInv, LoadInv, LoadPlaces, TypePlaces
<1>9. FreshInv'
  BY DEF ReadStarts, frame, Running, clntVars, diskVars, histVars, menuVars, FreshInv,
         LockInv, LoadPlaces, TypePlaces
<1>10. TalkInv'
  BY DEF ReadStarts, frame, Running, clntVars, diskVars, histVars, menuVars, TalkInv,
         TypePlaces, TypeTalk, TypeList
<1>11. ToldInv'
  BY DEF ReadStarts, frame, Running, clntVars, diskVars, histVars, menuVars, ToldInv,
         Running, TalkInv, TypePlaces, TypeTalk, TypeList, LockInv, LoadPlaces
<1> QED
  BY <1>1, <1>2, <1>3, <1>4, <1>5, <1>6, <1>7, <1>8, <1>9, <1>10, <1>11

LEMMA SendEntryKeeps == ASSUME IInv, SendEntry PROVE IInv'
<1> USE DEF IInv
<1>1. UNCHANGED <<after, quits, onDisk, changes, list, central, num, lock, known,
                  needReload, ui, ptr, count, sel, view, shown, sv, remote, awaits, want,
                  loop, early, halfway, between>>
  BY DEF SendEntry, frame, diskVars, histVars, listVars, menuVars
<1>2. TypeDisk' /\ TypeList' /\ TypePlaces' /\ LockInv' /\ LoadInv' /\ NoticedInv' /\
      ViewInv' /\ ShownInv' /\ FreshInv'
  BY <1>1, Unmoved
<1>3. TypeTalk'
  BY DEF SendEntry, frame, Running, diskVars, histVars, listVars, menuVars, TypeTalk,
         TypeList, TalkInv, TypePlaces
<1>4. TalkInv'
  BY DEF SendEntry, frame, Running, diskVars, histVars, listVars, menuVars, TalkInv,
         TypePlaces, TypeTalk, TypeList
<1>5. ToldInv'
  BY DEF SendEntry, frame, Running, diskVars, histVars, listVars, menuVars, ToldInv,
         Running, TalkInv, TypePlaces, TypeTalk, TypeList, LockInv, LoadPlaces
<1> QED
  BY <1>1, <1>2, <1>3, <1>4, <1>5

LEMMA ReadEndsKeeps == ASSUME IInv, ReadEnds PROVE IInv'
<1> USE DEF IInv
<1>1. UNCHANGED <<after, quits, onDisk, changes, list, central, num, known, needReload, ui,
                  ptr, count, sel, view, shown, remote, want, got, surplus, loop, early,
                  halfway, between>>
  BY DEF ReadEnds, frame, diskVars, histVars, menuVars
<1>2. TypeDisk' /\ ViewInv' /\ ShownInv'
  BY <1>1, Unmoved
<1>3. TypeList'
  BY DEF ReadEnds, frame, Running, diskVars, histVars, menuVars, TypeList
<1>4. TypeTalk'
  BY DEF ReadEnds, frame, Running, diskVars, histVars, menuVars, TypeTalk, TypeList,
         TalkInv, TypePlaces
<1>5. TypePlaces'
  BY DEF ReadEnds, frame, Running, diskVars, histVars, menuVars, TypePlaces
<1>6. LockInv'
  BY DEF ReadEnds, frame, Running, diskVars, histVars, menuVars, LockInv, LoadPlaces,
         TypePlaces
<1>7. LoadInv'
  BY DEF ReadEnds, frame, Running, diskVars, histVars, menuVars, LoadInv, LockInv,
         LoadPlaces
<1>8. NoticedInv'
  BY DEF ReadEnds, frame, Running, diskVars, histVars, menuVars, NoticedInv, LockInv,
         LoadInv, LoadPlaces, TypePlaces
<1>9. FreshInv'
  BY DEF ReadEnds, frame, Running, diskVars, histVars, menuVars, FreshInv, LockInv,
         LoadPlaces, TypePlaces
<1>10. TalkInv'
  BY DEF ReadEnds, frame, Running, diskVars, histVars, menuVars, TalkInv, TypePlaces,
         TypeTalk, TypeList
<1>11. ToldInv'
  BY DEF ReadEnds, frame, Running, diskVars, histVars, menuVars, ToldInv, Running, TalkInv,
         TypePlaces, TypeTalk, TypeList, LockInv, LoadPlaces
<1> QED
  BY <1>1, <1>2, <1>3, <1>4, <1>5, <1>6, <1>7, <1>8, <1>9, <1>10, <1>11

LEMMA CleanupKeeps == ASSUME IInv, Cleanup PROVE IInv'
<1> USE DEF IInv
<1>1. UNCHANGED <<after, quits, onDisk, changes, list, central, num, lock, known, ui, ptr,
                  count, sel, view, shown, sent, awaits, want, got, surplus, loop, early,
                  halfway, between>>
  BY DEF Cleanup, frame, clntVars, diskVars, histVars, listVars, menuVars
<1>2. TypeDisk' /\ TypeList' /\ TypeTalk' /\ ViewInv' /\ ShownInv'
  BY <1>1, Unmoved
<1>3. TypePlaces'
  BY DEF Cleanup, frame, Running, clntVars, diskVars, histVars, listVars, menuVars,
         TypePlaces
<1>4. LockInv'
  BY DEF Cleanup, frame, Running, clntVars, diskVars, histVars, listVars, menuVars,
         LockInv, LoadPlaces, TypePlaces
<1>5. LoadInv'
  BY DEF Cleanup, frame, Running, clntVars, diskVars, histVars, listVars, menuVars,
         LoadInv, LockInv, LoadPlaces
<1>6. NoticedInv'
  BY DEF Cleanup, frame, Running, clntVars, diskVars, histVars, listVars, menuVars,
         NoticedInv, LockInv, LoadInv, LoadPlaces, TypePlaces
<1>7. FreshInv'
  BY DEF Cleanup, frame, Running, clntVars, diskVars, histVars, listVars, menuVars,
         FreshInv, LockInv, LoadPlaces, TypePlaces
<1>8. TalkInv'
  BY DEF Cleanup, frame, Running, clntVars, diskVars, histVars, listVars, menuVars,
         TalkInv, TypePlaces, TypeTalk, TypeList
<1>9. ToldInv'
  BY DEF Cleanup, frame, Running, clntVars, diskVars, histVars, listVars, menuVars,
         ToldInv, Running, TalkInv, TypePlaces, TypeTalk, TypeList, LockInv, LoadPlaces
<1> QED
  BY <1>1, <1>2, <1>3, <1>4, <1>5, <1>6, <1>7, <1>8, <1>9

(* The steps of the client keep it. *)
LEMMA ConnectKeeps == ASSUME IInv, Connect PROVE IInv'
<1> USE DEF IInv
<1>1. UNCHANGED <<after, quits, onDisk, changes, list, central, num, lock, known,
                  needReload, ui, ptr, count, sel, view, shown, sent, want, got, surplus,
                  loop, early, halfway, between>>
  BY DEF Connect, frame, diskVars, histVars, listVars, menuVars
<1>2. TypeDisk' /\ TypeList' /\ TypeTalk' /\ ViewInv' /\ ShownInv'
  BY <1>1, Unmoved
<1>3. TypePlaces'
  BY DEF Connect, frame, Running, diskVars, histVars, listVars, menuVars, TypePlaces
<1>4. LockInv'
  BY DEF Connect, frame, Running, diskVars, histVars, listVars, menuVars, LockInv,
         LoadPlaces, TypePlaces
<1>5. LoadInv'
  BY DEF Connect, frame, Running, diskVars, histVars, listVars, menuVars, LoadInv, LockInv,
         LoadPlaces
<1>6. NoticedInv'
  BY DEF Connect, frame, Running, diskVars, histVars, listVars, menuVars, NoticedInv,
         LockInv, LoadInv, LoadPlaces, TypePlaces
<1>7. FreshInv'
  BY DEF Connect, frame, Running, diskVars, histVars, listVars, menuVars, FreshInv,
         LockInv, LoadPlaces, TypePlaces
<1>8. TalkInv'
  BY DEF Connect, frame, Running, diskVars, histVars, listVars, menuVars, TalkInv,
         TypePlaces, TypeTalk, TypeList
<1>9. ToldInv'
  BY DEF Connect, frame, Running, diskVars, histVars, listVars, menuVars, ToldInv, Running,
         TalkInv, TypePlaces, TypeTalk, TypeList, LockInv, LoadPlaces
<1> QED
  BY <1>1, <1>2, <1>3, <1>4, <1>5, <1>6, <1>7, <1>8, <1>9

LEMMA ClientChangesKeeps == ASSUME IInv, ClientChanges PROVE IInv'
<1> USE DEF IInv
<1>1. UNCHANGED <<after, quits, list, central, num, lock, known, ui, ptr, count, sel, view,
                  shown, sv, sent, remote, awaits, want, got, surplus, loop, early, halfway,
                  between>>
  BY DEF ClientChanges, frame, clntVars, histVars, listVars, menuVars, servVars
<1>2. TypeList' /\ TypeTalk' /\ TypePlaces' /\ LockInv' /\ LoadInv' /\ NoticedInv' /\
      ViewInv' /\ ShownInv' /\ TalkInv' /\ ToldInv'
  BY <1>1, Unmoved
<1>3. TypeDisk'
  BY RetitledType DEF ClientChanges, frame, Change, TypeDisk, Chosen, listVars
<1>4. FreshInv'
  BY DEF ClientChanges, frame, Change, Retitled, Running, clntVars, histVars, listVars,
         menuVars, servVars, FreshInv, LockInv, LoadPlaces, TypePlaces
<1> QED
  BY <1>1, <1>2, <1>3, <1>4

LEMMA ClientUpdateFailsKeeps == ASSUME IInv, ClientUpdateFails PROVE IInv'
<1> USE DEF IInv
<1>1. UNCHANGED <<after, quits, list, central, num, lock, known, needReload, ui, ptr, count,
                  sel, view, shown, sv, sent, remote, awaits, want, got, surplus, loop,
                  early, between>>
  BY DEF ClientUpdateFails, frame, clntVars, listVars, menuVars, servVars
<1>2. TypeList' /\ TypeTalk' /\ TypePlaces' /\ LockInv' /\ LoadInv' /\ NoticedInv' /\
      ViewInv' /\ ShownInv' /\ TalkInv' /\ ToldInv'
  BY <1>1, Unmoved
<1>3. TypeDisk'
  BY RetitledType DEF ClientUpdateFails, frame, Change, TypeDisk, Chosen, listVars
<1>4. FreshInv'
  BY DEF ClientUpdateFails, frame, Change, Retitled, Running, clntVars, listVars, menuVars,
         servVars, FreshInv, LockInv, LoadPlaces, TypePlaces
<1> QED
  BY <1>1, <1>2, <1>3, <1>4

LEMMA LoadCommandKeeps == ASSUME IInv, LoadCommand PROVE IInv'
<1> USE DEF IInv
<1>1. UNCHANGED <<after, quits, onDisk, changes, list, central, num, lock, known, ui, ptr,
                  count, sel, view, shown, sent, remote, want, got, surplus, loop, early,
                  halfway>>
  BY DEF LoadCommand, frame, diskVars, listVars, menuVars
<1>2. TypeDisk' /\ TypeList' /\ TypeTalk' /\ ViewInv' /\ ShownInv'
  BY <1>1, Unmoved
<1>3. TypePlaces'
  BY DEF LoadCommand, frame, Running, diskVars, listVars, menuVars, TypePlaces
<1>4. LockInv'
  BY DEF LoadCommand, frame, Running, diskVars, listVars, menuVars, LockInv, LoadPlaces,
         TypePlaces
<1>5. LoadInv'
  BY DEF LoadCommand, frame, Running, diskVars, listVars, menuVars, LoadInv, LockInv,
         LoadPlaces
<1>6. NoticedInv'
  BY DEF LoadCommand, frame, Running, diskVars, listVars, menuVars, NoticedInv, LockInv,
         LoadInv, LoadPlaces, TypePlaces
<1>7. FreshInv'
  BY DEF LoadCommand, frame, Running, diskVars, listVars, menuVars, FreshInv, LockInv,
         LoadPlaces, TypePlaces
<1>8. TalkInv'
  BY DEF LoadCommand, frame, Running, diskVars, listVars, menuVars, TalkInv, TypePlaces,
         TypeTalk, TypeList
<1>9. ToldInv'
  BY DEF LoadCommand, frame, Running, diskVars, listVars, menuVars, ToldInv, Running,
         TalkInv, TypePlaces, TypeTalk, TypeList, LockInv, LoadPlaces
<1> QED
  BY <1>1, <1>2, <1>3, <1>4, <1>5, <1>6, <1>7, <1>8, <1>9

LEMMA ReadCommandKeeps == ASSUME IInv, ReadCommand PROVE IInv'
<1> USE DEF IInv
<1>1. UNCHANGED <<after, quits, onDisk, changes, list, central, num, lock, known,
                  needReload, ui, ptr, count, sel, view, shown, sent, remote, want, got,
                  surplus, loop, early, halfway, between>>
  BY DEF ReadCommand, frame, diskVars, histVars, listVars, menuVars
<1>2. TypeDisk' /\ TypeList' /\ TypeTalk' /\ ViewInv' /\ ShownInv'
  BY <1>1, Unmoved
<1>3. TypePlaces'
  BY DEF ReadCommand, frame, Running, diskVars, histVars, listVars, menuVars, TypePlaces
<1>4. LockInv'
  BY DEF ReadCommand, frame, Running, diskVars, histVars, listVars, menuVars, LockInv,
         LoadPlaces, TypePlaces
<1>5. LoadInv'
  BY DEF ReadCommand, frame, Running, diskVars, histVars, listVars, menuVars, LoadInv,
         LockInv, LoadPlaces
<1>6. NoticedInv'
  BY DEF ReadCommand, frame, Running, diskVars, histVars, listVars, menuVars, NoticedInv,
         LockInv, LoadInv, LoadPlaces, TypePlaces
<1>7. FreshInv'
  BY DEF ReadCommand, frame, Running, diskVars, histVars, listVars, menuVars, FreshInv,
         LockInv, LoadPlaces, TypePlaces
<1>8. TalkInv'
  BY DEF ReadCommand, frame, Running, diskVars, histVars, listVars, menuVars, TalkInv,
         TypePlaces, TypeTalk, TypeList
<1>9. ToldInv'
  BY DEF ReadCommand, frame, Running, diskVars, histVars, listVars, menuVars, ToldInv,
         Running, TalkInv, TypePlaces, TypeTalk, TypeList, LockInv, LoadPlaces
<1> QED
  BY <1>1, <1>2, <1>3, <1>4, <1>5, <1>6, <1>7, <1>8, <1>9

LEMMA ClientLeavesKeeps == ASSUME IInv, ClientLeaves PROVE IInv'
<1> USE DEF IInv
<1>1. UNCHANGED <<after, quits, onDisk, changes, list, central, num, lock, known,
                  needReload, ui, ptr, count, sel, view, shown, sv, sent, remote, loop,
                  early, halfway, between>>
  BY DEF ClientLeaves, frame, diskVars, histVars, listVars, menuVars, servVars
<1>2. TypeDisk' /\ TypeList' /\ LockInv' /\ LoadInv' /\ NoticedInv' /\ ViewInv' /\
      ShownInv' /\ FreshInv'
  BY <1>1, Unmoved
<1>3. TypeTalk'
  BY DEF ClientLeaves, frame, Running, diskVars, histVars, listVars, menuVars, servVars,
         TypeTalk, TypeList, TalkInv, TypePlaces
<1>4. TypePlaces'
  BY DEF ClientLeaves, frame, Running, diskVars, histVars, listVars, menuVars, servVars,
         TypePlaces
<1>5. TalkInv'
  BY DEF ClientLeaves, frame, Running, diskVars, histVars, listVars, menuVars, servVars,
         TalkInv, TypePlaces, TypeTalk, TypeList
<1>6. ToldInv'
  BY DEF ClientLeaves, frame, Running, diskVars, histVars, listVars, menuVars, servVars,
         ToldInv, Running, TalkInv, TypePlaces, TypeTalk, TypeList, LockInv, LoadPlaces
<1> QED
  BY <1>1, <1>2, <1>3, <1>4, <1>5, <1>6

(* The end of the server loop keeps it. *)
LEMMA LoopStopsKeeps == ASSUME IInv, LoopStops PROVE IInv'
<1> USE DEF IInv
<1>1. UNCHANGED <<after, quits, onDisk, changes, list, central, num, lock, known,
                  needReload, ptr, count, sel, view, shown, sv, sent, remote, awaits, want,
                  got, surplus, early, halfway, between>>
  BY DEF LoopStops, frame, clntVars, diskVars, histVars, listVars, servVars
<1>2. TypeDisk' /\ TypeList' /\ TypeTalk' /\ ViewInv' /\ TalkInv'
  BY <1>1, Unmoved
<1>3. TypePlaces'
  BY DEF LoopStops, frame, WakeMenu, Running, clntVars, diskVars, histVars, listVars,
         servVars, TypePlaces
<1>4. LockInv'
  BY DEF LoopStops, frame, WakeMenu, Running, clntVars, diskVars, histVars, listVars,
         servVars, LockInv, LoadPlaces, TypePlaces
<1>5. LoadInv'
  BY DEF LoopStops, frame, WakeMenu, Running, clntVars, diskVars, histVars, listVars,
         servVars, LoadInv, LockInv, LoadPlaces
<1>6. NoticedInv'
  BY DEF LoopStops, frame, WakeMenu, Running, clntVars, diskVars, histVars, listVars,
         servVars, NoticedInv, LockInv, LoadInv, LoadPlaces, TypePlaces
<1>7. ShownInv'
  BY DEF LoopStops, frame, WakeMenu, Running, clntVars, diskVars, histVars, listVars,
         servVars, ShownInv, LoadInv, LockInv, LoadPlaces
<1>8. FreshInv'
  BY DEF LoopStops, frame, WakeMenu, Running, clntVars, diskVars, histVars, listVars,
         servVars, FreshInv, LockInv, LoadPlaces, TypePlaces
<1>9. ToldInv'
  BY DEF LoopStops, frame, WakeMenu, Running, clntVars, diskVars, histVars, listVars,
         servVars, ToldInv, Running, TalkInv, TypePlaces, TypeTalk, TypeList, LockInv,
         LoadPlaces
<1> QED
  BY <1>1, <1>2, <1>3, <1>4, <1>5, <1>6, <1>7, <1>8, <1>9

LEMMA LoopDiesKeeps == ASSUME IInv, LoopDies PROVE IInv'
<1> USE DEF IInv
<1>1. UNCHANGED <<after, quits, onDisk, changes, list, central, num, lock, known,
                  needReload, ptr, count, sel, view, shown, sv, sent, remote, awaits, want,
                  got, surplus, early, halfway, between>>
  BY DEF LoopDies, frame, clntVars, diskVars, histVars, listVars, servVars
<1>2. TypeDisk' /\ TypeList' /\ TypeTalk' /\ ViewInv' /\ TalkInv'
  BY <1>1, Unmoved
<1>3. TypePlaces'
  BY DEF LoopDies, frame, WakeMenu, Running, clntVars, diskVars, histVars, listVars,
         servVars, TypePlaces
<1>4. LockInv'
  BY DEF LoopDies, frame, WakeMenu, Running, clntVars, diskVars, histVars, listVars,
         servVars, LockInv, LoadPlaces, TypePlaces
<1>5. LoadInv'
  BY DEF LoopDies, frame, WakeMenu, Running, clntVars, diskVars, histVars, listVars,
         servVars, LoadInv, LockInv, LoadPlaces
<1>6. NoticedInv'
  BY DEF LoopDies, frame, WakeMenu, Running, clntVars, diskVars, histVars, listVars,
         servVars, NoticedInv, LockInv, LoadInv, LoadPlaces, TypePlaces
<1>7. ShownInv'
  BY DEF LoopDies, frame, WakeMenu, Running, clntVars, diskVars, histVars, listVars,
         servVars, ShownInv, LoadInv, LockInv, LoadPlaces
<1>8. FreshInv'
  BY DEF LoopDies, frame, WakeMenu, Running, clntVars, diskVars, histVars, listVars,
         servVars, FreshInv, LockInv, LoadPlaces, TypePlaces
<1>9. ToldInv'
  BY DEF LoopDies, frame, WakeMenu, Running, clntVars, diskVars, histVars, listVars,
         servVars, ToldInv, Running, TalkInv, TypePlaces, TypeTalk, TypeList, LockInv,
         LoadPlaces
<1> QED
  BY <1>1, <1>2, <1>3, <1>4, <1>5, <1>6, <1>7, <1>8, <1>9

-----------------------------------------------------------------------------
(* The list that SystemInitThread has loaded is that of the disk.          *)
LEMMA InitHolds == Init => IInv
<1> SUFFICES ASSUME Init PROVE IInv
  OBVIOUS
<1>1. num \in 0 .. Games
  BY CountBound DEF Init
<1>2. TypeDisk
  BY DEF Init, TypeDisk
<1>3. TypeList /\ TypeTalk /\ TypePlaces
  <2>1. TypeList /\ TypeTalk
    BY <1>1 DEF Init, TypeList, TypeTalk
  <2>2. ui = "start" /\ after = "draw" /\ quits \in BOOLEAN /\ sv = "off" /\ awaits = "gone"
    BY DEF Init
  <2>3. TypePlaces
    BY <2>2 DEF TypePlaces
  <2> QED  BY <2>1, <2>3
<1>4. LockInv /\ LoadInv /\ NoticedInv
  BY DEF Init, LockInv, LoadInv, NoticedInv, LoadPlaces
<1>5. ViewInv /\ ShownInv /\ FreshInv
  BY DEF Init, ViewInv, ShownInv, FreshInv, LoadPlaces
<1>6. TalkInv /\ ToldInv
  BY DEF Init, TalkInv, ToldInv
<1> QED  BY <1>2, <1>3, <1>4, <1>5, <1>6 DEF IInv

(* Every step keeps the invariant. *)
LEMMA NextKeeps == IInv /\ [Next]_vars => IInv'
<1> SUFFICES ASSUME IInv, [Next]_vars PROVE IInv'
  OBVIOUS
<1>1. CASE MenuSteps
  BY <1>1, MenuStartKeeps, MenuSpaceKeeps, MenuTopKeeps, LockForDrawKeeps, DrawKeeps,
           MenuFreesKeeps, MenuBuildsKeeps, MenuLoadedKeeps, ExitChecksKeeps,
           ExitStopsKeeps, DeinitKeeps DEF MenuSteps
<1>2. CASE UserSteps
  BY <1>2, KeyDownKeeps, KeyUpKeeps, CancelButtonKeeps, ButtonKeeps, GameButtonsKeeps,
           TriangleKeeps, DialogLeftKeeps, OptionsChangedKeeps,
           InstallBeginsKeeps, InstallEndsKeeps, InstallFailsKeeps, UpdateDoneKeeps,
           DeleteDoneKeeps DEF UserSteps
<1>3. CASE ServiceSteps
  BY <1>3, ServiceFreesKeeps, ServiceBuildsKeeps, AnswerCountKeeps, ReadStartsKeeps,
           SendEntryKeeps, ReadEndsKeeps, CleanupKeeps DEF ServiceSteps
<1>4. CASE ClientSteps
  BY <1>4, ConnectKeeps, ClientChangesKeeps, ClientUpdateFailsKeeps, LoadCommandKeeps,
           ReadCommandKeeps, ClientLeavesKeeps DEF ClientSteps
<1>5. CASE LoopStops
  BY <1>5, LoopStopsKeeps
<1>6. CASE LoopDies
  BY <1>6, LoopDiesKeeps
<1>7. CASE UNCHANGED vars
  <2>1. UNCHANGED vars
    BY <1>7
  <2>2. /\ UNCHANGED <<onDisk, changes, list, central, num, lock, needReload>>
        /\ UNCHANGED <<known, ui, after, quits, ptr, count, sel, view, shown, sv, sent>>
        /\ UNCHANGED <<awaits, want, got, surplus, early, halfway, between>>
    BY <2>1 DEF vars, diskVars, listVars, menuVars, frame, servVars, clntVars, histVars
  <2> QED  BY <2>2, Unmoved DEF IInv
<1> QED  BY <1>1, <1>2, <1>3, <1>4, <1>5, <1>6, <1>7 DEF Next

(* The invariant holds in every state: who is at work on the list holds    *)
(* its lock, a frame notices every other load by the generation, and what  *)
(* the client was told goes with what the service thread has to send.      *)
THEOREM Invariance == Spec => []IInv
<1>1. Init => IInv
  BY InitHolds
<1>2. IInv /\ [Next]_vars => IInv'
  BY NextKeeps
<1> QED  BY <1>1, <1>2, PTL DEF Spec

(* StaleIsNoticed: a pointer or a number of the menu that is not that of   *)
(* the central list is noticed before the next frame is drawn, whoever     *)
(* loaded the list (GetHDLGameList and the generations of HDLGameList.c).  *)
THEOREM StaleIsNoticedAlways == Spec => []StaleIsNoticed
<1>1. IInv => StaleIsNoticed
  BY DEF IInv, StaleIsNoticed, NoticedInv, LockInv, LoadPlaces, TypePlaces
<1> QED  BY <1>1, Invariance, PTL

(* ScreenTrue: the selection exists and is in view, a button acts on the   *)
(* game that was shown, unless a button of the same frame had the list     *)
(* loaded again or the direction pad moved the selection in it (MainMenu,  *)
(* menu.c 1866 to 1914), and the screen shows what is on the disk once no  *)
(* client is left and no change of the disk has failed halfway.            *)
THEOREM ScreenTrueAlways == Spec => []ScreenTrue
<1>1. ASSUME IInv PROVE ScreenTrue
  <2>1. TypeOK
    <3>1. TypeDisk /\ TypeList /\ TypeTalk /\ TypePlaces
      BY <1>1 DEF IInv
    <3>2. /\ lock = "menu" => ui \in {"loading", "drawing"}
          /\ lock = "service" => sv \in {"loading", "byeloading", "send"}
      BY <1>1 DEF IInv, LockInv, LoadPlaces
    <3> QED  BY <3>1, <3>2, Zenon DEF TypeOK, TypeDisk, TypeList, TypeTalk, TypePlaces
  <2>2. SelectionInView
    BY <1>1 DEF IInv, SelectionInView, ViewInv
  <2>3. ActsOnShown
    BY <1>1 DEF IInv, ActsOnShown, ShownInv
  <2>4. ListUpToDate
    BY <1>1 DEF IInv, ListUpToDate, FreshInv, LoadPlaces
  <2> QED  BY <2>1, <2>2, <2>3, <2>4 DEF ScreenTrue
<1> QED  BY <1>1, Invariance, PTL

(* ClientListWhole: the client gets as many entries as it was told, unless *)
(* the menu loaded the list between its two commands (LoadGameList and     *)
(* ReadGameList of the server).                                            *)
THEOREM ClientListWholeAlways == Spec => []ClientListWhole
<1>1. IInv => ClientListWhole
  BY DEF IInv, ClientListWhole, ToldInv, TalkInv
<1> QED  BY <1>1, Invariance, PTL

HIDE GameListAssumption DEF GameListAssumption, Names

-----------------------------------------------------------------------------
(* The least number of a set, for the first place in a list that is wrong. *)
Below == {ss \in Nat \X Nat : ss[1] < ss[2]}

LEMMA Least ==
  ASSUME NEW S \in SUBSET Nat, S # {}
  PROVE  \E n \in S : \A m \in S : n <= m
<1>1. IsWellFoundedOn(Below, Nat)
  BY NatLessThanWellFounded DEF OpToRel, Below
<1>2. \A m, n \in Nat : <<m, n>> \in Below <=> m < n
  BY DEF Below
<1>3. PICK n \in S : \A m \in S : ~(<<m, n>> \in Below)
  BY <1>1, WFMin
<1>4. \A m \in S : m \in Nat /\ n \in Nat /\ ~(m < n)
  BY <1>2, <1>3
<1>5. \A m \in S : n <= m
  BY <1>4
<1> QED  BY <1>5

(* The inductive invariants. *)
Entry == [offset : Nat, size : Nat]
Table == [F -> Entry]
Places == {"idle", "stat", "read", "end", "open", "file", "write", "table", "dialog", "payload"}
Errands == {"none", "titles", "stat", "read", "update", "install", "write"}
Where == [at : Places, doing : Errands, part : Parts \cup {0}, i : 0 .. 5, data : Known,
          files : Table, tab : Table, seek : Nat, ok : BOOLEAN]
Sectored == [0 .. AreaEnd - 1 -> (Known \ {"none"}) \X Nat]
Resources == {r \in [data : Known, size : Nat, buf : BOOLEAN] : r.size = 0 <=> r.data = "none"}
Results == {"none", "ok", "icon", "fail"}
Sources == {"none", "title", "default", "save", "external"}

DiskTyped == disk \in [Parts -> [table : Table, area : Sectored]] /\ pos \in Nat /\ pos % Sector = 0
ThreadsTyped == th \in [T -> Where]
ListsTyped == res \in [T -> [F -> Resources]] /\ copy \in [F -> Resources]
ClientTyped ==
  /\ cl.at \in {"away", "idle", "waits", "gone"} /\ cl.copy \in [F -> Resources]
  /\ cl = [at |-> cl.at, todo |-> cl.todo, copy |-> cl.copy]
  /\ ans \in [result : Results, data : Known, files : Table]
JobsTyped ==
  /\ job \in [T -> [part : Parts \cup {0}, title : GameTitles, src : Sources, save : Saves,
                    before : [F -> Known]]]
  /\ last \in [T -> Results]
  /\ task \in Parts \cup {0}

Cmds == {"titles", "stat", "read", "load", "init", "initdef", "initsave", "cancel", "write"}
Calls == [cmd : Cmds, i : F, data : Known, size : Nat]
LoadCalls == [cmd : {"load"}, i : F, data : Known \ {"none"}, size : Nat \ {0}]
ReadCalls == [cmd : {"read"}, i : F, data : {"none"}, size : Nat \ {0}]
Writing(s) ==
  /\ s # << >> /\ s[Len(s)] = Req("write")
  /\ \A k \in 1 .. Len(s) : k < Len(s) => s[k] \in LoadCalls
Reading(s) == s # << >> /\ \A k \in 1 .. Len(s) : s[k] \in ReadCalls
Planned(s) ==
  \/ s \in {<<Req("titles"), Req("stat")>>, <<Req("stat")>>, <<Req("initsave")>>,
            <<Req("cancel"), Req("init"), Req("write")>>}
  \/ Reading(s) \/ Writing(s)
  \/ s # << >> /\ Head(s) \in {Req("init"), Req("initdef")} /\ Writing(Tail(s))

MenuPlaced ==
  LET m == th["menu"] IN
  /\ m.doing \in {"none", "titles", "update", "install"}
  /\ m.at # "payload"
  /\ m.at = "idle" => m.doing = "none"
  /\ m.at = "dialog" => m.doing = "titles"
  /\ m.at \in {"stat", "read"} => m.doing \in {"titles", "update"}
  /\ m.at = "read" /\ m.doing = "titles" => m.i \in F
  /\ m.at \in {"open", "file", "write", "table"} => m.doing \in {"update", "install"}
  /\ m.at # "idle" => m.part \in Parts /\ m.doing # "none"
ServicePlaced ==
  LET s == th["service"] IN
  /\ s.doing \in {"none", "titles", "stat", "read", "write"}
  /\ s.at # "dialog"
  /\ s.at \in {"idle", "payload"} <=> s.doing = "none"
  /\ s.at \in {"stat", "read"} => s.doing # "write"
  /\ s.at = "read" => s.doing # "stat" /\ s.i \in F
  /\ s.at = "stat" => s.i \in F
  /\ s.at \in {"open", "file", "write", "table"} => s.doing = "write"
  /\ s.at \notin {"idle", "payload"} => s.part \in Parts
  /\ s.at # "idle" => ans = NoAns /\ cl.at \in {"waits", "gone"}
  /\ s.at \notin {"idle", "payload"} => cl.at = "waits"
Opening ==
  \A t \in T : /\ th[t].at \in Opened => th[t].i \in F
               /\ th[t].at = "write" => res[t][th[t].i].size >= 1
Answering ==
  /\ cl.at = "waits" => cl.todo \in Seq(Calls) /\ Planned(cl.todo)
  /\ cl.at \in {"waits"} => job["service"].part \in Parts
  /\ cl.at \in {"away", "idle"} => ans = NoAns
  /\ th["service"].at = "payload" => task # 0 /\ (cl.at = "waits" => Call.cmd = "load")
  /\ th["service"].doing \in {"titles", "stat", "read", "write"} => Call.cmd = th["service"].doing
Shape == /\ DiskTyped /\ ThreadsTyped /\ ListsTyped /\ ClientTyped /\ JobsTyped
         /\ MenuPlaced /\ ServicePlaced /\ Opening /\ Answering

(* The disk. *)
Ends(ent) == ent.offset \div Sector + Sectors(ent.size)
SeekClear ==
  \A t \in T : th[t].at = "write" =>
    \/ "seek" \in spoilt
    \/ LET first == th[t].seek \div Sector IN
       first + Sectors(res[t][th[t].i].size) <= HeaderAt \/ first >= HeaderAt + 2
HeaderClear == "seek" \in spoilt \/ \A p \in Parts : \A s \in Header : disk[p].area[s] = <<"header", s - HeaderAt>>
Alone(t) == alone[t] \/ "raced" \notin spoilt
InPlace(t) ==
  LET u == th[t] IN
  /\ u.at \in {"file", "write", "table"} =>
       \A j \in F : u.tab[j] = NoEntry \/ (u.tab[j].size >= 1 /\ Whole(disk[u.part].area, u.tab[j]))
  /\ u.at \in {"file", "write"} =>
       /\ \A j \in F : u.tab[j] # NoEntry => j < u.i /\ Ends(u.tab[j]) <= u.seek \div Sector
  /\ (u.at = "file" /\ u.i > 0) \/ u.at = "write" => pos = u.seek /\ u.seek <= AreaEnd * Sector
Laying == \A t \in T : th[t].at \in Opened /\ Alone(t) => InPlace(t)
Racing == /\ "seek" \in spoilt => "raced" \in spoilt
          /\ \A t \in T : th[t].at \in Opened /\ "raced" \notin spoilt => th[Other(t)].at \notin Opened
AloneTyped == alone \in [T -> BOOLEAN]
AreaInv == AloneTyped /\ SeekClear /\ HeaderClear /\ Laying /\ Racing /\ TableTrue

(* The memory and the task. *)
Carried == IF th["service"].at = "payload" THEN 1 ELSE 0
Loose ==
  /\ th["menu"].at \in {"idle", "dialog", "stat", "read"} \/ th["menu"].doing = "titles"
       => \A i \in F : ~res["menu"][i].buf
  /\ task = 0 => \A i \in F : ~res["service"][i].buf
Copied ==
  LET m == th["menu"] IN
  /\ ~(m.at = "read" /\ m.doing = "update") => copy = NoFiles
  /\ \A j \in F : (copy[j].buf => j < m.i) /\ (~copy[j].buf => copy[j] = Static("none"))
Counted == heap \in Nat /\ leaked \in Nat /\ HeapOwned
Freed ==
  /\ cl.at = "away" => task = 0
  /\ ~loadFailed =>
      /\ cl.at = "idle" => task = 0
      /\ cl.at = "waits" =>
           /\ Call.cmd \in {"titles", "stat", "read"} => task = 0
           /\ Call.cmd \in {"init", "initdef", "initsave"} =>
                IF ans = NoAns THEN task = 0 ELSE ans.result # "fail"
           /\ Call.cmd \in {"cancel", "write"} /\ ans # NoAns => task = 0
NothingInv == Counted /\ Copied /\ Loose /\ Freed

(* The sizes of what a file may hold, and the lists of resources. *)
LEMMA FileSizes ==
  /\ FileSize["system"] = 2 /\ FileSize["kelf"] = 2 /\ FileSize["view"] = 3
  /\ FileSize["saveview"] = 5 /\ FileSize["savedel"] = 4 /\ FileSize["none"] = 0
  /\ \A title \in GameTitles : FileSize[title] \in {1, 3}
  /\ Known = {"system", "kelf", "view", "saveview", "savedel", "short", "long", "torn",
              "none", "header"}
  BY DEF FileSize, GameTitles, Contents, Known

LEMMA Defaults ==
  /\ PrepareOSDDefaultResources \in [F -> Resources] /\ NoFiles \in [F -> Resources]
  /\ NoTable \in Table /\ NoEntry \in Entry
  /\ \A i \in F : ~PrepareOSDDefaultResources[i].buf /\ ~NoFiles[i].buf
  BY FileSizes DEF PrepareOSDDefaultResources, NoFiles, Static, Resources, F, SystemCnf,
     IconSys, ViewIcon, DelIcon, BootKelf, NoTable, NoEntry, Table, Entry

LEMMA Prepared ==
  ASSUME NEW save \in Saves, NEW title \in GameTitles
  PROVE  PrepareOSDResources(save, title) \in [F -> Resources]
  BY FileSizes, Defaults DEF PrepareOSDResources, Allocated, Resources, F, GameTitles,
     IconSys, ViewIcon, DelIcon, GenerateIconFilesFromMCSave, Saves

(* A file that is stepped over the header misses it. *)
LEMMA HoppedClear ==
  ASSUME NEW p \in Nat, p % Sector = 0, NEW size \in Nat \ {0}
  PROVE  LET place == Hopped(p, size)
             first == place \div Sector IN
         /\ place \in Nat /\ place % Sector = 0 /\ place >= p
         /\ first + Sectors(size) <= HeaderAt \/ first >= HeaderAt + 2
         /\ p <= AreaEnd * Sector => place <= AreaEnd * Sector
  BY OsdAreaAssumption DEF Hopped, Rounded, Sectors, Sector

(* The calls that the client has to make. *)
LEMMA Requests ==
  /\ \A cmd \in Cmds : Req(cmd) \in Calls /\ Req(cmd).cmd = cmd
  /\ \A i \in F, data \in Known, size \in Nat :
       Load(i, data, size) \in Calls /\ Load(i, data, size).cmd = "load"
  /\ \A i \in F, data \in Known \ {"none"}, size \in Nat \ {0} : Load(i, data, size) \in LoadCalls
  /\ LoadCalls \subseteq Calls /\ ReadCalls \subseteq Calls
  BY FileSizes DEF Req, Load, Calls, Cmds, F, SystemCnf, LoadCalls, ReadCalls

LEMMA None == ASSUME NEW s \in Seq(Calls) PROVE s = << >> <=> Len(s) = 0
  BY EmptySeq

LEMMA WritingSteps ==
  ASSUME NEW s \in Seq(Calls), Writing(s)
  PROVE  /\ s # << >>
         /\ \/ Head(s) = Req("write") /\ Tail(s) = << >>
            \/ Head(s) \in LoadCalls /\ Tail(s) \in Seq(Calls) /\ Writing(Tail(s))
<1>1. s # << >> /\ Len(s) \in Nat \ {0} /\ Head(s) = s[1] /\ Tail(s) \in Seq(Calls)
      /\ Len(Tail(s)) = Len(s) - 1 /\ \A k \in 1 .. Len(s) - 1 : Tail(s)[k] = s[k + 1]
  BY DEF Writing
<1>2. CASE Len(s) = 1
  <2>0. Tail(s) \in Seq(Calls) /\ Len(Tail(s)) = 0
    BY <1>1, <1>2
  <2>1. Tail(s) = << >>
    BY <2>0, None, Zenon
  <2>2. s[1] = Req("write")
    BY <1>2 DEF Writing
  <2> QED  BY <1>1, <2>1, <2>2
<1>3. CASE Len(s) # 1
  <2>0. Tail(s) \in Seq(Calls) /\ Len(Tail(s)) # 0
    BY <1>1, <1>3
  <2>2. Tail(s) # << >>
    BY <2>0, None, Zenon
  <2>1. s[1] \in LoadCalls
    BY <1>1, <1>3 DEF Writing
  <2>3. Tail(s)[Len(Tail(s))] = Req("write")
    BY <1>1, <1>3 DEF Writing
  <2>4. ASSUME NEW k \in 1 .. Len(Tail(s)), k < Len(Tail(s)) PROVE Tail(s)[k] \in LoadCalls
    BY <1>1, <2>4 DEF Writing
  <2> QED  BY <1>1, <2>1, <2>2, <2>3, <2>4 DEF Writing
<1> QED  BY <1>1, <1>2, <1>3

LEMMA ReadingSteps ==
  ASSUME NEW s \in Seq(Calls), Reading(s)
  PROVE  /\ s # << >> /\ Head(s) \in ReadCalls
         /\ Len(s) = 1 => Tail(s) = << >>
         /\ Len(s) # 1 => Tail(s) \in Seq(Calls) /\ Reading(Tail(s))
<1>1. s # << >> /\ Len(s) \in Nat \ {0} /\ Head(s) = s[1] /\ Tail(s) \in Seq(Calls)
      /\ Len(Tail(s)) = Len(s) - 1 /\ \A k \in 1 .. Len(s) - 1 : Tail(s)[k] = s[k + 1]
  BY DEF Reading
<1>2. Head(s) \in ReadCalls
  BY <1>1 DEF Reading
<1>3. ASSUME Len(s) # 1 PROVE Tail(s) # << >> /\ \A k \in 1 .. Len(Tail(s)) : Tail(s)[k] \in ReadCalls
  <2>0. Tail(s) \in Seq(Calls) /\ Len(Tail(s)) # 0
    BY <1>1, <1>3
  <2>1. Tail(s) # << >>
    BY <2>0, None, Zenon
  <2>2. ASSUME NEW k \in 1 .. Len(Tail(s)) PROVE Tail(s)[k] \in ReadCalls
    BY <1>1 DEF Reading
  <2> QED  BY <2>1, <2>2
<1>4. Len(s) = 1 => Tail(s) = << >>
  <2>1. SUFFICES ASSUME Len(s) = 1 PROVE Tail(s) = << >>
    OBVIOUS
  <2>2. Tail(s) \in Seq(Calls) /\ Len(Tail(s)) = 0
    BY <1>1, <2>1
  <2> QED  BY <2>2, None, Zenon
<1> QED  BY <1>1, <1>2, <1>3, <1>4 DEF Reading

(* What follows a call, by its command. *)
LEMMA PlanSteps ==
  ASSUME NEW s \in Seq(Calls), Planned(s)
  PROVE  LET c == Head(s).cmd IN
         /\ s # << >> /\ Head(s) \in Calls /\ Tail(s) \in Seq(Calls)
         /\ c \in {"init", "initdef", "load"} => Planned(Tail(s)) /\ Writing(Tail(s))
         /\ c = "load" => Head(s) \in LoadCalls
         /\ c = "cancel" => Tail(s) = <<Req("init"), Req("write")>>
         /\ c = "titles" => Tail(s) = <<Req("stat")>>
         /\ c \in {"stat", "initsave", "write"} => Tail(s) = << >>
         /\ c = "read" => /\ Head(s) \in ReadCalls
                          /\ Len(s) = 1 => Tail(s) = << >>
                          /\ Len(s) # 1 => Planned(Tail(s)) /\ Reading(Tail(s))
<1> DEFINE c == Head(s).cmd
<1>0. \A cmd \in Cmds : Req(cmd) \in Calls /\ Req(cmd).cmd = cmd
  BY Requests
<1>1. CASE s \in {<<Req("titles"), Req("stat")>>, <<Req("stat")>>, <<Req("initsave")>>,
                  <<Req("cancel"), Req("init"), Req("write")>>}
  <2>1. CASE s = <<Req("titles"), Req("stat")>>
    BY <1>0, <2>1 DEF Cmds
  <2>2. CASE s = <<Req("stat")>>
    BY <1>0, <2>2 DEF Cmds
  <2>3. CASE s = <<Req("initsave")>>
    BY <1>0, <2>3 DEF Cmds
  <2>4. CASE s = <<Req("cancel"), Req("init"), Req("write")>>
    BY <1>0, <2>4 DEF Cmds
  <2> QED  BY <1>1, <2>1, <2>2, <2>3, <2>4
<1>2. CASE Reading(s)
  <2>1. Head(s).cmd = "read" /\ Tail(s) \in Seq(Calls) /\ Head(s) \in Calls
    BY <1>2, ReadingSteps, Requests DEF ReadCalls
  <2> QED  BY <1>2, <2>1, ReadingSteps DEF Planned
<1>3. CASE Writing(s)
  <2>1. s # << >> /\ Tail(s) \in Seq(Calls) /\ Head(s) \in Calls
    BY <1>3 DEF Writing
  <2>2. CASE Head(s) = Req("write") /\ Tail(s) = << >>
    BY <1>0, <2>1, <2>2 DEF Cmds
  <2>3. CASE Head(s) \in LoadCalls /\ Writing(Tail(s))
    <3>1. Head(s).cmd = "load"
      BY <2>3 DEF LoadCalls
    <3> QED  BY <2>1, <2>3, <3>1 DEF Planned
  <2> QED  BY <1>3, <2>2, <2>3, WritingSteps
<1>4. CASE s # << >> /\ Head(s) \in {Req("init"), Req("initdef")} /\ Writing(Tail(s))
  <2>1. Head(s).cmd \in {"init", "initdef"} /\ Tail(s) \in Seq(Calls) /\ Head(s) \in Calls
    BY <1>0, <1>4 DEF Cmds
  <2> QED  BY <1>4, <2>1 DEF Planned
<1> QED  BY <1>1, <1>2, <1>3, <1>4 DEF Planned

(* The plans that are made. *)
LEMMA WritingMade ==
  ASSUME NEW loads \in Seq(LoadCalls)
  PROVE  /\ loads \o <<Req("write")>> \in Seq(Calls) /\ Writing(loads \o <<Req("write")>>)
         /\ \A cmd \in {"init", "initdef"} :
              LET s == <<Req(cmd)>> \o loads \o <<Req("write")>> IN s \in Seq(Calls) /\ Planned(s)
<1> DEFINE w == loads \o <<Req("write")>>
<1>0. loads \in Seq(Calls) /\ Req("write") \in Calls
  BY Requests DEF Cmds
<1>1. w \in Seq(Calls) /\ Len(w) = Len(loads) + 1 /\ w[Len(w)] = Req("write")
      /\ \A k \in 1 .. Len(loads) : w[k] = loads[k]
  BY <1>0
<1>2. Writing(w)
  BY <1>1 DEF Writing
<1>3. ASSUME NEW cmd \in {"init", "initdef"}
      PROVE  LET s == <<Req(cmd)>> \o loads \o <<Req("write")>> IN s \in Seq(Calls) /\ Planned(s)
  <2> DEFINE s == <<Req(cmd)>> \o loads \o <<Req("write")>>
  <2>1. Req(cmd) \in Calls
    BY Requests DEF Cmds
  <2>2. s \in Seq(Calls) /\ s # << >> /\ Head(s) = Req(cmd) /\ Tail(s) = w
    BY <1>0, <1>1, <2>1
  <2> QED  BY <1>2, <2>2 DEF Planned
<1> QED  BY <1>1, <1>2, <1>3

(* What the steps of a thread do to its record. *)
Others(t) == \A u \in T : u # t => th'[u] = th[u]

LEMMA GoesTo ==
  ASSUME ThreadsTyped, NEW t \in T, NEW place \in Places, Goes(t, place)
  PROVE  /\ ThreadsTyped' /\ Others(t)
         /\ LET u == th'[t] IN
            /\ u.at = place /\ u.doing = th[t].doing /\ u.part = th[t].part /\ u.i = th[t].i
            /\ u.data = th[t].data /\ u.files = th[t].files /\ u.tab = th[t].tab
            /\ u.seek = th[t].seek /\ u.ok = th[t].ok
  BY DEF ThreadsTyped, Goes, Others, Where

LEMMA FailsThen ==
  ASSUME ThreadsTyped, NEW t \in T, Fails(t)
  PROVE  /\ ThreadsTyped' /\ Others(t)
         /\ LET u == th'[t] IN
            /\ u.at = "end" /\ u.doing = th[t].doing /\ u.part = th[t].part /\ u.i = th[t].i
            /\ u.data = th[t].data /\ u.files = th[t].files /\ u.tab = th[t].tab
            /\ u.seek = th[t].seek /\ ~u.ok
<1>1. "end" \in Places
  BY DEF Places
<1> QED  BY <1>1 DEF ThreadsTyped, Fails, Others, Where

LEMMA BeginsThen ==
  ASSUME ThreadsTyped, NEW t \in T, NEW place \in Places, NEW doing \in Errands,
         NEW p \in Parts \cup {0}, Begins(t, place, doing, p)
  PROVE  /\ ThreadsTyped' /\ Others(t)
         /\ LET u == th'[t] IN
            /\ u.at = place /\ u.doing = doing /\ u.part = p /\ u.i = 0
            /\ u.data = "none" /\ u.files = NoTable /\ u.tab = NoTable /\ u.seek = 0 /\ u.ok
<1> DEFINE w == [Resting EXCEPT !.at = place, !.doing = doing, !.part = p]
<1>1. Resting \in Where
  BY Defaults, FileSizes DEF Where, Resting, Places, Errands
<1>2. w \in Where
  BY <1>1 DEF Where
<1>3. /\ w.at = place /\ w.doing = doing /\ w.part = p /\ w.i = 0
      /\ w.data = "none" /\ w.files = NoTable /\ w.tab = NoTable /\ w.seek = 0 /\ w.ok
  BY DEF Resting
<1>4. th' = [th EXCEPT ![t] = w]
  BY DEF Begins
<1> HIDE DEF w
<1>5. ThreadsTyped' /\ Others(t) /\ th'[t] = w
  BY <1>2, <1>4 DEF ThreadsTyped, Others
<1> QED  BY <1>3, <1>5

LEMMA AfterFileThen ==
  ASSUME ThreadsTyped, NEW t \in T, NEW ok \in BOOLEAN, NEW tab \in Table, NEW seek \in Nat,
         th[t].i \in F, AfterFile(t, ok, tab, seek)
  PROVE  /\ ThreadsTyped' /\ Others(t)
         /\ LET u == th'[t] IN
            /\ u.doing = th[t].doing /\ u.part = th[t].part
            /\ u.at = (IF ok /\ th[t].i < 4 THEN "file" ELSE "table") /\ u.at \in {"file", "table"}
            /\ u.i = (IF ok /\ th[t].i < 4 THEN th[t].i + 1 ELSE th[t].i) /\ u.i \in F
            /\ u.data = th[t].data /\ u.files = th[t].files /\ u.tab = tab
            /\ u.seek = seek /\ u.ok = ok
<1> DEFINE more == ok /\ th[t].i < BootKelf
           place == IF more THEN "file" ELSE "table"
           i == IF more THEN th[t].i + 1 ELSE th[t].i
           w == [th[t] EXCEPT !.ok = ok, !.tab = tab, !.seek = seek, !.at = place, !.i = i]
<1>1. th[t] \in Where /\ "file" \in Places /\ "table" \in Places
  BY DEF ThreadsTyped, Places
<1>2. w \in Where
  <2>1. place \in Places /\ i \in 0 .. 5
    BY <1>1 DEF F, BootKelf
  <2> HIDE DEF place, i
  <2> QED  BY <1>1, <2>1 DEF Where
<1>3. th' = [th EXCEPT ![t] = w]
  BY DEF AfterFile, ThreadsTyped, Where
<1>4. /\ w.doing = th[t].doing /\ w.part = th[t].part
      /\ w.at = place /\ w.i = i
      /\ w.data = th[t].data /\ w.files = th[t].files /\ w.tab = tab
      /\ w.seek = seek /\ w.ok = ok
  BY <1>1 DEF Where
<1> HIDE DEF w
<1>5. ThreadsTyped' /\ Others(t) /\ th'[t] = w
  BY <1>2, <1>3 DEF ThreadsTyped, Others
<1> QED  BY <1>4, <1>5 DEF F, BootKelf

LEMMA Becomes ==
  ASSUME ThreadsTyped, NEW t \in T, NEW w \in Where, th' = [th EXCEPT ![t] = w]
  PROVE  ThreadsTyped' /\ Others(t) /\ th'[t] = w
  BY DEF ThreadsTyped, Others
-----------------------------------------------------------------------------
(* Shape is inductive.  A step of a thread that is at work leaves the      *)
(* client's side alone. *)
LEMMA Works ==
  ASSUME Shape, NEW t \in T, DiskTyped', ListsTyped', ThreadsTyped', Others(t),
         UNCHANGED <<res, cl, ans, job, last, task>>,
         th[t].at \in {"stat", "read", "open"} \cup Opened,
         th'[t].at \in {"read", "end"} \cup Opened,
         th'[t].doing = th[t].doing, th'[t].part = th[t].part,
         th'[t].at = "read" => /\ th[t].at \in {"stat", "read"} /\ th[t].doing # "stat"
                               /\ th[t].doing # "update" => th'[t].i \in F,
         th'[t].at \in Opened => th[t].at \in {"open"} \cup Opened /\ th'[t].i \in F,
         th'[t].at = "write" => res[t][th'[t].i].size >= 1
  PROVE  Shape'
<1>1. ClientTyped' /\ JobsTyped'
  BY DEF Shape, ClientTyped, JobsTyped
<1>2. \A u \in T : u # t => th'[u] = th[u]
  BY DEF Others
<1>3. "menu" \in T /\ "service" \in T /\ "menu" # "service"
  BY DEF T
<1>4. MenuPlaced'
  <2>1. CASE t = "menu"
    BY <2>1 DEF Shape, MenuPlaced, Opened
  <2>2. CASE t # "menu"
    BY <1>2, <1>3, <2>2 DEF Shape, MenuPlaced
  <2> QED  BY <2>1, <2>2
<1>5. ServicePlaced'
  <2>1. CASE t = "service"
    BY <2>1 DEF Shape, ServicePlaced, Opened
  <2>2. CASE t # "service"
    BY <1>2, <1>3, <2>2 DEF Shape, ServicePlaced
  <2> QED  BY <2>1, <2>2
<1>6. Opening'
  BY <1>2 DEF Shape, Opening, Opened
<1>7. Answering'
  <2>1. th'["service"].doing = th["service"].doing
    BY <1>2, <1>3
  <2>2. th'["service"].at = "payload" => th["service"].at = "payload"
    BY <1>2, <1>3 DEF Opened
  <2> QED  BY <2>1, <2>2 DEF Shape, Answering, Call
<1> QED  BY <1>1, <1>4, <1>5, <1>6, <1>7 DEF Shape

LEMMA ReadBackKnown ==
  ASSUME NEW area \in Sectored, NEW ent \in Entry
  PROVE  ReadBack(area, ent) \in Known /\ (ReadBack(area, ent) = "none" <=> ent.size = 0)
<1>1. "torn" \in Known /\ "none" \in Known
  BY FileSizes
<1>2. ASSUME ent.size # 0, Whole(area, ent)
      PROVE  area[ent.offset \div Sector][1] \in Known \ {"none"}
  <2>1. ent.offset \in Nat /\ ent.size \in Nat \ {0}
    BY <1>2 DEF Entry
  <2>2. ent.offset \div Sector \in 0 .. AreaEnd - 1
    BY <1>2, <2>1, OsdAreaAssumption DEF Whole, Sectors, Sector
  <2> QED  BY <2>2 DEF Sectored
<1> QED  BY <1>1, <1>2 DEF ReadBack

LEMMA WrittenTyped ==
  ASSUME NEW area \in Sectored, NEW offset \in Nat, NEW data \in Known \ {"none"}, NEW size \in Nat
  PROVE  Written(area, offset, data, size) \in Sectored
<1> DEFINE first == offset \div Sector
<1>1. first \in Nat
  BY DEF Sector
<1> HIDE DEF first
<1>2. ASSUME NEW s \in 0 .. AreaEnd - 1, s \in first .. first + Sectors(size) - 1
      PROVE  <<data, s - first>> \in (Known \ {"none"}) \X Nat
  BY <1>1, <1>2, OsdAreaAssumption
<1> QED  BY <1>1, <1>2 DEF Written, Sectored, first

LEMMA NextFileKnown ==
  ASSUME NEW files \in Table, NEW i \in 0 .. 5
  PROVE  LET n == NextFile(files, i) IN
         /\ n \in 0 .. 5 /\ i <= n
         /\ n \in F => files[n].size > 0
         /\ \A j \in F : i <= j /\ j < n => files[j].size = 0
<1> DEFINE rest == {j \in F : j >= i /\ files[j].size > 0}
<1>1. CASE rest = {}
  BY <1>1 DEF NextFile, F, BootKelf, Table, Entry
<1>2. CASE rest # {}
  <2>1. rest \in SUBSET Nat
    BY DEF F
  <2>2. PICK n \in rest : \A m \in rest : n <= m
    BY <1>2, <2>1, Least
  <2>3. Min(rest) \in rest /\ \A m \in rest : Min(rest) <= m
    BY <2>2 DEF Min
  <2> QED  BY <1>2, <2>3 DEF NextFile, F, Table, Entry
<1> QED  BY <1>1, <1>2

LEMMA ContentsTyped ==
  ASSUME DiskTyped, NEW p \in Parts
  PROVE  ContentsOf(p) \in [F -> Known]
  BY ReadBackKnown DEF DiskTyped, ContentsOf, Table

LEMMA ShapeGetOSDResourceFileStats ==
  ASSUME Shape, NEW t \in T, GetOSDResourceFileStats(t)
  PROVE  Shape'
<1>1. /\ DiskTyped' /\ ListsTyped' /\ UNCHANGED <<res, cl, ans, job, last, task>>
      /\ th[t].at = "stat" /\ ThreadsTyped /\ th[t] \in Where
  BY DEF Shape, GetOSDResourceFileStats, DiskTyped, ListsTyped, disks, mem, ghosts, ThreadsTyped
<1>2. CASE Fails(t)
  <2>1. /\ ThreadsTyped' /\ Others(t) /\ th'[t].at = "end" /\ th'[t].doing = th[t].doing
        /\ th'[t].part = th[t].part
    BY <1>1, <1>2, FailsThen
  <2> QED  BY <1>1, <2>1, Works DEF Opened
<1>3. CASE ~Fails(t)
  <2> DEFINE files == disk[th[t].part].table
             doing == th[t].doing
             place == IF doing = "stat" THEN "end" ELSE "read"
             i == CASE doing = "titles" -> IconSys
                    [] doing = "update" -> NextFile(files, 0)
                    [] OTHER -> th[t].i
             w == [th[t] EXCEPT !.files = files, !.at = place, !.i = i]
  <2>1. files \in Table
    BY <1>1 DEF Shape, MenuPlaced, ServicePlaced, T, DiskTyped
  <2>2. i \in 0 .. 5 /\ (doing # "update" => i \in F)
    <3>1. NextFile(files, 0) \in 0 .. 5
      BY <2>1, NextFileKnown
    <3>2. doing \notin {"titles", "update"} => th[t].i \in F
      BY <1>1 DEF Shape, MenuPlaced, ServicePlaced, T
    <3>3. th[t].i \in 0 .. 5
      BY <1>1 DEF Where
    <3> QED  BY <3>1, <3>2, <3>3 DEF F, IconSys
  <2>3. th' = [th EXCEPT ![t] = w]
    BY <1>1, <1>3 DEF GetOSDResourceFileStats, ThreadsTyped, Where
  <2>4. place \in Places /\ place \in {"read", "end"} /\ (place = "read" => doing # "stat")
    BY DEF Places
  <2> HIDE DEF files, place, i
  <2>5. w \in Where /\ w.at = place /\ w.doing = doing /\ w.part = th[t].part /\ w.i = i
    BY <1>1, <2>1, <2>2, <2>4 DEF Where
  <2> HIDE DEF w
  <2>6. ThreadsTyped' /\ Others(t) /\ th'[t] = w
    BY <1>1, <2>3, <2>5, Becomes
  <2> QED  BY <1>1, <2>2, <2>4, <2>5, <2>6, Works DEF Opened
<1> QED  BY <1>2, <1>3

LEMMA ShapeReadOSDResourceFile ==
  ASSUME Shape, NEW t \in T, ReadOSDResourceFile(t)
  PROVE  Shape'
<1> DEFINE i == th[t].i
           data == ReadBack(disk[th[t].part].area, th[t].files[i])
<1>1. /\ DiskTyped' /\ UNCHANGED <<res, cl, ans, job, last, task>>
      /\ th[t].at = "read" /\ i \in F /\ ThreadsTyped /\ th[t] \in Where
  BY DEF Shape, ReadOSDResourceFile, DiskTyped, disks, ghosts, ThreadsTyped
<1>2. th[t].part \in Parts /\ th[t].doing # "stat" /\ (t = "service" => th[t].doing # "update")
  BY <1>1 DEF Shape, MenuPlaced, ServicePlaced, T
<1>3. disk[th[t].part].area \in Sectored /\ th[t].files \in Table /\ th[t].files[i] \in Entry
  BY <1>1, <1>2 DEF Shape, DiskTyped, Where, Table
<1>4. data \in Known /\ (data = "none" <=> th[t].files[i].size = 0)
  BY <1>3, ReadBackKnown
<1>5. CASE th[t].doing = "update"
  <2> DEFINE n == NextFile(th[t].files, i + 1)
             w == [th[t] EXCEPT !.i = n]
  <2>1. n \in 0 .. 5
    BY <1>1, <1>3, NextFileKnown DEF F
  <2>2. th' = [th EXCEPT ![t] = w] /\ copy' = [copy EXCEPT ![i] = Allocated(data, th[t].files[i].size)]
    BY <1>1, <1>5 DEF ReadOSDResourceFile, ThreadsTyped, Where
  <2> HIDE DEF n
  <2>3. w \in Where /\ w.at = "read" /\ w.doing = th[t].doing /\ w.part = th[t].part
    BY <1>1, <2>1 DEF Where
  <2> HIDE DEF w
  <2>4. ThreadsTyped' /\ Others(t) /\ th'[t] = w
    BY <1>1, <2>2, <2>3, Becomes
  <2>5. ListsTyped'
    <3>1. Allocated(data, th[t].files[i].size) \in Resources
      BY <1>3, <1>4 DEF Allocated, Resources, Entry
    <3> QED  BY <1>1, <2>2, <3>1 DEF Shape, ListsTyped
  <2> QED  BY <1>1, <1>2, <1>5, <2>3, <2>4, <2>5, Works DEF Opened
<1>6. CASE th[t].doing # "update"
  <2> DEFINE w == [th[t] EXCEPT !.at = "end", !.data = data]
  <2>2. th' = [th EXCEPT ![t] = w] /\ copy' = copy
    BY <1>1, <1>6 DEF ReadOSDResourceFile, ThreadsTyped, Where
  <2> HIDE DEF data
  <2>3. w \in Where /\ w.at = "end" /\ w.doing = th[t].doing /\ w.part = th[t].part
    BY <1>1, <1>4 DEF Where, Places
  <2> HIDE DEF w
  <2>4. ThreadsTyped' /\ Others(t) /\ th'[t] = w
    BY <1>1, <2>2, <2>3, Becomes
  <2>5. ListsTyped'
    BY <1>1, <2>2 DEF Shape, ListsTyped
  <2> QED  BY <1>1, <2>3, <2>4, <2>5, Works DEF Opened
<1> QED  BY <1>5, <1>6

LEMMA ShapeReadFails ==
  ASSUME Shape, NEW t \in T, ReadFails(t)
  PROVE  Shape'
<1>1. /\ DiskTyped' /\ UNCHANGED <<res, cl, ans, job, last, task>> /\ Fails(t)
      /\ th[t].at = "read" /\ ThreadsTyped /\ copy' \in {copy, NoFiles}
  BY DEF Shape, ReadFails, DiskTyped, disks, ghosts, FreeCopies
<1>2. ListsTyped'
  BY <1>1, Defaults DEF Shape, ListsTyped
<1>3. /\ ThreadsTyped' /\ Others(t) /\ th'[t].at = "end" /\ th'[t].doing = th[t].doing
      /\ th'[t].part = th[t].part
  BY <1>1, FailsThen
<1> QED  BY <1>1, <1>2, <1>3, Works DEF Opened

LEMMA ShapeOpen ==
  ASSUME Shape, NEW t \in T, Open(t)
  PROVE  Shape'
<1>1. /\ DiskTyped' /\ ListsTyped' /\ UNCHANGED <<res, cl, ans, job, last, task>>
      /\ th[t].at = "open" /\ ThreadsTyped /\ th[t] \in Where
  BY DEF Shape, Open, DiskTyped, ListsTyped, disks, mem, ThreadsTyped
<1>2. CASE Fails(t)
  <2>1. /\ ThreadsTyped' /\ Others(t) /\ th'[t].at = "end" /\ th'[t].doing = th[t].doing
        /\ th'[t].part = th[t].part
    BY <1>1, <1>2, FailsThen
  <2> QED  BY <1>1, <2>1, Works DEF Opened
<1>3. CASE ~Fails(t)
  <2> DEFINE none == NoTable
             start == 0
             w == [th[t] EXCEPT !.at = "file", !.i = start, !.tab = none, !.seek = start]
  <2>1. th' = [th EXCEPT ![t] = w]
    BY <1>1, <1>3 DEF Open, ThreadsTyped, Where
  <2>2. none \in Table /\ "file" \in Places /\ start \in 0 .. 5 /\ start \in Nat /\ start \in F
    BY Defaults DEF Places, F
  <2> HIDE DEF none, start
  <2>3. w \in Where /\ w.at = "file" /\ w.doing = th[t].doing /\ w.part = th[t].part /\ w.i \in F
    BY <1>1, <2>2 DEF Where
  <2> HIDE DEF w
  <2>4. ThreadsTyped' /\ Others(t) /\ th'[t] = w
    BY <1>1, <2>1, <2>3, Becomes
  <2> QED  BY <1>1, <2>3, <2>4, Works DEF Opened
<1> QED  BY <1>2, <1>3

LEMMA Offsets ==
  ASSUME DiskTyped, NEW t \in T, NEW size \in Nat
  PROVE  /\ FirstOffset(t) \in Nat /\ FirstOffset(t) % Sector = 0
         /\ Behind(pos, size) \in Nat /\ Behind(pos, size) % Sector = 0
  BY DEF DiskTyped, FirstOffset, Sector, Behind, Rounded, Sectors

(* Where a thread is that has a file to install. *)
LEMMA AtFile ==
  ASSUME Shape, NEW t \in T, th[t].at \in Opened
  PROVE  /\ ThreadsTyped /\ th[t] \in Where /\ th[t].i \in F /\ th[t].part \in Parts
         /\ th[t].tab \in Table /\ th[t].seek \in Nat
         /\ res[t][th[t].i] \in Resources /\ res[t][th[t].i].size \in Nat
         /\ res[t][th[t].i].data \in Known
         /\ th[t].at = "write" => res[t][th[t].i].size >= 1
         /\ res[t][th[t].i].size = 0 <=> res[t][th[t].i].data = "none"
<1>1. ThreadsTyped /\ th[t] \in Where /\ th[t].i \in F /\ res \in [T -> [F -> Resources]]
  BY DEF Shape, ThreadsTyped, Opening, ListsTyped
<1>2. th[t].part \in Parts
  BY DEF Shape, MenuPlaced, ServicePlaced, T, Opened
<1>3. th[t].tab \in Table /\ th[t].seek \in Nat
  BY <1>1 DEF Where
<1>4. th[t].at = "write" => res[t][th[t].i].size >= 1
  BY DEF Shape, Opening
<1> QED  BY <1>1, <1>2, <1>3, <1>4 DEF Resources

LEMMA ShapeInstallNothing ==
  ASSUME Shape, NEW t \in T, InstallNothing(t)
  PROVE  Shape'
<1> DEFINE i == th[t].i
           tab == IF i = DelIcon THEN [th[t].tab EXCEPT ![DelIcon] = th[t].tab[ViewIcon]] ELSE th[t].tab
<1>1. /\ disk' = disk /\ UNCHANGED <<res, copy, cl, ans, job, last, task>>
      /\ th[t].at = "file" /\ pos' = FirstOffset(t)
      /\ AfterFile(t, i \in Optional, tab, th[t].seek)
  BY DEF InstallNothing, mem
<1>2. DiskTyped' /\ ListsTyped'
  BY <1>1, Offsets DEF Shape, DiskTyped, ListsTyped
<1>3. tab \in Table
  BY <1>1, AtFile DEF Table, Opened, ViewIcon, DelIcon, F
<1> DEFINE ok == i \in Optional
<1>4. ok \in BOOLEAN
  OBVIOUS
<1>5. /\ ThreadsTyped' /\ Others(t) /\ th'[t].doing = th[t].doing /\ th'[t].part = th[t].part
      /\ th'[t].i \in F /\ th'[t].at \in {"file", "table"}
  <2>1. ThreadsTyped /\ th[t].i \in F /\ th[t].seek \in Nat
    BY <1>1, AtFile DEF Opened
  <2>2. AfterFile(t, ok, tab, th[t].seek)
    BY <1>1
  <2> HIDE DEF tab, ok
  <2> QED  BY <1>3, <1>4, <2>1, <2>2, AfterFileThen
<1> QED  BY <1>1, <1>2, <1>5, Works DEF Opened

LEMMA ShapeInstallOSDFile ==
  ASSUME Shape, NEW t \in T, InstallOSDFile(t)
  PROVE  Shape'
<1> DEFINE i == th[t].i
           place == Hopped(FirstOffset(t), res[t][i].size)
           w == [th[t] EXCEPT !.at = "write", !.seek = hddLseek(@, place)]
<1>1. /\ disk' = disk /\ UNCHANGED <<res, copy, cl, ans, job, last, task>>
      /\ th[t].at = "file" /\ pos' = place /\ res[t][i].size >= 1
      /\ th' = [th EXCEPT ![t].at = "write", ![t].seek = hddLseek(@, place)]
  BY DEF InstallOSDFile, mem
<1>2. th[t] \in Where /\ i \in F /\ res[t][i].size \in Nat \ {0} /\ ThreadsTyped
  BY <1>1, AtFile DEF Opened
<1>3. place \in Nat /\ place % Sector = 0
  BY <1>2, Offsets, HoppedClear DEF Shape
<1> HIDE DEF place
<1>4. DiskTyped' /\ ListsTyped'
  BY <1>1, <1>3 DEF Shape, DiskTyped, ListsTyped
<1>5. th' = [th EXCEPT ![t] = w]
  BY <1>1, <1>2 DEF ThreadsTyped, Where
<1>6. w \in Where /\ w.at = "write" /\ w.doing = th[t].doing /\ w.part = th[t].part /\ w.i = i
  BY <1>2, <1>3 DEF Where, Places, hddLseek
<1> HIDE DEF w
<1>7. ThreadsTyped' /\ Others(t) /\ th'[t] = w
  BY <1>2, <1>5, <1>6, Becomes
<1> QED  BY <1>1, <1>2, <1>4, <1>6, <1>7, Works DEF Opened

LEMMA ShapeWriteFile ==
  ASSUME Shape, NEW t \in T, WriteFile(t)
  PROVE  Shape'
<1> DEFINE i == th[t].i
           r == res[t][i]
           p == th[t].part
           seek == th[t].seek
           fits == Fits(seek, r.size)
           new == [th[t].tab EXCEPT ![i] = [offset |-> pos, size |-> r.size]]
           tab == IF fits THEN new ELSE th[t].tab
           to == Transferred(seek, r.size)
<1>1. /\ UNCHANGED <<res, copy, cl, ans, job, last, task>>
      /\ th[t].at = "write" /\ pos' = Behind(pos, r.size)
  BY DEF WriteFile, mem
<1>2. /\ ThreadsTyped /\ i \in F /\ p \in Parts /\ th[t].tab \in Table /\ seek \in Nat
      /\ r.size \in Nat \ {0} /\ r.data \in Known \ {"none"}
  BY <1>1, AtFile DEF Opened
<1>3. \/ /\ disk' = [disk EXCEPT ![p].area = Written(@, seek, r.data, r.size)]
         /\ AfterFile(t, fits, tab, to)
      \/ /\ disk' = [disk EXCEPT ![p].area = Written(@, seek, r.data, 1)]
         /\ AfterFile(t, FALSE, th[t].tab, seek)
  BY DEF WriteFile
<1>4. tab \in Table /\ to \in Nat /\ fits \in BOOLEAN
  <2>1. pos \in Nat
    BY DEF Shape, DiskTyped
  <2>2. Transferred(seek, r.size) \in Nat
    BY <1>2, OsdAreaAssumption DEF Transferred, Rounded, Sectors, Sector
  <2>3. new \in Table
    BY <1>2, <2>1 DEF Table, Entry
  <2>4. fits \in BOOLEAN
    BY DEF Fits
  <2> HIDE DEF new
  <2> QED  BY <1>2, <2>2, <2>3, <2>4
<1> HIDE DEF new, tab, to, fits
<1>5. DiskTyped'
  <2>1. disk[p].area \in Sectored /\ disk[p] \in [table : Table, area : Sectored]
    BY <1>2 DEF Shape, DiskTyped
  <2>2. \A size \in Nat : Written(disk[p].area, seek, r.data, size) \in Sectored
    BY <1>2, <2>1, WrittenTyped
  <2>3. PICK area \in Sectored : disk' = [disk EXCEPT ![p].area = area]
    BY <1>2, <1>3, <2>2 DEF Shape, DiskTyped
  <2>4. disk' \in [Parts -> [table : Table, area : Sectored]]
    BY <1>2, <2>1, <2>3 DEF Shape, DiskTyped
  <2> QED  BY <1>1, <1>2, <2>4, Offsets DEF Shape, DiskTyped
<1>6. ListsTyped'
  BY <1>1 DEF Shape, ListsTyped
<1>7. /\ ThreadsTyped' /\ Others(t) /\ th'[t].doing = th[t].doing /\ th'[t].part = th[t].part
      /\ th'[t].i \in F /\ th'[t].at \in {"file", "table"}
  <2>1. CASE AfterFile(t, fits, tab, to)
    BY <1>2, <1>4, <2>1, AfterFileThen
  <2>2. CASE AfterFile(t, FALSE, th[t].tab, seek)
    BY <1>2, <2>2, AfterFileThen
  <2> QED  BY <1>3, <2>1, <2>2
<1> QED  BY <1>1, <1>2, <1>5, <1>6, <1>7, Works DEF Opened

LEMMA ShapeWriteTable ==
  ASSUME Shape, NEW t \in T, WriteTable(t)
  PROVE  Shape'
<1>1. /\ UNCHANGED <<pos, res, copy, cl, ans, job, last, task>> /\ th[t].at = "table"
      /\ \/ Goes(t, "end") /\ disk' = [disk EXCEPT ![th[t].part].table = th[t].tab]
         \/ Fails(t) /\ disk' = disk
  BY DEF WriteTable, mem
<1>2. ThreadsTyped /\ th[t].part \in Parts /\ th[t].tab \in Table /\ "end" \in Places
  BY <1>1, AtFile DEF Opened, Places
<1>3. DiskTyped' /\ ListsTyped'
  BY <1>1, <1>2 DEF Shape, DiskTyped, ListsTyped
<1>4. /\ ThreadsTyped' /\ Others(t) /\ th'[t].at = "end" /\ th'[t].doing = th[t].doing
      /\ th'[t].part = th[t].part
  BY <1>1, <1>2, GoesTo, FailsThen
<1> QED  BY <1>1, <1>2, <1>3, <1>4, Works DEF Opened

LEMMA ShapeThreadStep ==
  ASSUME Shape, NEW t \in T, ThreadStep(t)
  PROVE  Shape'
  BY ShapeGetOSDResourceFileStats, ShapeReadOSDResourceFile, ShapeReadFails, ShapeOpen,
     ShapeInstallNothing, ShapeInstallOSDFile, ShapeWriteFile, ShapeWriteTable DEF ThreadStep

(* The menu's steps, which leave the client's side alone, too. *)
LEMMA MenuActs ==
  ASSUME Shape, UNCHANGED <<disk, pos, cl, ans, task>>, ListsTyped', ThreadsTyped', JobsTyped',
         Others("menu"), job'["service"] = job["service"], res'["service"] = res["service"],
         MenuPlaced', th'["menu"].at \notin Opened
  PROVE  Shape'
<1>1. DiskTyped' /\ ClientTyped'
  BY DEF Shape, DiskTyped, ClientTyped
<1>2. "service" \in T /\ th'["service"] = th["service"] /\ T = {"menu", "service"}
  BY DEF Others, T
<1>3. ServicePlaced'
  BY <1>2 DEF Shape, ServicePlaced
<1>4. Opening'
  <2>1. th'["menu"].at # "write"
    BY DEF Opened
  <2>2. /\ th["service"].at \in Opened => th["service"].i \in F
        /\ th["service"].at = "write" => res["service"][th["service"].i].size >= 1
    BY <1>2 DEF Shape, Opening
  <2>3. ASSUME NEW u \in T
        PROVE  /\ th'[u].at \in Opened => th'[u].i \in F
               /\ th'[u].at = "write" => res'[u][th'[u].i].size >= 1
    <3>1. CASE u = "menu"
      BY <2>1, <3>1
    <3>2. CASE u = "service"
      BY <1>2, <2>2, <3>2
    <3> QED  BY <1>2, <3>1, <3>2
  <2> QED  BY <2>3 DEF Opening
<1>5. Answering'
  BY <1>2 DEF Shape, Answering, Call
<1> QED  BY <1>1, <1>3, <1>4, <1>5 DEF Shape

LEMMA Two == "menu" \in T /\ "service" \in T /\ "menu" # "service" /\ T = {"menu", "service"}
  BY DEF T

LEMMA MenuHere ==
  ASSUME Shape
  PROVE  /\ ThreadsTyped /\ ListsTyped /\ JobsTyped /\ DiskTyped /\ "menu" \in T /\ "service" \in T
         /\ "menu" # "service" /\ T = {"menu", "service"}
         /\ {"stat", "dialog", "open", "idle", "end"} \subseteq Places
         /\ {"titles", "update", "install", "none"} \subseteq Errands
         /\ th["menu"].at # "idle" => th["menu"].part \in Parts
         /\ th["menu"].part \in Parts \cup {0}
  BY DEF Shape, T, Places, Errands, MenuPlaced, ThreadsTyped, Where

(* A change is asked for. *)
LEMMA AsksTyped ==
  ASSUME Shape, NEW t \in T, NEW p \in Parts, NEW title \in GameTitles, NEW src \in Sources,
         NEW save \in Saves, Asks(t, p, title, src, save), task' = task
  PROVE  /\ JobsTyped' /\ last'[t] = "none" /\ \A u \in T : u # t => job'[u] = job[u] /\ last'[u] = last[u]
         /\ job'[t] = [part |-> p, title |-> title, src |-> src, save |-> save, before |-> ContentsOf(p)]
<1>1. ContentsOf(p) \in [F -> Known]
  BY ContentsTyped DEF Shape
<1>2. JobsTyped
  BY DEF Shape
<1> QED  BY <1>1, <1>2 DEF Asks, JobsTyped, Results

LEMMA ShapeDialogOpens ==
  ASSUME Shape, NEW p \in MenuParts, DialogOpens(p)
  PROVE  Shape'
<1>1. p \in Parts
  BY OsdAssumption
<1>2. /\ Begins("menu", "stat", "titles", p) /\ UNCHANGED <<disk, pos, cl, ans, task, res, copy, job, last>>
  BY DEF DialogOpens, disks, mem, ghosts
<1>3. /\ ThreadsTyped' /\ Others("menu") /\ th'["menu"].at = "stat" /\ th'["menu"].doing = "titles"
      /\ th'["menu"].part = p
  BY <1>1, <1>2, MenuHere, BeginsThen
<1>4. ListsTyped' /\ JobsTyped' /\ MenuPlaced'
  BY <1>1, <1>2, <1>3, MenuHere DEF ListsTyped, JobsTyped, MenuPlaced
<1> QED  BY <1>2, <1>3, <1>4, MenuActs DEF Opened

LEMMA ShapeDialogShown ==
  ASSUME Shape, DialogShown
  PROVE  Shape'
<1>1. /\ Begins("menu", "dialog", "titles", th["menu"].part)
      /\ th["menu"].at = "end" /\ UNCHANGED <<disk, pos, cl, ans, task, res, copy, job, last>>
  BY DEF DialogShown, disks, mem, ghosts
<1>2. th["menu"].part \in Parts
  BY <1>1, MenuHere
<1>3. /\ ThreadsTyped' /\ Others("menu") /\ th'["menu"].at = "dialog" /\ th'["menu"].doing = "titles"
      /\ th'["menu"].part = th["menu"].part
  BY <1>1, <1>2, MenuHere, BeginsThen
<1>4. ListsTyped' /\ JobsTyped' /\ MenuPlaced'
  BY <1>1, <1>2, <1>3, MenuHere DEF ListsTyped, JobsTyped, MenuPlaced
<1> QED  BY <1>1, <1>3, <1>4, MenuActs DEF Opened

LEMMA ShapeMenuRetitles ==
  ASSUME Shape, NEW title \in NewTitles, MenuRetitles(title)
  PROVE  Shape'
<1> DEFINE p == th["menu"].part
<1>1. /\ Begins("menu", "stat", "update", p) /\ Asks("menu", p, title, "title", "none")
      /\ th["menu"].at = "dialog" /\ UNCHANGED <<disk, pos, cl, ans, task, res, copy>>
  BY DEF MenuRetitles, disks, mem
<1>2. p \in Parts /\ title \in GameTitles /\ "title" \in Sources /\ "none" \in Saves
  BY <1>1, MenuHere, OsdAssumption DEF Sources, Saves
<1>3. /\ ThreadsTyped' /\ Others("menu") /\ th'["menu"].at = "stat" /\ th'["menu"].doing = "update"
      /\ th'["menu"].part = p
  BY <1>1, <1>2, MenuHere, BeginsThen
<1>4. JobsTyped' /\ job'["service"] = job["service"]
  <2>1. task' = task
    BY <1>1
  <2> QED  BY <1>1, <1>2, <2>1, Two, AsksTyped
<1>5. ListsTyped' /\ MenuPlaced'
  BY <1>1, <1>2, <1>3, MenuHere DEF ListsTyped, MenuPlaced
<1> QED  BY <1>1, <1>3, <1>4, <1>5, MenuActs DEF Opened

LEMMA ShapeMenuInstalls ==
  ASSUME Shape, NEW title \in NewTitles, NEW src \in {"default", "external"}, NEW save \in SavesFor(src),
         MenuInstalls(title, src, save)
  PROVE  Shape'
<1> DEFINE p == th["menu"].part
           new == PrepareOSDResources(save, title)
<1>1. /\ Begins("menu", "open", "install", p) /\ Asks("menu", p, title, src, save)
      /\ th["menu"].at = "dialog" /\ UNCHANGED <<disk, pos, cl, ans, task, copy>>
      /\ res' = [res EXCEPT !["menu"] = new]
  BY DEF MenuInstalls, disks
<1>2. p \in Parts /\ title \in GameTitles /\ src \in Sources /\ save \in Saves
  BY <1>1, MenuHere, OsdAssumption DEF Sources, Saves, SavesFor
<1>3. /\ ThreadsTyped' /\ Others("menu") /\ th'["menu"].at = "open" /\ th'["menu"].doing = "install"
      /\ th'["menu"].part = p
  BY <1>1, <1>2, MenuHere, BeginsThen
<1>4. JobsTyped' /\ job'["service"] = job["service"]
  <2>1. task' = task
    BY <1>1
  <2> QED  BY <1>1, <1>2, <2>1, Two, AsksTyped
<1>5. ListsTyped' /\ res'["service"] = res["service"]
  BY <1>1, <1>2, MenuHere, Prepared DEF ListsTyped
<1>6. MenuPlaced'
  BY <1>2, <1>3 DEF MenuPlaced
<1> QED  BY <1>1, <1>3, <1>4, <1>5, <1>6, MenuActs DEF Opened

LEMMA TellsTyped ==
  ASSUME JobsTyped, NEW t \in T, NEW ok, Tells(t, ok), job' = job, task' \in Parts \cup {0}
  PROVE  /\ JobsTyped' /\ \A u \in T : u # t => last'[u] = last[u]
         /\ last'[t] = (IF ~ok THEN "fail" ELSE IF job[t].src \in {"save", "external"} THEN "icon" ELSE "ok")
  BY DEF JobsTyped, Tells, Results

LEMMA ShapeMenuDone ==
  ASSUME Shape, MenuInstalled \/ MenuRetitled
  PROVE  Shape'
<1>1. /\ Begins("menu", "idle", "none", 0) /\ res' = [res EXCEPT !["menu"] = NoFiles]
      /\ Tells("menu", th["menu"].ok) /\ UNCHANGED <<disk, pos, cl, ans, task, copy, job>>
  BY DEF MenuInstalled, MenuRetitled, FreeOSDResources, disks
<1>2. /\ ThreadsTyped' /\ Others("menu") /\ th'["menu"].at = "idle" /\ th'["menu"].doing = "none"
  BY <1>1, MenuHere, BeginsThen
<1>3. JobsTyped'
  <2>1. task' \in Parts \cup {0} /\ job' = job /\ JobsTyped
    BY <1>1, MenuHere DEF JobsTyped
  <2> QED  BY <1>1, <2>1, MenuHere, TellsTyped
<1>4. ListsTyped' /\ res'["service"] = res["service"]
  BY <1>1, MenuHere, Defaults DEF ListsTyped
<1>5. MenuPlaced'
  BY <1>2 DEF MenuPlaced
<1> QED  BY <1>1, <1>2, <1>3, <1>4, <1>5, MenuActs DEF Opened

LEMMA ShapeUpdateFiles ==
  ASSUME Shape, UpdateFiles
  PROVE  Shape'
<1> DEFINE title == job["menu"].title
           new == [i \in F |-> CASE i = IconSys -> Allocated(title, FileSize[title])
                                 [] i # IconSys /\ copy[i].buf -> copy[i]
                                 [] OTHER -> PrepareOSDDefaultResources[i]]
<1>1. /\ \/ res' = [res EXCEPT !["menu"] = new] /\ copy' = NoFiles /\ Goes("menu", "open")
         \/ res' = res /\ copy' = NoFiles /\ Fails("menu")
      /\ th["menu"].at = "read" /\ th["menu"].i \notin F
      /\ UNCHANGED <<disk, pos, cl, ans, task, job, last>>
  BY DEF UpdateFiles, FreeCopies, disks, ghosts
<1>2. /\ ThreadsTyped' /\ Others("menu") /\ th'["menu"].at \in {"open", "end"}
      /\ th'["menu"].doing = th["menu"].doing /\ th'["menu"].part = th["menu"].part
  BY <1>1, MenuHere, GoesTo, FailsThen
<1>3. new \in [F -> Resources]
  <2>1. Allocated(title, FileSize[title]) \in Resources
    <3>1. title \in GameTitles
      BY MenuHere DEF JobsTyped
    <3> QED  BY <3>1, FileSizes DEF GameTitles, Allocated, Resources
  <2> QED  BY <2>1, MenuHere, Defaults DEF ListsTyped
<1> HIDE DEF new
<1>4. ListsTyped' /\ res'["service"] = res["service"]
  BY <1>1, <1>3, MenuHere, Defaults DEF ListsTyped
<1>5. JobsTyped'
  BY <1>1, MenuHere DEF JobsTyped
<1>6. MenuPlaced'
  <2>1. th["menu"].doing = "update" /\ th["menu"].part \in Parts
    BY <1>1 DEF Shape, MenuPlaced
  <2> QED  BY <1>2, <2>1 DEF MenuPlaced
<1> QED  BY <1>1, <1>2, <1>4, <1>5, <1>6, MenuActs DEF Opened

(* The server's requests, which leave the menu alone. *)
LEMMA ServiceActs ==
  ASSUME Shape, UNCHANGED <<disk, pos>>, ListsTyped', ThreadsTyped', JobsTyped', ClientTyped',
         Others("service"), res'["menu"] = res["menu"], ServicePlaced', Answering',
         th'["service"].at \notin Opened
  PROVE  Shape'
<1>1. DiskTyped'
  BY DEF Shape, DiskTyped
<1>2. th'["menu"] = th["menu"]
  BY Two DEF Others
<1>3. MenuPlaced'
  BY <1>2 DEF Shape, MenuPlaced
<1>4. Opening'
  <2>1. th'["service"].at # "write"
    BY DEF Opened
  <2>2. /\ th["menu"].at \in Opened => th["menu"].i \in F
        /\ th["menu"].at = "write" => res["menu"][th["menu"].i].size >= 1
    BY Two DEF Shape, Opening
  <2>3. ASSUME NEW u \in T
        PROVE  /\ th'[u].at \in Opened => th'[u].i \in F
               /\ th'[u].at = "write" => res'[u][th'[u].i].size >= 1
    <3>1. CASE u = "service"
      BY <2>1, <3>1
    <3>2. CASE u = "menu"
      BY <1>2, <2>2, <3>2
    <3> QED  BY Two, <3>1, <3>2
  <2> QED  BY <2>3 DEF Opening
<1> QED  BY <1>1, <1>3, <1>4 DEF Shape

(* The call that the server looks at. *)
LEMMA Waiting ==
  ASSUME Shape, NEW cmd \in Cmds, Call.cmd = cmd
  PROVE  /\ cl.at = "waits" /\ cl.todo \in Seq(Calls) /\ Planned(cl.todo)
         /\ Call = Head(cl.todo) /\ Call \in Calls /\ job["service"].part \in Parts
         /\ job["service"].title \in GameTitles /\ cl.todo # << >>
<1>1. cl.at = "waits"
  BY DEF Call, Cmds
<1>2. cl.todo \in Seq(Calls) /\ Planned(cl.todo) /\ job["service"].part \in Parts
  BY <1>1 DEF Shape, Answering
<1>3. Call = Head(cl.todo) /\ Call \in Calls /\ cl.todo # << >>
  BY <1>1, <1>2, PlanSteps DEF Call
<1>4. job["service"].title \in GameTitles
  BY Two DEF Shape, JobsTyped
<1> QED  BY <1>1, <1>2, <1>3, <1>4

LEMMA AskedThen ==
  ASSUME Shape, NEW cmd \in Cmds, Asked(cmd)
  PROVE  /\ cl.at = "waits" /\ cl.todo \in Seq(Calls) /\ Planned(cl.todo) /\ Call.cmd = cmd
         /\ Call = Head(cl.todo) /\ Call \in Calls /\ job["service"].part \in Parts
         /\ job["service"].title \in GameTitles /\ ans = NoAns
         /\ th["service"].at = "idle" /\ th["service"].doing = "none"
<1>1. Call.cmd = cmd /\ ans = NoAns /\ th["service"].at = "idle"
  BY DEF Asked
<1>2. th["service"].doing = "none"
  BY <1>1 DEF Shape, ServicePlaced
<1> QED  BY <1>1, <1>2, Waiting

LEMMA AnswersTyped ==
  ASSUME ClientTyped, NEW result \in Results, Answers(result), cl' = cl
  PROVE  ClientTyped' /\ ans'.result = result
  BY Defaults, FileSizes DEF ClientTyped, Answers, NoAns

(* The thread stays where it is. *)
LEMMA Answered ==
  ASSUME Shape, NEW cmd \in Cmds, Asked(cmd), UNCHANGED <<th, cl>>, job'["service"].part = job["service"].part
  PROVE  ThreadsTyped' /\ Others("service") /\ ServicePlaced' /\ Answering' /\ th'["service"].at \notin Opened
<1>1. /\ th["service"].at = "idle" /\ cl.at = "waits" /\ th["service"].doing = "none"
  BY AskedThen
<1>2. ThreadsTyped' /\ Others("service")
  BY DEF Shape, ThreadsTyped, Others
<1>3. ServicePlaced' /\ Answering'
  BY <1>1 DEF Shape, ServicePlaced, Answering, Call
<1> QED  BY <1>1, <1>2, <1>3 DEF Opened

LEMMA ShapeInitDefaultOSDResources ==
  ASSUME Shape, InitDefaultOSDResources
  PROVE  Shape'
<1>1. /\ Asked("initdef") /\ UNCHANGED <<disk, pos, copy, th, cl, job, last>>
      /\ \/ Answers("fail") /\ UNCHANGED <<res, task>>
         \/ /\ res' = [res EXCEPT !["service"] = PrepareOSDDefaultResources]
            /\ task' = job["service"].part /\ Answers("ok")
  BY DEF InitDefaultOSDResources, disks, ghosts
<1>2. "initdef" \in Cmds /\ {"ok", "fail"} \subseteq Results
  BY DEF Cmds, Results
<1>3. job["service"].part \in Parts
  BY <1>1, <1>2, AskedThen
<1>4. ClientTyped'
  BY <1>1, <1>2, AnswersTyped DEF Shape
<1>5. ListsTyped' /\ res'["menu"] = res["menu"]
  BY <1>1, Two, Defaults DEF Shape, ListsTyped
<1>6. JobsTyped'
  BY <1>1, <1>3 DEF Shape, JobsTyped
<1>7. ThreadsTyped' /\ Others("service") /\ ServicePlaced' /\ Answering' /\ th'["service"].at \notin Opened
  BY <1>1, <1>2, Answered
<1> QED  BY <1>1, <1>4, <1>5, <1>6, <1>7, ServiceActs

LEMMA CardSave ==
  ASSUME NEW card \in Cards
  PROVE  LoadMcSaveSys(card) \in Saves
<1> DEFINE found == FindGameSaveFolder(card)
<1>1. card \in Seq(Saves) /\ found \subseteq DOMAIN card /\ DOMAIN card = 1 .. Len(card) /\ Len(card) \in Nat
  BY OsdAssumption DEF FindGameSaveFolder
<1>2. CASE found = {}
  BY <1>2 DEF LoadMcSaveSys, Saves
<1>3. CASE found # {}
  <2>1. found \in SUBSET Nat
    BY <1>1
  <2>2. PICK n \in found : \A m \in found : n <= m
    BY <1>3, <2>1, Least
  <2> HIDE DEF found
  <2>3. Min(found) \in found
    BY <2>2 DEF Min
  <2>4. card[Min(found)] \in Saves
    BY <1>1, <2>3
  <2> QED  BY <1>3, <2>4 DEF LoadMcSaveSys, found
<1> QED  BY <1>2, <1>3

LEMMA ShapeInitOSDResources ==
  ASSUME Shape, InitOSDResources
  PROVE  Shape'
<1>1. PICK cmd \in {"init", "initsave"}, save \in Saves, result \in {"fail", "ok", "icon"} :
        /\ Asked(cmd) /\ UNCHANGED <<disk, pos, copy, th, cl, last>> /\ Answers(result)
        /\ \/ UNCHANGED <<res, task, job>>
           \/ /\ res' = [res EXCEPT !["service"] = PrepareOSDResources(save, job["service"].title)]
              /\ task' = job["service"].part
              /\ job' = [job EXCEPT !["service"].save = save] \/ job' = job
  <2>1. PICK cmd \in {"init", "initsave"} : Asked(cmd) /\ Call.cmd = cmd
    BY DEF InitOSDResources, Asked
  <2>2. PICK card \in Cards :
          LET save == IF Call.cmd = "initsave" THEN LoadMcSaveSys(card) ELSE "none"
              new == PrepareOSDResources(save, job["service"].title) IN
          IF task # 0
          THEN Answers("fail") /\ UNCHANGED <<res, heap, task, job>>
          ELSE /\ res' = [res EXCEPT !["service"] = new]
               /\ heap' = heap + Buffers(new)
               /\ task' = job["service"].part
               /\ job' = [job EXCEPT !["service"].save = IF Call.cmd = "initsave" THEN save ELSE @]
               /\ Answers(IF GenerateIconFilesFromMCSave(save) THEN "icon" ELSE "ok")
    BY DEF InitOSDResources
  <2> DEFINE save == IF Call.cmd = "initsave" THEN LoadMcSaveSys(card) ELSE "none"
  <2>3. save \in Saves
    BY CardSave DEF Saves
  <2>4. UNCHANGED <<disk, pos, copy, th, cl, last>>
    BY DEF InitOSDResources, disks
  <2>5. CASE task # 0
    BY <2>1, <2>2, <2>3, <2>4, <2>5
  <2>6. CASE task = 0
    <3>1. Answers("icon") \/ Answers("ok")
      BY <2>2, <2>6
    <3>2. /\ res' = [res EXCEPT !["service"] = PrepareOSDResources(save, job["service"].title)]
          /\ task' = job["service"].part
      BY <2>2, <2>6
    <3>3. job' = [job EXCEPT !["service"].save = save] \/ job' = job
      <4>1. CASE Call.cmd = "initsave"
        BY <2>2, <2>6, <4>1
      <4>2. CASE Call.cmd # "initsave"
        <5>1. job' = [job EXCEPT !["service"].save = @]
          BY <2>2, <2>6, <4>2
        <5>2. JobsTyped
          BY DEF Shape
        <5> QED  BY <5>1, <5>2, Two DEF JobsTyped
      <4> QED  BY <4>1, <4>2
    <3> HIDE DEF save
    <3> QED  BY <2>1, <2>3, <2>4, <3>1, <3>2, <3>3
  <2> QED  BY <2>5, <2>6
<1>2. cmd \in Cmds /\ result \in Results
  BY DEF Cmds, Results
<1>3. job["service"].part \in Parts /\ job["service"].title \in GameTitles
  BY <1>1, <1>2, AskedThen
<1>4. ClientTyped'
  BY <1>1, <1>2, AnswersTyped DEF Shape
<1>5. ListsTyped' /\ res'["menu"] = res["menu"]
  BY <1>1, <1>3, Two, Prepared DEF Shape, ListsTyped
<1>6. JobsTyped' /\ job'["service"].part = job["service"].part
  <2>1. JobsTyped
    BY DEF Shape
  <2> QED  BY <1>1, <1>3, <2>1, Two DEF JobsTyped
<1>7. ThreadsTyped' /\ Others("service") /\ ServicePlaced' /\ Answering' /\ th'["service"].at \notin Opened
  BY <1>1, <1>2, <1>6, Answered
<1> QED  BY <1>1, <1>4, <1>5, <1>6, <1>7, ServiceActs

LEMMA ServiceHere ==
  ASSUME Shape
  PROVE  /\ ThreadsTyped /\ ListsTyped /\ JobsTyped /\ ClientTyped /\ th["service"] \in Where
         /\ {"payload", "idle", "open", "stat"} \subseteq Places
         /\ {"none", "titles", "stat", "read", "write"} \subseteq Errands
         /\ {"ok", "fail"} \subseteq Results
         /\ {"titles", "stat", "read", "write", "load", "cancel"} \subseteq Cmds
         /\ th["service"].at = "payload" => th["service"].doing = "none" /\ task # 0
                                             /\ (cl.at = "waits" => Call.cmd = "load")
         /\ th["service"].at # "idle" => ans = NoAns /\ cl.at \in {"waits", "gone"}
         /\ th["service"].at \notin {"idle", "payload"} =>
              th["service"].part \in Parts /\ cl.at = "waits" /\ th["service"].doing # "none"
         /\ th["service"].doing # "none" => Call.cmd = th["service"].doing
         /\ task \in Parts \cup {0}
<1>1. /\ ThreadsTyped /\ ListsTyped /\ JobsTyped /\ ClientTyped /\ th["service"] \in Where
      /\ {"payload", "idle", "open", "stat"} \subseteq Places
      /\ {"none", "titles", "stat", "read", "write"} \subseteq Errands
      /\ {"ok", "fail"} \subseteq Results
      /\ {"titles", "stat", "read", "write", "load", "cancel"} \subseteq Cmds
      /\ task \in Parts \cup {0}
  BY Two DEF Shape, ThreadsTyped, JobsTyped, Places, Errands, Results, Cmds
<1> QED  BY <1>1 DEF Shape, ServicePlaced, Answering

LEMMA ShapeOSDResourceLoadInit ==
  ASSUME Shape, OSDResourceLoadInit
  PROVE  Shape'
<1>1. /\ Asked("load") /\ UNCHANGED <<disk, pos, res, copy, task, cl, job, last>>
      /\ \/ /\ task # 0 /\ ans' = ans
            /\ th' = [th EXCEPT !["service"].at = "payload", !["service"].i = Call.i]
         \/ Answers("fail") /\ th' = th
  BY DEF OSDResourceLoadInit, disks, ghosts
<1>2. /\ cl.at = "waits" /\ Call.cmd = "load" /\ Call.i \in F /\ ans = NoAns
      /\ th["service"].at = "idle" /\ th["service"].doing = "none"
  BY <1>1, ServiceHere, AskedThen DEF Calls
<1>3. ListsTyped' /\ JobsTyped' /\ res'["menu"] = res["menu"]
  BY <1>1 DEF Shape, ListsTyped, JobsTyped
<1>4. CASE Answers("fail") /\ th' = th
  <2>1. ClientTyped'
    BY <1>1, <1>4, ServiceHere, AnswersTyped
  <2>2. ThreadsTyped' /\ Others("service") /\ ServicePlaced' /\ Answering' /\ th'["service"].at \notin Opened
    BY <1>1, <1>4, ServiceHere, Answered
  <2> QED  BY <1>1, <1>3, <2>1, <2>2, ServiceActs
<1>5. CASE /\ task # 0 /\ ans' = ans
           /\ th' = [th EXCEPT !["service"].at = "payload", !["service"].i = Call.i]
  <2> DEFINE i == Call.i
             w == [th["service"] EXCEPT !.at = "payload", !.i = i]
  <2>1. th' = [th EXCEPT !["service"] = w]
    BY <1>5, ServiceHere DEF ThreadsTyped, Where
  <2>2. i \in 0 .. 5
    BY <1>2 DEF F
  <2> HIDE DEF i
  <2>3. w \in Where /\ w.at = "payload" /\ w.doing = "none"
    BY <1>2, <2>2, ServiceHere DEF Where
  <2> HIDE DEF w
  <2>4. ThreadsTyped' /\ Others("service") /\ th'["service"] = w
    BY <2>1, <2>3, ServiceHere, Two, Becomes
  <2>5. ClientTyped' /\ ServicePlaced' /\ Answering'
    BY <1>1, <1>2, <1>5, <2>3, <2>4 DEF Shape, ClientTyped, ServicePlaced, Answering, Call
  <2> QED  BY <1>1, <1>3, <2>3, <2>4, <2>5, ServiceActs DEF Opened
<1> QED  BY <1>1, <1>4, <1>5

(* The thread goes back to wait for the next request. *)
LEMMA Returned ==
  ASSUME Shape, cl' = cl, ThreadsTyped', th'["service"].at = "idle", th'["service"].doing = "none",
         job'["service"].part = job["service"].part,
         cl.at \in {"waits", "gone"}
  PROVE  ServicePlaced' /\ Answering'
  BY DEF Shape, ServicePlaced, Answering, Call

LEMMA ShapeResourceArrives ==
  ASSUME Shape, ResourceArrives
  PROVE  Shape'
<1>1. /\ th["service"].at = "payload" /\ cl.at = "waits" /\ Goes("service", "idle") /\ Answers("ok")
      /\ LoadOSDResource("service", Call.i, Call.data, Call.size)
      /\ UNCHANGED <<disk, pos, copy, task, cl, job, last>>
  BY DEF ResourceArrives, disks, ghosts
<1>2. Call \in LoadCalls
  <2>1. Call.cmd = "load" /\ "load" \in Cmds
    BY <1>1, ServiceHere
  <2> QED  BY <2>1, Waiting, PlanSteps
<1>3. ThreadsTyped' /\ Others("service") /\ th'["service"].at = "idle" /\ th'["service"].doing = "none"
  BY <1>1, ServiceHere, Two, GoesTo
<1>4. ClientTyped' /\ JobsTyped'
  BY <1>1, ServiceHere, AnswersTyped DEF JobsTyped
<1>5. ListsTyped' /\ res'["menu"] = res["menu"]
  <2>1. Call.i \in F /\ Allocated(Call.data, Call.size) \in Resources
    BY <1>2 DEF LoadCalls, Allocated, Resources
  <2>2. res' = [res EXCEPT !["service"][Call.i] = Allocated(Call.data, Call.size)]
    BY <1>1 DEF LoadOSDResource
  <2> QED  BY <1>1, <2>1, <2>2, ServiceHere, Two DEF ListsTyped
<1>6. ServicePlaced' /\ Answering'
  BY <1>1, <1>3, Returned
<1> QED  BY <1>1, <1>3, <1>4, <1>5, <1>6, ServiceActs DEF Opened

LEMMA ShapeResourceLost ==
  ASSUME Shape, ResourceLost
  PROVE  Shape'
<1>1. /\ th["service"].at = "payload" /\ cl.at = "gone" /\ Goes("service", "idle")
      /\ UNCHANGED <<disk, pos, res, copy, task, cl, ans, job, last>>
  BY DEF ResourceLost, disks, ghosts
<1>2. ThreadsTyped' /\ Others("service") /\ th'["service"].at = "idle" /\ th'["service"].doing = "none"
  BY <1>1, ServiceHere, Two, GoesTo
<1>3. ClientTyped' /\ JobsTyped' /\ ListsTyped' /\ res'["menu"] = res["menu"]
  BY <1>1 DEF Shape, ClientTyped, JobsTyped, ListsTyped
<1>4. ServicePlaced' /\ Answering'
  BY <1>1, <1>2, Returned
<1> QED  BY <1>1, <1>2, <1>3, <1>4, ServiceActs DEF Opened

(* The thread starts what it was asked for. *)
LEMMA Started ==
  ASSUME Shape, NEW cmd \in {"titles", "stat", "read", "write"}, Asked(cmd), ThreadsTyped',
         UNCHANGED <<cl, ans, job, task>>,
         th'["service"].doing = cmd, th'["service"].part \in Parts, th'["service"].i \in F,
         th'["service"].at = IF cmd = "write" THEN "open" ELSE "stat"
  PROVE  ServicePlaced' /\ Answering'
<1>1. cl.at = "waits" /\ ans = NoAns /\ Call.cmd = cmd
  BY AskedThen DEF Cmds
<1>2. ServicePlaced'
  BY <1>1 DEF ServicePlaced
<1>3. Answering'
  BY <1>1 DEF Shape, Answering, Call
<1> QED  BY <1>2, <1>3

LEMMA ShapeWriteOSDResources ==
  ASSUME Shape, WriteOSDResources
  PROVE  Shape'
<1>1. /\ Asked("write") /\ UNCHANGED <<disk, pos, res, copy, task, cl, job, last>>
      /\ \/ task # 0 /\ Begins("service", "open", "write", task) /\ ans' = ans
         \/ Answers("fail") /\ th' = th
  BY DEF WriteOSDResources, disks, mem, ghosts
<1>2. ListsTyped' /\ JobsTyped' /\ res'["menu"] = res["menu"]
  BY <1>1 DEF Shape, ListsTyped, JobsTyped
<1>3. CASE Answers("fail") /\ th' = th
  <2>1. ClientTyped'
    BY <1>1, <1>3, ServiceHere, AnswersTyped
  <2>2. ThreadsTyped' /\ Others("service") /\ ServicePlaced' /\ Answering' /\ th'["service"].at \notin Opened
    BY <1>1, <1>3, ServiceHere, Answered
  <2> QED  BY <1>1, <1>2, <2>1, <2>2, ServiceActs
<1>4. CASE task # 0 /\ Begins("service", "open", "write", task) /\ ans' = ans
  <2>1. task \in Parts
    BY <1>4, ServiceHere
  <2>2. /\ ThreadsTyped' /\ Others("service") /\ th'["service"].at = "open" /\ th'["service"].doing = "write"
        /\ th'["service"].part = task /\ th'["service"].i = 0
    BY <1>4, ServiceHere, Two, BeginsThen
  <2>3. ClientTyped'
    BY <1>1, <1>4, ServiceHere DEF ClientTyped
  <2>4. ServicePlaced' /\ Answering'
    BY <1>1, <1>4, <2>1, <2>2, Started DEF F
  <2> QED  BY <1>1, <1>2, <2>2, <2>3, <2>4, ServiceActs DEF Opened
<1> QED  BY <1>1, <1>3, <1>4

LEMMA ShapeResourcesWritten ==
  ASSUME Shape, ResourcesWritten
  PROVE  Shape'
<1>1. PICK result \in {"ok", "fail"} :
      /\ th["service"].at = "end" /\ Begins("service", "idle", "none", 0) /\ Answers(result)
      /\ res' = [res EXCEPT !["service"] = NoFiles] /\ task' = 0
      /\ UNCHANGED <<disk, pos, copy, cl, job, last>>
  BY DEF ResourcesWritten, FreeOSDResources, disks, ghosts
<1>2. ThreadsTyped' /\ Others("service") /\ th'["service"].at = "idle" /\ th'["service"].doing = "none"
  BY <1>1, ServiceHere, Two, BeginsThen
<1>3. ClientTyped' /\ JobsTyped'
  BY <1>1, ServiceHere, AnswersTyped DEF JobsTyped
<1>4. ListsTyped' /\ res'["menu"] = res["menu"]
  BY <1>1, ServiceHere, Two, Defaults DEF ListsTyped
<1>5. ServicePlaced' /\ Answering'
  <2>1. cl.at \in {"waits", "gone"}
    BY <1>1, ServiceHere
  <2> QED  BY <1>1, <1>2, <2>1, Returned
<1> QED  BY <1>1, <1>2, <1>3, <1>4, <1>5, ServiceActs DEF Opened

LEMMA ShapeCancelOSDResourceWrite ==
  ASSUME Shape, CancelOSDResourceWrite
  PROVE  Shape'
<1>1. PICK result \in {"ok", "fail"} :
      /\ Asked("cancel") /\ UNCHANGED <<disk, pos, copy, th, cl, job, last>> /\ Answers(result)
      /\ \/ UNCHANGED <<res, task>>
         \/ res' = [res EXCEPT !["service"] = NoFiles] /\ task' = 0
  BY DEF CancelOSDResourceWrite, FreeOSDResources, disks, ghosts
<1>2. ClientTyped' /\ JobsTyped'
  BY <1>1, ServiceHere, AnswersTyped DEF JobsTyped
<1>3. ListsTyped' /\ res'["menu"] = res["menu"]
  BY <1>1, ServiceHere, Two, Defaults DEF ListsTyped
<1>4. ThreadsTyped' /\ Others("service") /\ ServicePlaced' /\ Answering' /\ th'["service"].at \notin Opened
  BY <1>1, ServiceHere, Answered
<1> QED  BY <1>1, <1>2, <1>3, <1>4, ServiceActs

LEMMA ShapeReadingRequest ==
  ASSUME Shape, ReadingRequest
  PROVE  Shape'
<1> DEFINE p == job["service"].part
           i == Call.i
<1>1. PICK cmd \in {"stat", "read", "titles"} :
      /\ Asked(cmd) /\ UNCHANGED <<disk, pos, res, copy, task, cl, ans, job, last>>
      /\ th' = [th EXCEPT !["service"] = [Resting EXCEPT !.at = "stat", !.doing = cmd, !.part = p, !.i = i]]
  BY DEF ReadingRequest, disks, mem, ghosts
<1>2. p \in Parts /\ i \in F /\ i \in 0 .. 5
  BY <1>1, AskedThen DEF Cmds, Calls, F
<1> DEFINE w == [Resting EXCEPT !.at = "stat", !.doing = cmd, !.part = p, !.i = i]
<1>3. Resting \in Where
  BY Defaults, FileSizes DEF Where, Resting, Places, Errands
<1> HIDE DEF p, i
<1>4. w \in Where /\ w.at = "stat" /\ w.doing = cmd /\ w.part = p /\ w.i = i
  BY <1>2, <1>3, ServiceHere DEF Where
<1>5. th' = [th EXCEPT !["service"] = w]
  BY <1>1 DEF p, i
<1> HIDE DEF w
<1>6. ThreadsTyped' /\ Others("service") /\ th'["service"] = w
  BY <1>4, <1>5, ServiceHere, Two, Becomes
<1>7. ListsTyped' /\ JobsTyped' /\ ClientTyped' /\ res'["menu"] = res["menu"]
  BY <1>1 DEF Shape, ListsTyped, JobsTyped, ClientTyped
<1>8. ServicePlaced' /\ Answering'
  BY <1>1, <1>2, <1>4, <1>6, Started
<1> QED  BY <1>1, <1>4, <1>6, <1>7, <1>8, ServiceActs DEF Opened

LEMMA ShapeReadingAnswered ==
  ASSUME Shape, ReadingAnswered
  PROVE  Shape'
<1>1. PICK result \in {"ok", "fail"} :
      /\ th["service"].at = "end" /\ Begins("service", "idle", "none", 0)
      /\ ans' = [result |-> result, data |-> th["service"].data, files |-> th["service"].files]
      /\ UNCHANGED <<disk, pos, res, copy, task, cl, job, last>>
  BY DEF ReadingAnswered, disks, mem, ghosts
<1>2. ThreadsTyped' /\ Others("service") /\ th'["service"].at = "idle" /\ th'["service"].doing = "none"
  BY <1>1, ServiceHere, Two, BeginsThen
<1>3. th["service"].data \in Known /\ th["service"].files \in Table
  BY ServiceHere DEF Where
<1>4. ClientTyped'
  BY <1>1, <1>3, ServiceHere DEF ClientTyped
<1>5. ListsTyped' /\ JobsTyped' /\ res'["menu"] = res["menu"]
  BY <1>1 DEF Shape, ListsTyped, JobsTyped
<1>6. ServicePlaced' /\ Answering'
  <2>1. cl.at \in {"waits", "gone"}
    BY <1>1, ServiceHere
  <2> QED  BY <1>1, <1>2, <2>1, Returned
<1> QED  BY <1>1, <1>2, <1>4, <1>5, <1>6, ServiceActs DEF Opened

LEMMA ShapeCleanupClientConnection ==
  ASSUME Shape, CleanupClientConnection
  PROVE  Shape'
<1>1. /\ th["service"].at = "idle" /\ res' = [res EXCEPT !["service"] = NoFiles]
      /\ task' = 0 /\ cl' = Away /\ ans' = NoAns /\ job' = [job EXCEPT !["service"] = NoJob]
      /\ last' = [last EXCEPT !["service"] = "none"] /\ UNCHANGED <<disk, pos, copy, th>>
  BY DEF CleanupClientConnection, disks
<1>2. NoJob \in [part : Parts \cup {0}, title : GameTitles, src : Sources, save : Saves,
                 before : [F -> Known]]
  BY FileSizes DEF NoJob, OldFiles, Sources, Saves, GameTitles
<1>3. JobsTyped'
  <2> HIDE DEF NoJob
  <2>1. JobsTyped /\ "none" \in Results
    BY DEF Shape, Results
  <2> QED  BY <1>1, <1>2, <2>1 DEF JobsTyped
<1>4. ClientTyped'
  BY <1>1, Defaults, FileSizes DEF ClientTyped, Away, NoAns, Results
<1>5. ListsTyped' /\ ThreadsTyped' /\ Others("service") /\ res'["menu"] = res["menu"]
  BY <1>1, ServiceHere, Two, Defaults DEF ListsTyped, ThreadsTyped, Others
<1>6. ServicePlaced' /\ Answering'
  <2>1. th["service"].doing = "none" /\ cl'.at = "away"
    BY <1>1 DEF Shape, ServicePlaced, Away
  <2> QED  BY <1>1, <2>1 DEF Shape, ServicePlaced, Answering
<1> QED  BY <1>1, <1>3, <1>4, <1>5, <1>6, ServiceActs DEF Opened

LEMMA ShapeServiceStep ==
  ASSUME Shape, ServiceStep
  PROVE  Shape'
  BY ShapeInitDefaultOSDResources, ShapeInitOSDResources, ShapeOSDResourceLoadInit,
     ShapeResourceArrives, ShapeResourceLost, ShapeWriteOSDResources, ShapeResourcesWritten,
     ShapeCancelOSDResourceWrite, ShapeReadingRequest, ShapeReadingAnswered,
     ShapeCleanupClientConnection DEF ServiceStep

(* The client, which leaves the console's threads alone. *)
LEMMA ClientActs ==
  ASSUME Shape, UNCHANGED <<disk, pos, res, copy, th, task>>, JobsTyped', ClientTyped',
         th["service"].at = "idle",
         cl'.at = "waits" => cl'.todo \in Seq(Calls) /\ Planned(cl'.todo) /\ job'["service"].part \in Parts,
         cl'.at \in {"away", "idle"} => ans' = NoAns
  PROVE  Shape'
<1>1. DiskTyped' /\ ThreadsTyped' /\ ListsTyped'
  BY DEF Shape, DiskTyped, ThreadsTyped, ListsTyped
<1>2. MenuPlaced' /\ Opening'
  BY DEF Shape, MenuPlaced, Opening
<1>3. th["service"].doing = "none"
  BY DEF Shape, ServicePlaced
<1>4. ServicePlaced'
  BY <1>3 DEF Shape, ServicePlaced
<1>5. Answering'
  BY <1>3 DEF Answering
<1> QED  BY <1>1, <1>2, <1>4, <1>5 DEF Shape

LEMMA TakenThen ==
  ASSUME Shape, NEW cmd \in Cmds, NEW ok, Taken(cmd, ok)
  PROVE  /\ cl.at = "waits" /\ cl.todo \in Seq(Calls) /\ Planned(cl.todo) /\ Call.cmd = cmd
         /\ Call = Head(cl.todo) /\ Call \in Calls /\ job["service"].part \in Parts
         /\ job["service"].title \in GameTitles /\ th["service"].at = "idle" /\ ans' = NoAns
         /\ UNCHANGED <<disk, pos, res, copy, th, task>>
<1>1. Call.cmd = cmd /\ ans # NoAns /\ ans' = NoAns /\ UNCHANGED <<disk, pos, res, copy, th, task>>
  BY DEF Taken, disks, mem
<1>2. th["service"].at = "idle"
  BY <1>1 DEF Shape, ServicePlaced
<1> QED  BY <1>1, <1>2, Waiting

(* The client goes on with a plan. *)
LEMMA PlanTyped ==
  ASSUME ClientTyped, NEW todo, NEW have \in [F -> Resources],
         cl' = [cl EXCEPT !.copy = have, !.todo = todo], ans' = NoAns
  PROVE  ClientTyped' /\ cl'.at = cl.at /\ cl'.todo = todo /\ cl'.copy = have
<1>1. cl' = [at |-> cl.at, todo |-> todo, copy |-> have]
  BY DEF ClientTyped
<1>2. cl'.at = cl.at /\ cl'.todo = todo /\ cl'.copy = have
  BY <1>1
<1>3. NoAns \in [result : Results, data : Known, files : Table]
  BY Defaults, FileSizes DEF NoAns, Results
<1> QED  BY <1>1, <1>2, <1>3 DEF ClientTyped

LEMMA Continued ==
  ASSUME Shape, NEW cmd \in Cmds, NEW ok, Taken(cmd, ok),
         NEW todo \in Seq(Calls), Planned(todo), NEW have \in [F -> Resources],
         cl' = [cl EXCEPT !.copy = have, !.todo = todo],
         JobsTyped', job'["service"].part = job["service"].part
  PROVE  Shape'
<1>1. ClientTyped' /\ cl'.at = cl.at /\ cl'.todo = todo
  BY TakenThen, PlanTyped DEF Shape
<1> QED  BY <1>1, TakenThen, ClientActs

LEMMA Extended ==
  ASSUME Shape, NEW cmd \in Cmds, NEW ok, Taken(cmd, ok), NEW more, Continue(more),
         Tail(cl.todo) \o more \in Seq(Calls), Planned(Tail(cl.todo) \o more)
  PROVE  Shape'
<1> DEFINE todo == Tail(cl.todo) \o more
<1>1. cl' = [cl EXCEPT !.copy = cl.copy, !.todo = todo] /\ cl.copy \in [F -> Resources]
  BY DEF Continue, Shape, ClientTyped
<1>2. JobsTyped' /\ job' = job
  BY TakenThen DEF Continue, Shape, JobsTyped
<1> HIDE DEF todo
<1> QED  BY <1>1, <1>2, Continued DEF todo

LEMMA Ended ==
  ASSUME Shape, NEW cmd \in Cmds, NEW ok, Taken(cmd, ok), NEW good, End(good)
  PROVE  Shape'
<1>1. cl' = [Away EXCEPT !.at = "idle"] /\ Tells("service", good) /\ job' = job
  BY DEF End
<1>2. JobsTyped'
  <2>1. task' \in Parts \cup {0} /\ JobsTyped
    BY TakenThen DEF Shape, JobsTyped
  <2> QED  BY <1>1, <2>1, Two, TellsTyped
<1>3. ClientTyped' /\ cl'.at = "idle"
  <2>1. cl' = [at |-> "idle", todo |-> << >>, copy |-> NoFiles]
    BY <1>1 DEF Away
  <2>2. cl'.at = "idle" /\ cl'.copy = NoFiles /\ cl'.todo = << >>
    BY <2>1
  <2>3. NoAns \in [result : Results, data : Known, files : Table]
    BY Defaults, FileSizes DEF NoAns, Results
  <2> QED  BY <2>1, <2>2, <2>3, TakenThen, Defaults DEF ClientTyped
<1> QED  BY <1>2, <1>3, TakenThen, ClientActs

(* A plan that is what is left of one, or all that there is. *)
LEMMA Lefts ==
  ASSUME NEW s \in Seq(Calls)
  PROVE  s \o << >> = s /\ << >> \o s = s
  OBVIOUS

LEMMA Pair ==
  ASSUME NEW x \in Calls, NEW y \in Calls
  PROVE  <<x>> \o <<y>> = <<x, y>>
<1> DEFINE s == <<x>> \o <<y>>
<1>1. s \in Seq(Calls) /\ Len(s) = 2 /\ s[1] = x /\ s[2] = y
  OBVIOUS
<1>2. DOMAIN s = 1 .. 2 /\ s = [k \in DOMAIN s |-> s[k]]
  BY <1>1
<1>3. DOMAIN <<x, y>> = 1 .. 2 /\ <<x, y>> = [k \in 1 .. 2 |-> <<x, y>>[k]]
  OBVIOUS
<1>4. \A k \in 1 .. 2 : s[k] = <<x, y>>[k]
  BY <1>1
<1> QED  BY <1>2, <1>3, <1>4

LEMMA ShapeInitSaveTaken ==
  ASSUME Shape, NEW ok \in BOOLEAN, InitSaveTaken(ok)
  PROVE  Shape'
<1>1. /\ Taken("initsave", ok) /\ "initsave" \in Cmds
      /\ \/ Continue(<<Req("write")>>)
         \/ /\ cl' = [cl EXCEPT !.todo = <<Req("cancel"), Req("init"), Req("write")>>]
            /\ job' = [job EXCEPT !["service"].src = "default"] /\ last' = last
  BY DEF InitSaveTaken, Cmds
<1>2. Tail(cl.todo) = << >> /\ cl.copy \in [F -> Resources] /\ JobsTyped /\ job["service"].part \in Parts
  BY <1>1, TakenThen, PlanSteps DEF Shape, ClientTyped
<1>3. /\ <<Req("write")>> \in Seq(Calls) /\ Planned(<<Req("write")>>)
      /\ << >> \o <<Req("write")>> = <<Req("write")>>
  <2>0. << >> \in Seq(LoadCalls)
    OBVIOUS
  <2>1. << >> \o <<Req("write")>> \in Seq(Calls) /\ Writing(<< >> \o <<Req("write")>>)
    BY <2>0, WritingMade
  <2>2. << >> \o <<Req("write")>> = <<Req("write")>>
    <3>1. <<Req("write")>> \in Seq(Calls)
      BY Requests DEF Cmds
    <3> QED  BY <3>1, Lefts
  <2> QED  BY <2>1, <2>2 DEF Planned
<1>4. CASE Continue(<<Req("write")>>)
  <2>1. Tail(cl.todo) \o <<Req("write")>> = <<Req("write")>>
    BY <1>2, <1>3
  <2> QED  BY <1>1, <1>3, <1>4, <2>1, Extended
<1>5. CASE /\ cl' = [cl EXCEPT !.todo = <<Req("cancel"), Req("init"), Req("write")>>]
           /\ job' = [job EXCEPT !["service"].src = "default"] /\ last' = last
  <2> DEFINE todo == <<Req("cancel"), Req("init"), Req("write")>>
  <2>1. todo \in Seq(Calls) /\ Planned(todo)
    BY Requests DEF Planned, Cmds
  <2>2. JobsTyped' /\ job'["service"].part = job["service"].part
    BY <1>1, <1>2, <1>5, TakenThen, Two DEF JobsTyped, Sources
  <2>3. cl' = [cl EXCEPT !.copy = cl.copy, !.todo = todo]
    BY <1>5 DEF Shape, ClientTyped
  <2> HIDE DEF todo
  <2> QED  BY <1>1, <1>2, <2>1, <2>2, <2>3, Continued
<1> QED  BY <1>1, <1>4, <1>5

LEMMA ShapeInitTaken ==
  ASSUME Shape, NEW ok \in BOOLEAN, InitTaken(ok)
  PROVE  Shape'
<1>1. PICK cmd \in {"init", "initdef"} : Taken(cmd, ok)
  BY DEF InitTaken
<1>2. Continue(<< >>) \/ End(FALSE)
  BY DEF InitTaken
<1>3. cmd \in Cmds
  BY DEF Cmds
<1>4. Tail(cl.todo) \in Seq(Calls) /\ Planned(Tail(cl.todo))
  BY <1>1, <1>3, TakenThen, PlanSteps
<1>5. CASE Continue(<< >>)
  BY <1>1, <1>3, <1>4, <1>5, Lefts, Extended
<1> QED  BY <1>1, <1>2, <1>3, <1>5, Ended

LEMMA ShapeLoadTaken ==
  ASSUME Shape, NEW ok \in BOOLEAN, LoadTaken(ok)
  PROVE  Shape'
<1>1. Taken("load", ok) /\ "load" \in Cmds /\ (Continue(<< >>) \/ End(FALSE))
  BY DEF LoadTaken, Cmds
<1>2. Tail(cl.todo) \in Seq(Calls) /\ Planned(Tail(cl.todo))
  BY <1>1, TakenThen, PlanSteps
<1>3. CASE Continue(<< >>)
  BY <1>1, <1>2, <1>3, Lefts, Extended
<1> QED  BY <1>1, <1>3, Ended

LEMMA ShapeCancelTitlesTaken ==
  ASSUME Shape, NEW ok \in BOOLEAN, CancelTaken(ok) \/ TitlesTaken(ok)
  PROVE  Shape'
<1>1. PICK cmd \in {"cancel", "titles"} : Taken(cmd, ok) /\ Continue(<< >>)
  BY DEF CancelTaken, TitlesTaken
<1>2. cmd \in Cmds
  BY DEF Cmds
<1>3. Tail(cl.todo) \in {<<Req("init"), Req("write")>>, <<Req("stat")>>} /\ Tail(cl.todo) \in Seq(Calls)
  BY <1>1, <1>2, TakenThen, PlanSteps
<1>4. Planned(Tail(cl.todo))
  <2>1. << >> \in Seq(LoadCalls)
    OBVIOUS
  <2>2. <<Req("init")>> \o << >> \o <<Req("write")>> = <<Req("init"), Req("write")>>
    <3>1. <<Req("init")>> \in Seq(Calls) /\ <<Req("write")>> \in Seq(Calls)
      BY Requests DEF Cmds
    <3>2. <<Req("init")>> \o << >> = <<Req("init")>>
      BY <3>1, Lefts
    <3>3. <<Req("init")>> \o <<Req("write")>> = <<Req("init"), Req("write")>>
      BY Requests, Pair DEF Cmds
    <3> QED  BY <3>2, <3>3
  <2>3. Planned(<<Req("init"), Req("write")>>)
    BY <2>1, <2>2, WritingMade
  <2> QED  BY <1>3, <2>3 DEF Planned
<1> QED  BY <1>1, <1>2, <1>3, <1>4, Lefts, Extended

LEMMA ShapeWriteTaken ==
  ASSUME Shape, NEW ok \in BOOLEAN, WriteTaken(ok)
  PROVE  Shape'
<1>1. Taken("write", ok) /\ "write" \in Cmds /\ End(ok)
  BY DEF WriteTaken, Cmds
<1> QED  BY <1>1, Ended

(* What a sequence has. *)
Items(s) == {s[k] : k \in 1 .. Len(s)}

LEMMA ItemsJoined ==
  ASSUME NEW S, NEW s \in Seq(S), NEW u \in Seq(S)
  PROVE  Items(s \o u) = Items(s) \cup Items(u)
<1>1. PICK m \in Nat : m = Len(s)
  OBVIOUS
<1>2. PICK n \in Nat : n = Len(u)
  OBVIOUS
<1>3. /\ Len(s \o u) = m + n
      /\ \A k \in 1 .. m + n : (s \o u)[k] = IF k <= m THEN s[k] ELSE u[k - m]
  BY <1>1, <1>2
<1>4. \A k \in 1 .. m : k \in 1 .. m + n /\ k <= m
  OBVIOUS
<1>5. \A k \in 1 .. n : k + m \in 1 .. m + n /\ ~(k + m <= m) /\ (k + m) - m = k
  OBVIOUS
<1>6. \A k \in 1 .. m + n : k \in 1 .. m \/ (~(k <= m) /\ k - m \in 1 .. n)
  OBVIOUS
<1>7. ASSUME NEW x \in Items(s) PROVE x \in Items(s \o u)
  <2>1. PICK k \in 1 .. m : x = s[k]
    BY <1>1 DEF Items
  <2>2. x = (s \o u)[k] /\ k \in 1 .. Len(s \o u)
    BY <1>3, <1>4, <2>1
  <2> QED  BY <2>2 DEF Items
<1>8. ASSUME NEW x \in Items(u) PROVE x \in Items(s \o u)
  <2>1. PICK k \in 1 .. n : x = u[k]
    BY <1>2 DEF Items
  <2>2. PICK l \in 1 .. m + n : l = k + m /\ ~(l <= m) /\ l - m = k
    BY <1>5
  <2>3. x = (s \o u)[l] /\ l \in 1 .. Len(s \o u)
    BY <1>3, <2>1, <2>2
  <2> QED  BY <2>3 DEF Items
<1>9. ASSUME NEW x \in Items(s \o u) PROVE x \in Items(s) \cup Items(u)
  <2>1. PICK k \in 1 .. m + n : x = (s \o u)[k]
    BY <1>3 DEF Items
  <2>2. CASE k \in 1 .. m
    <3>1. x = s[k]
      BY <1>3, <1>4, <2>1, <2>2
    <3> QED  BY <1>1, <2>2, <3>1 DEF Items
  <2>3. CASE ~(k <= m) /\ k - m \in 1 .. n
    <3>1. x = u[k - m]
      BY <1>3, <2>1, <2>3
    <3> QED  BY <1>2, <2>3, <3>1 DEF Items
  <2> QED  BY <1>6, <2>2, <2>3
<1> QED  BY <1>7, <1>8, <1>9

Joined(some) == some[0] \o some[1] \o some[2] \o some[3] \o some[4]

LEMMA ItemsGathered ==
  ASSUME NEW S, NEW some \in [F -> Seq(S)]
  PROVE  Joined(some) \in Seq(S) /\ Items(Joined(some)) = UNION {Items(some[i]) : i \in F}
<1> DEFINE a == some[0] \o some[1]
           b == a \o some[2]
           c == b \o some[3]
           all == c \o some[4]
<1>1. \A i \in 0 .. 4 : some[i] \in Seq(S)
  BY DEF F
<1>2. some[0] \in Seq(S) /\ some[1] \in Seq(S) /\ some[2] \in Seq(S) /\ some[3] \in Seq(S) /\ some[4] \in Seq(S)
  BY <1>1
<1>3. a \in Seq(S) /\ Items(a) = Items(some[0]) \cup Items(some[1])
  BY <1>2, ItemsJoined
<1> HIDE DEF a
<1>4. b \in Seq(S) /\ Items(b) = Items(a) \cup Items(some[2])
  BY <1>2, <1>3, ItemsJoined
<1> HIDE DEF b
<1>5. c \in Seq(S) /\ Items(c) = Items(b) \cup Items(some[3])
  BY <1>2, <1>4, ItemsJoined
<1> HIDE DEF c
<1>6. all \in Seq(S) /\ Items(all) = Items(c) \cup Items(some[4])
  BY <1>2, <1>5, ItemsJoined
<1>7. UNION {Items(some[i]) : i \in F} =
        Items(some[0]) \cup Items(some[1]) \cup Items(some[2]) \cup Items(some[3]) \cup Items(some[4])
  <2>1. \A i : i \in F <=> i = 0 \/ i = 1 \/ i = 2 \/ i = 3 \/ i = 4
    BY DEF F
  <2> QED  BY <2>1, Zenon
<1>8. Items(all) = UNION {Items(some[i]) : i \in F}
  BY <1>3, <1>4, <1>5, <1>6, <1>7
<1> QED  BY <1>6, <1>8 DEF Joined, all, c, b, a

LEMMA ItemsOne ==
  /\ Items(<< >>) = {}
  /\ \A x : Items(<<x>>) = {x}
<1>1. Len(<< >>) = 0 /\ \A x : Len(<<x>>) = 1 /\ <<x>>[1] = x
  OBVIOUS
<1>2. (1 .. 0) = {} /\ \A k : k \in 1 .. 1 <=> k = 1
  OBVIOUS
<1>3. Items(<< >>) = {}
  BY <1>1, <1>2 DEF Items
<1>4. ASSUME NEW x PROVE Items(<<x>>) = {x}
  BY <1>1, <1>2 DEF Items
<1> QED  BY <1>3, <1>4

(* The calls that are made for some of the files. *)
Picked(x) == [i \in F |-> IF i \in DOMAIN x THEN <<x[i]>> ELSE << >>]

LEMMA ItemsPicked ==
  ASSUME NEW S, NEW p \in SUBSET F, NEW x \in [p -> S]
  PROVE  /\ Joined(Picked(x)) \in Seq(S)
         /\ Items(Joined(Picked(x))) = Range(x)
<1> DEFINE some == Picked(x)
           all == Joined(some)
<1>1. ASSUME NEW i \in F
      PROVE  some[i] \in Seq(S) /\ Items(some[i]) = IF i \in p THEN {x[i]} ELSE {}
  <2>1. CASE i \in p
    <3>1. PICK y \in S : y = x[i]
      BY <2>1
    <3>2. some[i] = <<y>>
      BY <2>1, <3>1 DEF Picked
    <3> QED  BY <2>1, <3>1, <3>2, ItemsOne
  <2>2. CASE i \notin p
    <3>1. some[i] = << >>
      BY <2>2 DEF Picked
    <3> QED  BY <2>2, <3>1, ItemsOne
  <2> QED  BY <2>1, <2>2
<1>2. some = [i \in F |-> some[i]]
  BY DEF Picked
<1> HIDE DEF some
<1>3. all \in Seq(S) /\ Items(all) = UNION {Items(some[i]) : i \in F}
  BY <1>1, <1>2, ItemsGathered
<1> HIDE DEF all
<1>4. Items(all) = Range(x)
  <2>1. \A i \in F : Items(some[i]) = IF i \in p THEN {x[i]} ELSE {}
    BY <1>1
  <2>2. ASSUME NEW y \in Items(all) PROVE y \in Range(x)
    <3>1. PICK i \in F : y \in Items(some[i])
      BY <1>3
    <3> QED  BY <2>1, <3>1 DEF Range
  <2>3. ASSUME NEW y \in Range(x) PROVE y \in Items(all)
    BY <1>3, <2>1, <2>3 DEF Range
  <2> QED  BY <2>2, <2>3
<1> QED  BY <1>3, <1>4 DEF all, some

(* The files that a client reads are those that the table has. *)
ReadOf(files, i) == [Req("read") EXCEPT !.i = i, !.size = files[i].size]
ReadsOf(files) == Picked([i \in {j \in F : files[j].size > 0} |-> ReadOf(files, i)])

LEMMA ReadsMade ==
  ASSUME NEW files \in Table
  PROVE  LET all == Joined(ReadsOf(files)) IN
         /\ all \in Seq(ReadCalls)
         /\ \A i \in F : (\E x \in Items(all) : x.i = i) <=> files[i].size > 0
<1>1. ASSUME NEW i \in F
      PROVE  /\ ReadOf(files, i).i = i
             /\ files[i].size > 0 => ReadOf(files, i) \in ReadCalls
  <2>1. PICK n \in Nat : n = files[i].size
    BY DEF Table, Entry
  <2>2. ReadOf(files, i) = [Req("read") EXCEPT !.i = i, !.size = n]
    BY <2>1 DEF ReadOf
  <2>3. ReadOf(files, i) = [cmd |-> "read", i |-> i, data |-> "none", size |-> n]
    BY <2>2 DEF Req
  <2> QED  BY <2>1, <2>3 DEF ReadCalls
<1>2. PICK p \in SUBSET F : p = {i \in F : files[i].size > 0}
  OBVIOUS
<1>3. PICK x : x = [i \in p |-> ReadOf(files, i)]
  OBVIOUS
<1>4. x \in [p -> ReadCalls]
  BY <1>1, <1>2, <1>3
<1>5. /\ Joined(Picked(x)) \in Seq(ReadCalls)
      /\ Items(Joined(Picked(x))) = Range(x)
  BY <1>4, ItemsPicked
<1>6. \A y : y \in Range(x) <=> \E i \in p : y = ReadOf(files, i)
  BY <1>3 DEF Range
<1>7. \A i \in F : (\E y \in Range(x) : y.i = i) <=> i \in p
  BY <1>1, <1>6
<1> QED  BY <1>2, <1>3, <1>5, <1>7 DEF ReadsOf

LEMMA StatTakenThen ==
  ASSUME Shape, NEW ok \in BOOLEAN, StatTaken(ok)
  PROVE  /\ Taken("stat", ok) /\ loadFailed' = loadFailed /\ ans.files \in Table
         /\ LET all == Joined(ReadsOf(ans.files)) IN
            (ok /\ all # << >> /\ Continue(all)) \/ End(FALSE)
<1> DEFINE these == [i \in F |-> [Req("read") EXCEPT !.i = i, !.size = ans.files[i].size]]
           any(i) == IF these[i].size > 0 THEN <<these[i]>> ELSE << >>
<1>1. Taken("stat", ok) /\ loadFailed' = loadFailed /\ ans.files \in Table
  BY DEF StatTaken, Shape, ClientTyped
<1>2. LET rest == any(0) \o any(1) \o any(2) \o any(3) \o any(4) IN
      (ok /\ rest # << >> /\ Continue(rest)) \/ End(FALSE)
  BY Zenon DEF StatTaken
<1>3. \A i \in F : these[i] = ReadOf(ans.files, i) /\ these[i].size = ans.files[i].size
  BY DEF ReadOf, Req
<1>4. 0 \in F /\ 1 \in F /\ 2 \in F /\ 3 \in F /\ 4 \in F
  BY DEF F
<1> HIDE DEF these
<1>5. \A i \in F : any(i) = ReadsOf(ans.files)[i]
  BY <1>3 DEF ReadsOf, Picked
<1> HIDE DEF any
<1>6. any(0) \o any(1) \o any(2) \o any(3) \o any(4) = Joined(ReadsOf(ans.files))
  BY <1>4, <1>5, Zenon DEF Joined
<1> QED  BY <1>1, <1>2, <1>6

(* The files that a client loads are those that it has read, and the title. *)
LoadOf(have, title, i) ==
  IF i = IconSys THEN Load(i, title, FileSize[title]) ELSE Load(i, have[i].data, have[i].size)
Loads(have, i) == i = IconSys \/ have[i].size > 0
LoadsOf(have, title) == Picked([i \in {j \in F : Loads(have, j)} |-> LoadOf(have, title, i)])
Writes(have, title) == <<Req("initdef")>> \o Joined(LoadsOf(have, title)) \o <<Req("write")>>

LEMMA LoadsMade ==
  ASSUME NEW have \in [F -> Resources], NEW title \in GameTitles
  PROVE  LET all == Joined(LoadsOf(have, title)) IN
         /\ all \in Seq(LoadCalls)
         /\ \A x : x \in Items(all) <=> \E i \in F : Loads(have, i) /\ x = LoadOf(have, title, i)
<1>1. ASSUME NEW i \in F, Loads(have, i) PROVE LoadOf(have, title, i) \in LoadCalls
  <2>1. title \in Known \ {"none"} /\ FileSize[title] \in Nat \ {0}
    BY FileSizes DEF GameTitles
  <2>2. have[i].size \in Nat /\ have[i].data \in Known /\ (have[i].size = 0 <=> have[i].data = "none")
    BY DEF Resources
  <2>3. Load(i, title, FileSize[title]) \in LoadCalls
    BY <2>1, Requests
  <2>4. have[i].size > 0 => Load(i, have[i].data, have[i].size) \in LoadCalls
    BY <2>2, Requests
  <2> QED  BY <1>1, <2>3, <2>4 DEF LoadOf, Loads
<1>2. PICK p \in SUBSET F : p = {i \in F : Loads(have, i)}
  OBVIOUS
<1>3. PICK x : x = [i \in p |-> LoadOf(have, title, i)]
  OBVIOUS
<1>4. x \in [p -> LoadCalls]
  BY <1>1, <1>2, <1>3
<1>5. /\ Joined(Picked(x)) \in Seq(LoadCalls)
      /\ Items(Joined(Picked(x))) = Range(x)
  BY <1>4, ItemsPicked
<1> QED  BY <1>2, <1>3, <1>5 DEF LoadsOf, Range

LEMMA HeadJoined ==
  ASSUME NEW S, NEW s \in Seq(S), NEW u \in Seq(S), Len(s) >= 1
  PROVE  Len(s \o u) >= 1 /\ Head(s \o u) = Head(s)
<1>1. PICK m \in Nat : m = Len(s)
  OBVIOUS
<1>2. PICK n \in Nat : n = Len(u)
  OBVIOUS
<1>3. Len(s \o u) = m + n /\ m >= 1 /\ \A k \in 1 .. m + n : k <= m => (s \o u)[k] = s[k]
  BY <1>1, <1>2
<1>4. (s \o u)[1] = s[1]
  BY <1>3
<1>5. Head(s) = s[1] /\ Head(s \o u) = (s \o u)[1]
  BY <1>1, <1>2
<1> QED  BY <1>3, <1>4, <1>5

LEMMA WritesMade ==
  ASSUME NEW have \in [F -> Resources], NEW title \in GameTitles
  PROVE  LET all == Writes(have, title) IN
         /\ all \in Seq(Calls) /\ Planned(all) /\ Head(all).cmd = "initdef"
         /\ \A x \in Items(all) : x.cmd = "load" =>
              \E i \in F : Loads(have, i) /\ x = LoadOf(have, title, i)
         /\ \A i \in F : Loads(have, i) => LoadOf(have, title, i) \in Items(all)
         /\ \A i \in F : LoadOf(have, title, i).cmd = "load" /\ LoadOf(have, title, i).i = i
<1> DEFINE loads == Joined(LoadsOf(have, title))
           first == <<Req("initdef")>>
           final == <<Req("write")>>
           begun == first \o loads
<1>1. /\ Req("initdef") \in Calls /\ Req("write") \in Calls
      /\ Req("initdef").cmd = "initdef" /\ Req("write").cmd = "write"
  BY Requests DEF Cmds
<1>2. /\ loads \in Seq(LoadCalls)
      /\ \A x : x \in Items(loads) <=> \E i \in F : Loads(have, i) /\ x = LoadOf(have, title, i)
  BY LoadsMade
<1> HIDE DEF loads
<1>13. Planned(Writes(have, title))
  BY <1>2, WritingMade DEF Writes, loads
<1>3. loads \in Seq(Calls) /\ first \in Seq(Calls) /\ final \in Seq(Calls)
  BY <1>1, <1>2, Requests
<1>4. Items(first) = {Req("initdef")} /\ Items(final) = {Req("write")}
  BY ItemsOne
<1>5. Len(first) >= 1 /\ Head(first) = Req("initdef")
  OBVIOUS
<1> HIDE DEF first, final
<1>6. begun \in Seq(Calls) /\ Items(begun) = Items(first) \cup Items(loads)
  BY <1>3, ItemsJoined
<1>7. Len(begun) >= 1 /\ Head(begun) = Req("initdef")
  BY <1>3, <1>5, HeadJoined
<1> HIDE DEF begun
<1>8. begun \o final \in Seq(Calls) /\ Items(begun \o final) = Items(begun) \cup Items(final)
  BY <1>3, <1>6, ItemsJoined
<1>9. Head(begun \o final) = Req("initdef")
  BY <1>3, <1>6, <1>7, HeadJoined
<1>10. Writes(have, title) = begun \o final
  BY DEF Writes, begun, first, final, loads
<1>11. \A i \in F : LoadOf(have, title, i).cmd = "load" /\ LoadOf(have, title, i).i = i
  BY DEF LoadOf, Load
<1>12. \A x : x \in Items(Writes(have, title)) <=>
         \/ x = Req("initdef") \/ x = Req("write")
         \/ \E i \in F : Loads(have, i) /\ x = LoadOf(have, title, i)
  BY <1>2, <1>4, <1>6, <1>8, <1>10
<1> QED  BY <1>1, <1>8, <1>9, <1>10, <1>11, <1>12, <1>13, Zenon

(* The copy with a file more. *)
Filled(have, call, data) ==
  [have EXCEPT ![call.i] = [data |-> IF data = "none" THEN "torn" ELSE data,
                           size |-> call.size, buf |-> FALSE]]

LEMMA ReadTakenThen ==
  ASSUME Shape, NEW ok \in BOOLEAN, ReadTaken(ok)
  PROVE  /\ Taken("read", ok) /\ loadFailed' = loadFailed
         /\ \/ End(FALSE)
            \/ LET have == Filled(cl.copy, Call, ans.data)
                   todo == IF Len(cl.todo) = 1 THEN Writes(have, job["service"].title) ELSE Tail(cl.todo) IN
               /\ ok /\ have \in [F -> Resources] /\ UNCHANGED <<job, last>>
               /\ cl' = [cl EXCEPT !.copy = have, !.todo = todo]
<1> DEFINE filled == IF ans.data = "none" THEN "torn" ELSE ans.data
           kept == [cl.copy EXCEPT ![Call.i] = [data |-> filled, size |-> Call.size, buf |-> FALSE]]
           title == job["service"].title
           load(i) == IF i = IconSys THEN <<Load(i, title, FileSize[title])>>
                      ELSE IF kept[i].size > 0 THEN <<Load(i, kept[i].data, kept[i].size)>> ELSE << >>
           loads == load(0) \o load(1) \o load(2) \o load(3) \o load(4)
           writes == <<Req("initdef")>> \o loads \o <<Req("write")>>
<1>1. Taken("read", ok) /\ loadFailed' = loadFailed /\ "read" \in Cmds
  BY DEF ReadTaken, Cmds
<1>2. \/ End(FALSE)
      \/ /\ ok /\ UNCHANGED <<job, last>>
         /\ cl' = [cl EXCEPT !.copy = kept,
                     !.todo = Tail(cl.todo) \o (IF Len(cl.todo) > 1 THEN << >> ELSE writes)]
  BY DEF ReadTaken
<1>3. PICK have : have = Filled(cl.copy, Call, ans.data)
  OBVIOUS
<1>4. kept = have
  BY <1>3 DEF Filled
<1> HIDE DEF kept
<1>5. \A i \in F : load(i) = LoadsOf(have, title)[i]
  BY <1>4 DEF LoadsOf, Picked, Loads, LoadOf
<1>6. 0 \in F /\ 1 \in F /\ 2 \in F /\ 3 \in F /\ 4 \in F
  BY DEF F
<1> HIDE DEF load
<1>7. loads = Joined(LoadsOf(have, title))
  BY <1>5, <1>6, Zenon DEF Joined
<1> HIDE DEF loads
<1>8. writes = Writes(have, title)
  BY <1>7 DEF Writes
<1> HIDE DEF writes
<1>9. /\ cl.at = "waits" /\ cl.todo \in Seq(Calls) /\ Call \in ReadCalls /\ title \in GameTitles
      /\ Tail(cl.todo) \in Seq(Calls) /\ cl.todo # << >>
      /\ Len(cl.todo) = 1 => Tail(cl.todo) = << >>
  BY <1>1, TakenThen, PlanSteps
<1>10. have \in [F -> Resources]
  <2>1. ans.data \in Known /\ "torn" \in Known /\ cl.copy \in [F -> Resources]
    BY FileSizes DEF Shape, ClientTyped
  <2>2. PICK r \in ReadCalls : r = Call
    BY <1>9
  <2>3. PICK new : new = [data |-> filled, size |-> r.size, buf |-> FALSE]
    OBVIOUS
  <2>4. new \in Resources /\ r.i \in F
    BY <2>1, <2>3 DEF ReadCalls, Resources
  <2>5. have = [cl.copy EXCEPT ![r.i] = new]
    BY <1>3, <2>2, <2>3 DEF Filled
  <2> QED  BY <2>1, <2>4, <2>5
<1>11. PICK rest : rest = IF Len(cl.todo) > 1 THEN << >> ELSE Writes(have, title)
  OBVIOUS
<1>12. Tail(cl.todo) \o rest = IF Len(cl.todo) = 1 THEN Writes(have, title) ELSE Tail(cl.todo)
  <2>1. PICK n \in Nat : n = Len(cl.todo)
    BY <1>9
  <2>2. n # 0
    BY <1>9, <2>1, None
  <2>3. CASE n = 1
    <3>1. Tail(cl.todo) = << >> /\ rest = Writes(have, title)
      BY <1>9, <1>11, <2>1, <2>3
    <3>2. Writes(have, title) \in Seq(Calls)
      BY <1>9, <1>10, WritesMade
    <3> QED  BY <2>1, <2>3, <3>1, <3>2, Lefts
  <2>4. CASE n # 1
    <3>1. n > 1
      BY <2>2, <2>4
    <3>2. rest = << >>
      BY <1>11, <2>1, <3>1, Zenon
    <3> QED  BY <1>9, <2>1, <2>4, <3>2, Lefts
  <2> QED  BY <2>3, <2>4
<1>13. CASE /\ ok /\ UNCHANGED <<job, last>>
            /\ cl' = [cl EXCEPT !.copy = kept,
                        !.todo = Tail(cl.todo) \o (IF Len(cl.todo) > 1 THEN << >> ELSE writes)]
  <2>1. PICK todo : todo = Tail(cl.todo) \o rest
    OBVIOUS
  <2>2. cl' = [cl EXCEPT !.copy = have, !.todo = todo]
    BY <1>4, <1>8, <1>11, <1>13, <2>1
  <2> QED  BY <1>1, <1>3, <1>10, <1>12, <1>13, <2>1, <2>2
<1> QED  BY <1>1, <1>2, <1>13

LEMMA ShapeStatTaken ==
  ASSUME Shape, NEW ok \in BOOLEAN, StatTaken(ok)
  PROVE  Shape'
<1>1. Taken("stat", ok) /\ "stat" \in Cmds /\ ans.files \in Table
  BY StatTakenThen DEF Cmds
<1>2. PICK all : all = Joined(ReadsOf(ans.files))
  OBVIOUS
<1>3. (all # << >> /\ Continue(all)) \/ End(FALSE)
  BY <1>2, StatTakenThen
<1>4. all \in Seq(ReadCalls)
  BY <1>1, <1>2, ReadsMade
<1>5. all \in Seq(Calls) /\ (all # << >> => Planned(all))
  <2>1. all \in Seq(Calls)
    BY <1>4, Requests
  <2>2. \A k \in 1 .. Len(all) : all[k] \in ReadCalls
    BY <1>4
  <2> QED  BY <2>1, <2>2 DEF Planned, Reading
<1>6. Tail(cl.todo) = << >>
  BY <1>1, TakenThen, PlanSteps
<1>7. Tail(cl.todo) \o all = all
  BY <1>5, <1>6, Lefts
<1>8. CASE all # << >> /\ Continue(all)
  BY <1>1, <1>5, <1>7, <1>8, Extended
<1> QED  BY <1>1, <1>3, <1>8, Ended

LEMMA ShapeReadTaken ==
  ASSUME Shape, NEW ok \in BOOLEAN, ReadTaken(ok)
  PROVE  Shape'
<1>1. Taken("read", ok) /\ "read" \in Cmds
  BY ReadTakenThen DEF Cmds
<1>2. PICK have : have = Filled(cl.copy, Call, ans.data)
  OBVIOUS
<1>3. PICK todo : todo = IF Len(cl.todo) = 1 THEN Writes(have, job["service"].title) ELSE Tail(cl.todo)
  OBVIOUS
<1>4. \/ End(FALSE)
      \/ /\ have \in [F -> Resources] /\ UNCHANGED <<job, last>>
         /\ cl' = [cl EXCEPT !.copy = have, !.todo = todo]
  BY <1>2, <1>3, ReadTakenThen
<1>5. CASE /\ have \in [F -> Resources] /\ UNCHANGED <<job, last>>
           /\ cl' = [cl EXCEPT !.copy = have, !.todo = todo]
  <2>1. JobsTyped'
    BY <1>1, <1>5, TakenThen DEF Shape, JobsTyped
  <2>2. todo \in Seq(Calls) /\ Planned(todo)
    <3>1. /\ Tail(cl.todo) \in Seq(Calls) /\ job["service"].title \in GameTitles
          /\ Len(cl.todo) # 1 => Planned(Tail(cl.todo))
      BY <1>1, TakenThen, PlanSteps
    <3>2. Writes(have, job["service"].title) \in Seq(Calls) /\ Planned(Writes(have, job["service"].title))
      BY <1>5, <3>1, WritesMade
    <3> QED  BY <1>3, <3>1, <3>2
  <2> QED  BY <1>1, <1>5, <2>1, <2>2, Continued
<1> QED  BY <1>1, <1>4, <1>5, Ended

LEMMA ShapeClientStep ==
  ASSUME Shape, ClientStep
  PROVE  Shape'
  BY ShapeInitSaveTaken, ShapeInitTaken, ShapeLoadTaken, ShapeCancelTitlesTaken,
     ShapeWriteTaken, ShapeStatTaken, ShapeReadTaken DEF ClientStep

(* The user. *)
LEMMA ShapeClientComesGoes ==
  ASSUME Shape, ClientComes \/ ClientGone
  PROVE  Shape'
<1>1. /\ UNCHANGED <<disk, pos, res, copy, th, task, ans, job, last>>
      /\ \/ cl.at = "away" /\ cl' = [cl EXCEPT !.at = "idle"]
         \/ /\ th["service"].at \in {"idle", "payload"} /\ cl.at \in {"idle", "waits"}
            /\ cl' = [Away EXCEPT !.at = "gone"]
  BY DEF ClientComes, ClientGone, disks, mem, ghosts
<1>2. ListsTyped' /\ JobsTyped' /\ DiskTyped' /\ ThreadsTyped'
  BY <1>1 DEF Shape, ListsTyped, JobsTyped, DiskTyped, ThreadsTyped
<1>3. CASE cl.at = "away" /\ cl' = [cl EXCEPT !.at = "idle"]
  <2>1. cl' = [at |-> "idle", todo |-> cl.todo, copy |-> cl.copy]
    BY <1>3 DEF Shape, ClientTyped
  <2>2. cl'.at = "idle" /\ cl'.todo = cl.todo /\ cl'.copy = cl.copy
    BY <2>1
  <2>3. ClientTyped'
    BY <1>1, <2>1, <2>2 DEF Shape, ClientTyped
  <2>4. ans = NoAns /\ th["service"].at = "idle"
    BY <1>3 DEF Shape, ServicePlaced, Answering
  <2> QED  BY <1>1, <1>2, <2>2, <2>3, <2>4, ClientActs
<1>4. CASE /\ th["service"].at \in {"idle", "payload"} /\ cl.at \in {"idle", "waits"}
           /\ cl' = [Away EXCEPT !.at = "gone"]
  <2>1. cl' = [at |-> "gone", todo |-> << >>, copy |-> NoFiles]
    BY <1>4 DEF Away
  <2>2. cl'.at = "gone" /\ cl'.todo = << >> /\ cl'.copy = NoFiles
    BY <2>1
  <2>3. ClientTyped'
    BY <1>1, <2>1, <2>2, Defaults DEF Shape, ClientTyped
  <2>4. MenuPlaced' /\ ServicePlaced' /\ Opening'
    BY <1>1, <1>4, <2>2 DEF Shape, MenuPlaced, ServicePlaced, Opening
  <2>5. th["service"].doing = "none"
    BY <1>4 DEF Shape, ServicePlaced
  <2>6. Answering'
    BY <1>1, <2>2, <2>5 DEF Shape, Answering
  <2> QED  BY <1>2, <2>3, <2>4, <2>6 DEF Shape
<1> QED  BY <1>1, <1>3, <1>4

(* The plan of a change. *)
LEMMA ShapeSends ==
  ASSUME Shape, NEW p \in Parts, NEW title \in NewTitles, NEW src \in Sources, NEW save \in Saves,
         NEW todo \in Seq(Calls), Planned(todo),
         cl.at = "idle", Asks("service", p, title, src, save), Sends(todo),
         UNCHANGED <<disk, pos, res, copy, th, task, ans>>
  PROVE  Shape'
<1>1. title \in GameTitles
  BY OsdAssumption
<1>2. /\ JobsTyped'
      /\ job'["service"] = [part |-> p, title |-> title, src |-> src, save |-> save, before |-> ContentsOf(p)]
  BY <1>1, Two, AsksTyped
<1>3. cl' = [at |-> "waits", todo |-> todo, copy |-> cl.copy]
  BY DEF Sends, Shape, ClientTyped
<1>4. cl'.at = "waits" /\ cl'.todo = todo /\ cl'.copy = cl.copy
  BY <1>3
<1>5. ClientTyped'
  BY <1>3, <1>4 DEF Shape, ClientTyped
<1>6. th["service"].at = "idle"
  BY DEF Shape, ServicePlaced
<1>7. job'["service"].part \in Parts
  BY <1>2
<1> QED  BY <1>2, <1>4, <1>5, <1>6, <1>7, ClientActs

LEMMA ShapeClientRetitles ==
  ASSUME Shape, NEW p \in Parts, NEW title \in NewTitles, ClientRetitles(p, title)
  PROVE  Shape'
<1> DEFINE todo == <<Req("titles"), Req("stat")>>
<1>1. /\ cl.at = "idle" /\ Asks("service", p, title, "title", "none") /\ Sends(todo)
      /\ UNCHANGED <<disk, pos, res, copy, th, task, ans>>
  BY DEF ClientRetitles, disks, mem
<1>2. todo \in Seq(Calls) /\ Planned(todo) /\ "title" \in Sources /\ "none" \in Saves
  BY Requests DEF Planned, Cmds, Sources, Saves
<1> HIDE DEF todo
<1> QED  BY <1>1, <1>2, ShapeSends

LEMMA ShapeClientInstalls ==
  ASSUME Shape, NEW p \in Parts, NEW title \in NewTitles, NEW src \in {"default", "save", "external"},
         NEW save \in SavesFor(src), ClientInstalls(p, title, src, save)
  PROVE  Shape'
<1>1. /\ cl.at = "idle" /\ Asks("service", p, title, src, save)
      /\ Sends(CASE src = "default" -> <<Req("init"), Req("write")>>
                 [] src = "save" -> <<Req("initsave")>>
                 [] src = "external" -> <<Req("init")>> \o ConvertMcSave(title, save) \o <<Req("write")>>)
      /\ UNCHANGED <<disk, pos, res, copy, th, task, ans>>
  BY DEF ClientInstalls, disks, mem
<1>2. src \in Sources /\ save \in Saves /\ title \in GameTitles
  BY OsdAssumption DEF Sources, Saves, SavesFor
<1>3. CASE src = "default"
  <2> DEFINE todo == <<Req("init"), Req("write")>>
  <2>1. << >> \in Seq(LoadCalls) /\ Req("init") \in Calls /\ Req("write") \in Calls
    BY Requests DEF Cmds
  <2>2. <<Req("init")>> \o << >> = <<Req("init")>>
    BY <2>1, Lefts
  <2>3. todo \in Seq(Calls) /\ Planned(todo)
    BY <2>1, <2>2, WritingMade, Pair
  <2>4. Sends(todo)
    BY <1>1, <1>3
  <2> HIDE DEF todo
  <2> QED  BY <1>1, <1>2, <2>3, <2>4, ShapeSends
<1>4. CASE src = "save"
  <2> DEFINE todo == <<Req("initsave")>>
  <2>1. todo \in Seq(Calls) /\ Planned(todo)
    BY Requests DEF Planned, Cmds
  <2>2. Sends(todo)
    BY <1>1, <1>4
  <2> HIDE DEF todo
  <2> QED  BY <1>1, <1>2, <2>1, <2>2, ShapeSends
<1>5. CASE src = "external"
  <2> DEFINE loads == ConvertMcSave(title, save)
             todo == <<Req("init")>> \o loads \o <<Req("write")>>
  <2>1. loads \in Seq(LoadCalls)
    <3>1. IconSys \in F /\ ViewIcon \in F /\ title \in Known \ {"none"} /\ FileSize[title] \in Nat \ {0}
          /\ {"saveview", "savedel"} \subseteq Known \ {"none"}
          /\ FileSize["saveview"] \in Nat \ {0} /\ FileSize["savedel"] \in Nat \ {0}
      BY <1>2, FileSizes DEF GameTitles, F, IconSys, ViewIcon
    <3>2. /\ Load(IconSys, title, FileSize[title]) \in LoadCalls
          /\ Load(ViewIcon, "saveview", FileSize["saveview"]) \in LoadCalls
          /\ Load(ViewIcon, "savedel", FileSize["savedel"]) \in LoadCalls
      BY <3>1, Requests
    <3> QED  BY <3>2 DEF ConvertMcSave
  <2> HIDE DEF loads
  <2>2. todo \in Seq(Calls) /\ Planned(todo)
    BY <2>1, WritingMade
  <2>3. Sends(todo)
    BY <1>1, <1>5 DEF loads
  <2> HIDE DEF todo
  <2> QED  BY <1>1, <1>2, <2>2, <2>3, ShapeSends
<1> QED  BY <1>3, <1>4, <1>5

LEMMA ShapeUserStep ==
  ASSUME Shape, UserStep
  PROVE  Shape'
  BY ShapeDialogOpens, ShapeClientComesGoes, ShapeMenuRetitles, ShapeClientRetitles,
     ShapeMenuInstalls, ShapeClientInstalls DEF UserStep

LEMMA ShapeMenuStep ==
  ASSUME Shape, MenuStep
  PROVE  Shape'
  BY ShapeDialogShown, ShapeUpdateFiles, ShapeMenuDone DEF MenuStep

(* Shape is inductive. *)
LEMMA ShapeNext ==
  ASSUME Shape, [OsdNext]_osdVars
  PROVE  Shape'
<1>1. CASE OsdNext
  BY <1>1, ShapeThreadStep, ShapeMenuStep, ShapeServiceStep, ShapeClientStep, ShapeUserStep DEF OsdNext
<1>2. CASE UNCHANGED osdVars
  <2>1. UNCHANGED <<disk, pos, res, copy, th, task, cl, ans, job, last>>
    BY <1>2 DEF osdVars, disks, mem, ghosts
  <2>2. DiskTyped' /\ ThreadsTyped' /\ ListsTyped' /\ ClientTyped' /\ JobsTyped'
    BY <2>1 DEF Shape, DiskTyped, ThreadsTyped, ListsTyped, ClientTyped, JobsTyped
  <2>3. MenuPlaced' /\ ServicePlaced' /\ Opening' /\ Answering'
    BY <2>1 DEF Shape, MenuPlaced, ServicePlaced, Opening, Answering, Call
  <2> QED  BY <2>2, <2>3 DEF Shape
<1> QED  BY <1>1, <1>2

-----------------------------------------------------------------------------
(* What is in the attribute area.  Most steps are of a thread that has no  *)
(* partition open, before and after, and leave the other one and the disk  *)
(* alone. *)
Quiet(t) ==
  /\ UNCHANGED <<disk, pos, spoilt>> /\ Others(t)
  /\ th[t].at \notin Opened /\ th'[t].at \notin Opened
  /\ \A u \in T : u # t => res'[u] = res[u]
  /\ alone' = alone \/ \E b \in BOOLEAN : alone' = [alone EXCEPT ![t] = b]

LEMMA QuietReading ==
  ASSUME Shape, NEW t \in T,
         GetOSDResourceFileStats(t) \/ ReadOSDResourceFile(t) \/ ReadFails(t)
  PROVE  Quiet(t)
<1>1. UNCHANGED <<disk, pos, spoilt, res, alone>> /\ th[t].at \in {"stat", "read"} /\ ThreadsTyped
  BY DEF GetOSDResourceFileStats, ReadOSDResourceFile, ReadFails, disks, mem, ghosts, Shape
<1>2. Others(t) /\ th'[t].at \in {"read", "end"}
  <2>1. CASE Fails(t)
    BY <1>1, <2>1, FailsThen
  <2>2. CASE ~Fails(t)
    BY <1>1, <2>2 DEF GetOSDResourceFileStats, ReadOSDResourceFile, ReadFails, ThreadsTyped, Where, Others
  <2> QED  BY <2>1, <2>2
<1> QED  BY <1>1, <1>2 DEF Quiet, Opened

LEMMA QuietOpen ==
  ASSUME Shape, NEW t \in T, Open(t), Busy(t)
  PROVE  Quiet(t)
<1>1. UNCHANGED <<disk, pos, spoilt, res, alone>> /\ th[t].at = "open" /\ Fails(t)
  BY DEF Open, disks, mem
<1>2. Others(t) /\ th'[t].at = "end"
  BY <1>1, FailsThen DEF Shape
<1> QED  BY <1>1, <1>2 DEF Quiet, Opened

LEMMA QuietMenuBegins ==
  ASSUME Shape, NEW place \in {"stat", "dialog", "open", "idle"}, NEW doing \in Errands,
         NEW p \in Parts \cup {0}, Begins("menu", place, doing, p), th["menu"].at \notin Opened,
         UNCHANGED <<disk, pos, spoilt>>,
         res' = res \/ \E listed : res' = [res EXCEPT !["menu"] = listed],
         alone' = alone \/ \E b \in BOOLEAN : alone' = [alone EXCEPT !["menu"] = b]
  PROVE  Quiet("menu")
<1>1. Others("menu") /\ th'["menu"].at = place
  BY MenuHere, BeginsThen
<1>2. \A u \in T : u # "menu" => res'[u] = res[u]
  BY MenuHere DEF ListsTyped
<1> QED  BY <1>1, <1>2 DEF Quiet, Opened

LEMMA QuietMenu ==
  ASSUME Shape,
         \/ MenuStep \/ \E p \in MenuParts : DialogOpens(p)
         \/ \E title \in NewTitles :
              \/ MenuRetitles(title)
              \/ \E src \in {"default", "external"} : \E save \in SavesFor(src) : MenuInstalls(title, src, save)
  PROVE  Quiet("menu")
<1>1. CASE DialogShown
  BY <1>1, MenuHere, QuietMenuBegins DEF DialogShown, disks, mem, ghosts, Opened
<1>2. CASE UpdateFiles
  <2>1. /\ th["menu"].at = "read" /\ UNCHANGED <<disk, pos, spoilt, alone>>
        /\ res' = res \/ \E listed : res' = [res EXCEPT !["menu"] = listed]
        /\ Goes("menu", "open") \/ Fails("menu")
    BY <1>2 DEF UpdateFiles, disks, ghosts
  <2>2. Others("menu") /\ th'["menu"].at \in {"open", "end"}
    BY <2>1, MenuHere, GoesTo, FailsThen
  <2>3. \A u \in T : u # "menu" => res'[u] = res[u]
    BY <2>1, MenuHere DEF ListsTyped
  <2> QED  BY <2>1, <2>2, <2>3 DEF Quiet, Opened
<1>3. CASE MenuInstalled \/ MenuRetitled
  <2>1. /\ Begins("menu", "idle", "none", 0) /\ UNCHANGED <<disk, pos, spoilt, alone>>
        /\ res' = [res EXCEPT !["menu"] = NoFiles] /\ th["menu"].at = "end"
    BY <1>3 DEF MenuInstalled, MenuRetitled, FreeOSDResources, disks
  <2> QED  BY <2>1, MenuHere, QuietMenuBegins DEF Opened
<1>4. ASSUME NEW p \in MenuParts, DialogOpens(p) PROVE Quiet("menu")
  <2>1. p \in Parts
    BY OsdAssumption
  <2> QED  BY <1>4, <2>1, MenuHere, QuietMenuBegins DEF DialogOpens, disks, mem, ghosts, Opened
<1>5. ASSUME NEW title, MenuRetitles(title) PROVE Quiet("menu")
  <2>1. \E b \in BOOLEAN : alone' = [alone EXCEPT !["menu"] = b]
    BY <1>5 DEF MenuRetitles, Asks
  <2> QED  BY <1>5, <2>1, MenuHere, QuietMenuBegins DEF MenuRetitles, disks, mem, Opened
<1>6. ASSUME NEW title, NEW src, NEW save, MenuInstalls(title, src, save) PROVE Quiet("menu")
  <2>1. \E b \in BOOLEAN : alone' = [alone EXCEPT !["menu"] = b]
    BY <1>6 DEF MenuInstalls, Asks
  <2>2. \E listed : res' = [res EXCEPT !["menu"] = listed]
    BY <1>6 DEF MenuInstalls
  <2> QED  BY <1>6, <2>1, <2>2, MenuHere, QuietMenuBegins DEF MenuInstalls, disks, Opened
<1> QED  BY <1>1, <1>2, <1>3, <1>4, <1>5, <1>6 DEF MenuStep

(* The service thread waits for a request, or has got one. *)
LEMMA QuietAsked ==
  ASSUME Shape, th["service"].at \in {"idle", "payload", "end"}, UNCHANGED <<disk, pos, spoilt>>,
         Others("service"), th'["service"].at \in {"idle", "payload", "open", "stat"},
         res' = res \/ (\E listed : res' = [res EXCEPT !["service"] = listed])
           \/ \E i, r : res' = [res EXCEPT !["service"][i] = r],
         alone' = alone \/ \E b \in BOOLEAN : alone' = [alone EXCEPT !["service"] = b]
  PROVE  Quiet("service")
<1>1. \A u \in T : u # "service" => res'[u] = res[u]
  BY ServiceHere DEF ListsTyped
<1> QED  BY <1>1 DEF Quiet, Opened

LEMMA QuietService ==
  ASSUME Shape, ServiceStep
  PROVE  Quiet("service")
<1>0. th' = th => Others("service")
  BY DEF Others
<1>1. CASE InitDefaultOSDResources \/ InitOSDResources \/ CancelOSDResourceWrite
  <2>1. /\ th["service"].at = "idle" /\ UNCHANGED <<disk, pos, spoilt, th, alone>>
        /\ res' = res \/ \E listed : res' = [res EXCEPT !["service"] = listed]
    BY <1>1 DEF InitDefaultOSDResources, InitOSDResources, CancelOSDResourceWrite, Asked,
       FreeOSDResources, disks, ghosts
  <2> QED  BY <1>0, <2>1, QuietAsked
<1>2. CASE OSDResourceLoadInit
  <2>1. /\ th["service"].at = "idle" /\ UNCHANGED <<disk, pos, spoilt, res, alone>>
        /\ \/ th' = th
           \/ th' = [th EXCEPT !["service"].at = "payload", !["service"].i = Call.i]
    BY <1>2 DEF OSDResourceLoadInit, Asked, disks, ghosts
  <2>2. Others("service") /\ th'["service"].at \in {"idle", "payload"}
    BY <2>1, ServiceHere, Two DEF ThreadsTyped, Where, Others
  <2> QED  BY <2>1, <2>2, QuietAsked
<1>3. CASE ResourceArrives \/ ResourceLost
  <2>1. /\ th["service"].at = "payload" /\ UNCHANGED <<disk, pos, spoilt, alone>>
        /\ Goes("service", "idle")
        /\ res' = res \/ \E i, r : res' = [res EXCEPT !["service"][i] = r]
    BY <1>3 DEF ResourceArrives, ResourceLost, LoadOSDResource, disks, ghosts
  <2>2. Others("service") /\ th'["service"].at = "idle"
    BY <2>1, ServiceHere, Two, GoesTo
  <2> QED  BY <2>1, <2>2, QuietAsked
<1>4. CASE WriteOSDResources
  <2>1. /\ th["service"].at = "idle" /\ UNCHANGED <<disk, pos, spoilt, res, alone>>
        /\ th' = th \/ Begins("service", "open", "write", task)
    BY <1>4 DEF WriteOSDResources, Asked, disks, mem, ghosts
  <2>2. Others("service") /\ th'["service"].at \in {"idle", "open"}
    BY <1>0, <2>1, ServiceHere, Two, BeginsThen
  <2> QED  BY <2>1, <2>2, QuietAsked
<1>5. CASE ResourcesWritten \/ ReadingAnswered
  <2>1. /\ th["service"].at = "end" /\ UNCHANGED <<disk, pos, spoilt, alone>>
        /\ Begins("service", "idle", "none", 0)
        /\ res' = res \/ \E listed : res' = [res EXCEPT !["service"] = listed]
    BY <1>5 DEF ResourcesWritten, ReadingAnswered, FreeOSDResources, disks, mem, ghosts
  <2>2. Others("service") /\ th'["service"].at = "idle"
    BY <2>1, ServiceHere, Two, BeginsThen
  <2> QED  BY <2>1, <2>2, QuietAsked
<1>6. CASE ReadingRequest
  <2>1. PICK cmd : /\ th["service"].at = "idle" /\ UNCHANGED <<disk, pos, spoilt, res, alone>>
                   /\ th' = [th EXCEPT !["service"] = [Resting EXCEPT !.at = "stat", !.doing = cmd,
                               !.part = job["service"].part, !.i = Call.i]]
    BY <1>6 DEF ReadingRequest, Asked, disks, mem, ghosts
  <2>2. Others("service") /\ th'["service"].at = "stat"
    BY <2>1, ServiceHere, Two DEF ThreadsTyped, Where, Others, Resting
  <2> QED  BY <2>1, <2>2, QuietAsked
<1>7. CASE CleanupClientConnection
  <2>1. /\ th["service"].at = "idle" /\ UNCHANGED <<disk, pos, spoilt, th>>
        /\ \E listed : res' = [res EXCEPT !["service"] = listed]
        /\ \E b \in BOOLEAN : alone' = [alone EXCEPT !["service"] = b]
    BY <1>7 DEF CleanupClientConnection, disks
  <2> QED  BY <1>0, <2>1, QuietAsked
<1> QED  BY <1>1, <1>2, <1>3, <1>4, <1>5, <1>6, <1>7 DEF ServiceStep

LEMMA QuietClient ==
  ASSUME Shape,
         \/ ClientStep \/ ClientComes \/ ClientGone
         \/ \E p, title, src, save : ClientRetitles(p, title) \/ ClientInstalls(p, title, src, save)
  PROVE  Quiet("service")
<1>0. ASSUME th' = th PROVE Others("service")
  BY <1>0 DEF Others
<1>1. CASE ClientStep
  <2>1. PICK cmd \in Cmds, ok \in BOOLEAN : Taken(cmd, ok)
    BY <1>1, Zenon DEF ClientStep, InitSaveTaken, InitTaken, LoadTaken, CancelTaken, TitlesTaken,
       WriteTaken, StatTaken, ReadTaken, Cmds
  <2>2. th["service"].at = "idle" /\ UNCHANGED <<disk, pos, spoilt, th, res, alone>>
    BY <2>1, TakenThen DEF Taken
  <2>3. Others("service")
    BY <1>0, <2>2
  <2> QED  BY <2>2, <2>3, QuietAsked
<1>2. CASE ClientComes \/ ClientGone
  <2>1. th["service"].at \in {"idle", "payload"} /\ UNCHANGED <<disk, pos, spoilt, th, res, alone>>
    BY <1>2 DEF ClientComes, ClientGone, disks, mem, ghosts, Shape, ServicePlaced
  <2> QED  BY <1>0, <2>1, QuietAsked
<1>3. ASSUME NEW p, NEW title, NEW src, NEW save,
             ClientRetitles(p, title) \/ ClientInstalls(p, title, src, save)
      PROVE  Quiet("service")
  <2>1. cl.at = "idle" /\ UNCHANGED <<disk, pos, spoilt, th, res>>
    BY <1>3 DEF ClientRetitles, ClientInstalls, disks, mem
  <2>2. \E b \in BOOLEAN : alone' = [alone EXCEPT !["service"] = b]
    BY <1>3 DEF ClientRetitles, ClientInstalls, Asks
  <2>3. th["service"].at = "idle"
    BY <2>1 DEF Shape, ServicePlaced
  <2> QED  BY <1>0, <2>1, <2>2, <2>3, QuietAsked
<1> QED  BY <1>1, <1>2, <1>3

(* Only a thread that has a partition open, or opens it, is not quiet. *)
Moves(t) ==
  \/ Open(t) /\ ~Busy(t)
  \/ InstallNothing(t) \/ InstallOSDFile(t) \/ WriteFile(t) \/ WriteTable(t)

LEMMA OnlyOpened ==
  ASSUME Shape, OsdNext
  PROVE  \E t \in T : Quiet(t) \/ Moves(t)
<1>1. ASSUME NEW t \in T, ThreadStep(t) PROVE Quiet(t) \/ Moves(t)
  <2>1. CASE GetOSDResourceFileStats(t) \/ ReadOSDResourceFile(t) \/ ReadFails(t)
    BY <2>1, QuietReading
  <2>2. CASE Open(t)
    BY <2>2, QuietOpen DEF Moves
  <2> QED  BY <1>1, <2>1, <2>2 DEF ThreadStep, Moves
<1>2. MenuStep => Quiet("menu")
  BY QuietMenu, Zenon
<1>3. ServiceStep => Quiet("service")
  BY QuietService, Zenon
<1>4. ClientStep => Quiet("service")
  BY QuietClient, Zenon
<1>5. CASE UserStep
  <2>1. (\E p \in MenuParts : DialogOpens(p)) => Quiet("menu")
    BY QuietMenu, Zenon
  <2>2. ClientComes \/ ClientGone => Quiet("service")
    BY QuietClient, Zenon
  <2>3. ASSUME NEW title \in NewTitles
        PROVE  /\ MenuRetitles(title) => Quiet("menu")
               /\ \A src \in {"default", "external"} : \A save \in SavesFor(src) :
                    MenuInstalls(title, src, save) => Quiet("menu")
               /\ \A p, src, save :
                    ClientRetitles(p, title) \/ ClientInstalls(p, title, src, save) => Quiet("service")
    BY QuietMenu, QuietClient, Zenon
  <2>4. Quiet("menu") \/ Quiet("service")
    BY <1>5, <2>1, <2>2, <2>3, Zenon DEF UserStep
  <2> QED  BY <2>4, Two
<1>6. CASE \E t \in T : ThreadStep(t)
  BY <1>1, <1>6
<1> QED  BY <1>2, <1>3, <1>4, <1>5, <1>6, Two, Zenon DEF OsdNext

LEMMA AreaQuiet ==
  ASSUME Shape, AreaInv, NEW t \in T, Quiet(t)
  PROVE  AreaInv'
<1>1. /\ UNCHANGED <<disk, pos, spoilt>> /\ th[t].at \notin Opened /\ th'[t].at \notin Opened
      /\ \A u \in T : u # t => th'[u] = th[u] /\ res'[u] = res[u]
  BY DEF Quiet, Others
<1>2. AloneTyped' /\ \A u \in T : u # t => alone'[u] = alone[u]
  BY DEF Quiet, AreaInv, AloneTyped
<1>3. ASSUME NEW u \in T, th'[u].at \in Opened
      PROVE  u # t /\ th'[u] = th[u] /\ res'[u] = res[u] /\ alone'[u] = alone[u]
  BY <1>1, <1>2, <1>3
<1>4. SeekClear'
  <2>1. \A u \in T : th'[u].at = "write" => th'[u].at \in Opened
    BY DEF Opened
  <2> QED  BY <1>1, <1>3, <2>1 DEF AreaInv, SeekClear
<1>5. HeaderClear'
  BY <1>1 DEF AreaInv, HeaderClear
<1>6. Laying'
  <2>1. ASSUME NEW u \in T, th'[u].at \in Opened, Alone(u)' PROVE InPlace(u)'
    <3>1. th'[u] = th[u] /\ Alone(u) /\ th[u].at \in Opened
      BY <1>1, <1>3, <2>1 DEF Alone
    <3>2. InPlace(u)
      BY <3>1 DEF AreaInv, Laying
    <3> QED  BY <1>1, <3>1, <3>2 DEF InPlace
  <2> QED  BY <2>1 DEF Laying
<1>7. Racing'
  <2>1. ASSUME NEW u \in T, th'[u].at \in Opened, "raced" \notin spoilt' PROVE th'[Other(u)].at \notin Opened
    <3>1. Other(u) \in T
      BY DEF Other, T
    <3>2. th[u].at \in Opened /\ th[Other(u)].at \notin Opened
      BY <1>1, <1>3, <2>1 DEF AreaInv, Racing
    <3> QED  BY <1>3, <3>1, <3>2
  <2> QED  BY <1>1, <2>1 DEF AreaInv, Racing
<1>8. TableTrue'
  <2>1. \A u \in T : th[u].at \in Opened => th'[u] = th[u]
    BY <1>1
  <2> QED  BY <1>1, <2>1 DEF AreaInv, TableTrue
<1> QED  BY <1>2, <1>4, <1>5, <1>6, <1>7, <1>8 DEF AreaInv

(* A file that was written is there, and the others before it still are. *)
LEMMA WrittenWhole ==
  ASSUME NEW area \in Sectored, NEW offset \in Nat, NEW data, NEW size \in Nat \ {0}, Fits(offset, size)
  PROVE  Whole(Written(area, offset, data, size), [offset |-> offset, size |-> size])
<1> DEFINE first == offset \div Sector
           n == Sectors(size)
           new == Written(area, offset, data, size)
<1>1. first \in Nat /\ n \in Nat \ {0} /\ first + n <= AreaEnd
  BY DEF Sector, Sectors, Fits
<1>2. \A s \in 0 .. AreaEnd - 1 : s \in first .. first + n - 1 => new[s] = <<data, s - first>>
  BY DEF Written, Sectored
<1> HIDE DEF first, n, new
<1>3. ASSUME NEW k \in 1 .. n PROVE new[first + k - 1] = <<new[first][1], k - 1>>
  <2>1. new[first] = <<data, first - first>>
    BY <1>1, <1>2, OsdAreaAssumption
  <2>2. new[first + k - 1] = <<data, first + k - 1 - first>>
    BY <1>1, <1>2, OsdAreaAssumption
  <2>3. first + k - 1 - first = k - 1
    BY <1>1
  <2> QED  BY <2>1, <2>2, <2>3
<1> QED  BY <1>1, <1>3 DEF Whole, first, n, new

LEMMA WrittenKeeps ==
  ASSUME NEW area \in Sectored, NEW offset \in Nat, NEW data, NEW size \in Nat, NEW ent \in Entry,
         Whole(area, ent), Ends(ent) <= offset \div Sector
  PROVE  Whole(Written(area, offset, data, size), ent)
<1> DEFINE first == ent.offset \div Sector
           n == Sectors(ent.size)
           place == offset \div Sector
           new == Written(area, offset, data, size)
<1>1. first \in Nat /\ n \in Nat /\ first + n <= AreaEnd /\ place \in Nat /\ first + n <= place
  BY DEF Sector, Sectors, Whole, Entry, Ends
<1>2. ASSUME NEW s \in 0 .. AreaEnd - 1, s < place PROVE new[s] = area[s]
  <2>1. s \in DOMAIN area /\ ~(s \in place .. place + Sectors(size) - 1)
    BY <1>1, <1>2 DEF Sectored
  <2> HIDE DEF place
  <2> QED  BY <2>1 DEF Written, place
<1>3. \A k \in 1 .. n : area[first + k - 1] = <<area[first][1], k - 1>>
  BY DEF Whole
<1> HIDE DEF first, n, place, new
<1>4. ASSUME NEW k \in 1 .. n PROVE new[first + k - 1] = <<new[first][1], k - 1>>
  <2>1. new[first] = area[first] /\ new[first + k - 1] = area[first + k - 1]
    BY <1>1, <1>2, OsdAreaAssumption
  <2> QED  BY <1>3, <2>1
<1> QED  BY <1>1, <1>4 DEF Whole, first, n, new

(* A file that was stepped over the header leaves the header alone. *)
LEMMA WrittenClear ==
  ASSUME NEW area \in Sectored, NEW offset \in Nat, NEW data, NEW size \in Nat,
         LET first == offset \div Sector IN
         first + Sectors(size) <= HeaderAt \/ first >= HeaderAt + 2
  PROVE  \A s \in Header : Written(area, offset, data, size)[s] = area[s]
<1>1. offset \div Sector \in Nat /\ Sectors(size) \in Nat
  BY DEF Sector, Sectors
<1>2. \A s \in Header : s \in 0 .. AreaEnd - 1 /\ ~(s \in offset \div Sector .. offset \div Sector + Sectors(size) - 1)
  BY <1>1, OsdAreaAssumption DEF Header
<1> QED  BY <1>2 DEF Written, Sectored

LEMMA Turns ==
  ASSUME AreaInv, NEW t \in T, Installs(t)
  PROVE  /\ AloneTyped' /\ alone'[t] = alone[t] /\ ~alone'[Other(t)] /\ Other(t) \in T /\ Other(t) # t
         /\ \A u \in T : u # t => u = Other(t)
<1>1. Other(t) \in T /\ Other(t) # t /\ \A u \in T : u # t => u = Other(t)
  BY DEF Other, T
<1> QED  BY <1>1 DEF AreaInv, AloneTyped, Installs

(* What a step of a thread that has a partition open has to leave true, for *)
(* its own partition and the table it makes. *)
LEMMA Installed ==
  ASSUME Shape, AreaInv, NEW t \in T, th[t].at \in Opened, Installs(t), Others(t), res' = res,
         spoilt \subseteq spoilt', "raced" \in spoilt' <=> "raced" \in spoilt,
         "seek" \in spoilt' => "seek" \in spoilt \/ "raced" \in spoilt,
         th'[t].part = th[t].part,
         th'[t].at = "write" /\ "seek" \notin spoilt' =>
           LET first == th'[t].seek \div Sector IN
           first + Sectors(res[t][th'[t].i].size) <= HeaderAt \/ first >= HeaderAt + 2,
         HeaderClear',
         Alone(t) /\ th'[t].at \in Opened => InPlace(t)',
         \A p \in Parts : p # th[t].part => disk'[p] = disk[p],
         th'[t].at \notin Opened => \/ spoilt' \cap {"raced", "table"} # {}
                                    \/ \A i \in F : Whole(disk'[th[t].part].area, disk'[th[t].part].table[i])
  PROVE  AreaInv'
<1>1. /\ AloneTyped' /\ alone'[t] = alone[t] /\ ~alone'[Other(t)] /\ Other(t) \in T /\ Other(t) # t
      /\ \A u \in T : u # t => u = Other(t)
  BY Turns
<1>2. th'[Other(t)] = th[Other(t)]
  BY <1>1 DEF Others
<1>3. "raced" \notin spoilt => th[Other(t)].at \notin Opened
  BY DEF AreaInv, Racing
<1>4. SeekClear'
  <2>1. ASSUME NEW u \in T, th'[u].at = "write", "seek" \notin spoilt'
        PROVE  LET first == th'[u].seek \div Sector IN
               first + Sectors(res[u][th'[u].i].size) <= HeaderAt \/ first >= HeaderAt + 2
    <3>1. CASE u = t
      BY <2>1, <3>1
    <3>2. CASE u # t
      <4>1. th'[u] = th[u] /\ "seek" \notin spoilt
        BY <1>1, <1>2, <2>1, <3>2
      <4> QED  BY <2>1, <4>1 DEF AreaInv, SeekClear
    <3> QED  BY <3>1, <3>2
  <2> QED  BY <2>1 DEF SeekClear
<1>5. Laying'
  <2>1. ASSUME NEW u \in T, th'[u].at \in Opened, Alone(u)' PROVE InPlace(u)'
    <3>1. CASE u = t
      BY <1>1, <2>1, <3>1 DEF Alone
    <3>2. CASE u # t
      <4>1. u = Other(t) /\ "raced" \notin spoilt
        BY <1>1, <2>1, <3>2 DEF Alone
      <4> QED  BY <1>2, <1>3, <2>1, <4>1
    <3> QED  BY <3>1, <3>2
  <2> QED  BY <2>1 DEF Laying
<1>6. Racing'
  <2>1. ASSUME NEW u \in T, th'[u].at \in Opened, "raced" \notin spoilt' PROVE th'[Other(u)].at \notin Opened
    <3>1. CASE u = t
      BY <1>2, <1>3, <2>1, <3>1
    <3>2. CASE u # t
      BY <1>1, <1>2, <1>3, <2>1, <3>2
    <3> QED  BY <3>1, <3>2
  <2>2. "seek" \in spoilt' => "raced" \in spoilt'
    BY DEF AreaInv, Racing
  <2> QED  BY <2>1, <2>2 DEF Racing
<1>7. TableTrue'
  <2>1. ASSUME NEW p \in Parts, spoilt' \cap {"raced", "table"} = {},
               ~\E u \in T : th'[u].at \in Opened /\ th'[u].part = p
        PROVE  \A i \in F : Whole(disk'[p].area, disk'[p].table[i])
    <3>1. CASE p = th[t].part
      BY <2>1, <3>1
    <3>2. CASE p # th[t].part
      <4>1. spoilt \cap {"raced", "table"} = {}
        BY <2>1
      <4>2. ASSUME NEW u \in T, th[u].at \in Opened, th[u].part = p PROVE FALSE
        BY <1>1, <1>2, <2>1, <3>2, <4>2
      <4>3. \A i \in F : Whole(disk[p].area, disk[p].table[i])
        BY <4>1, <4>2 DEF AreaInv, TableTrue
      <4> QED  BY <3>2, <4>3
    <3> QED  BY <3>1, <3>2
  <2> QED  BY <2>1 DEF TableTrue
<1> QED  BY <1>1, <1>4, <1>5, <1>6, <1>7 DEF AreaInv

LEMMA AreaOpen ==
  ASSUME Shape, AreaInv, NEW t \in T, Open(t), ~Busy(t)
  PROVE  AreaInv'
<1>1. /\ th[t].at = "open" /\ th[t] \in Where /\ ThreadsTyped
      /\ th' = [th EXCEPT ![t].at = "file", ![t].i = 0, ![t].tab = NoTable, ![t].seek = 0]
      /\ spoilt' = IF th[Other(t)].at \in Opened THEN spoilt \cup {"raced"} ELSE spoilt
      /\ UNCHANGED <<disk, pos, res, alone>>
  BY DEF Open, disks, mem, Shape, ThreadsTyped
<1>2. /\ \A u \in T : u # t => th'[u] = th[u]
      /\ th'[t].at = "file" /\ th'[t].i = 0 /\ th'[t].tab = NoTable /\ th'[t].part = th[t].part
  BY <1>1 DEF ThreadsTyped, Where
<1>3. Other(t) \in T /\ Other(t) # t /\ \A u \in T : u # t => u = Other(t) /\ Other(u) = t
  BY DEF Other, T
<1>4. /\ spoilt \subseteq spoilt' /\ ("seek" \in spoilt' => "seek" \in spoilt)
      /\ "raced" \notin spoilt' => "raced" \notin spoilt /\ th[Other(t)].at \notin Opened
  <2>1. CASE th[Other(t)].at \in Opened
    <3>1. spoilt' = spoilt \cup {"raced"}
      BY <1>1, <2>1
    <3> QED  BY <3>1
  <2>2. CASE th[Other(t)].at \notin Opened
    BY <1>1, <2>2
  <2> QED  BY <2>1, <2>2
<1>5. AloneTyped' /\ SeekClear' /\ HeaderClear'
  BY <1>1, <1>2, <1>4 DEF AreaInv, AloneTyped, SeekClear, HeaderClear
<1>6. Laying'
  <2>1. InPlace(t)'
    BY <1>2 DEF InPlace, NoTable
  <2>2. ASSUME NEW u \in T, u # t, th'[u].at \in Opened, Alone(u)' PROVE InPlace(u)'
    <3>1. th'[u] = th[u] /\ Alone(u)
      BY <1>1, <1>2, <1>4, <2>2 DEF Alone
    <3>2. InPlace(u)
      BY <2>2, <3>1 DEF AreaInv, Laying
    <3> QED  BY <1>1, <3>1, <3>2 DEF InPlace
  <2> QED  BY <2>1, <2>2 DEF Laying
<1>7. Racing'
  <2>1. ASSUME NEW u \in T, th'[u].at \in Opened, "raced" \notin spoilt' PROVE th'[Other(u)].at \notin Opened
    <3>1. th[Other(t)].at \notin Opened /\ th'[Other(t)] = th[Other(t)]
      BY <1>2, <1>3, <1>4, <2>1
    <3>2. u = t
      BY <1>3, <2>1, <3>1
    <3> QED  BY <3>1, <3>2
  <2> QED  BY <1>4, <2>1 DEF AreaInv, Racing
<1>8. TableTrue'
  <2>1. \A u \in T : th[u].at \in Opened => th'[u] = th[u]
    BY <1>1, <1>2 DEF Opened
  <2> QED  BY <1>1, <1>4, <2>1 DEF AreaInv, TableTrue
<1> QED  BY <1>5, <1>6, <1>7, <1>8 DEF AreaInv

LEMMA AreaInstallNothing ==
  ASSUME Shape, AreaInv, NEW t \in T, InstallNothing(t)
  PROVE  AreaInv'
<1> DEFINE i == th[t].i
           u == th[t]
           ok == i \in Optional
           tab == IF i = DelIcon THEN [th[t].tab EXCEPT ![DelIcon] = th[t].tab[ViewIcon]] ELSE th[t].tab
<1>1. /\ u.at = "file" /\ u.at \in Opened /\ pos' = FirstOffset(t) /\ UNCHANGED <<disk, res, spoilt>>
      /\ AfterFile(t, ok, tab, u.seek) /\ Installs(t)
  BY DEF InstallNothing, mem, Opened
<1>2. /\ ThreadsTyped /\ i \in F /\ u.part \in Parts /\ u.tab \in Table /\ u.seek \in Nat
  BY <1>1, AtFile
<1>3. tab \in Table /\ ok \in BOOLEAN
  BY <1>2 DEF Table, ViewIcon, DelIcon, F
<1> HIDE DEF tab
<1>4. /\ Others(t) /\ th'[t].part = u.part
      /\ th'[t].at = (IF ok /\ i < 4 THEN "file" ELSE "table") /\ th'[t].at \in {"file", "table"}
      /\ th'[t].i = (IF ok /\ i < 4 THEN i + 1 ELSE i)
      /\ th'[t].tab = tab /\ th'[t].seek = u.seek
  <2> HIDE DEF ok
  <2> QED  BY <1>1, <1>2, <1>3, AfterFileThen
<1>5. ASSUME InPlace(t) PROVE InPlace(t)'
  <2>1. \A j \in F : tab[j] = u.tab[j] \/ (j = i /\ tab[j] = u.tab[ViewIcon])
    <3>1. CASE i = DelIcon
      <4>1. tab = [u.tab EXCEPT ![DelIcon] = u.tab[ViewIcon]]
        BY <3>1 DEF tab
      <4> QED  BY <1>2, <3>1, <4>1 DEF Table
    <3>2. CASE i # DelIcon
      BY <3>2 DEF tab
    <3> QED  BY <3>1, <3>2
  <2>2. ViewIcon \in F
    BY DEF F, ViewIcon
  <2>3. \A j \in F : u.tab[j] = NoEntry \/ (u.tab[j].size >= 1 /\ Whole(disk[u.part].area, u.tab[j]))
    BY <1>1, <1>5 DEF InPlace
  <2>4. \A j \in F : u.tab[j] # NoEntry => j < u.i /\ Ends(u.tab[j]) <= u.seek \div Sector
    BY <1>1, <1>5 DEF InPlace
  <2>5. u.i > 0 => pos = u.seek /\ u.seek <= AreaEnd * Sector
    BY <1>1, <1>5 DEF InPlace
  <2>6. \A j \in F : tab[j] = NoEntry \/ (tab[j].size >= 1 /\ Whole(disk[u.part].area, tab[j]))
    BY <2>1, <2>2, <2>3
  <2>7. th'[t].at = "file" => th'[t].i = i + 1 /\ i > 0 /\ pos' = pos
    BY <1>1, <1>2, <1>4 DEF Optional, F, IconSys, DelIcon, BootKelf, SystemCnf, FirstOffset
  <2>8. th'[t].at = "file" =>
          \A j \in F : tab[j] # NoEntry => j < th'[t].i /\ Ends(tab[j]) <= u.seek \div Sector
    <3>1. \A j \in F : j \in Nat
      BY DEF F
    <3>2. ASSUME NEW j \in F, tab[j] # NoEntry
          PROVE  j < i + 1 /\ Ends(tab[j]) <= u.seek \div Sector
      <4>1. CASE tab[j] = u.tab[j]
        BY <1>2, <2>4, <3>1, <3>2, <4>1
      <4>2. CASE j = i /\ tab[j] = u.tab[ViewIcon]
        BY <1>2, <2>2, <2>4, <3>1, <3>2, <4>2
      <4> QED  BY <2>1, <4>1, <4>2
    <3> QED  BY <2>7, <3>2
  <2>9. th'[t].at # "write" /\ (th'[t].at = "file" => pos' = u.seek /\ u.seek <= AreaEnd * Sector)
    BY <1>4, <2>5, <2>7
  <2> QED  BY <1>1, <1>4, <2>6, <2>8, <2>9 DEF InPlace
<1>6. Alone(t) /\ th'[t].at \in Opened => InPlace(t)'
  BY <1>1, <1>5 DEF AreaInv, Laying
<1>7. HeaderClear' /\ th'[t].at # "write" /\ th'[t].at \in Opened
  BY <1>1, <1>4 DEF AreaInv, HeaderClear, Opened
<1> QED  BY <1>1, <1>4, <1>6, <1>7, Installed

LEMMA AreaInstallOSDFile ==
  ASSUME Shape, AreaInv, NEW t \in T, InstallOSDFile(t)
  PROVE  AreaInv'
<1> DEFINE i == th[t].i
           u == th[t]
           size == res[t][th[t].i].size
           from == FirstOffset(t)
           place == Hopped(from, size)
           to == hddLseek(u.seek, place)
<1>1. /\ u.at = "file" /\ u.at \in Opened /\ pos' = place /\ UNCHANGED <<disk, res>> /\ size >= 1
      /\ th' = [th EXCEPT ![t].at = "write", ![t].seek = hddLseek(@, place)] /\ Installs(t)
      /\ spoilt' = IF to = place THEN spoilt ELSE spoilt \cup {"seek"}
  BY DEF InstallOSDFile, mem, Opened
<1>2. /\ ThreadsTyped /\ u \in Where /\ i \in F /\ u.tab \in Table /\ u.seek \in Nat
      /\ size \in Nat \ {0}
  BY <1>1, AtFile
<1>3. from \in Nat /\ from % Sector = 0
  BY <1>2, Offsets DEF Shape
<1>4. /\ place \in Nat /\ place >= from /\ (from <= AreaEnd * Sector => place <= AreaEnd * Sector)
      /\ LET first == place \div Sector IN first + Sectors(size) <= HeaderAt \/ first >= HeaderAt + 2
  BY <1>2, <1>3, HoppedClear
<1> HIDE DEF place, from
<1>5. Others(t) /\ th'[t].at = "write" /\ th'[t].i = i /\ th'[t].part = u.part /\ th'[t].tab = u.tab
      /\ th'[t].seek = to
  BY <1>1, <1>2 DEF ThreadsTyped, Where, Others
<1>6. i \in Nat /\ SystemCnf = 0 /\ AreaEnd * Sector >= Sector
  BY <1>2, OsdAreaAssumption DEF F, SystemCnf, Sector
<1>7. ASSUME InPlace(t)
      PROVE  to = place /\ place <= AreaEnd * Sector /\ (i > 0 => u.seek <= place)
  <2>1. i > 0 => from = u.seek /\ u.seek <= AreaEnd * Sector
    BY <1>1, <1>6, <1>7 DEF InPlace, from, FirstOffset
  <2>2. i = 0 => from = Sector
    BY <1>6 DEF from, FirstOffset
  <2>3. place <= AreaEnd * Sector
    BY <1>4, <1>6, <2>1, <2>2
  <2>4. to = place
    BY <1>4, <2>3, OsdAreaAssumption DEF hddLseek, Sector
  <2> QED  BY <1>4, <2>1, <2>3, <2>4
<1>8. ASSUME InPlace(t) PROVE InPlace(t)'
  <2>1. to = place /\ place <= AreaEnd * Sector /\ (i > 0 => u.seek <= place)
    BY <1>7, <1>8
  <2>2. \A j \in F : u.tab[j] = NoEntry \/ (u.tab[j].size >= 1 /\ Whole(disk[u.part].area, u.tab[j]))
    BY <1>1, <1>8 DEF InPlace
  <2>3. \A j \in F : u.tab[j] # NoEntry => j < i /\ Ends(u.tab[j]) <= u.seek \div Sector
    BY <1>1, <1>8 DEF InPlace
  <2>4. ASSUME NEW j \in F, u.tab[j] # NoEntry PROVE Ends(u.tab[j]) <= to \div Sector
    <3>1. i > 0 /\ Ends(u.tab[j]) <= u.seek \div Sector
      BY <1>6, <2>3, <2>4 DEF F
    <3>2. u.seek \div Sector <= to \div Sector
      BY <1>2, <1>4, <2>1, <3>1 DEF Sector
    <3>3. u.tab[j] \in Entry
      BY <1>2 DEF Table
    <3>4. Ends(u.tab[j]) \in Int /\ u.seek \div Sector \in Int /\ to \div Sector \in Int
      BY <1>2, <1>4, <2>1, <3>3 DEF Ends, Entry, Sector, Sectors
    <3> QED  BY <3>1, <3>2, <3>4
  <2> QED  BY <1>1, <1>5, <2>1, <2>2, <2>3, <2>4 DEF InPlace
<1>9. Alone(t) => InPlace(t)
  BY <1>1 DEF AreaInv, Laying
<1>10. "seek" \in spoilt' => "seek" \in spoilt \/ "raced" \in spoilt
  <2>1. "raced" \notin spoilt => to = place
    BY <1>7, <1>9 DEF Alone
  <2> QED  BY <1>1, <2>1
<1>11. "seek" \notin spoilt' => to = place
  BY <1>1
<1>12. spoilt \subseteq spoilt' /\ ("raced" \in spoilt' <=> "raced" \in spoilt)
  BY <1>1
<1>13. HeaderClear'
  BY <1>1, <1>12 DEF AreaInv, HeaderClear
<1>14. th'[t].at \in Opened
  BY <1>5 DEF Opened
<1> HIDE DEF to
<1> QED  BY <1>1, <1>4, <1>5, <1>8, <1>9, <1>10, <1>11, <1>12, <1>13, <1>14, Installed

LEMMA AreaWriteFile ==
  ASSUME Shape, AreaInv, NEW t \in T, WriteFile(t)
  PROVE  AreaInv'
<1> DEFINE u == th[t]
           i == u.i
           r == res[t][i]
           p == u.part
           fits == Fits(u.seek, r.size)
           new == [u.tab EXCEPT ![i] = [offset |-> pos, size |-> r.size]]
           tab == IF fits THEN new ELSE u.tab
           to == Transferred(u.seek, r.size)
           area == disk[p].area
           first == u.seek \div Sector
<1>1. /\ UNCHANGED <<res, spoilt>> /\ u.at = "write" /\ u.at \in Opened /\ Installs(t)
      /\ pos' = Behind(pos, r.size)
  BY DEF WriteFile, mem, Opened
<1>2. /\ ThreadsTyped /\ i \in F /\ p \in Parts /\ u.tab \in Table /\ u.seek \in Nat
      /\ r.size \in Nat \ {0} /\ r.data \in Known \ {"none"}
  BY <1>1, AtFile
<1>3. /\ DiskTyped /\ pos \in Nat /\ pos % Sector = 0 /\ area \in Sectored
      /\ disk \in [Parts -> [table : Table, area : Sectored]]
  <2>1. DiskTyped
    BY DEF Shape
  <2> QED  BY <1>2, <2>1, SMTT(40) DEF DiskTyped
<1>4. PICK size \in {1, r.size} :
      /\ disk' = [disk EXCEPT ![p].area = Written(@, u.seek, r.data, size)]
      /\ \/ size = r.size /\ AfterFile(t, fits, tab, to)
         \/ AfterFile(t, FALSE, u.tab, u.seek)
  BY DEF WriteFile
<1>5. tab \in Table /\ to \in Nat /\ fits \in BOOLEAN /\ new \in Table
  <2>1. to \in Nat
    BY <1>2, OsdAreaAssumption DEF Transferred, Rounded, Sectors, Sector
  <2>2. new \in Table
    BY <1>2, <1>3 DEF Table, Entry
  <2>3. fits \in BOOLEAN
    BY SMTT(40) DEF Fits
  <2> HIDE DEF new, to, fits
  <2> QED  BY <1>2, <2>1, <2>2, <2>3
<1>6. size \in Nat /\ Sectors(size) \in Nat /\ Sectors(size) <= Sectors(r.size) /\ Sectors(r.size) \in Nat
      /\ first \in Nat
  BY <1>2, <1>4 DEF Sectors, Sector
<1> HIDE DEF first
<1>7. /\ \A q \in Parts : q # p => disk'[q] = disk[q]
      /\ disk'[p].area = Written(area, u.seek, r.data, size) /\ disk'[p].table = disk[p].table
  BY <1>2, <1>3, <1>4, SMTT(40)
<1>8. /\ Others(t) /\ th'[t].part = p /\ th'[t].at \in {"file", "table"} /\ th'[t].i \in F
      /\ \/ /\ size = r.size /\ fits /\ th'[t].tab = new /\ th'[t].seek = to
            /\ th'[t].i = (IF i < 4 THEN i + 1 ELSE i)
            /\ th'[t].at = (IF i < 4 THEN "file" ELSE "table")
         \/ th'[t].at = "table" /\ th'[t].tab = u.tab
  <2>1. CASE size = r.size /\ AfterFile(t, fits, tab, to)
    <3>1. /\ Others(t) /\ th'[t].part = p /\ th'[t].at \in {"file", "table"} /\ th'[t].i \in F
          /\ th'[t].at = (IF fits /\ i < 4 THEN "file" ELSE "table")
          /\ th'[t].i = (IF fits /\ i < 4 THEN i + 1 ELSE i)
          /\ th'[t].tab = tab /\ th'[t].seek = to
      <4> HIDE DEF fits, tab, to
      <4> QED  BY <1>2, <1>5, <2>1, AfterFileThen
    <3>2. CASE fits
      <4>1. tab = new
        BY <3>2
      <4> HIDE DEF fits, tab, to, new
      <4> QED  BY <2>1, <3>1, <3>2, <4>1
    <3>3. CASE ~fits
      <4>1. tab = u.tab
        BY <3>3
      <4> HIDE DEF fits, tab, to, new
      <4> QED  BY <3>1, <3>3, <4>1
    <3> QED  BY <3>2, <3>3
  <2>2. CASE AfterFile(t, FALSE, u.tab, u.seek)
    <3> DEFINE ok == FALSE
    <3>1. ok \in BOOLEAN /\ ~ok /\ AfterFile(t, ok, u.tab, u.seek)
      BY <2>2
    <3> HIDE DEF ok, new, tab, to, fits
    <3>2. /\ Others(t) /\ th'[t].part = p /\ th'[t].at \in {"file", "table"} /\ th'[t].i \in F
          /\ th'[t].at = (IF ok /\ i < 4 THEN "file" ELSE "table") /\ th'[t].tab = u.tab
      BY <1>2, <3>1, AfterFileThen
    <3> QED  BY <3>1, <3>2
  <2> QED  BY <1>4, <2>1, <2>2
<1>9. HeaderClear'
  <2>1. CASE "seek" \in spoilt
    BY <1>1, <2>1 DEF HeaderClear
  <2>2. CASE "seek" \notin spoilt
    <3>1. first + Sectors(r.size) <= HeaderAt \/ first >= HeaderAt + 2
      BY <1>1, <2>2 DEF AreaInv, SeekClear, first
    <3>2. first + Sectors(size) <= HeaderAt \/ first >= HeaderAt + 2
      BY <1>6, <3>1, OsdAreaAssumption
    <3>3. \A s \in Header : Written(area, u.seek, r.data, size)[s] = area[s]
      BY <1>2, <1>3, <1>6, <3>2, WrittenClear DEF first
    <3>4. \A q \in Parts : \A s \in Header : disk[q].area[s] = <<"header", s - HeaderAt>>
      BY <2>2 DEF AreaInv, HeaderClear
    <3>5. ASSUME NEW q \in Parts, NEW s \in Header PROVE disk'[q].area[s] = <<"header", s - HeaderAt>>
      <4>1. CASE q = p
        BY <1>7, <3>3, <3>4, <4>1
      <4>2. CASE q # p
        BY <1>7, <3>4, <4>2
      <4> QED  BY <4>1, <4>2
    <3> QED  BY <3>5 DEF HeaderClear
  <2> QED  BY <2>1, <2>2
<1>10. ASSUME InPlace(t) PROVE InPlace(t)'
  <2>1. pos = u.seek /\ u.seek <= AreaEnd * Sector
    BY <1>1, <1>10 DEF InPlace
  <2>2. \A j \in F : u.tab[j] # NoEntry => /\ u.tab[j].size >= 1 /\ Whole(area, u.tab[j])
                                           /\ j < i /\ Ends(u.tab[j]) <= first
    BY <1>1, <1>10, SMTT(40) DEF InPlace, first
  <2>3. ASSUME NEW j \in F, u.tab[j] # NoEntry PROVE Whole(disk'[p].area, u.tab[j])
    <3>1. u.tab[j] \in Entry
      BY <1>2 DEF Table
    <3> QED  BY <1>2, <1>3, <1>6, <1>7, <2>2, <2>3, <3>1, WrittenKeeps DEF first
  <2>4. CASE th'[t].at = "table" /\ th'[t].tab = u.tab
    BY <1>8, <2>2, <2>3, <2>4 DEF InPlace
  <2>5. CASE /\ size = r.size /\ fits /\ th'[t].tab = new /\ th'[t].seek = to
             /\ th'[t].i = (IF i < 4 THEN i + 1 ELSE i)
             /\ th'[t].at = (IF i < 4 THEN "file" ELSE "table")
    <3> DEFINE ent == [offset |-> pos, size |-> r.size]
    <3>1. Whole(disk'[p].area, ent)
      BY <1>2, <1>3, <1>7, <2>1, <2>5, WrittenWhole
    <3>2. to = u.seek + Rounded(r.size) /\ first + Sectors(r.size) <= AreaEnd
      BY <2>5 DEF Transferred, Fits, first
    <3>3. u.seek = first * Sector /\ Rounded(r.size) = Sectors(r.size) * Sector
      BY <1>2, <1>3, <2>1 DEF first, Sector, Rounded
    <3>4. to <= AreaEnd * Sector /\ to \div Sector = first + Sectors(r.size)
      BY <1>6, <3>2, <3>3, OsdAreaAssumption DEF Sector
    <3>5. pos' = to
      BY <1>1, <2>1, <3>2 DEF Behind
    <3>6. Ends(ent) = to \div Sector
      BY <2>1, <3>4 DEF Ends, first
    <3>7. new[i] = ent /\ \A j \in F : j # i => new[j] = u.tab[j]
      BY <1>2 DEF Table
    <3>8. ent.size >= 1
      BY <1>2
    <3> HIDE DEF ent, new, to
    <3>9. ASSUME NEW j \in F, new[j] # NoEntry
          PROVE  /\ new[j].size >= 1 /\ Whole(disk'[p].area, new[j])
                 /\ j < i + 1 /\ Ends(new[j]) <= to \div Sector
      <4>1. CASE j = i
        BY <1>2, <1>6, <3>1, <3>4, <3>6, <3>7, <3>8, <4>1, SMTT(40) DEF F
      <4>2. CASE j # i
        <5>1. new[j] = u.tab[j] /\ u.tab[j] \in Entry
          BY <1>2, <3>7, <4>2 DEF Table
        <5>2. Ends(u.tab[j]) \in Int
          BY <5>1 DEF Ends, Entry, Sector, Sectors
        <5> QED  BY <1>2, <1>6, <2>2, <2>3, <3>4, <3>9, <5>1, <5>2 DEF F
      <4> QED  BY <4>1, <4>2
    <3>10. th'[t].at # "write" /\ (th'[t].at = "file" => th'[t].i = i + 1)
      BY <2>5
    <3> QED  BY <1>8, <2>5, <3>4, <3>5, <3>9, <3>10, SMTT(40) DEF InPlace
  <2> QED  BY <1>8, <2>4, <2>5
<1>11. Alone(t) => InPlace(t)
  BY <1>1 DEF AreaInv, Laying
<1>12. th'[t].at \in Opened /\ th'[t].at # "write"
  BY <1>8 DEF Opened
<1> QED  BY <1>1, <1>7, <1>8, <1>9, <1>10, <1>11, <1>12, Installed, SMTT(40)

LEMMA AreaWriteTable ==
  ASSUME Shape, AreaInv, NEW t \in T, WriteTable(t)
  PROVE  AreaInv'
<1> DEFINE u == th[t]
           p == u.part
<1>1. /\ UNCHANGED <<pos, res>> /\ u.at = "table" /\ u.at \in Opened /\ Installs(t)
      /\ \/ /\ Goes(t, "end") /\ disk' = [disk EXCEPT ![p].table = u.tab] /\ spoilt' = spoilt
         \/ Fails(t) /\ disk' = disk /\ spoilt' = spoilt \cup {"table"}
  BY DEF WriteTable, mem, Opened
<1>2. /\ ThreadsTyped /\ p \in Parts /\ u.tab \in Table /\ "end" \in Places
      /\ disk \in [Parts -> [table : Table, area : Sectored]]
  BY <1>1, AtFile DEF Places, Shape, DiskTyped
<1>3. Others(t) /\ th'[t].at = "end" /\ th'[t].part = p
  BY <1>1, <1>2, GoesTo, FailsThen
<1>4. /\ \A q \in Parts : disk'[q].area = disk[q].area
      /\ \A q \in Parts : q # p => disk'[q] = disk[q]
      /\ "table" \in spoilt' \/ disk'[p].table = u.tab
  BY <1>1, <1>2
<1>5. /\ spoilt \subseteq spoilt' /\ ("raced" \in spoilt' <=> "raced" \in spoilt)
      /\ "seek" \in spoilt' <=> "seek" \in spoilt
  <2>1. spoilt' \in {spoilt, spoilt \cup {"table"}}
    BY <1>1
  <2> QED  BY <2>1
<1>6. HeaderClear'
  BY <1>4, <1>5 DEF AreaInv, HeaderClear
<1>7. \/ spoilt' \cap {"raced", "table"} # {}
      \/ \A i \in F : Whole(disk'[p].area, disk'[p].table[i])
  <2>1. SUFFICES ASSUME "raced" \notin spoilt', "table" \notin spoilt', NEW i \in F
                 PROVE  Whole(disk'[p].area, u.tab[i])
    BY <1>4
  <2>2. InPlace(t)
    BY <1>1, <1>5, <2>1 DEF AreaInv, Laying, Alone
  <2>3. u.tab[i] = NoEntry \/ Whole(disk[p].area, u.tab[i])
    BY <1>1, <2>2 DEF InPlace
  <2>4. Whole(disk[p].area, NoEntry)
    BY OsdAreaAssumption DEF Whole, NoEntry, Sectors, Sector
  <2> QED  BY <1>2, <1>4, <2>3, <2>4
<1>8. th'[t].at \notin Opened /\ th'[t].at # "write"
  BY <1>3 DEF Opened
<1> QED  BY <1>1, <1>3, <1>4, <1>5, <1>6, <1>7, <1>8, Installed

LEMMA AreaNext ==
  ASSUME Shape, AreaInv, [OsdNext]_osdVars
  PROVE  AreaInv'
<1>1. CASE OsdNext
  <2>1. PICK t \in T : Quiet(t) \/ Moves(t)
    BY <1>1, OnlyOpened
  <2> QED  BY <2>1, AreaQuiet, AreaOpen, AreaInstallNothing, AreaInstallOSDFile, AreaWriteFile,
     AreaWriteTable DEF Moves
<1>2. CASE UNCHANGED osdVars
  <2>1. UNCHANGED <<disk, pos, th, res, alone, spoilt>>
    BY <1>2 DEF osdVars, disks, mem, ghosts
  <2>2. AloneTyped' /\ SeekClear' /\ HeaderClear' /\ Racing' /\ TableTrue'
    BY <2>1 DEF AreaInv, AloneTyped, SeekClear, HeaderClear, Racing, TableTrue
  <2>3. Laying'
    BY <2>1 DEF AreaInv, Laying, InPlace, Alone
  <2> QED  BY <2>2, <2>3 DEF AreaInv
<1> QED  BY <1>1, <1>2

(* What is allocated. *)
Owned(listed) == {i \in F : listed[i].buf}

LEMMA Owns ==
  ASSUME NEW listed
  PROVE  /\ IsFiniteSet(Owned(listed)) /\ Buffers(listed) = Cardinality(Owned(listed)) /\ Buffers(listed) \in Nat
         /\ (\A i \in F : ~listed[i].buf) => Buffers(listed) = 0
<1>1. IsFiniteSet(F)
  <2>1. 0 \in Int /\ 4 \in Int
    OBVIOUS
  <2> QED  BY <2>1, FS_Interval, Zenon DEF F
<1>2. IsFiniteSet(Owned(listed))
  BY <1>1, FS_Subset DEF Owned
<1>3. Cardinality(Owned(listed)) \in Nat
  BY <1>2, FS_CardinalityType
<1>4. Buffers(listed) = Cardinality(Owned(listed))
  BY DEF Buffers, Owned
<1>5. ASSUME \A i \in F : ~listed[i].buf PROVE Buffers(listed) = 0
  <2>1. Owned(listed) = {}
    BY <1>5 DEF Owned
  <2> QED  BY <1>4, <2>1, FS_EmptySet
<1> QED  BY <1>2, <1>3, <1>4, <1>5

LEMMA SameOwned ==
  ASSUME NEW a, NEW b, \A i \in F : a[i].buf <=> b[i].buf
  PROVE  Buffers(a) = Buffers(b)
<1>1. Owned(a) = Owned(b)
  BY DEF Owned
<1> QED  BY <1>1, Owns

LEMMA OneMore ==
  ASSUME NEW listed \in [F -> Resources], NEW i \in F, NEW r \in Resources, r.buf
  PROVE  Buffers([listed EXCEPT ![i] = r]) = Buffers(listed) + (IF listed[i].buf THEN 0 ELSE 1)
<1> DEFINE new == [listed EXCEPT ![i] = r]
<1>1. Owned(new) = Owned(listed) \cup {i}
  BY DEF Owned
<1>2. IsFiniteSet(Owned(listed)) /\ Cardinality(Owned(listed)) \in Nat
  BY Owns, FS_CardinalityType
<1>3. CASE listed[i].buf
  <2>1. Owned(new) = Owned(listed)
    BY <1>1, <1>3 DEF Owned
  <2> QED  BY <1>2, <1>3, <2>1, Owns
<1>4. CASE ~listed[i].buf
  <2>1. i \notin Owned(listed)
    BY <1>4 DEF Owned
  <2>2. Cardinality(Owned(listed) \cup {i}) = Cardinality(Owned(listed)) + 1
    BY <1>2, <2>1, FS_AddElement
  <2> QED  BY <1>1, <1>4, <2>2, Owns
<1> QED  BY <1>3, <1>4

LEMMA NoOwned == Buffers(NoFiles) = 0 /\ Buffers(PrepareOSDDefaultResources) = 0
  BY Defaults, Owns

LEMMA Balanced ==
  ASSUME Counted
  PROVE  /\ heap \in Nat /\ leaked \in Nat /\ Carried \in {0, 1}
         /\ Buffers(res["menu"]) \in Nat /\ Buffers(res["service"]) \in Nat /\ Buffers(copy) \in Nat
         /\ heap = leaked + Buffers(res["menu"]) + Buffers(res["service"]) + Buffers(copy) + Carried
  BY Owns DEF Counted, HeapOwned, Carried

LEMMA Balances ==
  ASSUME leaked' \in Nat,
         heap' = leaked' + Buffers(res'["menu"]) + Buffers(res'["service"]) + Buffers(copy') + Carried'
  PROVE  Counted'
<1>1. /\ Buffers(res'["menu"]) \in Nat /\ Buffers(res'["service"]) \in Nat /\ Buffers(copy') \in Nat
      /\ Carried' \in {0, 1}
  BY Owns DEF Carried
<1> QED  BY <1>1 DEF Counted, HeapOwned, Carried

(* A step that allocates and frees nothing. *)
LEMMA KeptMemory ==
  ASSUME Shape, NothingInv, UNCHANGED <<res, copy, heap, leaked, task>>,
         th'["service"].at = "payload" <=> th["service"].at = "payload",
         \/ th'["menu"] = th["menu"]
         \/ /\ th'["menu"].at \in {"idle", "dialog", "stat", "read"} \/ th'["menu"].doing = "titles"
              => th["menu"].at \in {"idle", "dialog", "stat", "read"} \/ th["menu"].doing = "titles"
            /\ ~(th["menu"].at = "read" /\ th["menu"].doing = "update")
  PROVE  Counted' /\ Copied' /\ Loose'
<1>1. Counted'
  BY DEF NothingInv, Counted, HeapOwned
<1>2. Loose'
  BY DEF NothingInv, Loose
<1>3. Copied'
  <2>1. CASE th'["menu"] = th["menu"]
    BY <2>1 DEF NothingInv, Copied
  <2>2. CASE ~(th["menu"].at = "read" /\ th["menu"].doing = "update")
    <3>1. copy' = NoFiles
      BY <2>2 DEF NothingInv, Copied
    <3>2. \A j \in F : ~NoFiles[j].buf /\ NoFiles[j] = Static("none")
      BY Defaults DEF NoFiles
    <3> QED  BY <3>1, <3>2 DEF Copied
  <2> QED  BY <2>1, <2>2
<1> QED  BY <1>1, <1>2, <1>3

LEMMA FreedKept ==
  ASSUME NothingInv, UNCHANGED <<cl, task, ans, loadFailed>>
  PROVE  Freed'
  BY DEF NothingInv, Freed, Call

(* What a thread that installs or looks at the table does. *)
LEMMA NothingAtWork ==
  ASSUME Shape, NothingInv, NEW t \in T,
         \/ GetOSDResourceFileStats(t) \/ Open(t) \/ InstallNothing(t) \/ InstallOSDFile(t)
         \/ WriteFile(t) \/ WriteTable(t)
  PROVE  NothingInv'
<1>1. UNCHANGED <<res, copy, heap, leaked, task, cl, ans, loadFailed>>
  BY Zenon DEF GetOSDResourceFileStats, Open, InstallNothing, InstallOSDFile, WriteFile, WriteTable, mem, ghosts
<1>2. /\ th[t].at \in {"stat", "open", "file", "write", "table"} /\ Others(t)
      /\ th'[t].doing = th[t].doing /\ th'[t].at \in {"read", "end", "file", "write", "table"}
      /\ th'[t].at = "read" => th[t].at = "stat"
  <2>1. CASE GetOSDResourceFileStats(t) \/ Open(t)
    <3>1. ThreadsTyped
      BY MenuHere
    <3>2. CASE Fails(t)
      BY <2>1, <3>1, <3>2, FailsThen DEF GetOSDResourceFileStats, Open
    <3>3. CASE ~Fails(t)
      BY <2>1, <3>1, <3>3 DEF GetOSDResourceFileStats, Open, ThreadsTyped, Where, Others
    <3> QED  BY <3>2, <3>3
  <2>2. CASE InstallOSDFile(t)
    <3>1. ThreadsTyped
      BY MenuHere
    <3> QED  BY <2>2, <3>1 DEF InstallOSDFile, ThreadsTyped, Where, Others
  <2>3. CASE InstallNothing(t) \/ WriteFile(t)
    <3>1. th[t].at \in {"file", "write"} /\ \E ok, tab, seek : AfterFile(t, ok, tab, seek)
      BY <2>3 DEF InstallNothing, WriteFile
    <3>2. ThreadsTyped
      BY MenuHere
    <3> QED  BY <3>1, <3>2, SMTT(40) DEF AfterFile, ThreadsTyped, Where, Others
  <2>4. CASE WriteTable(t)
    <3>1. th[t].at = "table" /\ (Goes(t, "end") \/ Fails(t)) /\ "end" \in Places /\ ThreadsTyped
      BY <2>4 DEF WriteTable, Shape, Places
    <3> QED  BY <3>1, GoesTo, FailsThen
  <2> QED  BY <2>1, <2>2, <2>3, <2>4
<1>3. Counted' /\ Copied' /\ Loose'
  <2>1. CASE t = "menu"
    <3>1. th'["service"] = th["service"]
      BY <1>2, <2>1, Two DEF Others
    <3> QED  BY <1>1, <1>2, <2>1, <3>1, KeptMemory
  <2>2. CASE t = "service"
    <3>1. th'["menu"] = th["menu"]
      BY <1>2, <2>2, Two DEF Others
    <3> QED  BY <1>1, <1>2, <2>2, <3>1, KeptMemory
  <2> QED  BY <2>1, <2>2, Two
<1>4. Freed'
  BY <1>1, FreedKept
<1> QED  BY <1>3, <1>4 DEF NothingInv

LEMMA NothingReadOSDResourceFile ==
  ASSUME Shape, NothingInv, NEW t \in T, ReadOSDResourceFile(t)
  PROVE  NothingInv'
<1> DEFINE u == th[t]
           i == u.i
           data == ReadBack(disk[u.part].area, u.files[i])
           n == NextFile(u.files, i + 1)
           r == Allocated(data, u.files[i].size)
<1>1. /\ UNCHANGED <<res, leaked, task, cl, ans, loadFailed>> /\ u.at = "read" /\ i \in F
      /\ IF u.doing = "update"
         THEN th' = [th EXCEPT ![t].i = n] /\ copy' = [copy EXCEPT ![i] = r] /\ heap' = heap + 1
         ELSE th' = [th EXCEPT ![t].at = "end", ![t].data = data] /\ copy' = copy /\ heap' = heap
  BY DEF ReadOSDResourceFile, ghosts
<1>2. /\ ThreadsTyped /\ u \in Where /\ u.part \in Parts
  BY <1>1 DEF Shape, MenuPlaced, ServicePlaced, T, ThreadsTyped
<1>3. Freed'
  BY <1>1, FreedKept
<1>4. CASE u.doing # "update"
  <2>1. Others(t) /\ th'[t].at = "end" /\ th'[t].doing = u.doing
    BY <1>1, <1>2, <1>4 DEF ThreadsTyped, Where, Others
  <2>2. Counted' /\ Copied' /\ Loose'
    <3>1. CASE t = "menu"
      <4>1. th'["service"] = th["service"]
        BY <2>1, <3>1, Two DEF Others
      <4> QED  BY <1>1, <1>4, <2>1, <3>1, <4>1, KeptMemory
    <3>2. CASE t = "service"
      <4>1. th'["menu"] = th["menu"]
        BY <2>1, <3>2, Two DEF Others
      <4> QED  BY <1>1, <1>4, <2>1, <3>2, <4>1, KeptMemory
    <3> QED  BY <3>1, <3>2, Two
  <2> QED  BY <1>3, <2>2 DEF NothingInv
<1>5. CASE u.doing = "update"
  <2>1. t = "menu"
    BY <1>5, Two DEF Shape, ServicePlaced
  <2>2. u.files \in Table /\ u.files[i] \in Entry /\ disk[u.part].area \in Sectored
    BY <1>1, <1>2 DEF Shape, DiskTyped, Where, Table
  <2>3. r \in Resources /\ r.buf
    <3>1. data \in Known /\ (data = "none" <=> u.files[i].size = 0)
      BY <2>2, ReadBackKnown
    <3> HIDE DEF data
    <3> QED  BY <2>2, <3>1 DEF Allocated, Resources, Entry
  <2>4. n \in 0 .. 5 /\ i + 1 <= n
    BY <1>1, <2>2, NextFileKnown DEF F
  <2>5. copy \in [F -> Resources] /\ copy' = [copy EXCEPT ![i] = r] /\ heap' = heap + 1
    BY <1>1, <1>5 DEF Shape, ListsTyped
  <2> HIDE DEF r, n
  <2>6. /\ th'["service"] = th["service"] /\ th'["menu"].at = "read" /\ th'["menu"].doing = "update"
        /\ th'["menu"].i = n
    BY <1>1, <1>2, <1>5, <2>1, Two DEF ThreadsTyped, Where
  <2>7. ~copy[i].buf
    BY <1>1, <2>1 DEF NothingInv, Copied, F
  <2>8. Counted'
    <3>1. Buffers(copy') = Buffers(copy) + 1
      BY <1>1, <2>3, <2>5, <2>7, OneMore
    <3>2. Carried' = Carried
      BY <2>6 DEF Carried
    <3>3. Counted
      BY DEF NothingInv
    <3>4. leaked' \in Nat
      BY <1>1, <3>3, Balanced
    <3>5. heap' = leaked' + Buffers(res'["menu"]) + Buffers(res'["service"]) + Buffers(copy') + Carried'
      BY <1>1, <2>5, <3>1, <3>2, <3>3, Balanced
    <3> QED  BY <3>4, <3>5, Balances
  <2>9. Loose'
    BY <1>1, <1>5, <2>1, <2>6 DEF NothingInv, Loose
  <2>10. Copied'
    <3>1. \A j \in F : (copy[j].buf => j < i) /\ (~copy[j].buf => copy[j] = Static("none"))
      BY <1>1, <2>1 DEF NothingInv, Copied
    <3>2. ASSUME NEW j \in F PROVE (copy'[j].buf => j < n) /\ (~copy'[j].buf => copy'[j] = Static("none"))
      <4>1. CASE j = i
        BY <1>1, <2>3, <2>4, <2>5, <4>1 DEF F
      <4>2. CASE j # i
        BY <1>1, <2>4, <2>5, <3>1, <4>2 DEF F
      <4> QED  BY <4>1, <4>2
    <3> QED  BY <2>6, <3>2 DEF Copied
  <2> QED  BY <1>3, <2>8, <2>9, <2>10 DEF NothingInv
<1> QED  BY <1>4, <1>5

(* The copies are empty again. *)
LEMMA CopiedNone ==
  ASSUME copy' = NoFiles
  PROVE  Copied'
  BY Defaults DEF Copied, NoFiles

LEMMA NothingReadFails ==
  ASSUME Shape, NothingInv, NEW t \in T, ReadFails(t)
  PROVE  NothingInv'
<1>1. /\ UNCHANGED <<res, leaked, task, cl, ans, loadFailed>> /\ th[t].at = "read" /\ Fails(t)
      /\ IF t = "menu" THEN copy' = NoFiles /\ heap' = heap - Buffers(copy) ELSE copy' = copy /\ heap' = heap
  BY DEF ReadFails, ghosts, FreeCopies
<1>2. Others(t) /\ th'[t].at = "end" /\ th'[t].doing = th[t].doing
  BY <1>1, MenuHere, FailsThen
<1>3. Freed'
  BY <1>1, FreedKept
<1>4. CASE t = "service"
  <2>1. th'["menu"] = th["menu"]
    BY <1>2, <1>4, Two DEF Others
  <2>2. Counted' /\ Copied' /\ Loose'
    BY <1>1, <1>2, <1>4, <2>1, Two, KeptMemory
  <2> QED  BY <1>3, <2>2 DEF NothingInv
<1>5. CASE t = "menu"
  <2>1. th'["service"] = th["service"]
    BY <1>2, <1>5, Two DEF Others
  <2>2. copy' = NoFiles /\ heap' = heap - Buffers(copy)
    BY <1>1, <1>5
  <2>3. Counted'
    <3>1. Carried' = Carried
      BY <2>1 DEF Carried
    <3>2. Counted /\ Buffers(copy') = 0
      BY <2>2, NoOwned DEF NothingInv
    <3>3. heap' = leaked' + Buffers(res'["menu"]) + Buffers(res'["service"]) + Buffers(copy') + Carried'
      BY <1>1, <2>2, <3>1, <3>2, Balanced
    <3> QED  BY <1>1, <3>2, <3>3, Balanced, Balances
  <2>4. Loose'
    BY <1>1, <1>2, <1>5 DEF NothingInv, Loose
  <2> QED  BY <1>3, <2>2, <2>3, <2>4, CopiedNone DEF NothingInv
<1> QED  BY <1>4, <1>5, Two

LEMMA NothingUpdateFiles ==
  ASSUME Shape, NothingInv, UpdateFiles
  PROVE  NothingInv'
<1> DEFINE title == job["menu"].title
           new == [i \in F |-> CASE i = IconSys -> Allocated(title, FileSize[title])
                                 [] i # IconSys /\ copy[i].buf -> copy[i]
                                 [] OTHER -> PrepareOSDDefaultResources[i]]
<1>1. /\ UNCHANGED <<leaked, task, cl, ans, loadFailed>> /\ th["menu"].at = "read" /\ th["menu"].i \notin F
      /\ copy' = NoFiles
      /\ \/ /\ LoadIconSysFile(copy[IconSys].data) /\ res' = [res EXCEPT !["menu"] = new]
            /\ heap' = heap /\ Goes("menu", "open")
         \/ heap' = heap - Buffers(copy) /\ Fails("menu") /\ res' = res
  BY DEF UpdateFiles, ghosts, FreeCopies
<1>2. /\ th'["service"] = th["service"] /\ th'["menu"].doing = th["menu"].doing
      /\ th'["menu"].at \in {"open", "end"}
  <2>1. Others("menu") /\ th'["menu"].doing = th["menu"].doing /\ th'["menu"].at \in {"open", "end"}
    BY <1>1, MenuHere, GoesTo, FailsThen
  <2> QED  BY <2>1, Two DEF Others
<1>3. th["menu"].doing = "update"
  BY <1>1 DEF Shape, MenuPlaced
<1>4. Freed' /\ Copied'
  BY <1>1, FreedKept, CopiedNone
<1>5. Counted /\ Carried' = Carried /\ leaked' \in Nat /\ Buffers(copy') = 0
  <2>1. Counted
    BY DEF NothingInv
  <2> QED  BY <1>1, <1>2, <2>1, NoOwned, Balanced DEF Carried
<1>6. Buffers(res["menu"]) = 0
  BY <1>1, Owns DEF NothingInv, Loose
<1>7. CASE heap' = heap - Buffers(copy) /\ Fails("menu") /\ res' = res
  <2>1. heap' = leaked' + Buffers(res'["menu"]) + Buffers(res'["service"]) + Buffers(copy') + Carried'
    BY <1>1, <1>5, <1>7, Balanced
  <2>2. Loose'
    BY <1>1, <1>2, <1>7 DEF NothingInv, Loose
  <2> QED  BY <1>4, <1>5, <2>1, <2>2, Balances DEF NothingInv
<1>8. CASE /\ LoadIconSysFile(copy[IconSys].data) /\ res' = [res EXCEPT !["menu"] = new]
           /\ heap' = heap /\ Goes("menu", "open")
  <2>1. Buffers(new) = Buffers(copy)
    <3>1. copy[IconSys].buf
      <4>1. copy[IconSys].data # "none" /\ IconSys \in F
        BY <1>8 DEF LoadIconSysFile, GameTitles, F, IconSys
      <4> QED  BY <4>1 DEF NothingInv, Copied, Static
    <3>2. ASSUME NEW i \in F PROVE new[i].buf <=> copy[i].buf
      <4>1. CASE i = IconSys
        BY <3>1, <4>1 DEF Allocated
      <4>2. CASE i # IconSys /\ copy[i].buf
        <5>1. new[i] = copy[i]
          BY <4>2
        <5> QED  BY <5>1
      <4>3. CASE i # IconSys /\ ~copy[i].buf
        <5>1. new[i] = PrepareOSDDefaultResources[i]
          BY <4>3
        <5> QED  BY <4>3, <5>1, Defaults
      <4> QED  BY <4>1, <4>2, <4>3
    <3> QED  BY <3>2, SameOwned
  <2> HIDE DEF new
  <2>2. res'["menu"] = new /\ res'["service"] = res["service"]
    BY <1>8, MenuHere DEF ListsTyped
  <2>3. heap' = leaked' + Buffers(res'["menu"]) + Buffers(res'["service"]) + Buffers(copy') + Carried'
    BY <1>1, <1>5, <1>6, <1>8, <2>1, <2>2, Balanced
  <2>4. th'["menu"].at = "open"
    BY <1>8, MenuHere, GoesTo
  <2>5. Loose'
    BY <1>1, <1>2, <1>3, <2>2, <2>4 DEF NothingInv, Loose
  <2> QED  BY <1>4, <1>5, <2>3, <2>5, Balances DEF NothingInv
<1> QED  BY <1>1, <1>7, <1>8

(* The dialog, before and after a change. *)
LEMMA NothingDialog ==
  ASSUME Shape, NothingInv,
         DialogShown \/ (\E p \in MenuParts : DialogOpens(p)) \/ \E title \in NewTitles : MenuRetitles(title)
  PROVE  NothingInv'
<1>1. /\ UNCHANGED <<res, copy, heap, leaked, task, cl, ans, loadFailed>>
      /\ \E place \in {"stat", "dialog"}, doing \in {"titles", "update"}, p \in Parts \cup {0} :
           Begins("menu", place, doing, p)
      /\ th["menu"].at \in {"idle", "dialog"} \/ th["menu"].doing = "titles"
  <2>1. CASE DialogShown
    BY <2>1, MenuHere DEF DialogShown, mem, ghosts
  <2>2. ASSUME NEW p \in MenuParts, DialogOpens(p) PROVE <1>1!:
    <3>1. /\ UNCHANGED <<res, copy, heap, leaked, task, cl, ans, loadFailed>>
          /\ Begins("menu", "stat", "titles", p) /\ th["menu"].at = "idle"
      BY <2>2 DEF DialogOpens, mem, ghosts
    <3>2. p \in Parts \cup {0}
      BY OsdAssumption
    <3>3. \E place \in {"stat", "dialog"}, doing \in {"titles", "update"}, q \in Parts \cup {0} :
            Begins("menu", place, doing, q)
      BY <3>1, <3>2, Zenon
    <3> QED  BY <3>1, <3>3
  <2>3. ASSUME NEW title \in NewTitles, MenuRetitles(title) PROVE <1>1!:
    <3>1. /\ UNCHANGED <<res, copy, heap, leaked, task, cl, ans, loadFailed>>
          /\ Begins("menu", "stat", "update", th["menu"].part) /\ th["menu"].at = "dialog"
      BY <2>3 DEF MenuRetitles, mem
    <3>2. th["menu"].part \in Parts \cup {0}
      BY MenuHere
    <3>3. \E place \in {"stat", "dialog"}, doing \in {"titles", "update"}, q \in Parts \cup {0} :
            Begins("menu", place, doing, q)
      BY <3>1, <3>2, Zenon
    <3> QED  BY <3>1, <3>3
  <2> QED  BY <2>1, <2>2, <2>3
<1>2. th'["service"] = th["service"] /\ th'["menu"].at \in {"stat", "dialog"}
  <2>1. Others("menu") /\ th'["menu"].at \in {"stat", "dialog"}
    BY <1>1, MenuHere, BeginsThen
  <2> QED  BY <2>1, Two DEF Others
<1>3. Counted' /\ Copied' /\ Loose'
  BY <1>1, <1>2, KeptMemory
<1>4. Freed'
  BY <1>1, FreedKept
<1> QED  BY <1>3, <1>4 DEF NothingInv

LEMMA NothingMenuInstalls ==
  ASSUME Shape, NothingInv, NEW title \in NewTitles, NEW src, NEW save, MenuInstalls(title, src, save)
  PROVE  NothingInv'
<1> DEFINE new == PrepareOSDResources(save, title)
<1>1. /\ UNCHANGED <<copy, leaked, task, cl, ans, loadFailed>> /\ th["menu"].at = "dialog"
      /\ res' = [res EXCEPT !["menu"] = new] /\ heap' = heap + Buffers(new)
      /\ Begins("menu", "open", "install", th["menu"].part)
  BY DEF MenuInstalls
<1> HIDE DEF new
<1>2. th'["service"] = th["service"] /\ th'["menu"].at = "open" /\ th'["menu"].doing = "install"
  <2>1. Others("menu") /\ th'["menu"].at = "open" /\ th'["menu"].doing = "install"
    BY <1>1, MenuHere, BeginsThen
  <2> QED  BY <2>1, Two DEF Others
<1>3. res'["menu"] = new /\ res'["service"] = res["service"]
  BY <1>1, MenuHere DEF ListsTyped
<1>4. Counted'
  <2>1. Counted /\ Carried' = Carried
    BY <1>2 DEF NothingInv, Carried
  <2>2. Buffers(res["menu"]) = 0
    BY <1>1, Owns DEF NothingInv, Loose
  <2>3. Buffers(new) \in Nat
    BY Owns
  <2>4. heap' = leaked' + Buffers(res'["menu"]) + Buffers(res'["service"]) + Buffers(copy') + Carried'
    BY <1>1, <1>3, <2>1, <2>2, <2>3, Balanced
  <2> QED  BY <1>1, <2>1, <2>4, Balanced, Balances
<1>5. Loose'
  BY <1>1, <1>2, <1>3 DEF NothingInv, Loose
<1>6. Copied'
  <2>1. copy' = NoFiles
    BY <1>1 DEF NothingInv, Copied
  <2> QED  BY <2>1, CopiedNone
<1>7. Freed'
  BY <1>1, FreedKept
<1> QED  BY <1>4, <1>5, <1>6, <1>7 DEF NothingInv

LEMMA NothingMenuDone ==
  ASSUME Shape, NothingInv, MenuInstalled \/ MenuRetitled
  PROVE  NothingInv'
<1>1. /\ UNCHANGED <<copy, task, cl, ans, loadFailed>> /\ th["menu"].at = "end"
      /\ res' = [res EXCEPT !["menu"] = NoFiles]
      /\ Begins("menu", "idle", "none", 0)
      /\ \/ heap' = heap - Buffers(res["menu"]) /\ leaked' = leaked
         \/ heap' = heap /\ leaked' = leaked + Buffers(res["menu"])
  BY DEF MenuInstalled, MenuRetitled, FreeOSDResources
<1>2. th'["service"] = th["service"] /\ th'["menu"].at = "idle" /\ th'["menu"].doing = "none"
  <2>1. Others("menu") /\ th'["menu"].at = "idle" /\ th'["menu"].doing = "none"
    BY <1>1, MenuHere, BeginsThen
  <2> QED  BY <2>1, Two DEF Others
<1>3. res'["menu"] = NoFiles /\ res'["service"] = res["service"]
  BY <1>1, MenuHere DEF ListsTyped
<1>4. Counted'
  <2>1. Counted /\ Carried' = Carried
    BY <1>2 DEF NothingInv, Carried
  <2>2. Buffers(res'["menu"]) = 0 /\ Buffers(res["menu"]) \in Nat /\ leaked \in Nat
    BY <1>3, <2>1, NoOwned, Owns, Balanced
  <2>3. leaked' \in Nat
    BY <1>1, <2>2
  <2>4. heap' = leaked' + Buffers(res'["menu"]) + Buffers(res'["service"]) + Buffers(copy') + Carried'
    BY <1>1, <1>3, <2>1, <2>2, Balanced
  <2> QED  BY <2>3, <2>4, Balances
<1>5. Loose'
  BY <1>1, <1>2, <1>3, Defaults DEF NothingInv, Loose
<1>6. Copied'
  <2>1. copy' = NoFiles
    BY <1>1 DEF NothingInv, Copied
  <2> QED  BY <2>1, CopiedNone
<1>7. Freed'
  BY <1>1, FreedKept
<1> QED  BY <1>4, <1>5, <1>6, <1>7 DEF NothingInv

(* The service thread and its client. *)
LEMMA MenuStays ==
  ASSUME Shape, Others("service")
  PROVE  th'["menu"] = th["menu"]
  BY Two DEF Others

(* The menu's resources and copies stay; the task and what the server has  *)
(* go together. *)
LEMMA ServiceMemory ==
  ASSUME Shape, NothingInv, th'["menu"] = th["menu"], res'["menu"] = res["menu"], copy' = copy,
         leaked' \in Nat,
         heap' - leaked' - Buffers(res'["service"]) - Carried'
           = heap - leaked - Buffers(res["service"]) - Carried,
         heap' \in Int,
         task' = 0 => \A i \in F : ~res'["service"][i].buf
  PROVE  Counted' /\ Copied' /\ Loose'
<1>1. Counted /\ Carried' \in {0, 1} /\ Buffers(res'["service"]) \in Nat
  BY Owns DEF NothingInv, Carried
<1>2. heap' = leaked' + Buffers(res'["menu"]) + Buffers(res'["service"]) + Buffers(copy') + Carried'
  BY <1>1, Balanced, SMTT(30)
<1>3. Counted'
  BY <1>2, Balances
<1>4. Copied' /\ Loose'
  BY DEF NothingInv, Copied, Loose
<1> QED  BY <1>3, <1>4

(* What a call that waits for its answer says of the task. *)
LEMMA FreedWaits ==
  ASSUME NothingInv, NEW cmd \in Cmds, Asked(cmd), cl' = cl, loadFailed' = loadFailed,
         cl.at = "waits",
         ~loadFailed => /\ cmd \in {"titles", "stat", "read"} => task' = 0
                        /\ cmd \in {"init", "initdef", "initsave"} =>
                             IF ans' = NoAns THEN task' = 0 ELSE ans'.result # "fail"
                        /\ cmd \in {"cancel", "write"} /\ ans' # NoAns => task' = 0
  PROVE  Freed'
<1>1. Call' = Call /\ Call.cmd = cmd
  BY DEF Call, Asked
<1> QED  BY <1>1 DEF NothingInv, Freed

LEMMA Fresh ==
  ASSUME Shape, NothingInv, NEW cmd \in {"titles", "stat", "read", "init", "initdef", "initsave"},
         Asked(cmd), ~loadFailed
  PROVE  task = 0
<1>1. cl.at = "waits" /\ Call.cmd = cmd /\ ans = NoAns
  BY AskedThen DEF Cmds
<1> QED  BY <1>1 DEF NothingInv, Freed

LEMMA NothingInitResources ==
  ASSUME Shape, NothingInv, InitDefaultOSDResources \/ InitOSDResources
  PROVE  NothingInv'
<1> DEFINE Inits(cmd, listed, result) ==
             /\ cmd \in {"init", "initdef", "initsave"} /\ result \in {"fail", "ok", "icon"}
             /\ Asked(cmd) /\ UNCHANGED <<th, copy, leaked, cl, loadFailed>> /\ Answers(result)
             /\ \/ task # 0 /\ UNCHANGED <<res, heap, task>>
                \/ /\ task = 0 /\ res' = [res EXCEPT !["service"] = listed] /\ heap' = heap + Buffers(listed)
                   /\ task' = job["service"].part /\ result # "fail"
<1>1. PICK cmd, listed, result : Inits(cmd, listed, result)
  <2>1. CASE InitDefaultOSDResources
    <3>1. /\ Asked("initdef") /\ UNCHANGED <<th, copy, leaked, cl, loadFailed, heap>>
          /\ \/ task # 0 /\ UNCHANGED <<res, task>> /\ Answers("fail")
             \/ /\ task = 0 /\ res' = [res EXCEPT !["service"] = PrepareOSDDefaultResources]
                /\ task' = job["service"].part /\ Answers("ok")
      BY <2>1 DEF InitDefaultOSDResources, ghosts
    <3>2. heap = heap + Buffers(PrepareOSDDefaultResources)
      BY NoOwned, Balanced DEF NothingInv
    <3> DEFINE listed == PrepareOSDDefaultResources
    <3> HIDE DEF listed
    <3>3. Inits("initdef", listed, "fail") \/ Inits("initdef", listed, "ok")
      <4>1. CASE task # 0 /\ UNCHANGED <<res, task>> /\ Answers("fail")
        BY <3>1, <4>1
      <4>2. CASE /\ task = 0 /\ res' = [res EXCEPT !["service"] = listed]
                 /\ task' = job["service"].part /\ Answers("ok")
        <5>1. heap' = heap + Buffers(listed)
          BY <3>1, <3>2 DEF listed
        <5> QED  BY <3>1, <4>2, <5>1
      <4> QED  BY <3>1, <4>1, <4>2 DEF listed
    <3> HIDE DEF Inits
    <3> QED  BY <3>3, Zenon
  <2>2. CASE InitOSDResources
    <3>1. PICK cmd \in {"init", "initsave"} : Asked(cmd)
      BY <2>2 DEF InitOSDResources
    <3>2. UNCHANGED <<th, copy, leaked, cl, loadFailed>>
      BY <2>2 DEF InitOSDResources
    <3>3. PICK card \in Cards :
            LET save == IF Call.cmd = "initsave" THEN LoadMcSaveSys(card) ELSE "none"
                new == PrepareOSDResources(save, job["service"].title) IN
            IF task # 0
            THEN Answers("fail") /\ UNCHANGED <<res, heap, task, job>>
            ELSE /\ res' = [res EXCEPT !["service"] = new]
                 /\ heap' = heap + Buffers(new)
                 /\ task' = job["service"].part
                 /\ job' = [job EXCEPT !["service"].save = IF Call.cmd = "initsave" THEN save ELSE @]
                 /\ Answers(IF GenerateIconFilesFromMCSave(save) THEN "icon" ELSE "ok")
      BY <2>2 DEF InitOSDResources
    <3> DEFINE save == IF Call.cmd = "initsave" THEN LoadMcSaveSys(card) ELSE "none"
               new == PrepareOSDResources(save, job["service"].title)
    <3>4. CASE task # 0
      <4>1. Inits(cmd, NoFiles, "fail")
        BY <3>1, <3>2, <3>3, <3>4
      <4> HIDE DEF Inits
      <4> QED  BY <4>1, Zenon
    <3>5. CASE task = 0
      <4>1. /\ res' = [res EXCEPT !["service"] = new] /\ heap' = heap + Buffers(new)
            /\ task' = job["service"].part /\ (Answers("icon") \/ Answers("ok"))
        BY <3>3, <3>5
      <4> HIDE DEF new
      <4>2. Inits(cmd, new, "icon") \/ Inits(cmd, new, "ok")
        BY <3>1, <3>2, <3>5, <4>1
      <4> HIDE DEF Inits
      <4> QED  BY <4>2, Zenon
    <3> QED  BY <3>4, <3>5
  <2> QED  BY <2>1, <2>2
<1>2. cmd \in Cmds /\ cl.at = "waits" /\ job["service"].part \in Parts
  BY <1>1, AskedThen DEF Cmds
<1>3. Carried' = Carried
  BY <1>1 DEF Carried
<1>4. CASE task # 0 /\ UNCHANGED <<res, heap, task>>
  <2>1. Counted' /\ Copied' /\ Loose'
    BY <1>1, <1>4, KeptMemory
  <2>2. loadFailed
    BY <1>1, <1>4, Fresh
  <2>3. Freed'
    BY <1>1, <1>2, <2>2, FreedWaits
  <2> QED  BY <2>1, <2>3 DEF NothingInv
<1>5. CASE /\ task = 0 /\ res' = [res EXCEPT !["service"] = listed] /\ heap' = heap + Buffers(listed)
           /\ task' = job["service"].part /\ result # "fail"
  <2>1. res'["service"] = listed /\ res'["menu"] = res["menu"]
    BY <1>5, ServiceHere, Two DEF ListsTyped
  <2>2. Buffers(res["service"]) = 0
    BY <1>5, Owns DEF NothingInv, Loose
  <2>3. task' # 0
    BY <1>2, <1>5, OsdAssumption
  <2>4. Counted' /\ Copied' /\ Loose'
    <3>1. Counted /\ Buffers(listed) \in Nat
      BY Owns DEF NothingInv
    <3>2. /\ heap' - leaked' - Buffers(res'["service"]) - Carried'
               = heap - leaked - Buffers(res["service"]) - Carried
          /\ heap' \in Int /\ leaked' \in Nat
      BY <1>1, <1>3, <1>5, <2>1, <2>2, <3>1, Balanced
    <3> QED  BY <1>1, <2>1, <2>3, <3>2, ServiceMemory
  <2>5. ans'.result = result /\ ans' # NoAns
    BY <1>1 DEF Answers, NoAns
  <2>6. Freed'
    BY <1>1, <1>2, <1>5, <2>5, FreedWaits
  <2> QED  BY <2>4, <2>6 DEF NothingInv
<1> QED  BY <1>1, <1>4, <1>5

LEMMA NothingLoads ==
  ASSUME Shape, NothingInv, OSDResourceLoadInit
  PROVE  NothingInv'
<1>1. /\ Asked("load") /\ UNCHANGED <<res, copy, leaked, task, cl, loadFailed>>
      /\ \/ /\ th' = [th EXCEPT !["service"].at = "payload", !["service"].i = Call.i]
            /\ heap' = heap + 1
         \/ th' = th /\ heap' = heap
  BY DEF OSDResourceLoadInit, ghosts
<1>2. "load" \in Cmds /\ th["service"].at = "idle" /\ cl.at = "waits"
  BY <1>1, AskedThen DEF Cmds
<1>3. Freed'
  BY <1>1, <1>2, FreedWaits
<1>4. Counted /\ heap \in Nat /\ leaked \in Nat
  BY Balanced DEF NothingInv
<1>5. CASE th' = th /\ heap' = heap
  <2>1. Counted' /\ Copied' /\ Loose'
    BY <1>1, <1>5, KeptMemory
  <2> QED  BY <1>3, <2>1 DEF NothingInv
<1>6. CASE /\ th' = [th EXCEPT !["service"].at = "payload", !["service"].i = Call.i]
           /\ heap' = heap + 1
  <2>1. th'["menu"] = th["menu"] /\ th'["service"].at = "payload"
    BY <1>6, ServiceHere, Two DEF ThreadsTyped, Where
  <2>2. Carried = 0 /\ Carried' = 1
    BY <1>2, <2>1 DEF Carried
  <2>3. /\ heap' - leaked' - Buffers(res'["service"]) - Carried'
             = heap - leaked - Buffers(res["service"]) - Carried
        /\ heap' \in Int /\ leaked' \in Nat
    BY <1>1, <1>4, <1>6, <2>2, Owns
  <2>4. task' = 0 => \A i \in F : ~res'["service"][i].buf
    BY <1>1 DEF NothingInv, Loose
  <2>5. Counted' /\ Copied' /\ Loose'
    BY <1>1, <2>1, <2>3, <2>4, ServiceMemory
  <2> QED  BY <1>3, <2>5 DEF NothingInv
<1> QED  BY <1>1, <1>5, <1>6

LEMMA NothingArrives ==
  ASSUME Shape, NothingInv, ResourceArrives
  PROVE  NothingInv'
<1> DEFINE i == Call.i
           r == Allocated(Call.data, Call.size)
<1>1. /\ th["service"].at = "payload" /\ cl.at = "waits" /\ Goes("service", "idle")
      /\ UNCHANGED <<copy, leaked, task, cl, loadFailed>>
      /\ res' = [res EXCEPT !["service"][i] = r]
      /\ heap' = heap - (IF res["service"][i].buf THEN 1 ELSE 0)
  BY DEF ResourceArrives, LoadOSDResource, ghosts
<1>2. Call.cmd = "load" /\ task # 0
  BY <1>1, ServiceHere
<1>3. i \in F /\ r \in Resources /\ r.buf
  <2>1. Call \in LoadCalls
    <3>1. "load" \in Cmds
      BY DEF Cmds
    <3> QED  BY <1>2, <3>1, Waiting, PlanSteps
  <2> QED  BY <2>1 DEF LoadCalls, Allocated, Resources
<1> HIDE DEF r, i
<1>4. res["service"] \in [F -> Resources]
  BY ServiceHere, Two DEF ListsTyped
<1>5. res'["service"] = [res["service"] EXCEPT ![i] = r] /\ res'["menu"] = res["menu"]
  BY <1>1, ServiceHere, Two DEF ListsTyped
<1>6. Buffers(res'["service"]) = Buffers(res["service"]) + (IF res["service"][i].buf THEN 0 ELSE 1)
  BY <1>3, <1>4, <1>5, OneMore
<1>7. th'["menu"] = th["menu"] /\ th'["service"].at = "idle"
  <2>1. Others("service") /\ th'["service"].at = "idle"
    BY <1>1, ServiceHere, Two, GoesTo
  <2> QED  BY <2>1, MenuStays
<1>8. Carried = 1 /\ Carried' = 0
  BY <1>1, <1>7 DEF Carried
<1>9. Counted' /\ Copied' /\ Loose'
  <2>1. heap \in Nat /\ leaked \in Nat /\ Buffers(res["service"]) \in Nat
    BY Balanced DEF NothingInv
  <2>2. /\ heap' - leaked' - Buffers(res'["service"]) - Carried'
             = heap - leaked - Buffers(res["service"]) - Carried
        /\ heap' \in Int /\ leaked' \in Nat
    <3>1. CASE res["service"][i].buf
      BY <1>1, <1>6, <1>8, <2>1, <3>1
    <3>2. CASE ~res["service"][i].buf
      BY <1>1, <1>6, <1>8, <2>1, <3>2
    <3> QED  BY <3>1, <3>2
  <2> QED  BY <1>1, <1>2, <1>5, <1>7, <2>2, ServiceMemory
<1>10. Freed'
  <2>1. Call' = Call
    BY <1>1 DEF Call
  <2> QED  BY <1>1, <1>2, <2>1 DEF NothingInv, Freed
<1> QED  BY <1>9, <1>10 DEF NothingInv

LEMMA NothingLost ==
  ASSUME Shape, NothingInv, ResourceLost
  PROVE  NothingInv'
<1>1. /\ th["service"].at = "payload" /\ Goes("service", "idle") /\ heap' = heap - 1
      /\ UNCHANGED <<res, copy, leaked, task, cl, ans, loadFailed>>
  BY DEF ResourceLost, ghosts
<1>2. th'["menu"] = th["menu"] /\ th'["service"].at = "idle"
  <2>1. Others("service") /\ th'["service"].at = "idle"
    BY <1>1, ServiceHere, Two, GoesTo
  <2> QED  BY <2>1, MenuStays
<1>3. Carried = 1 /\ Carried' = 0
  BY <1>1, <1>2 DEF Carried
<1>4. Counted' /\ Copied' /\ Loose'
  <2>1. heap \in Nat /\ leaked \in Nat /\ Buffers(res["service"]) \in Nat
    BY Balanced DEF NothingInv
  <2>2. /\ heap' - leaked' - Buffers(res'["service"]) - Carried'
             = heap - leaked - Buffers(res["service"]) - Carried
        /\ heap' \in Int /\ leaked' \in Nat
    BY <1>1, <1>3, <2>1
  <2>3. task' = 0 => \A i \in F : ~res'["service"][i].buf
    BY <1>1 DEF NothingInv, Loose
  <2> QED  BY <1>1, <1>2, <2>2, <2>3, ServiceMemory
<1>5. Freed'
  BY <1>1, FreedKept
<1> QED  BY <1>4, <1>5 DEF NothingInv

(* The server's resources are freed, or lost, and the task ends. *)
LEMMA NothingServed ==
  ASSUME Shape, NothingInv, th'["menu"] = th["menu"], copy' = copy,
         th["service"].at # "payload", th'["service"].at # "payload",
         res' = [res EXCEPT !["service"] = NoFiles], task' = 0,
         \/ heap' = heap - Buffers(res["service"]) /\ leaked' = leaked
         \/ heap' = heap /\ leaked' = leaked + Buffers(res["service"])
  PROVE  Counted' /\ Copied' /\ Loose'
<1>1. res'["service"] = NoFiles /\ res'["menu"] = res["menu"]
  BY ServiceHere, Two DEF ListsTyped
<1>2. Carried = 0 /\ Carried' = 0 /\ Buffers(res'["service"]) = 0
  BY <1>1, NoOwned DEF Carried
<1>3. heap \in Nat /\ leaked \in Nat /\ Buffers(res["service"]) \in Nat
  BY Balanced DEF NothingInv
<1>4. /\ heap' - leaked' - Buffers(res'["service"]) - Carried'
           = heap - leaked - Buffers(res["service"]) - Carried
      /\ heap' \in Int /\ leaked' \in Nat
  BY <1>2, <1>3
<1>5. \A i \in F : ~res'["service"][i].buf
  BY <1>1, Defaults
<1> QED  BY <1>1, <1>4, <1>5, ServiceMemory

LEMMA NothingWritten ==
  ASSUME Shape, NothingInv, ResourcesWritten
  PROVE  NothingInv'
<1>1. /\ th["service"].at = "end" /\ th["service"].doing = "write" /\ Begins("service", "idle", "none", 0)
      /\ res' = [res EXCEPT !["service"] = NoFiles] /\ heap' = heap - Buffers(res["service"])
      /\ task' = 0 /\ UNCHANGED <<copy, leaked, cl, loadFailed>>
  BY DEF ResourcesWritten, FreeOSDResources, ghosts
<1>2. th'["menu"] = th["menu"] /\ th'["service"].at = "idle"
  <2>1. Others("service") /\ th'["service"].at = "idle"
    BY <1>1, ServiceHere, Two, BeginsThen
  <2> QED  BY <2>1, MenuStays
<1>3. Counted' /\ Copied' /\ Loose'
  BY <1>1, <1>2, NothingServed
<1>4. Freed'
  <2>1. Call.cmd = "write" /\ Call' = Call /\ cl.at = "waits"
    BY <1>1, ServiceHere DEF Call
  <2> QED  BY <1>1, <2>1 DEF NothingInv, Freed
<1> QED  BY <1>3, <1>4 DEF NothingInv

LEMMA NothingCancelled ==
  ASSUME Shape, NothingInv, CancelOSDResourceWrite
  PROVE  NothingInv'
<1>1. /\ Asked("cancel") /\ UNCHANGED <<th, copy, leaked, cl, loadFailed>> /\ task' = 0
      /\ \/ UNCHANGED <<res, heap, task>>
         \/ res' = [res EXCEPT !["service"] = NoFiles] /\ heap' = heap - Buffers(res["service"])
  BY DEF CancelOSDResourceWrite, FreeOSDResources, ghosts
<1>2. "cancel" \in Cmds /\ th["service"].at = "idle" /\ cl.at = "waits"
  BY <1>1, AskedThen DEF Cmds
<1>3. Counted' /\ Copied' /\ Loose'
  <2>1. CASE UNCHANGED <<res, heap, task>>
    BY <1>1, <2>1, KeptMemory
  <2>2. CASE res' = [res EXCEPT !["service"] = NoFiles] /\ heap' = heap - Buffers(res["service"])
    BY <1>1, <1>2, <2>2, NothingServed
  <2> QED  BY <1>1, <2>1, <2>2
<1>4. Freed'
  BY <1>1, <1>2, FreedWaits
<1> QED  BY <1>3, <1>4 DEF NothingInv

LEMMA NothingStarts ==
  ASSUME Shape, NothingInv, WriteOSDResources \/ ReadingRequest \/ ReadingAnswered
  PROVE  NothingInv'
<1>1. UNCHANGED <<res, copy, heap, leaked, task, cl, loadFailed>>
  BY DEF WriteOSDResources, ReadingRequest, ReadingAnswered, mem, ghosts
<1>2. Quiet("service") /\ th'["service"].at \in {"idle", "open", "stat"}
      /\ th["service"].at \in {"idle", "end"}
  <2>1. Quiet("service")
    BY QuietService DEF ServiceStep
  <2>2. CASE WriteOSDResources
    <3>1. th["service"].at = "idle" /\ (th' = th \/ Begins("service", "open", "write", task))
      BY <2>2 DEF WriteOSDResources, Asked
    <3> QED  BY <2>1, <3>1, ServiceHere, Two, BeginsThen
  <2>3. CASE ReadingRequest
    <3>1. th["service"].at = "idle"
      BY <2>3 DEF ReadingRequest, Asked
    <3>2. th'["service"].at = "stat"
      BY <2>3, ServiceHere, Two DEF ReadingRequest, ThreadsTyped, Where, Resting
    <3> QED  BY <2>1, <3>1, <3>2
  <2>4. CASE ReadingAnswered
    <3>1. th["service"].at = "end" /\ Begins("service", "idle", "none", 0)
      BY <2>4 DEF ReadingAnswered
    <3> QED  BY <2>1, <3>1, ServiceHere, Two, BeginsThen
  <2> QED  BY <2>2, <2>3, <2>4
<1>3. Counted' /\ Copied' /\ Loose'
  <2>1. th'["menu"] = th["menu"]
    BY <1>2, MenuStays DEF Quiet
  <2> QED  BY <1>1, <1>2, <2>1, KeptMemory
<1>4. Freed'
  <2>1. CASE WriteOSDResources
    <3>1. Asked("write") /\ (task = 0 \/ ans' = ans)
      BY <2>1 DEF WriteOSDResources
    <3>2. cl.at = "waits" /\ ans = NoAns /\ "write" \in Cmds
      BY <3>1, AskedThen DEF Cmds
    <3> QED  BY <1>1, <3>1, <3>2, FreedWaits
  <2>2. CASE ReadingRequest
    <3>1. ans' = ans
      BY <2>2 DEF ReadingRequest
    <3> QED  BY <1>1, <3>1, FreedKept
  <2>3. CASE ReadingAnswered
    <3>1. th["service"].doing \in {"titles", "stat", "read"} /\ th["service"].at = "end"
      BY <2>3 DEF ReadingAnswered
    <3>2. Call.cmd \in {"titles", "stat", "read"} /\ cl.at = "waits" /\ Call' = Call
      BY <1>1, <3>1, ServiceHere DEF Call
    <3> QED  BY <1>1, <3>2 DEF NothingInv, Freed
  <2> QED  BY <2>1, <2>2, <2>3
<1> QED  BY <1>3, <1>4 DEF NothingInv

LEMMA NothingCleanup ==
  ASSUME Shape, NothingInv, CleanupClientConnection
  PROVE  NothingInv'
<1>1. /\ th["service"].at = "idle" /\ res' = [res EXCEPT !["service"] = NoFiles]
      /\ leaked' = leaked + Buffers(res["service"]) /\ task' = 0 /\ cl' = Away
      /\ UNCHANGED <<copy, heap, th, loadFailed>>
  BY DEF CleanupClientConnection
<1>2. Counted' /\ Copied' /\ Loose'
  BY <1>1, NothingServed
<1>3. Freed'
  BY <1>1 DEF Freed, Away
<1> QED  BY <1>2, <1>3 DEF NothingInv

LEMMA NothingServiceStep ==
  ASSUME Shape, NothingInv, ServiceStep
  PROVE  NothingInv'
  BY NothingInitResources, NothingLoads, NothingArrives, NothingLost, NothingStarts, NothingWritten,
     NothingCancelled, NothingCleanup DEF ServiceStep

(* The client, which no step of its own gives any memory. *)
LEMMA ClientMemory ==
  ASSUME Shape, NothingInv, UNCHANGED <<res, copy, heap, leaked, task, th>>
  PROVE  Counted' /\ Copied' /\ Loose'
  BY KeptMemory

(* Where the task has ended, or the client is going to write, it has       *)
(* nothing more to say of it. *)
LEMMA FreedAsks ==
  ASSUME cl'.at \in {"idle", "waits"}, ans' = NoAns,
         \/ (~loadFailed' => task' = 0)
         \/ cl'.at = "waits" /\ Head(cl'.todo).cmd \in {"load", "write", "cancel"}
  PROVE  Freed'
  BY DEF Freed, Call

LEMMA ContinuesThen ==
  ASSUME Shape, NEW cmd \in Cmds, NEW ok, Taken(cmd, ok), NEW more, Continue(more)
  PROVE  cl'.at = "waits" /\ cl'.todo = Tail(cl.todo) \o more
<1>1. cl.at = "waits"
  BY TakenThen
<1> QED  BY <1>1 DEF Continue, Shape, ClientTyped

LEMMA NothingTaken ==
  ASSUME Shape, NothingInv, NEW cmd \in Cmds, NEW ok, Taken(cmd, ok)
  PROVE  /\ Counted' /\ Copied' /\ Loose' /\ ans' = NoAns /\ ans # NoAns
         /\ (ok <=> ans.result # "fail") /\ task' = task
         /\ cmd \in {"titles", "stat", "read", "cancel", "write"} /\ ~loadFailed => task' = 0
         /\ cmd \in {"init", "initdef", "initsave"} /\ ~loadFailed => ok
<1>1. UNCHANGED <<res, copy, heap, leaked, task, th>> /\ ans' = NoAns /\ ans # NoAns
      /\ (ok <=> ans.result # "fail")
  BY DEF Taken, mem
<1>2. cl.at = "waits" /\ Call.cmd = cmd
  BY TakenThen
<1>3. cmd \in {"titles", "stat", "read", "cancel", "write"} /\ ~loadFailed => task' = 0
  BY <1>1, <1>2 DEF NothingInv, Freed
<1>4. cmd \in {"init", "initdef", "initsave"} /\ ~loadFailed => ok
  BY <1>1, <1>2 DEF NothingInv, Freed
<1> QED  BY <1>1, <1>3, <1>4, ClientMemory

LEMMA NothingInitSaveTaken ==
  ASSUME Shape, NothingInv, NEW ok \in BOOLEAN, InitSaveTaken(ok)
  PROVE  NothingInv'
<1>1. /\ Taken("initsave", ok) /\ "initsave" \in Cmds
      /\ \/ Continue(<<Req("write")>>)
         \/ cl' = [cl EXCEPT !.todo = <<Req("cancel"), Req("init"), Req("write")>>]
  BY DEF InitSaveTaken, Cmds
<1>2. cl'.at = "waits" /\ Head(cl'.todo).cmd \in {"cancel", "write"}
  <2>1. Req("write").cmd = "write" /\ Req("cancel").cmd = "cancel"
    BY DEF Req
  <2>2. CASE Continue(<<Req("write")>>)
    <3>1. Tail(cl.todo) = << >>
      BY <1>1, TakenThen, PlanSteps
    <3>2. cl'.at = "waits" /\ cl'.todo = << >> \o <<Req("write")>>
      BY <1>1, <2>2, <3>1, ContinuesThen
    <3>3. <<Req("write")>> \in Seq(Calls)
      BY Requests DEF Cmds
    <3>4. cl'.todo = <<Req("write")>>
      BY <3>2, <3>3, Lefts
    <3>5. Head(cl'.todo) = Req("write")
      BY <3>4
    <3> QED  BY <2>1, <3>2, <3>5
  <2>3. CASE cl' = [cl EXCEPT !.todo = <<Req("cancel"), Req("init"), Req("write")>>]
    <3>1. cl.at = "waits"
      BY <1>1, TakenThen
    <3>2. cl'.at = "waits" /\ cl'.todo = <<Req("cancel"), Req("init"), Req("write")>>
      BY <2>3, <3>1 DEF Shape, ClientTyped
    <3>3. Head(cl'.todo) = Req("cancel")
      BY <3>2
    <3> QED  BY <2>1, <3>2, <3>3
  <2> QED  BY <1>1, <2>2, <2>3
<1>3. Counted' /\ Copied' /\ Loose' /\ ans' = NoAns
  BY <1>1, NothingTaken
<1>4. Freed'
  BY <1>2, <1>3, FreedAsks
<1> QED  BY <1>3, <1>4 DEF NothingInv

(* What is left of a plan that writes. *)
LEMMA WritesNext ==
  ASSUME Shape, NEW cmd \in {"init", "initdef", "load"}, NEW ok, Taken(cmd, ok), Continue(<< >>)
  PROVE  cl'.at = "waits" /\ Head(cl'.todo).cmd \in {"load", "write"}
<1>1. cmd \in Cmds
  BY DEF Cmds
<1>2. Tail(cl.todo) \in Seq(Calls) /\ Writing(Tail(cl.todo))
  BY <1>1, TakenThen, PlanSteps
<1>3. cl'.at = "waits" /\ cl'.todo = Tail(cl.todo)
  BY <1>1, <1>2, ContinuesThen, Lefts
<1>4. Head(Tail(cl.todo)) = Req("write") \/ Head(Tail(cl.todo)) \in LoadCalls
  BY <1>2, WritingSteps
<1>5. Head(Tail(cl.todo)).cmd \in {"load", "write"}
  <2>1. PICK c : c = Head(Tail(cl.todo))
    OBVIOUS
  <2>2. c = Req("write") \/ c \in LoadCalls
    BY <1>4, <2>1, Zenon
  <2>3. c.cmd \in {"load", "write"}
    BY <2>2 DEF Req, LoadCalls
  <2> QED  BY <2>1, <2>3, Zenon
<1> QED  BY <1>3, <1>5

LEMMA EndsIdle ==
  ASSUME NEW ok, End(ok)
  PROVE  cl'.at = "idle"
  BY DEF End, Away

LEMMA NothingInitLoadTaken ==
  ASSUME Shape, NothingInv, NEW ok \in BOOLEAN, InitTaken(ok) \/ LoadTaken(ok)
  PROVE  NothingInv'
<1>1. PICK cmd \in {"init", "initdef", "load"} : Taken(cmd, ok)
  BY DEF InitTaken, LoadTaken
<1>2. /\ \/ Continue(<< >>)
         \/ End(FALSE) /\ ~ok
      /\ InitTaken(ok) => loadFailed' = loadFailed
      /\ LoadTaken(ok) => loadFailed' = (loadFailed \/ ~ok)
  BY DEF InitTaken, LoadTaken
<1>3. cmd \in Cmds
  BY DEF Cmds
<1>4. Counted' /\ Copied' /\ Loose' /\ ans' = NoAns
  BY <1>1, <1>3, NothingTaken
<1>5. CASE Continue(<< >>)
  <2>1. cl'.at = "waits" /\ Head(cl'.todo).cmd \in {"load", "write"}
    BY <1>1, <1>5, WritesNext
  <2>2. Freed'
    BY <1>4, <2>1, FreedAsks
  <2> QED  BY <1>4, <2>2 DEF NothingInv
<1>6. CASE End(FALSE) /\ ~ok
  <2>1. cl'.at = "idle"
    BY <1>6, EndsIdle
  <2>2. loadFailed'
    <3>1. CASE LoadTaken(ok)
      BY <1>2, <1>6, <3>1
    <3>2. CASE InitTaken(ok)
      <4>1. PICK call \in {"init", "initdef"} : Taken(call, ok)
        BY <3>2 DEF InitTaken
      <4>2. call \in Cmds
        BY DEF Cmds
      <4>3. ~loadFailed => ok
        BY <4>1, <4>2, NothingTaken
      <4> QED  BY <1>2, <1>6, <3>2, <4>3
    <3> QED  BY <3>1, <3>2
  <2>3. Freed'
    BY <1>4, <2>1, <2>2, FreedAsks
  <2> QED  BY <1>4, <2>3 DEF NothingInv
<1> QED  BY <1>2, <1>5, <1>6

LEMMA NothingOthersTaken ==
  ASSUME Shape, NothingInv, NEW ok \in BOOLEAN,
         CancelTaken(ok) \/ TitlesTaken(ok) \/ WriteTaken(ok) \/ StatTaken(ok) \/ ReadTaken(ok)
  PROVE  NothingInv'
<1>1. PICK cmd \in {"cancel", "titles", "write", "stat", "read"} : Taken(cmd, ok)
  BY DEF CancelTaken, TitlesTaken, WriteTaken, StatTaken, ReadTaken
<1>2. loadFailed' = loadFailed
  BY DEF CancelTaken, TitlesTaken, WriteTaken, StatTaken, ReadTaken
<1>3. cmd \in Cmds
  BY DEF Cmds
<1>4. Counted' /\ Copied' /\ Loose' /\ ans' = NoAns /\ (~loadFailed' => task' = 0)
  BY <1>1, <1>2, <1>3, NothingTaken
<1>5. cl'.at \in {"idle", "waits"}
  <2>1. cl.at = "waits"
    BY <1>1, <1>3, TakenThen
  <2>2. \/ \E good : End(good)
        \/ \E more : Continue(more)
        \/ \E have, todo : cl' = [cl EXCEPT !.copy = have, !.todo = todo]
    <3>1. CASE CancelTaken(ok) \/ TitlesTaken(ok) \/ WriteTaken(ok)
      BY <3>1 DEF CancelTaken, TitlesTaken, WriteTaken
    <3>2. CASE StatTaken(ok)
      BY <3>2, Zenon DEF StatTaken
    <3>3. CASE ReadTaken(ok)
      <4> DEFINE filled == IF ans.data = "none" THEN "torn" ELSE ans.data
                 have == [cl.copy EXCEPT ![Call.i] = [data |-> filled, size |-> Call.size, buf |-> FALSE]]
      <4>1. \/ End(FALSE)
            \/ \E todo : cl' = [cl EXCEPT !.copy = have, !.todo = todo]
        BY <3>3 DEF ReadTaken
      <4> HIDE DEF have
      <4> QED  BY <4>1, Zenon
    <3> QED  BY <3>1, <3>2, <3>3
  <2>3. cl = [at |-> cl.at, todo |-> cl.todo, copy |-> cl.copy]
    BY DEF Shape, ClientTyped
  <2>4. ASSUME NEW more, Continue(more) PROVE cl'.at = "waits"
    BY <2>1, <2>3, <2>4 DEF Continue
  <2>5. ASSUME NEW have, NEW todo, cl' = [cl EXCEPT !.copy = have, !.todo = todo] PROVE cl'.at = "waits"
    BY <2>1, <2>3, <2>5
  <2> QED  BY <2>2, <2>4, <2>5, EndsIdle
<1>6. Freed'
  BY <1>4, <1>5, FreedAsks
<1> QED  BY <1>4, <1>6 DEF NothingInv

LEMMA NothingClientStep ==
  ASSUME Shape, NothingInv, ClientStep
  PROVE  NothingInv'
  BY NothingInitSaveTaken, NothingInitLoadTaken, NothingOthersTaken DEF ClientStep

LEMMA NothingUserStep ==
  ASSUME Shape, NothingInv, UserStep
  PROVE  NothingInv'
<1>1. CASE ClientComes
  <2>1. /\ cl.at = "away" /\ cl' = [cl EXCEPT !.at = "idle"]
        /\ UNCHANGED <<res, copy, heap, leaked, task, th, ans, loadFailed>>
    BY <1>1 DEF ClientComes, mem, ghosts
  <2>2. cl'.at = "idle" /\ task' = 0 /\ ans' = NoAns
    BY <2>1 DEF Shape, ClientTyped, Answering, NothingInv, Freed
  <2> QED  BY <2>1, <2>2, ClientMemory, FreedAsks DEF NothingInv
<1>2. CASE ClientGone
  <2>1. cl'.at = "gone" /\ UNCHANGED <<res, copy, heap, leaked, task, th>>
    BY <1>2 DEF ClientGone, mem, Away
  <2>2. Freed'
    BY <2>1 DEF Freed
  <2> QED  BY <2>1, <2>2, ClientMemory DEF NothingInv
<1>3. ASSUME NEW title \in NewTitles,
             \/ \E p \in Parts : ClientRetitles(p, title)
             \/ \E p \in Parts : \E src, save : ClientInstalls(p, title, src, save)
      PROVE  NothingInv'
  <2>1. /\ cl.at = "idle" /\ UNCHANGED <<res, copy, heap, leaked, task, th, ans, loadFailed>>
        /\ \E todo : Sends(todo)
    BY <1>3 DEF ClientRetitles, ClientInstalls, mem
  <2>2. cl'.at = "waits" /\ ans' = NoAns /\ (~loadFailed' => task' = 0)
    BY <2>1 DEF Sends, Shape, ClientTyped, Answering, NothingInv, Freed
  <2> QED  BY <2>1, <2>2, ClientMemory, FreedAsks DEF NothingInv
<1>4. ASSUME NEW title \in NewTitles, MenuRetitles(title) PROVE NothingInv'
  BY <1>4, NothingDialog
<1>5. ASSUME NEW p \in MenuParts, DialogOpens(p) PROVE NothingInv'
  BY <1>5, NothingDialog
<1> QED  BY <1>1, <1>2, <1>3, <1>4, <1>5, NothingMenuInstalls DEF UserStep

(* What NothingLeft says follows from an inductive invariant. *)
LEMMA NothingNext ==
  ASSUME Shape, NothingInv, [OsdNext]_osdVars
  PROVE  NothingInv'
<1>1. ASSUME NEW t \in T, ThreadStep(t) PROVE NothingInv'
  BY <1>1, NothingAtWork, NothingReadOSDResourceFile, NothingReadFails DEF ThreadStep
<1>2. CASE MenuStep
  BY <1>2, NothingDialog, NothingUpdateFiles, NothingMenuDone DEF MenuStep
<1>3. CASE UNCHANGED osdVars
  <2>1. UNCHANGED <<res, copy, heap, leaked, task, th, cl, ans, loadFailed>>
    BY <1>3 DEF osdVars, mem, ghosts
  <2> QED  BY <2>1, ClientMemory, FreedKept DEF NothingInv
<1> QED  BY <1>1, <1>2, <1>3, NothingServiceStep, NothingClientStep, NothingUserStep DEF OsdNext

(* How it begins. *)
OldBlank == [s \in 0 .. AreaEnd - 1 |->
               IF s \in Header THEN <<"header", s - HeaderAt>> ELSE <<"torn", 0>>]

LEMMA OldOffsets ==
  /\ OldTable \in Table
  /\ OldTable[SystemCnf] = [offset |-> 2, size |-> 2] /\ OldTable[IconSys] = [offset |-> 4, size |-> 1]
  /\ OldTable[ViewIcon] = [offset |-> 6, size |-> 3] /\ OldTable[DelIcon] = [offset |-> 6, size |-> 3]
  /\ OldTable[BootKelf] = [offset |-> (HeaderAt + 2) * Sector, size |-> 2]
<1> DEFINE place(s, d) == [offset |-> s * Sector, size |-> FileSize[d]]
<1>1. /\ FileSize["system"] = 2 /\ FileSize["kelf"] = 2 /\ FileSize["view"] = 3 /\ FileSize["short"] = 1
  BY FileSizes DEF FileSize
<1>2. /\ place(1, "system") = [offset |-> 2, size |-> 2] /\ place(2, "short") = [offset |-> 4, size |-> 1]
      /\ place(3, "view") = [offset |-> 6, size |-> 3]
      /\ place(HeaderAt + 2, "kelf") = [offset |-> (HeaderAt + 2) * Sector, size |-> 2]
  BY <1>1 DEF Sector
<1>3. \A i \in F : OldTable[i] = CASE i = SystemCnf -> place(1, "system")
                                   [] i = IconSys -> place(2, "short")
                                   [] i = BootKelf -> place(HeaderAt + 2, "kelf")
                                   [] OTHER -> place(3, "view")
  BY DEF OldTable
<1>4. place(1, "system") \in Entry /\ place(2, "short") \in Entry /\ place(3, "view") \in Entry
      /\ place(HeaderAt + 2, "kelf") \in Entry
  BY <1>2, OsdAreaAssumption DEF Entry, Sector
<1> HIDE DEF place
<1>5. OldTable = [i \in F |-> OldTable[i]]
  BY DEF OldTable
<1>6. \A i \in F : OldTable[i] \in Entry
  BY <1>3, <1>4
<1>7. SystemCnf \in F /\ IconSys \in F /\ ViewIcon \in F /\ DelIcon \in F /\ BootKelf \in F
  BY DEF F, SystemCnf, IconSys, ViewIcon, DelIcon, BootKelf
<1> QED  BY <1>2, <1>3, <1>5, <1>6, <1>7 DEF Table, SystemCnf, IconSys, ViewIcon, DelIcon, BootKelf

(* A file of so many sectors, and what is beside it. *)
Put(area, first, data, n, new) ==
  \A s \in 0 .. AreaEnd - 1 :
    /\ s < first \/ s >= first + n => new[s] = area[s]
    /\ s >= first /\ s < first + n => new[s] = <<data, s - first>>

LEMMA WrittenSectors ==
  ASSUME NEW area \in Sectored, NEW first \in Nat, NEW data \in Known \ {"none"}, NEW size \in Nat,
         NEW n, n = Sectors(size), NEW new, new = Written(area, first * Sector, data, size)
  PROVE  new \in Sectored /\ Put(area, first, data, n, new)
<1>1. first * Sector \in Nat /\ (first * Sector) \div Sector = first /\ Sectors(size) \in Int
  BY DEF Sector, Sectors
<1>2. new \in Sectored
  BY <1>1, WrittenTyped
<1>3. DOMAIN area = 0 .. AreaEnd - 1
  BY DEF Sectored
<1>4. new = [s \in 0 .. AreaEnd - 1 |->
               IF s \in first .. first + Sectors(size) - 1 THEN <<data, s - first>> ELSE area[s]]
  BY <1>1, <1>3, Zenon DEF Written
<1>5. ASSUME NEW s \in 0 .. AreaEnd - 1
      PROVE  /\ s < first \/ s >= first + Sectors(size) => new[s] = area[s]
             /\ s >= first /\ s < first + Sectors(size) => new[s] = <<data, s - first>>
  <2>1. s \in Int
    BY OsdAreaAssumption
  <2>2. s \in first .. first + Sectors(size) - 1 <=> s >= first /\ s < first + Sectors(size)
    BY <1>1, <2>1
  <2>3. s < first \/ s >= first + Sectors(size) => s \notin first .. first + Sectors(size) - 1
    BY <1>1, <2>1
  <2>4. new[s] = IF s \in first .. first + Sectors(size) - 1 THEN <<data, s - first>> ELSE area[s]
    BY <1>4, Zenon
  <2> QED  BY <2>2, <2>3, <2>4, Zenon
<1> QED  BY <1>2, <1>5 DEF Put

LEMMA OldSectors ==
  /\ OldArea \in Sectored
  /\ OldArea[1] = <<"system", 0>> /\ OldArea[2] = <<"short", 0>> /\ OldArea[3] = <<"view", 0>>
  /\ OldArea[4] = <<"view", 1>> /\ OldArea[HeaderAt + 2] = <<"kelf", 0>>
  /\ \A s \in Header : OldArea[s] = <<"header", s - HeaderAt>>
<1> DEFINE kelf == Written(OldBlank, (HeaderAt + 2) * Sector, "kelf", 2)
           viewed == Written(kelf, 3 * Sector, "view", 3)
           sys == Written(viewed, 2 * Sector, "short", 1)
           all == Written(sys, 1 * Sector, "system", 2)
<1>1. OldArea = all
  <2>1. /\ OldTable[BootKelf].offset = (HeaderAt + 2) * Sector /\ OldTable[ViewIcon].offset = 3 * Sector
        /\ OldTable[IconSys].offset = 2 * Sector /\ OldTable[SystemCnf].offset = 1 * Sector
    BY OldOffsets DEF Sector
  <2>2. FileSize["system"] = 2 /\ FileSize["kelf"] = 2 /\ FileSize["view"] = 3 /\ FileSize["short"] = 1
    BY FileSizes DEF FileSize
  <2> QED  BY <2>1, <2>2, Zenon DEF OldArea, OldBlank
<1>2. {"system", "kelf", "view", "short", "header", "torn"} \subseteq Known \ {"none"}
  BY FileSizes
<1>3. OldBlank \in Sectored
  <2>1. ASSUME NEW s \in 0 .. AreaEnd - 1 PROVE OldBlank[s] \in (Known \ {"none"}) \X Nat
    BY <1>2, OsdAreaAssumption DEF OldBlank, Header
  <2>2. OldBlank = [s \in 0 .. AreaEnd - 1 |-> OldBlank[s]]
    BY DEF OldBlank
  <2> QED  BY <2>1, <2>2 DEF Sectored
<1>4. Sectors(1) = 1 /\ Sectors(2) = 1 /\ Sectors(3) = 2
  BY DEF Sector, Sectors
<1>5. HeaderAt \in Nat /\ HeaderAt >= 5 /\ HeaderAt + 2 \in Nat /\ AreaEnd \in Nat /\ AreaEnd > HeaderAt + 2
  BY OsdAreaAssumption
<1>6. /\ kelf \in Sectored
      /\ \A s \in 0 .. AreaEnd - 1 : s < HeaderAt + 2 => kelf[s] = OldBlank[s]
      /\ \A s \in 0 .. AreaEnd - 1 : s >= HeaderAt + 2 /\ s < HeaderAt + 2 + 1 => kelf[s] = <<"kelf", s - (HeaderAt + 2)>>
  <2>1. "kelf" \in Known \ {"none"} /\ 2 \in Nat /\ 1 = Sectors(2)
    BY <1>2, <1>4
  <2>2. PICK new : new = kelf
    OBVIOUS
  <2>3. new = Written(OldBlank, (HeaderAt + 2) * Sector, "kelf", 2)
    BY <2>2
  <2> HIDE DEF kelf
  <2>4. new \in Sectored /\ Put(OldBlank, HeaderAt + 2, "kelf", 1, new)
    BY <1>3, <1>5, <2>1, <2>3, WrittenSectors, Zenon
  <2> QED  BY <2>2, <2>4 DEF Put
<1> HIDE DEF kelf
<1>7. /\ viewed \in Sectored
      /\ \A s \in 0 .. AreaEnd - 1 : s >= 3 + 2 => viewed[s] = kelf[s]
      /\ \A s \in 0 .. AreaEnd - 1 : s >= 3 /\ s < 3 + 2 => viewed[s] = <<"view", s - 3>>
  <2>1. "view" \in Known \ {"none"} /\ 3 \in Nat /\ 3 \in Nat /\ 2 = Sectors(3)
    BY <1>2, <1>4
  <2>2. PICK new : new = viewed
    OBVIOUS
  <2>3. new = Written(kelf, 3 * Sector, "view", 3)
    BY <2>2
  <2> HIDE DEF viewed
  <2>4. new \in Sectored /\ Put(kelf, 3, "view", 2, new)
    BY <1>6, <2>1, <2>3, WrittenSectors, Zenon
  <2> QED  BY <2>2, <2>4 DEF Put
<1> HIDE DEF viewed
<1>8. /\ sys \in Sectored
      /\ \A s \in 0 .. AreaEnd - 1 : s >= 2 + 1 => sys[s] = viewed[s]
      /\ \A s \in 0 .. AreaEnd - 1 : s >= 2 /\ s < 2 + 1 => sys[s] = <<"short", s - 2>>
  <2>1. "short" \in Known \ {"none"} /\ 2 \in Nat /\ 1 \in Nat /\ 1 = Sectors(1)
    BY <1>2, <1>4
  <2>2. PICK new : new = sys
    OBVIOUS
  <2>3. new = Written(viewed, 2 * Sector, "short", 1)
    BY <2>2
  <2> HIDE DEF sys
  <2>4. new \in Sectored /\ Put(viewed, 2, "short", 1, new)
    BY <1>7, <2>1, <2>3, WrittenSectors, Zenon
  <2> QED  BY <2>2, <2>4 DEF Put
<1> HIDE DEF sys
<1>9. /\ all \in Sectored
      /\ \A s \in 0 .. AreaEnd - 1 : s >= 1 + 1 => all[s] = sys[s]
      /\ \A s \in 0 .. AreaEnd - 1 : s >= 1 /\ s < 1 + 1 => all[s] = <<"system", s - 1>>
  <2>1. "system" \in Known \ {"none"} /\ 1 \in Nat /\ 2 \in Nat /\ 1 = Sectors(2)
    BY <1>2, <1>4
  <2>2. PICK new : new = all
    OBVIOUS
  <2>3. new = Written(sys, 1 * Sector, "system", 2)
    BY <2>2
  <2> HIDE DEF all
  <2>4. new \in Sectored /\ Put(sys, 1, "system", 1, new)
    BY <1>8, <2>1, <2>3, WrittenSectors, Zenon
  <2> QED  BY <2>2, <2>4 DEF Put
<1> HIDE DEF all
<1>10. all[1] = <<"system", 0>> /\ all[2] = <<"short", 0>> /\ all[3] = <<"view", 0>> /\ all[4] = <<"view", 1>>
  <2>1. \A s \in {1, 2, 3, 4} : s \in 0 .. AreaEnd - 1
    BY <1>5
  <2>2. all[1] = <<"system", 1 - 1>>
    BY <1>9, <2>1
  <2>3. all[2] = sys[2] /\ sys[2] = <<"short", 2 - 2>>
    BY <1>8, <1>9, <2>1
  <2>4. all[3] = sys[3] /\ sys[3] = viewed[3] /\ viewed[3] = <<"view", 3 - 3>>
    BY <1>7, <1>8, <1>9, <2>1
  <2>5. all[4] = sys[4] /\ sys[4] = viewed[4] /\ viewed[4] = <<"view", 4 - 3>>
    BY <1>7, <1>8, <1>9, <2>1
  <2>6. 1 - 1 = 0 /\ 2 - 2 = 0 /\ 3 - 3 = 0 /\ 4 - 3 = 1
    OBVIOUS
  <2> QED  BY <2>2, <2>3, <2>4, <2>5, <2>6, Zenon
<1>11. \A s \in 0 .. AreaEnd - 1 : s >= 5 => all[s] = kelf[s]
  BY <1>7, <1>8, <1>9, OsdAreaAssumption
<1>12. all[HeaderAt + 2] = <<"kelf", 0>>
  <2> DEFINE h == HeaderAt + 2
  <2>1. h \in 0 .. AreaEnd - 1 /\ h >= 5 /\ h >= h /\ h < h + 1 /\ h - h = 0
    BY <1>5
  <2>2. all[h] = kelf[h] /\ kelf[h] = <<"kelf", h - h>>
    BY <1>6, <1>11, <2>1, Zenon
  <2> QED  BY <2>1, <2>2, Zenon
<1>13. ASSUME NEW s \in Header PROVE all[s] = <<"header", s - HeaderAt>>
  <2>1. s \in 0 .. AreaEnd - 1 /\ s >= 5 /\ s < HeaderAt + 2
    BY <1>5 DEF Header
  <2>2. all[s] = OldBlank[s]
    BY <1>6, <1>11, <2>1, Zenon
  <2>3. OldBlank[s] = <<"header", s - HeaderAt>>
    BY <2>1, Zenon DEF OldBlank
  <2> QED  BY <2>2, <2>3, Zenon
<1> QED  BY <1>1, <1>9, <1>10, <1>12, <1>13, Zenon

LEMMA OldWhole ==
  ASSUME NEW i \in F
  PROVE  Whole(OldArea, OldTable[i])
<1>1. /\ ((HeaderAt + 2) * Sector) \div Sector = HeaderAt + 2
      /\ 6 \div Sector = 3 /\ 4 \div Sector = 2 /\ 2 \div Sector = 1
      /\ Sectors(2) = 1 /\ Sectors(3) = 2 /\ Sectors(1) = 1
  BY OsdAreaAssumption DEF Sector, Sectors
<1>2. /\ OldArea[1] = <<"system", 0>> /\ OldArea[2] = <<"short", 0>> /\ OldArea[3] = <<"view", 0>>
      /\ OldArea[4] = <<"view", 1>> /\ OldArea[HeaderAt + 2] = <<"kelf", 0>>
  BY OldSectors
<1>3. AreaEnd \in Nat /\ AreaEnd > HeaderAt + 2 /\ HeaderAt \in Nat /\ HeaderAt >= 5
  BY OsdAreaAssumption
<1>4. CASE i = SystemCnf
  BY <1>1, <1>2, <1>3, <1>4, OldOffsets DEF Whole
<1>5. CASE i = IconSys
  BY <1>1, <1>2, <1>3, <1>5, OldOffsets DEF Whole
<1>6. CASE i = ViewIcon \/ i = DelIcon
  BY <1>1, <1>2, <1>3, <1>6, OldOffsets DEF Whole
<1>7. CASE i = BootKelf
  <2>1. OldTable[i].offset \div Sector = HeaderAt + 2 /\ Sectors(OldTable[i].size) = 1
    BY <1>1, <1>7, OldOffsets
  <2>2. \A k \in 1 .. 1 : OldArea[HeaderAt + 2 + k - 1] = <<OldArea[HeaderAt + 2][1], k - 1>>
    <3>1. HeaderAt + 2 + 1 - 1 = HeaderAt + 2
      BY <1>3
    <3> QED  BY <1>2, <3>1
  <2> QED  BY <1>3, <2>1, <2>2 DEF Whole
<1> QED  BY <1>4, <1>5, <1>6, <1>7 DEF F, SystemCnf, IconSys, ViewIcon, DelIcon, BootKelf

LEMMA ShapeInit ==
  ASSUME OsdInit
  PROVE  Shape
<1>1. Resting \in Where
  BY Defaults, FileSizes DEF Where, Resting, Places, Errands
<1>2. th["menu"] = Resting /\ th["service"] = Resting /\ \A t \in T : th[t] = Resting
  BY Two DEF OsdInit
<1>3. Resting.at = "idle" /\ Resting.doing = "none"
  BY DEF Resting
<1>4. DiskTyped
  <2>1. disk = [p \in Parts |-> [table |-> OldTable, area |-> OldArea]] /\ pos = 0
    BY DEF OsdInit
  <2>2. [table |-> OldTable, area |-> OldArea] \in [table : Table, area : Sectored]
    BY OldOffsets, OldSectors
  <2> QED  BY <2>1, <2>2 DEF DiskTyped, Sector
<1>5. ThreadsTyped
  BY <1>1 DEF OsdInit, ThreadsTyped
<1>6. ListsTyped
  BY Defaults DEF OsdInit, ListsTyped
<1>7. ClientTyped /\ cl.at = "away"
  <2>1. cl = Away /\ ans = NoAns
    BY DEF OsdInit
  <2>2. /\ cl = [at |-> cl.at, todo |-> cl.todo, copy |-> cl.copy] /\ cl.at = "away"
        /\ cl.copy = NoFiles
    BY <2>1 DEF Away
  <2>3. NoAns \in [result : Results, data : Known, files : Table]
    BY Defaults, FileSizes DEF NoAns, Results
  <2> QED  BY <2>1, <2>2, <2>3, Defaults DEF ClientTyped
<1>8. JobsTyped
  <2>1. OldFiles \in [F -> Known]
    BY FileSizes DEF OldFiles
  <2>2. NoJob \in [part : Parts \cup {0}, title : GameTitles, src : Sources, save : Saves, before : [F -> Known]]
    BY <2>1 DEF NoJob, GameTitles, Sources, Saves
  <2> QED  BY <2>2 DEF OsdInit, JobsTyped, Results
<1>9. MenuPlaced /\ ServicePlaced /\ Opening
  BY <1>2, <1>3 DEF MenuPlaced, ServicePlaced, Opening, Opened
<1>10. Answering
  BY <1>2, <1>3, <1>7 DEF OsdInit, Answering
<1> QED  BY <1>4, <1>5, <1>6, <1>7, <1>8, <1>9, <1>10 DEF Shape

LEMMA AreaInit ==
  ASSUME OsdInit
  PROVE  AreaInv
<1>1. \A t \in T : th[t].at = "idle"
  BY DEF OsdInit, Resting
<1>2. \A p \in Parts : disk[p].area = OldArea /\ disk[p].table = OldTable
  BY DEF OsdInit
<1>3. spoilt = {} /\ AloneTyped
  BY DEF OsdInit, AloneTyped
<1>4. SeekClear /\ Laying /\ Racing
  BY <1>1, <1>3 DEF SeekClear, Laying, Racing, Opened
<1>5. HeaderClear
  BY <1>2, OldSectors DEF HeaderClear
<1>6. TableTrue
  BY <1>2, OldWhole DEF TableTrue
<1> QED  BY <1>3, <1>4, <1>5, <1>6 DEF AreaInv

LEMMA NothingInit ==
  ASSUME OsdInit
  PROVE  NothingInv
<1>1. /\ th["menu"].at = "idle" /\ th["service"].at = "idle" /\ cl.at = "away" /\ task = 0
      /\ res["menu"] = NoFiles /\ res["service"] = NoFiles /\ copy = NoFiles /\ heap = 0 /\ leaked = 0
  BY Two DEF OsdInit, Resting, Away
<1>2. Counted
  BY <1>1, NoOwned DEF Counted, HeapOwned
<1>3. Copied /\ Loose
  BY <1>1, Defaults DEF Copied, Loose, NoFiles
<1>4. Freed
  BY <1>1 DEF Freed
<1> QED  BY <1>2, <1>3, <1>4 DEF NothingInv

-----------------------------------------------------------------------------
(* The attribute area of every game is whole, whatever fails and whoever   *)
(* installs: ShapeNext, AreaNext and NothingNext carry the invariants. *)
THEOREM ShapeKept == OsdSpec => []Shape
<1>1. OsdInit => Shape
  BY ShapeInit
<1>2. Shape /\ [OsdNext]_osdVars => Shape'
  BY ShapeNext
<1> QED  BY <1>1, <1>2, PTL DEF OsdSpec

THEOREM AreaKept == OsdSpec => []AreaInv
<1>1. OsdInit => AreaInv
  BY AreaInit
<1>2. Shape /\ AreaInv /\ [OsdNext]_osdVars => AreaInv'
  BY AreaNext
<1> QED  BY <1>1, <1>2, ShapeKept, PTL DEF OsdSpec

THEOREM NothingKept == OsdSpec => []NothingInv
<1>1. OsdInit => NothingInv
  BY NothingInit
<1>2. Shape /\ NothingInv /\ [OsdNext]_osdVars => NothingInv'
  BY NothingNext
<1> QED  BY <1>1, <1>2, ShapeKept, PTL DEF OsdSpec

THEOREM AreaStaysTrue == OsdSpec => []AreaTrue
<1>1. Shape /\ AreaInv /\ NothingInv => AreaTrue
  <2> SUFFICES ASSUME Shape, AreaInv, NothingInv PROVE AreaTrue
    OBVIOUS
  <2>1. OsdTypeOK
    <3>1. ASSUME NEW t \in T
          PROVE  /\ th[t].at \in {"idle", "stat", "read", "end", "open", "file", "write", "table",
                                  "dialog", "payload"}
                 /\ th[t].at \in Opened => th[t].part \in Parts /\ th[t].i \in F
                 /\ \A i \in F : res[t][i].data \in Known
      <4>1. th[t] \in Where
        BY DEF Shape, ThreadsTyped
      <4>2. th[t].at \in Places
        BY <4>1 DEF Where
      <4>3. th[t].at \in Opened => th[t].part \in Parts /\ th[t].i \in F
        BY DEF Shape, MenuPlaced, ServicePlaced, Opening, Opened, T
      <4>4. \A i \in F : res[t][i].data \in Known
        BY DEF Shape, ListsTyped, Resources
      <4> QED  BY <4>2, <4>3, <4>4 DEF Places
    <3>2. pos \in Nat /\ heap \in Nat /\ leaked \in Nat /\ task \in Parts \cup {0}
      BY DEF Shape, DiskTyped, JobsTyped, NothingInv, Counted
    <3> QED  BY <3>1, <3>2 DEF OsdTypeOK
  <2>2. HeaderKept
    BY DEF AreaInv, HeaderClear, Racing, HeaderKept
  <2> QED  BY <2>1, <2>2 DEF AreaInv, AreaTrue
<1> QED  BY <1>1, ShapeKept, AreaKept, NothingKept, PTL

(* No memory and no task is left behind but where the code loses it. *)
THEOREM NothingLeftBehind == OsdSpec => []NothingLeft
<1>1. NothingInv => NothingLeft
  BY DEF NothingInv, Counted, Freed, NothingLeft, TaskFree
<1> QED  BY <1>1, NothingKept, PTL

-----------------------------------------------------------------------------
(* The changes that were asked for.  While a thread installs, and the      *)
(* other side does not, the files up to its own can be read back as they   *)
(* were asked for; when it has ended well, and when that has been said,    *)
(* all can. *)
Clear(t) == alone[t] /\ ~DeleteIconMisplaced(t) /\ ~loadFailed
Finished(t) == ContentsOf(job[t].part) = Wanted(t)
Untouched(t) == ContentsOf(job[t].part) = job[t].before
Back(t, j) == ReadBack(disk[th[t].part].area, th[t].tab[j])

Rightly(t) ==
  LET u == th[t] IN
  /\ u.at \in {"open"} \cup Opened => u.part = job[t].part /\ Named(res[t]) = AskedFor(t)
  /\ u.at \in {"file", "write"} => \A j \in F : j < u.i => Back(t, j) = Wanted(t)[j]
  /\ u.at = "table" /\ u.ok => \A j \in F : Back(t, j) = Wanted(t)[j]
  /\ u.at = "end" /\ u.doing \in {"install", "update", "write"} /\ u.ok => Finished(t)
Told(t) ==
  /\ th[t].at \in {"open"} \cup Opened => last[t] = "none"
  /\ Clear(t) => Rightly(t)
  /\ Clear(t) /\ last[t] \in {"ok", "icon"} => Finished(t)

(* While the menu reads the files back to change a title, it has those     *)
(* that it has been at as they were when the change was asked for. *)
MenuCopies ==
  LET m == th["menu"] IN
  /\ m.files = disk[m.part].table
  /\ m.i \in F => m.files[m.i].size > 0
  /\ \A j \in F : j < m.i => IF m.files[j].size > 0
                             THEN copy[j].buf /\ copy[j].data = job["menu"].before[j]
                             ELSE ~copy[j].buf
MenuAsked ==
  LET m == th["menu"] IN
  m.doing = "update" /\ m.at \in {"stat", "read"} =>
    /\ m.part = job["menu"].part /\ job["menu"].src = "title" /\ last["menu"] = "none"
    /\ Clear("menu") => Untouched("menu") /\ (m.at = "read" => MenuCopies)

(* The client's call under way, and what it is made for. *)
Reads == {"titles", "stat", "read"}
Answer == ans # NoAns /\ ans.result # "fail"
Ways(c) ==
  LET j == job["service"] IN
  /\ c \in Reads \cup {"initdef"} => j.src = "title"
  /\ c = "init" => j.src \in {"default", "external"}
  /\ c = "initsave" => j.src = "save"
  /\ c = "cancel" => j.src = "default"

(* While a client fills the server's list: a file is in the list, or will  *)
(* be when the calls to come have been made. *)
Coming == IF ans = NoAns THEN cl.todo ELSE Tail(cl.todo)
Base(c) ==
  Named(IF c = "init" THEN PrepareOSDResources("none", job["service"].title) ELSE PrepareOSDDefaultResources)
Now == IF Call.cmd \in {"init", "initdef"} /\ ans = NoAns THEN Base(Call.cmd) ELSE Named(res["service"])
Brings(s, f) == \A k \in 1 .. Len(s) : s[k].cmd = "load" => s[k].data = f[s[k].i]
Covers(s, now, f) ==
  \A i \in F : now[i] = f[i] \/ \E k \in 1 .. Len(s) : s[k].cmd = "load" /\ s[k].i = i
Loading == Brings(Coming, AskedFor("service")) /\ Covers(Coming, Now, AskedFor("service"))
Filling(c) ==
  /\ c \in {"init", "initdef", "load", "write"} /\ th["service"].at \in {"idle", "payload"}
  /\ ans = NoAns \/ (Answer /\ c # "write")

(* While a client reads the files back: it has a file as it was, or there  *)
(* was none, or the calls to come read it. *)
Missing(s, have, before) ==
  \A i \in F : IF before[i] = "none"
               THEN have[i].size = 0 /\ \A k \in 1 .. Len(s) : s[k].i # i
               ELSE \/ have[i].size > 0 /\ have[i].data = before[i]
                    \/ \E k \in 1 .. Len(s) : s[k].i = i
ReadAsked(c) ==
  LET s == th["service"]
      j == job["service"] IN
  /\ Untouched("service")
  /\ s.at = "end" /\ s.ok /\ c = "stat" => s.files = disk[j.part].table
  /\ Answer /\ c = "stat" => ans.files = disk[j.part].table
  /\ s.at = "read" /\ c = "read" => s.files = disk[j.part].table
  /\ s.at = "end" /\ s.ok /\ c = "read" => s.data = j.before[Call.i]
  /\ Answer /\ c = "read" => ans.data = j.before[Call.i]
  /\ c = "read" => Missing(cl.todo, cl.copy, j.before)

(* What holds of the call under way. *)
Served(c) ==
  /\ Filling(c) => Loading
  /\ c = "initsave" /\ Answer => Named(res["service"]) = AskedFor("service")
  /\ c = "write" /\ Answer => Finished("service")
  /\ c \in Reads => ReadAsked(c)
Asking ==
  LET s == th["service"]
      c == Call.cmd IN
  /\ ~loadFailed /\ task # 0 => task = job["service"].part
  /\ cl.at # "waits" \/ c \in {"titles", "stat"} => cl.copy = NoFiles
  /\ cl.at = "waits" => last["service"] = "none" /\ Ways(c) /\ (Clear("service") => Served(c))
  /\ s.at \in {"stat", "read", "end"} /\ c \in Reads => s.part = job["service"].part
  /\ s.at \in {"stat", "read"} /\ c = "read" => s.i = Call.i
AskedInv == (\A t \in T : Told(t)) /\ MenuAsked /\ Asking

(* What was asked for.  Where nothing of a thread changes, and nothing on  *)
(* the disk that it would still answer for, what is said of it holds on. *)
Kept(t) ==
  /\ th'[t] = th[t] /\ res'[t] = res[t] /\ job'[t] = job[t] /\ last'[t] = last[t]
  /\ Clear(t)' => Clear(t) /\ disk' = disk

LEMMA SameWanted ==
  ASSUME NEW t \in T, job'[t] = job[t]
  PROVE  AskedFor(t)' = AskedFor(t) /\ Wanted(t)' = Wanted(t)
<1>1. AskedFor(t)' = AskedFor(t)
  BY DEF AskedFor
<1> QED  BY <1>1 DEF Wanted

LEMMA SameContents ==
  ASSUME disk' = disk
  PROVE  \A p : ContentsOf(p)' = ContentsOf(p)
  BY DEF ContentsOf

LEMMA SameFinished ==
  ASSUME NEW t \in T, job'[t] = job[t], disk' = disk
  PROVE  (Finished(t)' <=> Finished(t)) /\ (Untouched(t)' <=> Untouched(t))
  BY SameWanted, SameContents DEF Finished, Untouched

LEMMA ToldKept ==
  ASSUME NEW t \in T, Told(t), Kept(t)
  PROVE  Told(t)'
<1>1. /\ th'[t] = th[t] /\ res'[t] = res[t] /\ job'[t] = job[t] /\ last'[t] = last[t]
      /\ Clear(t)' => Clear(t) /\ disk' = disk
  BY DEF Kept
<1>2. AskedFor(t)' = AskedFor(t) /\ Wanted(t)' = Wanted(t)
  BY <1>1, SameWanted
<1>3. ASSUME Clear(t)' PROVE Rightly(t)' /\ (last'[t] \in {"ok", "icon"} => Finished(t)')
  <2>1. Clear(t) /\ disk' = disk
    BY <1>1, <1>3
  <2>2. Finished(t)' <=> Finished(t)
    BY <1>1, <2>1, SameFinished
  <2>3. \A j \in F : Back(t, j)' = Back(t, j)
    BY <1>1, <2>1 DEF Back
  <2>4. Rightly(t) /\ (last[t] \in {"ok", "icon"} => Finished(t))
    BY <2>1 DEF Told
  <2>5. Rightly(t)'
    BY <1>1, <1>2, <2>2, <2>3, <2>4 DEF Rightly
  <2> QED  BY <1>1, <2>2, <2>4, <2>5
<1>4. th'[t].at \in {"open"} \cup Opened => last'[t] = "none"
  BY <1>1 DEF Told
<1> QED  BY <1>3, <1>4 DEF Told

LEMMA MenuKept ==
  ASSUME MenuAsked, Kept("menu"), copy' = copy
  PROVE  MenuAsked'
<1>1. /\ th'["menu"] = th["menu"] /\ job'["menu"] = job["menu"] /\ last'["menu"] = last["menu"]
      /\ Clear("menu")' => Clear("menu") /\ disk' = disk
  BY DEF Kept
<1>2. ASSUME Clear("menu")'
      PROVE  /\ Clear("menu") /\ (Untouched("menu")' <=> Untouched("menu"))
             /\ MenuCopies' <=> MenuCopies
  BY <1>1, <1>2, SameFinished, Two DEF MenuCopies
<1> QED  BY <1>1, <1>2 DEF MenuAsked

LEMMA AskingKept ==
  ASSUME Asking, Kept("service"), UNCHANGED <<cl, ans, task, loadFailed>>
  PROVE  Asking'
<1>1. /\ th'["service"] = th["service"] /\ job'["service"] = job["service"]
      /\ res'["service"] = res["service"] /\ last'["service"] = last["service"]
      /\ Clear("service")' => Clear("service") /\ disk' = disk
  BY DEF Kept
<1>2. Call' = Call /\ Coming' = Coming /\ (Answer' <=> Answer) /\ \A c : Ways(c)' <=> Ways(c)
  BY <1>1 DEF Call, Coming, Answer, Ways
<1>3. AskedFor("service")' = AskedFor("service")
  BY <1>1, SameWanted, Two
<1>4. Now' = Now
  BY <1>1, <1>2 DEF Now, Base
<1>5. (Loading' <=> Loading) /\ \A c : Filling(c)' <=> Filling(c)
  BY <1>1, <1>2, <1>3, <1>4 DEF Loading, Filling
<1>6. ASSUME Clear("service")'
      PROVE  /\ Clear("service") /\ (Finished("service")' <=> Finished("service"))
             /\ \A c : ReadAsked(c)' <=> ReadAsked(c)
  <2>1. Clear("service") /\ disk' = disk
    BY <1>1, <1>6
  <2>2. /\ Finished("service")' <=> Finished("service")
        /\ Untouched("service")' <=> Untouched("service")
    BY <1>1, <2>1, SameFinished, Two
  <2> QED  BY <1>1, <1>2, <2>1, <2>2 DEF ReadAsked
<1>7. Clear("service")' => Clear("service") /\ \A c : Served(c)' <=> Served(c)
  BY <1>1, <1>2, <1>3, <1>5, <1>6 DEF Served
<1> QED  BY <1>1, <1>2, <1>7 DEF Asking

LEMMA KeptQuiet ==
  ASSUME AreaInv, NEW t \in T, NEW u \in T, u # t, Quiet(t),
         job'[u] = job[u], last'[u] = last[u], loadFailed => loadFailed'
  PROVE  Kept(u)
<1>1. disk' = disk /\ th'[u] = th[u] /\ res'[u] = res[u]
  BY DEF Quiet, Others
<1>2. alone'[u] = alone[u]
  BY DEF Quiet, AreaInv, AloneTyped
<1> QED  BY <1>1, <1>2 DEF Kept, Clear, DeleteIconMisplaced

LEMMA KeptInstalls ==
  ASSUME AreaInv, NEW t \in T, NEW u \in T, u # t, Installs(t), Others(t), UNCHANGED <<res, job, last>>
  PROVE  Kept(u)
<1>1. ~alone'[u]
  BY Turns
<1> QED  BY <1>1 DEF Kept, Clear, Others

LEMMA MenuMoved ==
  ASSUME AskedInv, Kept("service"), UNCHANGED <<cl, ans, task, loadFailed>>, Told("menu")', MenuAsked'
  PROVE  AskedInv'
<1>1. Told("service")' /\ Asking'
  BY ToldKept, AskingKept, Two DEF AskedInv
<1> QED  BY <1>1, Two DEF AskedInv

LEMMA ServiceMoved ==
  ASSUME AskedInv, Kept("menu"), copy' = copy, Told("service")', Asking'
  PROVE  AskedInv'
<1>1. Told("menu")' /\ MenuAsked'
  BY ToldKept, MenuKept, Two DEF AskedInv
<1> QED  BY <1>1, Two DEF AskedInv

(* A thread that has nothing open, and will not have at once. *)
LEMMA ToldClosed ==
  ASSUME NEW t \in T, Told(t), th'[t].at \notin {"open"} \cup Opened,
         th'[t].at = "end" /\ th'[t].doing \in {"install", "update", "write"} => ~th'[t].ok,
         job'[t] = job[t], last'[t] = last[t], Clear(t)' => Clear(t) /\ disk' = disk
  PROVE  Told(t)'
<1>1. ASSUME Clear(t)' PROVE Rightly(t)' /\ (last'[t] \in {"ok", "icon"} => Finished(t)')
  <2>1. Finished(t)' <=> Finished(t)
    BY <1>1, SameFinished
  <2>2. last'[t] \in {"ok", "icon"} => Finished(t)'
    BY <1>1, <2>1 DEF Told
  <2>3. Rightly(t)'
    BY DEF Rightly, Opened
  <2> QED  BY <2>2, <2>3
<1> QED  BY <1>1 DEF Told

(* A step of a thread at work. *)
LEMMA MovesOthers ==
  ASSUME Shape, NEW t \in T, Moves(t)
  PROVE  Others(t) /\ UNCHANGED <<res, job, last, cl, ans, task, copy, loadFailed>>
<1>1. ThreadsTyped
  BY Zenon DEF Shape
<1>2. UNCHANGED <<res, job, last, cl, ans, task, copy, loadFailed>>
  BY Zenon DEF Moves, Open, InstallNothing, InstallOSDFile, WriteFile, WriteTable, mem
<1>3. ASSUME NEW ok, NEW tab, NEW seek, AfterFile(t, ok, tab, seek) PROVE Others(t)
  BY <1>1, <1>3, Zenon DEF AfterFile, Others, ThreadsTyped
<1>4. Goes(t, "end") \/ Fails(t) => Others(t)
  BY <1>1, Zenon DEF Goes, Fails, Others, ThreadsTyped
<1>5. CASE Open(t)
  <2>1. Fails(t) \/ th' = [th EXCEPT ![t].at = "file", ![t].i = 0, ![t].tab = NoTable, ![t].seek = 0]
    BY <1>5 DEF Open
  <2>2. th' = [th EXCEPT ![t].at = "file", ![t].i = 0, ![t].tab = NoTable, ![t].seek = 0] => Others(t)
    BY <1>1 DEF Others, ThreadsTyped
  <2> QED  BY <1>2, <1>4, <2>1, <2>2
<1>6. CASE InstallNothing(t) \/ WriteFile(t)
  <2>1. \E ok, tab, seek : AfterFile(t, ok, tab, seek)
    BY <1>6 DEF InstallNothing, WriteFile
  <2> QED  BY <1>2, <1>3, <2>1
<1>7. CASE InstallOSDFile(t)
  <2>1. PICK place : th' = [th EXCEPT ![t].at = "write", ![t].seek = hddLseek(@, place)]
    BY <1>7 DEF InstallOSDFile
  <2> QED  BY <1>1, <1>2, <2>1 DEF Others, ThreadsTyped
<1>8. CASE WriteTable(t)
  <2>1. Goes(t, "end") \/ Fails(t)
    BY <1>8 DEF WriteTable
  <2> QED  BY <1>2, <1>4, <2>1
<1> QED  BY <1>5, <1>6, <1>7, <1>8 DEF Moves

LEMMA MovesKeep ==
  ASSUME Shape, AreaInv, NEW t \in T, Moves(t), NEW u \in T, u # t
  PROVE  Kept(u)
<1>1. Others(t) /\ UNCHANGED <<res, job, last, loadFailed>>
  BY MovesOthers
<1>2. CASE Open(t)
  BY <1>1, <1>2 DEF Open, Kept, Clear, DeleteIconMisplaced, Others, disks
<1>3. CASE Installs(t)
  BY <1>1, <1>3, KeptInstalls
<1> QED  BY <1>2, <1>3 DEF Moves, InstallNothing, InstallOSDFile, WriteFile, WriteTable

LEMMA ThreadKeeps ==
  ASSUME Shape, AreaInv, NEW t \in T, ThreadStep(t), NEW u \in T, u # t
  PROVE  Kept(u) /\ UNCHANGED <<job, last, cl, ans, task, loadFailed>> /\ (t = "service" => copy' = copy)
<1>1. CASE Moves(t)
  BY <1>1, MovesOthers, MovesKeep
<1>2. CASE Open(t) /\ Busy(t)
  <2>1. UNCHANGED <<job, last, cl, ans, task, loadFailed, copy>>
    BY <1>2 DEF Open, mem
  <2> QED  BY <1>2, <2>1, QuietOpen, KeptQuiet
<1>3. CASE GetOSDResourceFileStats(t) \/ ReadOSDResourceFile(t) \/ ReadFails(t)
  <2>1. UNCHANGED <<job, last, cl, ans, task, loadFailed>>
    BY <1>3 DEF GetOSDResourceFileStats, ReadOSDResourceFile, ReadFails, ghosts
  <2>2. t = "service" => copy' = copy
    BY <1>3 DEF GetOSDResourceFileStats, ReadOSDResourceFile, ReadFails, mem, Shape, ServicePlaced
  <2> QED  BY <1>3, <2>1, <2>2, QuietReading, KeptQuiet
<1> QED  BY <1>1, <1>2, <1>3 DEF ThreadStep, Moves

LEMMA ToldReading ==
  ASSUME Shape, NEW t \in T, Told(t),
         GetOSDResourceFileStats(t) \/ ReadOSDResourceFile(t) \/ ReadFails(t)
  PROVE  Told(t)'
<1>1. /\ UNCHANGED <<disk, job, last, alone, loadFailed>> /\ th[t].at \in {"stat", "read"} /\ ThreadsTyped
      /\ th[t].doing # "install" /\ th[t].doing # "write" /\ (th[t].at = "stat" => th[t].doing # "none")
  BY Two DEF GetOSDResourceFileStats, ReadOSDResourceFile, ReadFails, disks, mem, ghosts, Shape,
     MenuPlaced, ServicePlaced
<1>2. /\ th'[t].at \in {"read", "end"} /\ th'[t].doing = th[t].doing
      /\ th'[t].at = "end" /\ th[t].doing = "update" => ~th'[t].ok
  <2>1. CASE Fails(t)
    BY <1>1, <2>1, FailsThen
  <2>2. CASE ~Fails(t)
    BY <1>1, <2>2 DEF GetOSDResourceFileStats, ReadOSDResourceFile, ReadFails, ThreadsTyped, Where
  <2> QED  BY <2>1, <2>2
<1>3. Clear(t)' <=> Clear(t)
  BY <1>1 DEF Clear, DeleteIconMisplaced
<1> QED  BY <1>1, <1>2, <1>3, ToldClosed DEF Opened

(* How far a thread that installs has got. *)
Going(t) ==
  LET u == th[t] IN
  /\ u.at \in {"file", "write"} => \A j \in F : j < u.i => Back(t, j) = Wanted(t)[j]
  /\ u.at = "table" /\ u.ok => \A j \in F : Back(t, j) = Wanted(t)[j]
  /\ u.at = "end" /\ u.ok => Finished(t)

LEMMA ToldOpened ==
  ASSUME NEW t \in T, Told(t), th[t].at \in {"open"} \cup Opened, th'[t].part = th[t].part,
         UNCHANGED <<res, job, last, loadFailed>>, alone'[t] = alone[t],
         Clear(t) /\ Rightly(t) => Going(t)'
  PROVE  Told(t)'
<1>1. last'[t] = "none"
  BY DEF Told
<1>2. Clear(t)' <=> Clear(t)
  BY DEF Clear, DeleteIconMisplaced
<1>3. AskedFor(t)' = AskedFor(t)
  BY SameWanted
<1>4. ASSUME Clear(t) PROVE Rightly(t)'
  <2>1. Rightly(t) /\ Going(t)'
    BY <1>4 DEF Told
  <2> QED  BY <1>3, <2>1 DEF Rightly, Going
<1> QED  BY <1>1, <1>2, <1>4 DEF Told

LEMMA ToldOpen ==
  ASSUME Shape, NEW t \in T, Told(t), Open(t)
  PROVE  Told(t)'
<1>1. /\ UNCHANGED <<disk, res, job, last, alone, loadFailed>> /\ th[t].at = "open" /\ ThreadsTyped
      /\ \/ Fails(t)
         \/ th' = [th EXCEPT ![t].at = "file", ![t].i = 0, ![t].tab = NoTable, ![t].seek = 0]
  BY DEF Open, disks, mem, Shape
<1>2. th'[t].part = th[t].part /\ Going(t)'
  <2>1. CASE Fails(t)
    <3>1. th'[t].at = "end" /\ ~th'[t].ok /\ th'[t].part = th[t].part
      BY <1>1, <2>1, FailsThen
    <3> QED  BY <3>1 DEF Going
  <2>2. CASE ~Fails(t)
    <3>1. th'[t].at = "file" /\ th'[t].i = 0 /\ th'[t].part = th[t].part
      BY <1>1, <2>2 DEF ThreadsTyped, Where
    <3>2. \A j \in F : ~(j < 0)
      BY DEF F
    <3> QED  BY <3>1, <3>2 DEF Going
  <2> QED  BY <2>1, <2>2
<1> QED  BY <1>1, <1>2, ToldOpened

(* A step of an installation.  What is wanted is what the list has. *)
LEMMA WantedOf ==
  ASSUME NEW t \in T, NEW listed, AskedFor(t) = Named(listed)
  PROVE  Wanted(t) = [j \in F |-> IF j = DelIcon /\ listed[DelIcon].data = "none"
                                  THEN listed[ViewIcon].data ELSE listed[j].data]
<1>1. AskedFor(t) = [j \in F |-> listed[j].data] /\ DelIcon \in F /\ ViewIcon \in F
  BY DEF Named, F, DelIcon, ViewIcon
<1> QED  BY <1>1 DEF Wanted

LEMMA WrittenReads ==
  ASSUME NEW area \in Sectored, NEW offset \in Nat, NEW data, NEW size \in Nat, NEW ent \in Entry,
         ent.size >= 1, Whole(area, ent), Ends(ent) <= offset \div Sector
  PROVE  ReadBack(Written(area, offset, data, size), ent) = ReadBack(area, ent)
<1> DEFINE new == Written(area, offset, data, size)
           first == ent.offset \div Sector
<1>1. Whole(new, ent)
  BY WrittenKeeps
<1>2. first \in Nat /\ Sectors(ent.size) \in Nat \ {0} /\ first + Sectors(ent.size) <= AreaEnd
  BY DEF Whole, Entry, Sectors, Sector
<1>3. first \in 0 .. AreaEnd - 1 /\ ~(first >= offset \div Sector)
  <2>1. offset \div Sector \in Nat
    BY DEF Sector
  <2>2. first + Sectors(ent.size) <= offset \div Sector
    BY DEF Ends
  <2> HIDE DEF first
  <2> QED  BY <1>2, <2>1, <2>2, OsdAreaAssumption
<1>4. new[first] = area[first]
  <2>1. PICK o \in Nat : o = offset \div Sector
    BY DEF Sector
  <2>2. Sectors(size) \in Nat
    BY DEF Sectors, Sector
  <2>3. first \notin o .. o + Sectors(size) - 1
    BY <1>3, <2>1, <2>2
  <2>4. DOMAIN area = 0 .. AreaEnd - 1
    BY DEF Sectored
  <2> HIDE DEF first
  <2> QED  BY <1>3, <2>1, <2>3, <2>4 DEF Written
<1>5. ReadBack(new, ent) = ReadBack(area, ent)
  <2> HIDE DEF new
  <2> QED  BY <1>1, <1>4, Zenon DEF ReadBack
<1> QED  BY <1>5

LEMMA WrittenIs ==
  ASSUME NEW area \in Sectored, NEW offset \in Nat, NEW data, NEW size \in Nat \ {0}, Fits(offset, size)
  PROVE  ReadBack(Written(area, offset, data, size), [offset |-> offset, size |-> size]) = data
<1> DEFINE new == Written(area, offset, data, size)
           ent == [offset |-> offset, size |-> size]
           first == offset \div Sector
<1>1. Whole(new, ent)
  BY WrittenWhole
<1>2. first \in Nat /\ Sectors(size) \in Nat \ {0} /\ first + Sectors(size) <= AreaEnd
  BY DEF Fits, Sectors, Sector
<1>3. first \in 0 .. AreaEnd - 1 /\ first \in first .. first + Sectors(size) - 1 /\ first - first = 0
  <2> HIDE DEF first
  <2> QED  BY <1>2, OsdAreaAssumption
<1>4. DOMAIN area = 0 .. AreaEnd - 1
  BY DEF Sectored
<1>5. new[first] = <<data, 0>>
  BY <1>3, <1>4 DEF Written
<1>6. ent.offset = offset /\ ent.size = size /\ size # 0
  OBVIOUS
<1>7. ReadBack(new, ent) = new[first][1]
  <2>1. ent.offset \div Sector = first
    BY <1>6
  <2> HIDE DEF new, ent
  <2> QED  BY <1>1, <1>6, <2>1, Zenon DEF ReadBack
<1> QED  BY <1>5, <1>7

LEMMA NothingRead == \A area : ReadBack(area, NoEntry) = "none"
  BY DEF ReadBack, NoEntry

LEMMA Advanced ==
  ASSUME ThreadsTyped, NEW t \in T, th[t].i \in F, NEW ok \in BOOLEAN, NEW tab \in Table, NEW seek \in Nat,
         AfterFile(t, ok, tab, seek), job' = job,
         ok => \A j \in F : j <= th[t].i => ReadBack(disk'[th[t].part].area, tab[j]) = Wanted(t)[j]
  PROVE  Going(t)' /\ th'[t].part = th[t].part
<1>1. /\ th'[t].at = (IF ok /\ th[t].i < 4 THEN "file" ELSE "table")
      /\ th'[t].i = (IF ok /\ th[t].i < 4 THEN th[t].i + 1 ELSE th[t].i)
      /\ th'[t].tab = tab /\ th'[t].ok = ok /\ th'[t].part = th[t].part
  BY AfterFileThen
<1>2. Wanted(t)' = Wanted(t)
  BY SameWanted
<1>3. \A j \in F : Back(t, j)' = ReadBack(disk'[th[t].part].area, tab[j])
  BY <1>1 DEF Back
<1>4. \A j \in F : (j < th[t].i + 1 => j <= th[t].i) /\ (~(th[t].i < 4) => j <= th[t].i)
  BY DEF F
<1>5. CASE ok /\ th[t].i < 4
  <2>1. th'[t].at = "file" /\ th'[t].i = th[t].i + 1
    BY <1>1, <1>5
  <2> QED  BY <1>1, <1>2, <1>3, <1>4, <1>5, <2>1 DEF Going
<1>6. CASE ~(ok /\ th[t].i < 4)
  <2>1. th'[t].at = "table"
    BY <1>1, <1>6
  <2> QED  BY <1>1, <1>2, <1>3, <1>4, <1>6, <2>1 DEF Going
<1> QED  BY <1>5, <1>6

LEMMA Installing ==
  ASSUME Shape, AreaInv, NEW t \in T, th[t].at \in Opened, Installs(t), Clear(t), Rightly(t)
  PROVE  /\ InPlace(t) /\ AskedFor(t) = Named(res[t]) /\ alone'[t] = alone[t]
         /\ Wanted(t) = [j \in F |-> IF j = DelIcon /\ res[t][DelIcon].data = "none"
                                     THEN res[t][ViewIcon].data ELSE res[t][j].data]
<1>1. InPlace(t) /\ alone'[t] = alone[t]
  BY Turns DEF AreaInv, Laying, Clear, Alone
<1>2. AskedFor(t) = Named(res[t])
  BY DEF Rightly
<1> QED  BY <1>1, <1>2, WantedOf

LEMMA ToldInstallNothing ==
  ASSUME Shape, AreaInv, NEW t \in T, Told(t), InstallNothing(t)
  PROVE  Told(t)'
<1> DEFINE u == th[t]
           i == u.i
           ok == i \in Optional
           tab == IF i = DelIcon THEN [u.tab EXCEPT ![DelIcon] = u.tab[ViewIcon]] ELSE u.tab
           area == disk[u.part].area
<1>1. /\ u.at = "file" /\ u.at \in Opened /\ UNCHANGED <<disk, res, job, last, loadFailed>>
      /\ res[t][i].size < 1 /\ AfterFile(t, ok, tab, u.seek) /\ Installs(t)
  BY DEF InstallNothing, mem, Opened
<1>2. /\ ThreadsTyped /\ i \in F /\ u.tab \in Table /\ u.seek \in Nat /\ res[t][i].data = "none"
  BY <1>1, AtFile
<1>3. tab \in Table /\ ok \in BOOLEAN
  BY <1>2 DEF Table, ViewIcon, DelIcon, F
<1> HIDE DEF tab, ok, area
<1>4. ASSUME Clear(t), Rightly(t), NEW j \in F, j <= i PROVE ReadBack(area, tab[j]) = Wanted(t)[j]
  <2>1. /\ InPlace(t) /\ ViewIcon \in F /\ DelIcon \in F
        /\ Wanted(t) = [k \in F |-> IF k = DelIcon /\ res[t][DelIcon].data = "none"
                                    THEN res[t][ViewIcon].data ELSE res[t][k].data]
    BY <1>1, <1>4, Installing DEF F, ViewIcon, DelIcon
  <2>2. \A k \in F : k < i => ReadBack(area, u.tab[k]) = Wanted(t)[k]
    BY <1>1, <1>4 DEF Rightly, Back, area
  <2>3. CASE j < i
    <3>1. tab[j] = u.tab[j]
      BY <1>2, <2>3 DEF tab, Table, F
    <3> QED  BY <2>2, <2>3, <3>1
  <2>4. CASE j = i /\ i # DelIcon
    <3>1. u.tab[i] = NoEntry
      BY <1>1, <1>2, <2>1 DEF InPlace, F
    <3>2. tab[j] = NoEntry
      BY <2>4, <3>1 DEF tab
    <3>3. Wanted(t)[j] = "none"
      BY <1>2, <2>1, <2>4
    <3> QED  BY <3>2, <3>3, NothingRead
  <2>5. CASE j = i /\ i = DelIcon
    <3>1. tab[j] = u.tab[ViewIcon]
      BY <1>2, <2>5 DEF tab, Table
    <3>2. ReadBack(area, u.tab[ViewIcon]) = Wanted(t)[ViewIcon]
      BY <2>1, <2>2, <2>5 DEF ViewIcon, DelIcon
    <3>3. Wanted(t)[j] = res[t][ViewIcon].data /\ Wanted(t)[ViewIcon] = res[t][ViewIcon].data
      BY <1>2, <2>1, <2>5 DEF ViewIcon, DelIcon
    <3> QED  BY <3>1, <3>2, <3>3
  <2> QED  BY <1>2, <1>4, <2>3, <2>4, <2>5 DEF F
<1>5. alone'[t] = alone[t]
  BY <1>1, Turns
<1>6. ASSUME Clear(t), Rightly(t) PROVE Going(t)'
  BY <1>1, <1>2, <1>3, <1>4, <1>6, Advanced DEF area
<1>7. th'[t].part = u.part
  BY <1>1, <1>2, <1>3, AfterFileThen
<1> QED  BY <1>1, <1>5, <1>6, <1>7, ToldOpened

LEMMA ToldInstallOSDFile ==
  ASSUME Shape, AreaInv, NEW t \in T, Told(t), InstallOSDFile(t)
  PROVE  Told(t)'
<1>1. /\ th[t].at = "file" /\ UNCHANGED <<disk, res, job, last, loadFailed>> /\ Installs(t) /\ ThreadsTyped
      /\ \E place : th' = [th EXCEPT ![t].at = "write", ![t].seek = place]
  BY DEF InstallOSDFile, mem, Shape
<1>2. /\ th'[t].at = "write" /\ th'[t].i = th[t].i /\ th'[t].tab = th[t].tab /\ th'[t].part = th[t].part
  BY <1>1 DEF ThreadsTyped, Where
<1>3. ASSUME Rightly(t) PROVE Going(t)'
  <2>1. Wanted(t)' = Wanted(t)
    BY <1>1, SameWanted
  <2>2. \A j \in F : Back(t, j)' = Back(t, j)
    BY <1>1, <1>2 DEF Back
  <2> QED  BY <1>1, <1>2, <1>3, <2>1, <2>2 DEF Rightly, Going
<1>4. alone'[t] = alone[t]
  BY <1>1, Turns
<1> QED  BY <1>1, <1>2, <1>3, <1>4, ToldOpened DEF Opened

LEMMA ToldWriteFile ==
  ASSUME Shape, AreaInv, NEW t \in T, Told(t), WriteFile(t)
  PROVE  Told(t)'
<1> DEFINE u == th[t]
           i == u.i
           r == res[t][i]
           p == u.part
           fits == Fits(u.seek, r.size)
           ent == [offset |-> pos, size |-> r.size]
           new == [u.tab EXCEPT ![i] = ent]
           tab == IF fits THEN new ELSE u.tab
           to == Transferred(u.seek, r.size)
           area == disk[p].area
<1>1. /\ UNCHANGED <<res, job, last, loadFailed>> /\ u.at = "write" /\ u.at \in Opened /\ Installs(t)
  BY DEF WriteFile, mem, Opened
<1>2. /\ ThreadsTyped /\ i \in F /\ p \in Parts /\ u.tab \in Table /\ u.seek \in Nat
      /\ r.size \in Nat \ {0} /\ r.data \in Known \ {"none"}
  BY <1>1, AtFile
<1>3. /\ pos \in Nat /\ area \in Sectored /\ disk \in [Parts -> [table : Table, area : Sectored]]
  <2>1. DiskTyped
    BY Zenon DEF Shape
  <2> QED  BY <1>2, <2>1 DEF DiskTyped
<1>4. \/ /\ disk' = [disk EXCEPT ![p].area = Written(@, u.seek, r.data, r.size)]
         /\ AfterFile(t, fits, tab, to)
      \/ AfterFile(t, FALSE, u.tab, u.seek)
  BY DEF WriteFile
<1>5. tab \in Table /\ to \in Nat /\ fits \in BOOLEAN /\ new \in Table
  <2>1. to \in Nat
    BY <1>2, OsdAreaAssumption DEF Transferred, Rounded, Sectors, Sector
  <2>2. new \in Table
    BY <1>2, <1>3 DEF Table, Entry
  <2>3. fits \in BOOLEAN
    BY DEF Fits
  <2> HIDE DEF new, to, fits
  <2> QED  BY <1>2, <2>1, <2>2, <2>3
<1>6. new[i] = ent /\ \A j \in F : j # i => new[j] = u.tab[j]
  BY <1>2 DEF Table
<1> HIDE DEF new, ent
<1>7. ASSUME Clear(t), Rightly(t), disk' = [disk EXCEPT ![p].area = Written(@, u.seek, r.data, r.size)],
             fits, NEW j \in F, j <= i
      PROVE  ReadBack(disk'[p].area, new[j]) = Wanted(t)[j]
  <2>1. /\ InPlace(t)
        /\ Wanted(t) = [k \in F |-> IF k = DelIcon /\ res[t][DelIcon].data = "none"
                                    THEN res[t][ViewIcon].data ELSE res[t][k].data]
    BY <1>1, <1>7, Installing
  <2>2. disk'[p].area = Written(area, u.seek, r.data, r.size)
    BY <1>2, <1>3, <1>7
  <2>3. CASE j = i
    <3>1. ent = [offset |-> u.seek, size |-> r.size]
      <4>1. u.at = "write" => pos = u.seek
        BY <2>1, Zenon DEF InPlace
      <4> QED  BY <1>1, <4>1 DEF ent
    <3>2. ReadBack(disk'[p].area, ent) = r.data
      BY <1>2, <1>3, <1>7, <2>2, <3>1, WrittenIs
    <3>3. Wanted(t)[j] = r.data
      BY <1>2, <2>1, <2>3
    <3> QED  BY <1>6, <2>3, <3>2, <3>3
  <2>4. CASE j < i
    <3>1. new[j] = u.tab[j] /\ u.tab[j] \in Entry
      BY <1>2, <1>6, <2>4 DEF Table, F
    <3>2. ReadBack(area, u.tab[j]) = Wanted(t)[j]
      BY <1>1, <1>7, <2>4 DEF Rightly, Back
    <3>3. ReadBack(disk'[p].area, u.tab[j]) = ReadBack(area, u.tab[j])
      <4>1. CASE u.tab[j] = NoEntry
        BY <4>1, NothingRead, Zenon
      <4>2. CASE u.tab[j] # NoEntry
        <5>1. u.tab[j].size >= 1 /\ Whole(area, u.tab[j]) /\ Ends(u.tab[j]) <= u.seek \div Sector
          BY <1>1, <2>1, <4>2 DEF InPlace
        <5> QED  BY <1>2, <1>3, <2>2, <3>1, <5>1, WrittenReads
      <4> QED  BY <4>1, <4>2
    <3> QED  BY <3>1, <3>2, <3>3
  <2> QED  BY <1>2, <1>7, <2>3, <2>4 DEF F
<1>8. ASSUME Clear(t), Rightly(t) PROVE Going(t)'
  <2>1. CASE /\ disk' = [disk EXCEPT ![p].area = Written(@, u.seek, r.data, r.size)]
             /\ AfterFile(t, fits, tab, to)
    <3>1. fits => \A j \in F : j <= i => ReadBack(disk'[p].area, tab[j]) = Wanted(t)[j]
      BY <1>7, <1>8, <2>1
    <3> HIDE DEF fits, tab, to
    <3> QED  BY <1>1, <1>2, <1>5, <2>1, <3>1, Advanced
  <2>2. CASE AfterFile(t, FALSE, u.tab, u.seek)
    BY <1>1, <1>2, <2>2, Advanced
  <2> QED  BY <1>4, <2>1, <2>2
<1>9. th'[t].part = p
  <2>1. CASE AfterFile(t, fits, tab, to)
    <3> HIDE DEF fits, tab, to
    <3> QED  BY <1>2, <1>5, <2>1, AfterFileThen
  <2>2. CASE AfterFile(t, FALSE, u.tab, u.seek)
    BY <1>2, <2>2, AfterFileThen
  <2> QED  BY <1>4, <2>1, <2>2
<1>10. alone'[t] = alone[t]
  BY <1>1, Turns
<1> QED  BY <1>1, <1>8, <1>9, <1>10, ToldOpened

LEMMA ToldWriteTable ==
  ASSUME Shape, AreaInv, NEW t \in T, Told(t), WriteTable(t)
  PROVE  Told(t)'
<1> DEFINE u == th[t]
           p == u.part
<1>1. /\ UNCHANGED <<res, job, last, loadFailed>> /\ u.at = "table" /\ u.at \in Opened /\ Installs(t)
      /\ \/ Goes(t, "end") /\ disk' = [disk EXCEPT ![p].table = u.tab]
         \/ Fails(t)
  BY DEF WriteTable, mem, Opened
<1>2. /\ ThreadsTyped /\ p \in Parts /\ "end" \in Places
      /\ disk \in [Parts -> [table : Table, area : Sectored]]
  BY <1>1, AtFile DEF Places, Shape, DiskTyped
<1>3. /\ th'[t].at = "end" /\ th'[t].part = p
      /\ th'[t].ok => u.ok /\ disk' = [disk EXCEPT ![p].table = u.tab]
  BY <1>1, <1>2, GoesTo, FailsThen
<1>4. ASSUME Clear(t), Rightly(t), th'[t].ok PROVE Finished(t)'
  <2>1. job[t].part = p /\ AskedFor(t) = Named(res[t]) /\ \A j \in F : Back(t, j) = Wanted(t)[j]
    BY <1>1, <1>3, <1>4 DEF Rightly
  <2>2. disk'[p].table = u.tab /\ disk'[p].area = disk[p].area
    BY <1>2, <1>3, <1>4
  <2>3. PICK q \in Parts : q = p
    BY <1>2
  <2>4. ContentsOf(q)' = [j \in F |-> Back(t, j)]
    BY <2>2, <2>3 DEF ContentsOf, Back
  <2>5. Wanted(t) = [j \in F |-> Wanted(t)[j]]
    <3>1. PICK f : Wanted(t) = [j \in F |-> f[j]]
      <4> DEFINE f == [j \in F |-> IF j = DelIcon /\ res[t][DelIcon].data = "none"
                                   THEN res[t][ViewIcon].data ELSE res[t][j].data]
      <4>1. Wanted(t) = f
        BY <2>1, WantedOf
      <4>2. f = [j \in F |-> f[j]]
        OBVIOUS
      <4> HIDE DEF f
      <4> QED  BY <4>1, <4>2
    <3> QED  BY <3>1
  <2>6. ContentsOf(q)' = Wanted(t)
    BY <2>1, <2>5, <2>4
  <2>7. job'[t].part = q /\ Wanted(t)' = Wanted(t)
    BY <1>1, <2>1, <2>3, SameWanted
  <2> QED  BY <2>6, <2>7 DEF Finished
<1>5. alone'[t] = alone[t]
  BY <1>1, Turns
<1>6. Clear(t) /\ Rightly(t) => Going(t)'
  BY <1>3, <1>4 DEF Going
<1> QED  BY <1>1, <1>3, <1>5, <1>6, ToldOpened

LEMMA ToldThread ==
  ASSUME Shape, AreaInv, NEW t \in T, Told(t), ThreadStep(t)
  PROVE  Told(t)'
  BY ToldReading, ToldOpen, ToldInstallNothing, ToldInstallOSDFile, ToldWriteFile, ToldWriteTable
  DEF ThreadStep

(* A step of a thread that reads. *)
LEMMA ThreadGoesTo ==
  ASSUME Shape, NEW t \in T, Moves(t) \/ Open(t) \/ ReadFails(t)
  PROVE  th'[t].at \in {"end"} \cup Opened
<1>1. ThreadsTyped
  BY DEF Shape
<1>2. ASSUME NEW ok, NEW tab, NEW seek, AfterFile(t, ok, tab, seek) PROVE th'[t].at \in {"file", "table"}
  BY <1>1, <1>2 DEF AfterFile, ThreadsTyped, Where
<1>3. Fails(t) => th'[t].at = "end"
  BY <1>1, FailsThen
<1>4. CASE Open(t) \/ ReadFails(t)
  <2>1. \/ Fails(t)
        \/ th' = [th EXCEPT ![t].at = "file", ![t].i = 0, ![t].tab = NoTable, ![t].seek = 0]
    BY <1>4 DEF Open, ReadFails
  <2> QED  BY <1>1, <1>3, <2>1 DEF ThreadsTyped, Where, Opened
<1>5. CASE InstallNothing(t) \/ WriteFile(t)
  <2>1. \E ok, tab, seek : AfterFile(t, ok, tab, seek)
    BY <1>5 DEF InstallNothing, WriteFile
  <2> QED  BY <1>2, <2>1 DEF Opened
<1>6. CASE InstallOSDFile(t)
  <2>1. PICK place : th' = [th EXCEPT ![t].at = "write", ![t].seek = hddLseek(@, place)]
    BY <1>6 DEF InstallOSDFile
  <2> QED  BY <1>1, <2>1 DEF ThreadsTyped, Where, Opened
<1>7. CASE WriteTable(t)
  <2>1. Goes(t, "end") \/ Fails(t)
    BY <1>7 DEF WriteTable
  <2> QED  BY <1>1, <1>3, <2>1, GoesTo DEF Places
<1> QED  BY <1>4, <1>5, <1>6, <1>7 DEF Moves

(* What there was of a file, and what its entry gives. *)
LEMMA Untouchedly ==
  ASSUME NEW t \in T, Untouched(t), NEW i \in F
  PROVE  ReadBack(disk[job[t].part].area, disk[job[t].part].table[i]) = job[t].before[i]
  BY DEF Untouched, ContentsOf

LEMMA MenuStats ==
  ASSUME Shape, NothingInv, MenuAsked, GetOSDResourceFileStats("menu")
  PROVE  MenuAsked'
<1> DEFINE m == th["menu"]
           files == disk[m.part].table
<1>1. /\ m.at = "stat" /\ UNCHANGED <<disk, copy, job, last, alone, loadFailed>>
      /\ \/ Fails("menu")
         \/ th' = [th EXCEPT !["menu"].files = files,
                             !["menu"].at = IF m.doing = "stat" THEN "end" ELSE "read",
                             !["menu"].i = CASE m.doing = "titles" -> IconSys
                                             [] m.doing = "update" -> NextFile(files, 0)
                                             [] OTHER -> @]
  BY DEF GetOSDResourceFileStats, disks, mem, ghosts
<1>2. ThreadsTyped /\ m.part \in Parts /\ "menu" \in T /\ files \in Table
  BY <1>1, MenuHere DEF DiskTyped
<1>3. SUFFICES ASSUME m.doing = "update", th'["menu"].at # "end"
               PROVE  MenuAsked'
  <2>1. th'["menu"].doing = m.doing
    BY <1>1, <1>2, FailsThen DEF ThreadsTyped, Where
  <2> QED  BY <2>1 DEF MenuAsked
<1>4. /\ th'["menu"].at = "read" /\ th'["menu"].part = m.part /\ th'["menu"].files = files
      /\ th'["menu"].i = NextFile(files, 0) /\ th'["menu"].doing = "update"
  <2>1. ~Fails("menu")
    BY <1>2, <1>3, FailsThen
  <2> HIDE DEF files
  <2> QED  BY <1>1, <1>2, <1>3, <2>1 DEF ThreadsTyped, Where
<1>5. /\ m.part = job["menu"].part /\ job["menu"].src = "title" /\ last["menu"] = "none"
      /\ Clear("menu") => Untouched("menu")
  BY <1>1, <1>3 DEF MenuAsked
<1>6. Clear("menu")' => Untouched("menu")'
  BY <1>1, <1>5, SameFinished, Two DEF Clear, DeleteIconMisplaced
<1>7. MenuCopies'
  <2>1. LET n == NextFile(files, 0) IN
        /\ n \in F => files[n].size > 0
        /\ \A j \in F : 0 <= j /\ j < n => files[j].size = 0
    BY <1>2, NextFileKnown
  <2>2. \A j \in F : ~copy'[j].buf
    <3>1. copy = NoFiles
      BY <1>1 DEF NothingInv, Copied
    <3> QED  BY <1>1, <3>1, Defaults
  <2>3. \A j \in F : 0 <= j /\ ~(0 > 0)
    BY DEF F
  <2>4. files = disk'[m.part].table
    BY <1>1
  <2> HIDE DEF files, m
  <2> QED  BY <1>4, <2>1, <2>2, <2>3, <2>4 DEF MenuCopies
<1> QED  BY <1>1, <1>4, <1>5, <1>6, <1>7 DEF MenuAsked

LEMMA MenuReads ==
  ASSUME Shape, NothingInv, MenuAsked, ReadOSDResourceFile("menu")
  PROVE  MenuAsked'
<1> DEFINE m == th["menu"]
           i == m.i
           data == ReadBack(disk[m.part].area, m.files[i])
           new == Allocated(data, m.files[i].size)
           n == NextFile(m.files, i + 1)
<1>1. /\ m.at = "read" /\ i \in F /\ UNCHANGED <<disk, job, last, alone, loadFailed>>
      /\ IF m.doing = "update"
         THEN th' = [th EXCEPT !["menu"].i = n] /\ copy' = [copy EXCEPT ![i] = new]
         ELSE th' = [th EXCEPT !["menu"].at = "end", !["menu"].data = data]
  BY DEF ReadOSDResourceFile, disks, ghosts
<1>2. /\ ThreadsTyped /\ m.part \in Parts /\ "menu" \in T /\ m.files \in Table /\ copy \in [F -> Resources]
  BY <1>1, MenuHere DEF ThreadsTyped, Where, ListsTyped
<1> HIDE DEF n, new
<1>3. SUFFICES ASSUME m.doing = "update" PROVE MenuAsked'
  BY <1>1, <1>2 DEF ThreadsTyped, Where, MenuAsked
<1>4. /\ th'["menu"].at = "read" /\ th'["menu"].part = m.part /\ th'["menu"].files = m.files
      /\ th'["menu"].i = n /\ th'["menu"].doing = "update"
  BY <1>1, <1>2, <1>3 DEF ThreadsTyped, Where
<1>5. /\ m.part = job["menu"].part /\ job["menu"].src = "title" /\ last["menu"] = "none"
      /\ Clear("menu") => Untouched("menu") /\ MenuCopies
  BY <1>1, <1>3 DEF MenuAsked
<1>6. ASSUME Clear("menu")' PROVE Clear("menu") /\ Untouched("menu")' /\ Untouched("menu") /\ MenuCopies
  <2>1. Clear("menu")
    BY <1>1, <1>6 DEF Clear, DeleteIconMisplaced
  <2>2. Untouched("menu")' <=> Untouched("menu")
    BY <1>1, SameFinished, Two
  <2> QED  BY <1>5, <2>1, <2>2
<1>7. ASSUME Clear("menu")' PROVE MenuCopies'
  <2>1. /\ n \in 0 .. 5 /\ i + 1 <= n /\ (n \in F => m.files[n].size > 0)
        /\ \A j \in F : i + 1 <= j /\ j < n => m.files[j].size = 0
    <3>1. i + 1 \in 0 .. 5
      BY <1>1 DEF F
    <3> QED  BY <1>2, <3>1, NextFileKnown DEF n
  <2>2. /\ m.files = disk[m.part].table /\ m.files[i].size > 0
        /\ \A j \in F : j < i => IF m.files[j].size > 0
                                 THEN copy[j].buf /\ copy[j].data = job["menu"].before[j]
                                 ELSE ~copy[j].buf
    BY <1>1, <1>6, <1>7 DEF MenuCopies
  <2>3. copy'[i] = new /\ \A j \in F : j # i => copy'[j] = copy[j]
    BY <1>1, <1>2, <1>3
  <2>4. new.buf /\ new.data = job["menu"].before[i]
    <3>1. data = job["menu"].before[i]
      BY <1>1, <1>5, <1>6, <1>7, <2>2, Two, Untouchedly
    <3> QED  BY <3>1 DEF new, Allocated
  <2>5. ASSUME NEW j \in F, j < n
        PROVE  IF m.files[j].size > 0 THEN copy'[j].buf /\ copy'[j].data = job["menu"].before[j] ELSE ~copy'[j].buf
    <3>1. CASE j < i
      <4>1. copy'[j] = copy[j]
        BY <1>1, <2>3, <3>1 DEF F
      <4> QED  BY <2>2, <3>1, <4>1
    <3>2. CASE j = i
      BY <2>2, <2>3, <2>4, <3>2
    <3>3. CASE i + 1 <= j
      <4>1. m.files[j].size = 0 /\ copy'[j] = copy[j]
        BY <1>1, <2>1, <2>3, <2>5, <3>3 DEF F
      <4>2. ~copy[j].buf
        BY <1>1, <3>3 DEF NothingInv, Copied, F
      <4> QED  BY <4>1, <4>2
    <3> QED  BY <1>1, <3>1, <3>2, <3>3 DEF F
  <2> QED  BY <1>1, <1>4, <2>1, <2>2, <2>5 DEF MenuCopies
<1> QED  BY <1>1, <1>4, <1>5, <1>6, <1>7 DEF MenuAsked

LEMMA MenuThread ==
  ASSUME Shape, NothingInv, MenuAsked, ThreadStep("menu")
  PROVE  MenuAsked'
<1>1. CASE GetOSDResourceFileStats("menu")
  BY <1>1, MenuStats
<1>2. CASE ReadOSDResourceFile("menu")
  BY <1>2, MenuReads
<1>3. CASE Moves("menu") \/ Open("menu") \/ ReadFails("menu")
  BY <1>3, Two, ThreadGoesTo DEF MenuAsked, Opened
<1> QED  BY <1>1, <1>2, <1>3 DEF ThreadStep, Moves

LEMMA ServiceReads ==
  ASSUME Shape, Asking,
         \/ GetOSDResourceFileStats("service") \/ ReadOSDResourceFile("service") \/ ReadFails("service")
  PROVE  Asking'
<1> DEFINE s == th["service"]
           c == Call.cmd
           files == disk[s.part].table
           data == ReadBack(disk[s.part].area, s.files[s.i])
<1>1. /\ s.at \in {"stat", "read"} /\ UNCHANGED <<disk, res, job, last, alone, loadFailed, cl, ans, task>>
      /\ (s.at = "read" => s.i \in F) /\ s.doing # "update"
      /\ \/ Fails("service")
         \/ /\ s.at = "stat"
            /\ th' = [th EXCEPT !["service"].files = files,
                                !["service"].at = IF s.doing = "stat" THEN "end" ELSE "read",
                                !["service"].i = CASE s.doing = "titles" -> IconSys
                                                   [] s.doing = "update" -> NextFile(files, 0)
                                                   [] OTHER -> @]
         \/ s.at = "read" /\ th' = [th EXCEPT !["service"].at = "end", !["service"].data = data]
  <2>1. s.doing # "update"
    BY DEF Shape, ServicePlaced
  <2>2. CASE GetOSDResourceFileStats("service")
    BY <2>1, <2>2 DEF GetOSDResourceFileStats, disks, mem, ghosts
  <2>3. CASE ReadOSDResourceFile("service")
    BY <2>1, <2>3 DEF ReadOSDResourceFile, disks, ghosts
  <2>4. CASE ReadFails("service")
    BY <2>1, <2>4 DEF ReadFails, disks, ghosts
  <2> QED  BY <2>2, <2>3, <2>4
<1>2. ThreadsTyped /\ "service" \in T /\ c = s.doing /\ s.doing \in Reads /\ ans = NoAns /\ cl.at = "waits"
  BY <1>1 DEF Shape, ServicePlaced, Answering, Reads, T
<1> HIDE DEF data, files
<1>3. /\ th'["service"].at \in {"read", "end"} /\ th'["service"].part = s.part
      /\ th'["service"].at = "read" => /\ s.at = "stat" /\ th'["service"].files = files /\ s.doing # "stat"
                                       /\ s.doing = "read" => th'["service"].i = s.i
      /\ th'["service"].at = "end" /\ th'["service"].ok =>
           \/ s.at = "stat" /\ s.doing = "stat" /\ th'["service"].files = files
           \/ s.at = "read" /\ th'["service"].data = data
  <2>1. CASE Fails("service")
    BY <1>2, <2>1, FailsThen
  <2>2. CASE ~Fails("service")
    BY <1>1, <1>2, <2>2 DEF ThreadsTyped, Where
  <2> QED  BY <2>1, <2>2
<1>4. /\ Call' = Call /\ (Answer' <=> Answer) /\ ~Answer /\ (Clear("service")' <=> Clear("service"))
      /\ (Untouched("service")' <=> Untouched("service")) /\ \A d : Ways(d)' <=> Ways(d)
  <2>1. Untouched("service")' <=> Untouched("service")
    BY <1>1, <1>2, SameFinished
  <2> QED  BY <1>1, <1>2, <2>1 DEF Call, Answer, Clear, DeleteIconMisplaced, Ways
<1>5. s.part = job["service"].part /\ (c = "read" => s.i = Call.i)
  BY <1>1, <1>2 DEF Asking
<1>6. ASSUME Clear("service") PROVE ReadAsked(c)'
  <2>1. ReadAsked(c)
    BY <1>2, <1>6 DEF Asking, Served
  <2>2. c = "read" /\ s.at = "read" => data = job["service"].before[Call.i]
    <3>1. c = "read" /\ s.at = "read" => s.files = files /\ Untouched("service")
      BY <1>5, <2>1 DEF ReadAsked, files
    <3> QED  BY <1>1, <1>2, <1>5, <3>1, Untouchedly DEF data, files
  <2>3. c = "stat" => s.at = "stat"
    BY <1>1, <1>2 DEF Shape, ServicePlaced
  <2>4. files = disk'[job["service"].part].table
    BY <1>1, <1>5 DEF files
  <2> HIDE DEF s
  <2> QED  BY <1>1, <1>2, <1>3, <1>4, <2>1, <2>2, <2>3, <2>4 DEF ReadAsked
<1>7. /\ ~loadFailed' /\ task' # 0 => task' = job'["service"].part
      /\ cl'.at # "waits" \/ c \in {"titles", "stat"} => cl'.copy = NoFiles
      /\ last'["service"] = "none" /\ Ways(c)'
  BY <1>1, <1>2, <1>4 DEF Asking
<1>8. /\ ~(c \in {"init", "initdef", "load", "write"}) /\ c # "initsave"
      /\ c' = c
  BY <1>2, <1>4 DEF Reads
<1>9. Clear("service")' => Served(c)'
  BY <1>2, <1>4, <1>6, <1>8 DEF Served, Filling
<1>10. /\ th'["service"].at \in {"stat", "read", "end"} /\ c \in Reads =>
            th'["service"].part = job'["service"].part
       /\ th'["service"].at \in {"stat", "read"} /\ c = "read" => th'["service"].i = Call'.i
  BY <1>1, <1>2, <1>3, <1>4, <1>5
<1>11. PICK d : d = c
  OBVIOUS
<1>12. d = Call'.cmd
  BY <1>8, <1>11
<1> HIDE DEF c, s
<1> QED  BY <1>7, <1>8, <1>9, <1>10, <1>11, <1>12, Zenon DEF Asking

LEMMA ServiceThread ==
  ASSUME Shape, AreaInv, AskedInv, ThreadStep("service")
  PROVE  Asking'
<1>1. CASE GetOSDResourceFileStats("service") \/ ReadOSDResourceFile("service") \/ ReadFails("service")
  BY <1>1, ServiceReads DEF AskedInv
<1>2. CASE Moves("service") \/ Open("service")
  <2>1. UNCHANGED <<job, last, cl, ans, task, loadFailed>> /\ th'["service"].at \in {"end"} \cup Opened
    <3>1. UNCHANGED <<job, last, cl, ans, task, loadFailed>>
      BY Two, ThreadKeeps
    <3>2. th'["service"].at \in {"end"} \cup Opened
      BY <1>2, Two, ThreadGoesTo
    <3> QED  BY <3>1, <3>2
  <2>2. th["service"].at \in {"open"} \cup Opened
    BY <1>2, Zenon DEF Moves, Open, InstallNothing, InstallOSDFile, WriteFile, WriteTable, Opened
  <2>3. Call.cmd = "write" /\ ans = NoAns /\ Call' = Call
    BY <2>1, <2>2 DEF Shape, ServicePlaced, Answering, Opened, Call
  <2>4. Asking /\ \A c : Ways(c)' <=> Ways(c)
    BY <2>1 DEF AskedInv, Ways
  <2>5. th'["service"].at \notin {"idle", "payload"} /\ ~Answer'
    BY <2>1, <2>3 DEF Opened, Answer
  <2>6. Served(Call.cmd)'
    BY <2>3, <2>5 DEF Served, Filling, Reads
  <2> QED  BY <2>1, <2>3, <2>4, <2>5, <2>6 DEF Asking, Reads
<1> QED  BY <1>1, <1>2 DEF ThreadStep, Moves

LEMMA AskedThread ==
  ASSUME Shape, AreaInv, NothingInv, AskedInv, NEW t \in T, ThreadStep(t)
  PROVE  AskedInv'
<1>1. Told(t)'
  BY ToldThread DEF AskedInv
<1>2. CASE t = "menu"
  <2>1. Kept("service") /\ UNCHANGED <<cl, ans, task, loadFailed>>
    BY <1>2, ThreadKeeps, Two
  <2>2. MenuAsked'
    BY <1>2, MenuThread DEF AskedInv
  <2> QED  BY <1>1, <1>2, <2>1, <2>2, MenuMoved
<1>3. CASE t = "service"
  <2>1. Kept("menu") /\ copy' = copy
    BY <1>3, ThreadKeeps, Two
  <2>2. Asking'
    BY <1>3, ServiceThread
  <2> QED  BY <1>1, <1>3, <2>1, <2>2, ServiceMoved
<1> QED  BY <1>2, <1>3, Two

(* A step of the menu. *)
MenuActing ==
  \/ MenuStep \/ \E p \in MenuParts : DialogOpens(p)
  \/ \E title \in NewTitles :
       \/ MenuRetitles(title)
       \/ \E src \in {"default", "external"} : \E save \in SavesFor(src) : MenuInstalls(title, src, save)

LEMMA MenuKeeps ==
  ASSUME Shape, AreaInv, MenuActing
  PROVE  Kept("service") /\ UNCHANGED <<cl, ans, task, loadFailed>>
<1>1. Quiet("menu")
  BY QuietMenu DEF MenuActing
<1>2. JobsTyped /\ "menu" # "service"
  BY DEF Shape
<1>3. ASSUME NEW p, NEW title, NEW src, NEW save, Asks("menu", p, title, src, save)
      PROVE  job'["service"] = job["service"] /\ last'["service"] = last["service"]
  BY <1>2, <1>3, Two DEF Asks, JobsTyped
<1>4. ASSUME NEW ok, Tells("menu", ok)
      PROVE  last'["service"] = last["service"]
  BY <1>2, <1>4, Two DEF Tells, JobsTyped
<1>5. /\ job'["service"] = job["service"] /\ last'["service"] = last["service"]
      /\ UNCHANGED <<cl, ans, task, loadFailed>>
  <2>1. CASE DialogShown \/ UpdateFiles \/ \E p \in MenuParts : DialogOpens(p)
    BY <2>1 DEF DialogShown, UpdateFiles, DialogOpens, ghosts
  <2>2. CASE MenuInstalled \/ MenuRetitled
    <3>1. Tells("menu", th["menu"].ok) /\ UNCHANGED <<job, cl, ans, task, loadFailed>>
      BY <2>2 DEF MenuInstalled, MenuRetitled
    <3> QED  BY <1>4, <3>1
  <2>3. CASE \E title \in NewTitles : MenuRetitles(title)
    <3>1. PICK title : MenuRetitles(title)
      BY <2>3
    <3>2. Asks("menu", th["menu"].part, title, "title", "none") /\ UNCHANGED <<cl, ans, task, loadFailed>>
      BY <3>1 DEF MenuRetitles
    <3> QED  BY <1>3, <3>2
  <2>4. CASE \E title, src, save : MenuInstalls(title, src, save)
    <3>1. PICK title, src, save : MenuInstalls(title, src, save)
      BY <2>4
    <3>2. Asks("menu", th["menu"].part, title, src, save) /\ UNCHANGED <<cl, ans, task, loadFailed>>
      BY <3>1 DEF MenuInstalls
    <3> QED  BY <1>3, <3>2
  <2> QED  BY <2>1, <2>2, <2>3, <2>4 DEF MenuActing, MenuStep
<1> QED  BY <1>1, <1>5, Two, KeptQuiet

LEMMA ToldNew ==
  ASSUME NEW t \in T, last'[t] = "none", th'[t].at \notin {"end"} \cup Opened,
         th'[t].at = "open" /\ Clear(t)' => th'[t].part = job'[t].part /\ Named(res'[t]) = AskedFor(t)'
  PROVE  Told(t)'
<1>1. th'[t].at \notin {"end", "file", "write", "table"}
  BY DEF Opened
<1>2. Clear(t)' => Rightly(t)'
  BY <1>1 DEF Rightly, Opened
<1> QED  BY <1>2 DEF Told

LEMMA AskedDialog ==
  ASSUME Shape, AreaInv, AskedInv, DialogShown \/ \E p \in MenuParts : DialogOpens(p)
  PROVE  AskedInv'
<1>1. Kept("service") /\ UNCHANGED <<cl, ans, task, loadFailed>>
  BY MenuKeeps DEF MenuActing, MenuStep
<1>2. PICK place \in {"stat", "dialog"}, p \in Parts : Begins("menu", place, "titles", p)
  BY MenuHere, OsdAssumption DEF DialogShown, DialogOpens
<1>3. UNCHANGED <<disk, job, last, alone, loadFailed>>
  BY DEF DialogShown, DialogOpens, disks, ghosts
<1>4. th'["menu"].at = place /\ th'["menu"].doing = "titles"
  BY <1>2, MenuHere, BeginsThen
<1>5. Clear("menu")' <=> Clear("menu")
  BY <1>3 DEF Clear, DeleteIconMisplaced
<1>6. Told("menu")'
  BY <1>3, <1>4, <1>5, Two, ToldClosed DEF AskedInv, Opened
<1>7. MenuAsked'
  BY <1>4 DEF MenuAsked
<1> QED  BY <1>1, <1>6, <1>7, MenuMoved

LEMMA AskedMenuRetitles ==
  ASSUME Shape, AreaInv, AskedInv, NEW title \in NewTitles, MenuRetitles(title)
  PROVE  AskedInv'
<1> DEFINE p == th["menu"].part
<1>1. Kept("service") /\ UNCHANGED <<cl, ans, task, loadFailed>>
  BY MenuKeeps DEF MenuActing
<1>2. /\ th["menu"].at = "dialog" /\ Asks("menu", p, title, "title", "none")
      /\ Begins("menu", "stat", "update", p) /\ disk' = disk /\ task' = task
  BY DEF MenuRetitles, disks
<1>3. th'["menu"].at = "stat" /\ th'["menu"].part = p /\ p \in Parts
  BY <1>2, MenuHere, BeginsThen
<1>4. /\ last'["menu"] = "none"
      /\ job'["menu"] = [part |-> p, title |-> title, src |-> "title", save |-> "none",
                         before |-> ContentsOf(p)]
  <2>1. "title" \in Sources /\ "none" \in Saves /\ title \in GameTitles
    BY OsdAssumption DEF Sources, Saves
  <2> QED  BY <1>2, <1>3, <2>1, Two, AsksTyped
<1>5. Told("menu")'
  BY <1>3, <1>4, Two, ToldNew DEF Opened
<1>6. Untouched("menu")'
  <2>1. PICK q \in Parts : q = p
    BY <1>3
  <2>2. ContentsOf(q)' = ContentsOf(q)
    BY <1>2, SameContents
  <2> QED  BY <1>4, <2>1, <2>2 DEF Untouched
<1>7. MenuAsked'
  BY <1>3, <1>4, <1>6 DEF MenuAsked
<1> QED  BY <1>1, <1>5, <1>7, MenuMoved

LEMMA AskedMenuInstalls ==
  ASSUME Shape, AreaInv, AskedInv, NEW title \in NewTitles, NEW src \in {"default", "external"},
         NEW save \in SavesFor(src), MenuInstalls(title, src, save)
  PROVE  AskedInv'
<1> DEFINE p == th["menu"].part
           new == PrepareOSDResources(save, title)
<1>1. Kept("service") /\ UNCHANGED <<cl, ans, task, loadFailed>>
  BY MenuKeeps DEF MenuActing
<1>2. /\ th["menu"].at = "dialog" /\ Asks("menu", p, title, src, save)
      /\ Begins("menu", "open", "install", p) /\ res' = [res EXCEPT !["menu"] = new] /\ task' = task
  BY DEF MenuInstalls
<1>3. th'["menu"].at = "open" /\ th'["menu"].part = p /\ p \in Parts
  BY <1>2, MenuHere, BeginsThen
<1>4. /\ last'["menu"] = "none"
      /\ job'["menu"] = [part |-> p, title |-> title, src |-> src, save |-> save,
                         before |-> ContentsOf(p)]
  <2>1. src \in Sources /\ save \in Saves /\ title \in GameTitles
    BY OsdAssumption DEF Sources, Saves, SavesFor
  <2> QED  BY <1>2, <1>3, <2>1, Two, AsksTyped
<1>5. res'["menu"] = new
  BY <1>2, MenuHere DEF ListsTyped
<1>6. AskedFor("menu")' = Named(new)
  <2>1. job'["menu"].src = src /\ job'["menu"].save = save /\ job'["menu"].title = title
    BY <1>4
  <2>2. src = "default" => save = "none"
    BY DEF SavesFor
  <2> QED  BY <2>1, <2>2 DEF AskedFor
<1> HIDE DEF new
<1>7. Told("menu")'
  BY <1>3, <1>4, <1>5, <1>6, Two, ToldNew DEF Opened
<1>8. MenuAsked'
  BY <1>3 DEF MenuAsked
<1> QED  BY <1>1, <1>7, <1>8, MenuMoved

LEMMA AskedMenuDone ==
  ASSUME Shape, AreaInv, AskedInv, MenuInstalled \/ MenuRetitled
  PROVE  AskedInv'
<1>1. Kept("service") /\ UNCHANGED <<cl, ans, task, loadFailed>>
  BY MenuKeeps DEF MenuActing, MenuStep
<1>2. /\ th["menu"].at = "end" /\ th["menu"].doing \in {"install", "update"}
      /\ Tells("menu", th["menu"].ok) /\ Begins("menu", "idle", "none", 0)
      /\ UNCHANGED <<disk, job, alone, loadFailed, task>>
  BY DEF MenuInstalled, MenuRetitled, disks
<1>3. th'["menu"].at = "idle"
  BY <1>2, MenuHere, BeginsThen
<1>4. last'["menu"] \in {"ok", "icon"} => th["menu"].ok
  BY <1>2, MenuHere DEF Tells, JobsTyped
<1>5. ASSUME Clear("menu")' PROVE Rightly("menu")' /\ (last'["menu"] \in {"ok", "icon"} => Finished("menu")')
  <2>1. Clear("menu")
    BY <1>2, <1>5 DEF Clear, DeleteIconMisplaced
  <2>2. th["menu"].ok => Finished("menu")
    BY <1>2, <2>1, Two DEF AskedInv, Told, Rightly
  <2>3. Finished("menu")' <=> Finished("menu")
    BY <1>2, Two, SameFinished
  <2>4. Rightly("menu")'
    BY <1>3 DEF Rightly, Opened
  <2> QED  BY <1>4, <2>2, <2>3, <2>4
<1>6. Told("menu")'
  BY <1>3, <1>5 DEF Told, Opened
<1>7. MenuAsked'
  BY <1>3 DEF MenuAsked
<1> QED  BY <1>1, <1>6, <1>7, MenuMoved

LEMMA AskedUpdateFiles ==
  ASSUME Shape, AreaInv, NothingInv, AskedInv, UpdateFiles
  PROVE  AskedInv'
<1> DEFINE m == th["menu"]
           j == job["menu"]
           title == j.title
           new == [i \in F |-> CASE i = IconSys -> Allocated(title, FileSize[title])
                                 [] i # IconSys /\ copy[i].buf -> copy[i]
                                 [] OTHER -> PrepareOSDDefaultResources[i]]
<1>1. Kept("service") /\ UNCHANGED <<cl, ans, task, loadFailed>>
  BY MenuKeeps DEF MenuActing, MenuStep
<1>2. /\ m.at = "read" /\ m.i \notin F /\ UNCHANGED <<disk, job, last, alone, loadFailed>>
      /\ \/ res' = [res EXCEPT !["menu"] = new] /\ Goes("menu", "open")
         \/ Fails("menu")
  BY DEF UpdateFiles, disks, ghosts
<1>3. m.doing = "update" /\ m \in Where /\ m.part \in Parts /\ m.files \in Table
  BY <1>2, MenuHere DEF Shape, MenuPlaced, ThreadsTyped, Where
<1>4. /\ m.part = j.part /\ j.src = "title" /\ last["menu"] = "none"
      /\ Clear("menu") => Untouched("menu") /\ MenuCopies
  BY <1>2, <1>3 DEF AskedInv, MenuAsked
<1>5. Clear("menu")' <=> Clear("menu")
  BY <1>2 DEF Clear, DeleteIconMisplaced
<1>6. CASE Fails("menu")
  <2>1. th'["menu"].at = "end" /\ ~th'["menu"].ok
    BY <1>6, MenuHere, FailsThen
  <2>2. Told("menu")'
    BY <1>2, <1>5, <2>1, Two, ToldClosed DEF AskedInv, Opened
  <2>3. MenuAsked'
    BY <2>1 DEF MenuAsked
  <2> QED  BY <1>1, <2>2, <2>3, MenuMoved
<1>7. CASE res' = [res EXCEPT !["menu"] = new] /\ Goes("menu", "open")
  <2>1. th'["menu"].at = "open" /\ th'["menu"].part = m.part
    BY <1>7, MenuHere, GoesTo
  <2>2. res'["menu"] = new
    BY <1>7, MenuHere DEF ListsTyped
  <2>3. ASSUME Clear("menu") PROVE Named(new) = AskedFor("menu")
    <3>1. \A i \in F : i < m.i
      BY <1>2, <1>3 DEF F, Where
    <3>2. ASSUME NEW i \in F
          PROVE  IF j.before[i] = "none" THEN ~copy[i].buf ELSE copy[i].buf /\ copy[i].data = j.before[i]
      <4>1. /\ m.files = disk[m.part].table
            /\ IF m.files[i].size > 0 THEN copy[i].buf /\ copy[i].data = j.before[i] ELSE ~copy[i].buf
        BY <1>4, <2>3, <3>1 DEF MenuCopies
      <4>2. ReadBack(disk[m.part].area, m.files[i]) = j.before[i]
        BY <1>4, <2>3, <4>1, Two, Untouchedly
      <4>3. m.files[i] \in Entry /\ disk[m.part].area \in Sectored
        BY <1>3, MenuHere DEF Table, DiskTyped
      <4>4. j.before[i] = "none" <=> m.files[i].size = 0
        BY <4>2, <4>3, ReadBackKnown
      <4>5. m.files[i].size \in Nat
        BY <4>3 DEF Entry
      <4> QED  BY <4>1, <4>4, <4>5
    <3>3. AskedFor("menu") = [i \in F |-> IF i = IconSys THEN title
                                          ELSE IF j.before[i] = "none" THEN PrepareOSDDefaultResources[i].data
                                          ELSE j.before[i]]
      BY <1>4 DEF AskedFor, Named
    <3>4. ASSUME NEW i \in F
          PROVE  new[i].data = IF i = IconSys THEN title
                               ELSE IF j.before[i] = "none" THEN PrepareOSDDefaultResources[i].data
                               ELSE j.before[i]
      <4>1. CASE i = IconSys
        BY <4>1 DEF Allocated
      <4>2. CASE i # IconSys
        BY <3>2, <4>2
      <4> QED  BY <4>1, <4>2
    <3> HIDE DEF new
    <3> QED  BY <3>3, <3>4 DEF Named
  <2>4. AskedFor("menu")' = AskedFor("menu")
    BY <1>2, Two, SameWanted
  <2> HIDE DEF new
  <2>5. Clear("menu")' => Rightly("menu")'
    BY <1>2, <1>4, <1>5, <2>1, <2>2, <2>3, <2>4 DEF Rightly
  <2>6. Told("menu")'
    BY <1>2, <1>4, <2>5 DEF Told
  <2>7. MenuAsked'
    BY <2>1 DEF MenuAsked
  <2> QED  BY <1>1, <2>6, <2>7, MenuMoved
<1> QED  BY <1>2, <1>6, <1>7

LEMMA AskedMenu ==
  ASSUME Shape, AreaInv, NothingInv, AskedInv, MenuActing
  PROVE  AskedInv'
  BY AskedDialog, AskedMenuRetitles, AskedMenuInstalls, AskedMenuDone, AskedUpdateFiles
  DEF MenuActing, MenuStep

(* A step of the server or the client, which keeps what is said of the     *)
(* menu. *)
ServiceActing ==
  \/ ServiceStep \/ ClientStep \/ ClientComes \/ ClientGone
  \/ \E p, title, src, save : ClientRetitles(p, title) \/ ClientInstalls(p, title, src, save)

LEMMA ServiceKeeps ==
  ASSUME Shape, AreaInv, ServiceActing
  PROVE  Kept("menu") /\ copy' = copy
<1>1. Quiet("service")
  BY QuietService, QuietClient DEF ServiceActing
<1>2. JobsTyped
  BY DEF Shape
<1>3. ASSUME NEW p, NEW title, NEW src, NEW save, Asks("service", p, title, src, save)
      PROVE  job'["menu"] = job["menu"] /\ last'["menu"] = last["menu"]
  BY <1>2, <1>3, Two DEF Asks, JobsTyped
<1>4. ASSUME NEW ok, Tells("service", ok)
      PROVE  last'["menu"] = last["menu"]
  BY <1>2, <1>4, Two DEF Tells, JobsTyped
<1>5. /\ job'["menu"] = job["menu"] /\ last'["menu"] = last["menu"]
      /\ loadFailed => loadFailed'
      /\ copy' = copy
  <2>1. CASE ServiceStep
    <3>1. CASE \/ InitDefaultOSDResources \/ OSDResourceLoadInit \/ ResourceArrives \/ ResourceLost
               \/ WriteOSDResources \/ ResourcesWritten \/ CancelOSDResourceWrite
               \/ ReadingRequest \/ ReadingAnswered
      BY <3>1 DEF InitDefaultOSDResources, OSDResourceLoadInit, ResourceArrives, ResourceLost,
         WriteOSDResources, ResourcesWritten, CancelOSDResourceWrite, ReadingRequest, ReadingAnswered,
         ghosts, mem
    <3>2. CASE InitOSDResources
      <4>1. /\ UNCHANGED <<copy, last, loadFailed>>
            /\ job' = job \/ \E save : job' = [job EXCEPT !["service"].save = save]
        BY <3>2 DEF InitOSDResources
      <4> QED  BY <1>2, <4>1, Two DEF JobsTyped
    <3>3. CASE CleanupClientConnection
      BY <1>2, <3>3, Two DEF CleanupClientConnection, JobsTyped
    <3> QED  BY <2>1, <3>1, <3>2, <3>3 DEF ServiceStep
  <2>2. CASE ClientStep
    <3>1. PICK ok \in BOOLEAN :
            \/ InitSaveTaken(ok) \/ InitTaken(ok) \/ LoadTaken(ok) \/ CancelTaken(ok)
            \/ TitlesTaken(ok) \/ WriteTaken(ok) \/ StatTaken(ok) \/ ReadTaken(ok)
      BY <2>2, Zenon DEF ClientStep
    <3>2. \E cmd : Taken(cmd, ok)
      BY <3>1 DEF InitSaveTaken, InitTaken, LoadTaken, CancelTaken, TitlesTaken, WriteTaken, StatTaken,
         ReadTaken
    <3>3. copy' = copy
      BY <3>2 DEF Taken, mem
    <3>4. loadFailed => loadFailed'
      BY <3>1, Zenon DEF InitSaveTaken, InitTaken, LoadTaken, CancelTaken, TitlesTaken, WriteTaken,
         StatTaken, ReadTaken
    <3>5. \/ UNCHANGED <<job, last>>
          \/ \E good : End(good)
          \/ last' = last /\ job' = [job EXCEPT !["service"].src = "default"]
      BY <3>1, Zenon DEF InitSaveTaken, InitTaken, LoadTaken, CancelTaken, TitlesTaken, WriteTaken,
         StatTaken, ReadTaken, Continue
    <3>6. ASSUME NEW good, End(good)
          PROVE  job'["menu"] = job["menu"] /\ last'["menu"] = last["menu"]
      BY <1>4, <3>6 DEF End
    <3>7. job' = [job EXCEPT !["service"].src = "default"] => job'["menu"] = job["menu"]
      BY <1>2, Two DEF JobsTyped
    <3> QED  BY <3>3, <3>4, <3>5, <3>6, <3>7
  <2>3. CASE ClientComes \/ ClientGone
    BY <2>3 DEF ClientComes, ClientGone, ghosts, mem
  <2>4. CASE \E p, title, src, save : ClientRetitles(p, title) \/ ClientInstalls(p, title, src, save)
    <3>1. UNCHANGED <<copy, loadFailed>> /\ \E p, title, src, save : Asks("service", p, title, src, save)
      BY <2>4 DEF ClientRetitles, ClientInstalls, mem
    <3> QED  BY <1>3, <3>1
  <2> QED  BY <2>1, <2>2, <2>3, <2>4 DEF ServiceActing
<1> QED  BY <1>1, <1>5, Two, KeptQuiet

LEMMA AnswersThen ==
  ASSUME NEW result \in {"ok", "icon", "fail"}, Answers(result)
  PROVE  ans'.result = result /\ ans' # NoAns /\ (Answer' <=> result # "fail")
<1>1. ans'.result = result /\ NoAns.result = "none"
  BY DEF Answers, NoAns
<1>2. ans' # NoAns
  BY <1>1
<1> QED  BY <1>1, <1>2 DEF Answer

(* The client waits, and the server's thread has done something. *)
LEMMA Serves ==
  ASSUME Shape, AreaInv, AskedInv, ServiceActing, NEW c, c = Call.cmd, cl.at = "waits",
         UNCHANGED <<cl, loadFailed>>, last'["service"] = last["service"],
         job'["service"].src = job["service"].src,
         ~loadFailed /\ task' # 0 => task' = job'["service"].part,
         th'["service"].at \notin {"read", "end"} \cup Opened,
         th'["service"].at = "stat" => /\ th'["service"].part = job'["service"].part
                                       /\ th'["service"].i = Call.i,
         th'["service"].at = "open" /\ Clear("service")' =>
           th'["service"].part = job'["service"].part
           /\ Named(res'["service"]) = AskedFor("service")',
         Clear("service")' => Served(c)'
  PROVE  AskedInv'
<1>1. Asking /\ Call' = Call
  BY DEF AskedInv, Call
<1>2. last'["service"] = "none" /\ Ways(c)'
  BY <1>1 DEF Asking, Ways
<1>3. Told("service")'
  BY <1>2, Two, ToldNew
<1>4. Asking'
  BY <1>1, <1>2 DEF Asking
<1> QED  BY <1>3, <1>4, ServiceKeeps, ServiceMoved

(* The first call that was to come has been made. *)
LEMMA TailLoads ==
  ASSUME NEW s \in Seq(Calls), s # << >>, NEW f, NEW now, NEW new, Brings(s, f), Covers(s, now, f),
         \A i \in F : new[i] = f[i] \/ (new[i] = now[i] /\ ~(Head(s).cmd = "load" /\ Head(s).i = i))
  PROVE  Brings(Tail(s), f) /\ Covers(Tail(s), new, f)
<1>1. PICK n \in Nat : Len(s) = n + 1
  BY None
<1>2. /\ Head(s) = s[1] /\ Len(Tail(s)) = n
      /\ \A k \in 1 .. n : Tail(s)[k] = s[k + 1] /\ k + 1 \in 1 .. Len(s)
      /\ \A k \in 1 .. Len(s) : k # 1 => k - 1 \in 1 .. n /\ Tail(s)[k - 1] = s[k]
  BY <1>1
<1>3. Brings(Tail(s), f)
  BY <1>2 DEF Brings
<1>4. ASSUME NEW i \in F, new[i] # f[i]
      PROVE  \E k \in 1 .. Len(Tail(s)) : Tail(s)[k].cmd = "load" /\ Tail(s)[k].i = i
  <2>1. new[i] = now[i] /\ ~(Head(s).cmd = "load" /\ Head(s).i = i)
    BY <1>4
  <2>2. PICK k \in 1 .. Len(s) : s[k].cmd = "load" /\ s[k].i = i
    BY <1>4, <2>1 DEF Covers
  <2>3. k # 1
    BY <1>2, <2>1, <2>2
  <2>4. PICK m \in 1 .. n : Tail(s)[m] = s[k]
    BY <1>2, <2>3
  <2>5. Tail(s)[m].cmd = "load" /\ Tail(s)[m].i = i
    BY <2>2, <2>4
  <2> QED  BY <1>2, <2>5
<1> QED  BY <1>3, <1>4 DEF Covers

LEMMA AskedNamed ==
  ASSUME NEW t
  PROVE  AskedFor(t) = [i \in F |-> AskedFor(t)[i]]
<1>1. CASE job[t].src = "title"
  BY <1>1 DEF AskedFor
<1>2. CASE job[t].src # "title"
  <2>1. \E save, title : AskedFor(t) = Named(PrepareOSDResources(save, title))
    BY <1>2 DEF AskedFor
  <2> QED  BY <2>1 DEF Named
<1> QED  BY <1>1, <1>2

(* A resource that is loaded is the one that was asked for. *)
LEMMA LoadingThen ==
  ASSUME Shape, AskedInv, NEW c \in {"init", "initdef", "load", "write"}, c = Call.cmd,
         th["service"].at \in {"idle", "payload"}, ans = NoAns, Clear("service")
  PROVE  /\ cl.todo \in Seq(Calls) /\ cl.todo # << >> /\ Head(cl.todo) = Call
         /\ Brings(cl.todo, AskedFor("service"))
         /\ Covers(cl.todo, IF c \in {"init", "initdef"} THEN Base(c) ELSE Named(res["service"]),
                   AskedFor("service"))
<1>1. c \in Cmds
  BY DEF Cmds
<1>2. cl.todo \in Seq(Calls) /\ cl.todo # << >> /\ Head(cl.todo) = Call /\ cl.at = "waits"
  BY <1>1, Waiting
<1>3. Served(c)
  BY <1>2 DEF AskedInv, Asking
<1>4. Filling(c)
  BY DEF Filling
<1>5. Loading
  BY <1>3, <1>4 DEF Served
<1>6. Coming = cl.todo
  BY DEF Coming
<1>7. Now = IF c \in {"init", "initdef"} THEN Base(c) ELSE Named(res["service"])
  BY DEF Now
<1> QED  BY <1>2, <1>5, <1>6, <1>7 DEF Loading

LEMMA ServedThen ==
  ASSUME NEW c \in {"init", "initdef", "load"}, ans' # NoAns, cl' = cl, AskedFor("service")' = AskedFor("service"),
         Brings(Tail(cl.todo), AskedFor("service")),
         Covers(Tail(cl.todo), Named(res'["service"]), AskedFor("service"))
  PROVE  Served(c)'
<1>1. Coming' = Tail(cl.todo) /\ Now' = Named(res'["service"])
  BY DEF Coming, Now, Named
<1>2. Loading'
  BY <1>1 DEF Loading, Brings, Covers
<1> QED  BY <1>2 DEF Served, Reads

LEMMA AskedInitDefault ==
  ASSUME Shape, AreaInv, NothingInv, AskedInv, InitDefaultOSDResources
  PROVE  AskedInv'
<1> DEFINE f == AskedFor("service")
<1>1. /\ Asked("initdef") /\ UNCHANGED <<th, cl, job, last, alone, loadFailed>>
      /\ \/ Answers("fail") /\ UNCHANGED <<res, task>>
         \/ /\ res' = [res EXCEPT !["service"] = PrepareOSDDefaultResources]
            /\ task' = job["service"].part /\ Answers("ok")
  BY DEF InitDefaultOSDResources, ghosts
<1>2. PICK c : c = "initdef"
  OBVIOUS
<1>3. c \in Cmds /\ cl.at = "waits" /\ Call.cmd = c /\ th["service"].at = "idle" /\ ans = NoAns
  BY <1>1, <1>2, AskedThen DEF Cmds
<1>4. (Clear("service")' <=> Clear("service")) /\ AskedFor("service")' = f
  BY <1>1, Two, SameWanted DEF Clear, DeleteIconMisplaced
<1>5. ~loadFailed /\ task' # 0 => task' = job'["service"].part
  BY <1>1 DEF AskedInv, Asking
<1>6. ASSUME Clear("service")' PROVE Served(c)'
  <2>1. CASE Answers("fail")
    <3>1. ~Answer' /\ ans' # NoAns
      BY <2>1, AnswersThen
    <3> QED  BY <1>2, <3>1 DEF Served, Filling, Reads
  <2>2. CASE res' = [res EXCEPT !["service"] = PrepareOSDDefaultResources] /\ Answers("ok")
    <3>1. ans' # NoAns
      BY <2>2, AnswersThen
    <3>2. res'["service"] = PrepareOSDDefaultResources
      BY <2>2, ServiceHere, Two DEF ListsTyped
    <3>3. /\ cl.todo \in Seq(Calls) /\ cl.todo # << >> /\ Head(cl.todo) = Call
          /\ Brings(cl.todo, f) /\ Covers(cl.todo, Base(c), f)
      BY <1>2, <1>3, <1>4, <1>6, LoadingThen
    <3>4. Base(c) = Named(res'["service"])
      BY <1>2, <3>2 DEF Base
    <3>5. Head(cl.todo).cmd # "load"
      BY <1>2, <1>3, <3>3
    <3>6. Brings(Tail(cl.todo), f) /\ Covers(Tail(cl.todo), Named(res'["service"]), f)
      BY <3>3, <3>4, <3>5, TailLoads
    <3> QED  BY <1>1, <1>2, <1>4, <3>1, <3>6, ServedThen
  <2> QED  BY <1>1, <2>1, <2>2
<1>7. ServiceActing
  BY DEF ServiceActing, ServiceStep
<1> QED  BY <1>1, <1>3, <1>5, <1>6, <1>7, Serves DEF Opened

LEMMA AskedInitResources ==
  ASSUME Shape, AreaInv, NothingInv, AskedInv, InitOSDResources
  PROVE  AskedInv'
<1> DEFINE f == AskedFor("service")
           title == job["service"].title
<1>1. PICK c \in {"init", "initsave"} : Asked(c) /\ Call.cmd = c
  BY DEF InitOSDResources, Asked
<1>2. /\ c \in Cmds /\ cl.at = "waits" /\ th["service"].at = "idle" /\ ans = NoAns
      /\ JobsTyped /\ ListsTyped
  BY <1>1, AskedThen, ServiceHere DEF Cmds
<1>3. /\ UNCHANGED <<th, cl, last, alone, loadFailed>>
      /\ \/ Answers("fail") /\ UNCHANGED <<res, task, job>>
         \/ /\ task' = job["service"].part
            /\ \E result \in {"ok", "icon"} : Answers(result)
            /\ \E save : /\ res' = [res EXCEPT !["service"] = PrepareOSDResources(save, title)]
                         /\ c = "init" => save = "none"
                         /\ job' = [job EXCEPT !["service"].save = IF c = "initsave" THEN save ELSE @]
  BY <1>1 DEF InitOSDResources
<1>4. CASE Answers("fail") /\ UNCHANGED <<res, task, job>>
  <2>1. ~Answer' /\ ans' # NoAns
    BY <1>4, AnswersThen
  <2>2. Served(c)'
    BY <1>1, <2>1 DEF Served, Filling, Reads
  <2>3. ~loadFailed /\ task' # 0 => task' = job'["service"].part
    BY <1>4 DEF AskedInv, Asking
  <2>4. ServiceActing
    BY DEF ServiceActing, ServiceStep
  <2> QED  BY <1>1, <1>2, <1>3, <1>4, <2>2, <2>3, <2>4, Serves DEF Opened
<1>5. CASE /\ task' = job["service"].part
           /\ \E result \in {"ok", "icon"} : Answers(result)
           /\ \E save : /\ res' = [res EXCEPT !["service"] = PrepareOSDResources(save, title)]
                        /\ c = "init" => save = "none"
                        /\ job' = [job EXCEPT !["service"].save = IF c = "initsave" THEN save ELSE @]
  <2>1. PICK save : /\ res' = [res EXCEPT !["service"] = PrepareOSDResources(save, title)]
                    /\ c = "init" => save = "none"
                    /\ job' = [job EXCEPT !["service"].save = IF c = "initsave" THEN save ELSE @]
    BY <1>5
  <2>2. ans' # NoAns
    BY <1>5, AnswersThen
  <2>3. res'["service"] = PrepareOSDResources(save, title)
    BY <1>2, <2>1, Two DEF ListsTyped
  <2>4. /\ job'["service"].src = job["service"].src /\ job'["service"].part = job["service"].part
        /\ job'["service"].title = title
        /\ c = "initsave" => job'["service"].save = save
        /\ c = "init" => job'["service"] = job["service"]
    BY <1>2, <2>1, Two DEF JobsTyped
  <2>5. ASSUME Clear("service")' PROVE Served(c)'
    <3>1. CASE c = "init"
      <4>1. Clear("service") /\ AskedFor("service")' = f
        BY <1>3, <2>4, <2>5, <3>1, Two, SameWanted DEF Clear, DeleteIconMisplaced
      <4>2. /\ cl.todo \in Seq(Calls) /\ cl.todo # << >> /\ Head(cl.todo) = Call
            /\ Brings(cl.todo, f) /\ Covers(cl.todo, Base(c), f)
        BY <1>1, <1>2, <3>1, <4>1, LoadingThen
      <4>3. Base(c) = Named(res'["service"])
        BY <2>1, <2>3, <3>1 DEF Base
      <4>4. Head(cl.todo).cmd # "load"
        BY <1>1, <3>1, <4>2
      <4>5. Brings(Tail(cl.todo), f) /\ Covers(Tail(cl.todo), Named(res'["service"]), f)
        BY <4>2, <4>3, <4>4, TailLoads
      <4> QED  BY <1>3, <2>2, <3>1, <4>1, <4>5, ServedThen
    <3>2. CASE c = "initsave"
      <4>1. job["service"].src = "save"
        BY <1>1, <1>2, <3>2 DEF AskedInv, Asking, Ways
      <4>2. AskedFor("service")' = Named(PrepareOSDResources(save, title))
        BY <2>4, <3>2, <4>1 DEF AskedFor
      <4>3. Named(res'["service"]) = AskedFor("service")'
        BY <2>3, <4>2
      <4> QED  BY <3>2, <4>3 DEF Served, Filling, Reads, Named
    <3> QED  BY <1>1, <3>1, <3>2
  <2>6. ServiceActing
    BY DEF ServiceActing, ServiceStep
  <2> QED  BY <1>1, <1>2, <1>3, <1>5, <2>4, <2>5, <2>6, Serves DEF Opened
<1> QED  BY <1>3, <1>4, <1>5

LEMMA AskedLoadInit ==
  ASSUME Shape, AreaInv, NothingInv, AskedInv, OSDResourceLoadInit
  PROVE  AskedInv'
<1> DEFINE f == AskedFor("service")
<1>1. /\ Asked("load") /\ UNCHANGED <<disk, res, task, cl, job, last, alone, loadFailed>>
      /\ \/ /\ ans' = ans
            /\ th' = [th EXCEPT !["service"].at = "payload", !["service"].i = Call.i]
         \/ Answers("fail") /\ th' = th
  BY DEF OSDResourceLoadInit, disks, ghosts
<1>2. PICK c : c = "load"
  OBVIOUS
<1>3. c \in Cmds /\ cl.at = "waits" /\ Call.cmd = c /\ th["service"].at = "idle" /\ ans = NoAns /\ ThreadsTyped
  BY <1>1, <1>2, AskedThen DEF Cmds, Shape
<1>4. (Clear("service")' <=> Clear("service")) /\ AskedFor("service")' = f
  BY <1>1, Two, SameWanted DEF Clear, DeleteIconMisplaced
<1>5. ~loadFailed /\ task' # 0 => task' = job'["service"].part
  BY <1>1 DEF AskedInv, Asking
<1>6. th'["service"].at \in {"idle", "payload"}
  BY <1>1, <1>3, Two DEF ThreadsTyped, Where
<1>7. ASSUME Clear("service")' PROVE Served(c)'
  <2>1. CASE Answers("fail")
    <3>1. ~Answer' /\ ans' # NoAns
      BY <2>1, AnswersThen
    <3> QED  BY <1>2, <3>1 DEF Served, Filling, Reads
  <2>2. CASE ans' = ans
    <3>1. Served(c)
      BY <1>3, <1>4, <1>7 DEF AskedInv, Asking
    <3>2. Filling(c)
      BY <1>2, <1>3 DEF Filling
    <3>3. Loading
      BY <3>1, <3>2 DEF Served
    <3>4. Coming' = Coming /\ Now' = Now
      BY <1>1, <2>2 DEF Coming, Now, Base, Call
    <3>5. Loading'
      BY <1>4, <3>3, <3>4 DEF Loading
    <3> QED  BY <1>2, <3>5 DEF Served, Reads
  <2> QED  BY <1>1, <2>1, <2>2
<1>8. ServiceActing
  BY DEF ServiceActing, ServiceStep
<1> QED  BY <1>1, <1>3, <1>5, <1>6, <1>7, <1>8, Serves DEF Opened

LEMMA AskedArrives ==
  ASSUME Shape, AreaInv, NothingInv, AskedInv, ResourceArrives
  PROVE  AskedInv'
<1> DEFINE f == AskedFor("service")
           now == Named(res["service"])
           new == Named(res'["service"])
<1>1. /\ th["service"].at = "payload" /\ cl.at = "waits" /\ Goes("service", "idle") /\ Answers("ok")
      /\ res' = [res EXCEPT !["service"][Call.i] = Allocated(Call.data, Call.size)]
      /\ UNCHANGED <<task, cl, job, last, alone, loadFailed>>
  BY DEF ResourceArrives, LoadOSDResource, ghosts
<1>2. PICK c : c = "load"
  OBVIOUS
<1>3. c \in Cmds /\ Call.cmd = c /\ ans = NoAns /\ ListsTyped /\ Call \in Calls
  <2>1. c \in Cmds /\ Call.cmd = c
    BY <1>1, <1>2, ServiceHere
  <2> QED  BY <1>1, <2>1, ServiceHere, Waiting
<1>4. (Clear("service")' <=> Clear("service")) /\ AskedFor("service")' = f
  BY <1>1, Two, SameWanted DEF Clear, DeleteIconMisplaced
<1>5. ~loadFailed /\ task' # 0 => task' = job'["service"].part
  BY <1>1 DEF AskedInv, Asking
<1>6. th'["service"].at = "idle"
  BY <1>1, ServiceHere, Two, GoesTo
<1>7. ASSUME Clear("service")' PROVE Served(c)'
  <2>1. ans' # NoAns
    BY <1>1, AnswersThen
  <2>2. /\ cl.todo \in Seq(Calls) /\ cl.todo # << >> /\ Head(cl.todo) = Call
        /\ Brings(cl.todo, f) /\ Covers(cl.todo, now, f)
    BY <1>1, <1>2, <1>3, <1>4, <1>7, LoadingThen
  <2>3. Call.data = f[Call.i]
    <3>1. PICK n \in Nat : Len(cl.todo) = n + 1
      BY <2>2, None
    <3>2. 1 \in 1 .. Len(cl.todo) /\ cl.todo[1] = Call
      BY <2>2, <3>1
    <3> QED  BY <1>2, <1>3, <2>2, <3>2 DEF Brings
  <2>4. ASSUME NEW i \in F
        PROVE  new[i] = IF i = Call.i THEN Call.data ELSE now[i]
    <3>1. Call.i \in F
      BY <1>3 DEF Calls
    <3>2. res'["service"][i] = IF i = Call.i THEN Allocated(Call.data, Call.size) ELSE res["service"][i]
      BY <1>1, <1>3, <3>1, Two DEF ListsTyped
    <3> QED  BY <3>2 DEF Named, Allocated
  <2> HIDE DEF new, now
  <2>5. \A i \in F : new[i] = f[i] \/ (new[i] = now[i] /\ ~(Call.cmd = "load" /\ Call.i = i))
    BY <2>3, <2>4
  <2>6. Brings(Tail(cl.todo), f) /\ Covers(Tail(cl.todo), new, f)
    BY <2>2, <2>5, TailLoads
  <2> QED  BY <1>1, <1>2, <1>4, <2>1, <2>6, ServedThen DEF new
<1>8. ServiceActing
  BY DEF ServiceActing, ServiceStep
<1> QED  BY <1>1, <1>3, <1>5, <1>6, <1>7, <1>8, Serves DEF Opened

LEMMA AskedLost ==
  ASSUME Shape, AreaInv, NothingInv, AskedInv, ResourceLost
  PROVE  AskedInv'
<1>1. /\ cl.at = "gone" /\ th["service"].at = "payload" /\ Goes("service", "idle")
      /\ UNCHANGED <<disk, res, task, cl, ans, job, last, alone, loadFailed>>
  BY DEF ResourceLost, disks, ghosts
<1>2. th'["service"].at = "idle"
  BY <1>1, ServiceHere, Two, GoesTo
<1>3. Clear("service")' <=> Clear("service")
  BY <1>1 DEF Clear, DeleteIconMisplaced
<1>4. Told("service")'
  BY <1>1, <1>2, <1>3, Two, ToldClosed DEF AskedInv, Opened
<1>5. Asking'
  BY <1>1, <1>2 DEF AskedInv, Asking
<1>6. ServiceActing
  BY DEF ServiceActing, ServiceStep
<1> QED  BY <1>4, <1>5, <1>6, ServiceKeeps, ServiceMoved

LEMMA AskedWrites ==
  ASSUME Shape, AreaInv, NothingInv, AskedInv, WriteOSDResources
  PROVE  AskedInv'
<1> DEFINE f == AskedFor("service")
<1>1. /\ Asked("write") /\ UNCHANGED <<disk, res, task, cl, job, last, alone, loadFailed>>
      /\ \/ /\ ans' = ans /\ task # 0
            /\ Begins("service", "open", "write", task)
         \/ Answers("fail") /\ th' = th
  BY DEF WriteOSDResources, disks, mem, ghosts
<1>2. PICK c : c = "write"
  OBVIOUS
<1>3. /\ c \in Cmds /\ cl.at = "waits" /\ Call.cmd = c /\ th["service"].at = "idle" /\ ans = NoAns
      /\ cl.todo \in Seq(Calls) /\ Planned(cl.todo) /\ Call = Head(cl.todo)
  BY <1>1, <1>2, AskedThen DEF Cmds
<1>4. (Clear("service")' <=> Clear("service")) /\ AskedFor("service")' = f
  BY <1>1, Two, SameWanted DEF Clear, DeleteIconMisplaced
<1>5. ~loadFailed /\ task' # 0 => task' = job'["service"].part
  BY <1>1 DEF AskedInv, Asking
<1>6. ServiceActing
  BY DEF ServiceActing, ServiceStep
<1>7. CASE Answers("fail") /\ th' = th
  <2>1. ~Answer' /\ ans' # NoAns
    BY <1>7, AnswersThen
  <2>2. Served(c)'
    BY <1>2, <2>1 DEF Served, Filling, Reads
  <2> QED  BY <1>1, <1>3, <1>5, <1>6, <1>7, <2>2, Serves DEF Opened
<1>8. CASE ans' = ans /\ task # 0 /\ Begins("service", "open", "write", task)
  <2>1. th'["service"].at = "open" /\ th'["service"].part = task
    BY <1>8, ServiceHere, Two, BeginsThen
  <2>2. ASSUME Clear("service")' PROVE th'["service"].part = job'["service"].part /\ Named(res'["service"]) = f
    <3>1. Covers(cl.todo, Named(res["service"]), f)
      BY <1>2, <1>3, <1>4, <2>2, LoadingThen
    <3>2. ASSUME NEW k \in 1 .. Len(cl.todo) PROVE cl.todo[k].cmd # "load"
      <4>1. cl.todo # << >> /\ Tail(cl.todo) = << >> /\ Tail(cl.todo) \in Seq(Calls)
        BY <1>2, <1>3, PlanSteps
      <4>2. Len(Tail(cl.todo)) = 0
        BY <4>1, None
      <4>3. Len(cl.todo) = 1 /\ cl.todo[1] = Call
        BY <1>3, <4>1, <4>2
      <4>4. k = 1
        BY <4>3
      <4> QED  BY <1>2, <1>3, <4>3, <4>4
    <3>3. \A i \in F : Named(res["service"])[i] = f[i]
      BY <3>1, <3>2 DEF Covers
    <3>4. Named(res["service"]) = [i \in F |-> Named(res["service"])[i]] /\ f = [i \in F |-> f[i]]
      BY AskedNamed DEF Named
    <3>5. Named(res["service"]) = f
      BY <3>3, <3>4
    <3>6. ~loadFailed
      BY <2>2, <1>4 DEF Clear
    <3> QED  BY <1>1, <1>5, <1>8, <2>1, <3>5, <3>6
  <2>3. Served(c)'
    <3>1. ~Answer'
      BY <1>3, <1>8 DEF Answer
    <3> QED  BY <1>2, <2>1, <3>1 DEF Served, Filling, Reads
  <2> QED  BY <1>1, <1>3, <1>4, <1>5, <1>6, <2>1, <2>2, <2>3, Serves DEF Opened
<1> QED  BY <1>1, <1>7, <1>8

LEMMA AskedWritten ==
  ASSUME Shape, AreaInv, NothingInv, AskedInv, ResourcesWritten
  PROVE  AskedInv'
<1> DEFINE s == th["service"]
<1>1. /\ s.at = "end" /\ s.doing = "write" /\ Begins("service", "idle", "none", 0) /\ task' = 0
      /\ UNCHANGED <<disk, cl, job, last, alone, loadFailed>>
      /\ \E result \in {"ok", "fail"} : Answers(result) /\ (result = "ok" => s.ok)
  BY DEF ResourcesWritten, disks, ghosts
<1>2. PICK c : c = "write"
  OBVIOUS
<1>3. Call.cmd = c /\ cl.at = "waits" /\ th'["service"].at = "idle"
  BY <1>1, <1>2, ServiceHere, Two, BeginsThen
<1>4. Clear("service")' <=> Clear("service")
  BY <1>1 DEF Clear, DeleteIconMisplaced
<1>5. ans' # NoAns /\ (Answer' => s.ok)
  BY <1>1, AnswersThen
<1>6. ASSUME Clear("service")' PROVE Served(c)'
  <2>1. s.ok => Finished("service")
    BY <1>1, <1>4, <1>6, Two DEF AskedInv, Told, Rightly
  <2>2. Finished("service")' <=> Finished("service")
    BY <1>1, Two, SameFinished
  <2> QED  BY <1>2, <1>5, <2>1, <2>2 DEF Served, Filling, Reads
<1>7. ServiceActing
  BY DEF ServiceActing, ServiceStep
<1> QED  BY <1>1, <1>3, <1>6, <1>7, Serves DEF Opened

LEMMA AskedCancel ==
  ASSUME Shape, AreaInv, NothingInv, AskedInv, CancelOSDResourceWrite
  PROVE  AskedInv'
<1>1. /\ Asked("cancel") /\ UNCHANGED <<th, cl, job, last, alone, loadFailed>> /\ task' = 0
  BY DEF CancelOSDResourceWrite, ghosts
<1>2. PICK c : c = "cancel"
  OBVIOUS
<1>3. c \in Cmds /\ cl.at = "waits" /\ Call.cmd = c /\ th["service"].at = "idle"
  BY <1>1, <1>2, AskedThen DEF Cmds
<1>4. Served(c)'
  BY <1>2 DEF Served, Filling, Reads
<1>5. ServiceActing
  BY DEF ServiceActing, ServiceStep
<1> QED  BY <1>1, <1>3, <1>4, <1>5, Serves DEF Opened

LEMMA AskedReading ==
  ASSUME Shape, AreaInv, NothingInv, AskedInv, ReadingRequest
  PROVE  AskedInv'
<1> DEFINE j == job["service"]
<1>1. PICK c \in {"stat", "read", "titles"} :
        /\ Asked(c)
        /\ th' = [th EXCEPT !["service"] = [Resting EXCEPT !.at = "stat", !.doing = c,
                                              !.part = j.part, !.i = Call.i]]
  BY DEF ReadingRequest
<1>2. UNCHANGED <<disk, res, task, cl, ans, job, last, alone, loadFailed>>
  BY DEF ReadingRequest, disks, mem, ghosts
<1>3. c \in Cmds /\ cl.at = "waits" /\ Call.cmd = c /\ ans = NoAns /\ ThreadsTyped
  BY <1>1, AskedThen DEF Cmds, Shape
<1>4. th'["service"].at = "stat" /\ th'["service"].part = j.part /\ th'["service"].i = Call.i
  BY <1>1, <1>3, Two DEF ThreadsTyped, Resting
<1>5. ~loadFailed /\ task' # 0 => task' = job'["service"].part
  BY <1>2 DEF AskedInv, Asking
<1>6. ASSUME Clear("service")' PROVE Served(c)'
  <2>1. Clear("service") /\ (Untouched("service")' <=> Untouched("service"))
    BY <1>2, <1>6, Two, SameFinished DEF Clear, DeleteIconMisplaced
  <2>2. ReadAsked(c)
    BY <1>1, <1>3, <2>1 DEF AskedInv, Asking, Served, Reads
  <2>3. ReadAsked(c)'
    BY <1>2, <1>3, <1>4, <2>1, <2>2 DEF ReadAsked, Answer
  <2> QED  BY <1>1, <2>3 DEF Served, Filling
<1>7. ServiceActing
  BY DEF ServiceActing, ServiceStep
<1> QED  BY <1>2, <1>3, <1>4, <1>5, <1>6, <1>7, Serves DEF Opened

LEMMA AskedAnswered ==
  ASSUME Shape, AreaInv, NothingInv, AskedInv, ReadingAnswered
  PROVE  AskedInv'
<1> DEFINE s == th["service"]
<1>1. /\ s.at = "end" /\ s.doing \in {"stat", "read", "titles"} /\ Begins("service", "idle", "none", 0)
      /\ ans' = [result |-> IF s.ok THEN "ok" ELSE "fail", data |-> s.data, files |-> s.files]
      /\ UNCHANGED <<disk, res, task, cl, job, last, alone, loadFailed>>
  BY DEF ReadingAnswered, disks, mem, ghosts
<1>2. PICK c : c = s.doing
  OBVIOUS
<1>3. Call.cmd = c /\ cl.at = "waits" /\ th'["service"].at = "idle" /\ c \in Reads
  BY <1>1, <1>2, ServiceHere, Two, BeginsThen DEF Reads
<1>4. (Answer' => s.ok) /\ ans'.data = s.data /\ ans'.files = s.files
  BY <1>1 DEF Answer
<1>5. ~loadFailed /\ task' # 0 => task' = job'["service"].part
  BY <1>1 DEF AskedInv, Asking
<1>6. ASSUME Clear("service")' PROVE Served(c)'
  <2>1. Clear("service") /\ (Untouched("service")' <=> Untouched("service"))
    BY <1>1, <1>6, Two, SameFinished DEF Clear, DeleteIconMisplaced
  <2>2. ReadAsked(c)
    BY <1>3, <2>1 DEF AskedInv, Asking, Served
  <2>3. Call' = Call
    BY <1>1 DEF Call
  <2>4. ReadAsked(c)'
    BY <1>1, <1>3, <1>4, <2>1, <2>2, <2>3 DEF ReadAsked
  <2> QED  BY <1>3, <2>4 DEF Served, Filling, Reads
<1>7. ServiceActing
  BY DEF ServiceActing, ServiceStep
<1> QED  BY <1>1, <1>3, <1>5, <1>6, <1>7, Serves DEF Opened

LEMMA AskedCleanup ==
  ASSUME Shape, AreaInv, NothingInv, AskedInv, CleanupClientConnection
  PROVE  AskedInv'
<1>1. /\ th["service"].at = "idle" /\ th' = th /\ task' = 0 /\ cl' = Away
      /\ last' = [last EXCEPT !["service"] = "none"] /\ alone' = [alone EXCEPT !["service"] = FALSE]
  BY DEF CleanupClientConnection
<1>2. last'["service"] = "none" /\ ~alone'["service"] /\ cl'.at = "away" /\ cl'.copy = NoFiles
  BY <1>1, ServiceHere, Two DEF JobsTyped, AreaInv, AloneTyped, Away
<1>3. Told("service")'
  BY <1>1, <1>2, Two, ToldNew DEF Opened
<1>4. Asking'
  BY <1>1, <1>2 DEF Asking
<1>5. ServiceActing
  BY DEF ServiceActing, ServiceStep
<1> QED  BY <1>3, <1>4, <1>5, ServiceKeeps, ServiceMoved

LEMMA AskedService ==
  ASSUME Shape, AreaInv, NothingInv, AskedInv, ServiceStep
  PROVE  AskedInv'
  BY AskedInitDefault, AskedInitResources, AskedLoadInit, AskedArrives, AskedLost, AskedWrites,
     AskedWritten, AskedCancel, AskedReading, AskedAnswered, AskedCleanup DEF ServiceStep

(* A step of the client, after which it waits, or has been answered for    *)
(* the last time. *)
LEMMA Takes ==
  ASSUME Shape, AreaInv, AskedInv, ServiceActing, th' = th, th["service"].at = "idle", NEW c,
         cl'.at = "waits", Head(cl'.todo).cmd = c, last'["service"] = "none",
         ~loadFailed' /\ task' # 0 => task' = job'["service"].part,
         c \in {"titles", "stat"} => cl'.copy = NoFiles,
         Ways(c)', Clear("service")' => Served(c)'
  PROVE  AskedInv'
<1>1. Told("service")'
  BY Two, ToldNew DEF Opened
<1>2. Call'.cmd = c
  BY DEF Call
<1>3. Asking'
  BY <1>2 DEF Asking
<1> QED  BY <1>1, <1>3, ServiceKeeps, ServiceMoved

LEMMA TakenClear ==
  ASSUME Shape, AskedInv, NEW cmd \in Cmds, NEW ok, Taken(cmd, ok), loadFailed => loadFailed'
  PROVE  /\ job' = job => /\ Clear("service")' => Clear("service")
                          /\ AskedFor("service")' = AskedFor("service")
                          /\ Untouched("service")' <=> Untouched("service")
                          /\ Finished("service")' <=> Finished("service")
         /\ job'["service"].part = job["service"].part =>
              (~loadFailed' /\ task' # 0 => task' = job'["service"].part)
         /\ Clear("service") => Served(cmd)
         /\ ans # NoAns /\ (ok <=> Answer)
         /\ th' = th /\ th["service"].at = "idle" /\ last["service"] = "none" /\ Ways(cmd)
<1>1. /\ cl.at = "waits" /\ Call.cmd = cmd /\ UNCHANGED <<disk, th, task>> /\ th["service"].at = "idle"
  BY TakenThen
<1>2. alone' = alone /\ ans # NoAns /\ (ok <=> ans.result # "fail")
  BY DEF Taken
<1>3. /\ ~loadFailed /\ task # 0 => task = job["service"].part
      /\ last["service"] = "none" /\ Ways(cmd) /\ (Clear("service") => Served(cmd))
  BY <1>1 DEF AskedInv, Asking
<1>4. ASSUME job' = job
      PROVE  /\ Clear("service")' => Clear("service")
             /\ AskedFor("service")' = AskedFor("service")
             /\ Untouched("service")' <=> Untouched("service")
             /\ Finished("service")' <=> Finished("service")
  BY <1>1, <1>2, <1>4, Two, SameWanted, SameFinished DEF Clear, DeleteIconMisplaced
<1>5. ok <=> Answer
  BY <1>2 DEF Answer
<1> QED  BY <1>1, <1>2, <1>3, <1>4, <1>5

LEMMA TakesLast ==
  ASSUME Shape, AreaInv, AskedInv, ServiceActing, NEW cmd \in Cmds, NEW ok, Taken(cmd, ok),
         NEW good, End(good), loadFailed => loadFailed',
         good /\ Clear("service") => Finished("service")
  PROVE  AskedInv'
<1>1. /\ cl' = [Away EXCEPT !.at = "idle"] /\ Tells("service", good) /\ job' = job
  BY DEF End
<1>2. /\ Clear("service")' => Clear("service")
      /\ Finished("service")' <=> Finished("service")
      /\ ~loadFailed' /\ task' # 0 => task' = job'["service"].part
      /\ th' = th /\ th["service"].at = "idle"
  BY <1>1, TakenClear
<1>3. last'["service"] \in {"ok", "icon"} => good
  BY <1>1, ServiceHere, Two DEF Tells, JobsTyped
<1>4. Told("service")'
  BY <1>2, <1>3 DEF Told, Rightly, Opened
<1>5. cl'.at = "idle" /\ cl'.copy = NoFiles
  BY <1>1 DEF Away
<1>6. Asking'
  BY <1>2, <1>5 DEF Asking
<1> QED  BY <1>4, <1>6, ServiceKeeps, ServiceMoved

LEMMA ServedNext ==
  ASSUME NEW c \in {"init", "initdef", "load", "write"}, cl'.at = "waits", Head(cl'.todo).cmd = c,
         ans' = NoAns, Brings(cl'.todo, AskedFor("service")'),
         Covers(cl'.todo, IF c \in {"init", "initdef"} THEN Base(c)' ELSE Named(res["service"])',
                AskedFor("service")')
  PROVE  Served(c)'
<1>1. Coming' = cl'.todo /\ ~Answer' /\ Call'.cmd = c
  BY DEF Coming, Answer, Call
<1>2. Now' = IF c \in {"init", "initdef"} THEN Base(c)' ELSE Named(res["service"])'
  BY <1>1 DEF Now
<1>3. Loading'
  BY <1>1, <1>2 DEF Loading, Brings, Covers
<1> QED  BY <1>1, <1>3 DEF Served, Reads

LEMMA AskedWriteTaken ==
  ASSUME Shape, AreaInv, NothingInv, AskedInv, NEW ok \in BOOLEAN, WriteTaken(ok)
  PROVE  AskedInv'
<1>1. Taken("write", ok) /\ End(ok) /\ loadFailed' = loadFailed /\ "write" \in Cmds
  BY DEF WriteTaken, Cmds
<1>2. ok /\ Clear("service") => Finished("service")
  BY <1>1, TakenClear DEF Served
<1>3. ServiceActing
  BY DEF ServiceActing, ClientStep
<1> QED  BY <1>1, <1>2, <1>3, TakesLast

LEMMA AskedInitLoadTaken ==
  ASSUME Shape, AreaInv, NothingInv, AskedInv, NEW ok \in BOOLEAN, InitTaken(ok) \/ LoadTaken(ok)
  PROVE  AskedInv'
<1> DEFINE f == AskedFor("service")
<1>1. PICK cmd \in {"init", "initdef", "load"} : Taken(cmd, ok)
  BY DEF InitTaken, LoadTaken
<1>2. /\ loadFailed => loadFailed'
      /\ Continue(<< >>) \/ End(FALSE)
      /\ ok \/ loadFailed' \/ End(FALSE)
  <2>1. CASE InitTaken(ok)
    BY <2>1, Zenon DEF InitTaken
  <2>2. CASE LoadTaken(ok)
    BY <2>2, Zenon DEF LoadTaken
  <2> QED  BY <2>1, <2>2
<1>3. ServiceActing
  BY DEF ServiceActing, ClientStep
<1>4. CASE End(FALSE)
  BY <1>1, <1>2, <1>3, <1>4, TakesLast DEF Cmds
<1>5. CASE Continue(<< >>) /\ ~End(FALSE)
  <2>1. loadFailed => loadFailed'
    BY <1>2
  <2>2. cmd \in Cmds
    BY DEF Cmds
  <2>3. job' = job /\ last' = last
    BY <1>5 DEF Continue
  <2>4. /\ Clear("service")' => Clear("service") /\ Served(cmd)
        /\ AskedFor("service")' = f
        /\ ~loadFailed' /\ task' # 0 => task' = job'["service"].part
        /\ ans # NoAns /\ (ok <=> Answer) /\ th' = th /\ th["service"].at = "idle" /\ last["service"] = "none"
    BY <1>1, <2>1, <2>2, <2>3, TakenClear
  <2>5. /\ cl'.at = "waits" /\ cl'.todo = Tail(cl.todo) /\ ans' = NoAns /\ res' = res
    <3>1. Tail(cl.todo) \in Seq(Calls)
      BY <1>1, <2>2, TakenThen, PlanSteps
    <3> QED  BY <1>1, <1>5, <2>2, <3>1, ContinuesThen, TakenThen, Lefts
  <2>6. PICK c \in {"load", "write"} : c = Head(cl'.todo).cmd
    BY <1>1, <1>5, WritesNext
  <2>7. ASSUME Clear("service")' PROVE Served(c)'
    <3>1. ok
      BY <1>2, <1>5, <2>7 DEF Clear
    <3>2. Filling(cmd)
      BY <2>4, <3>1 DEF Filling
    <3>3. Loading
      BY <2>4, <2>7, <3>2 DEF Served
    <3>4. Coming = Tail(cl.todo) /\ Now = Named(res["service"])
      BY <2>4 DEF Coming, Now
    <3>5. Brings(cl'.todo, AskedFor("service")') /\ Covers(cl'.todo, Named(res["service"])', AskedFor("service")')
      BY <2>4, <2>5, <3>3, <3>4 DEF Loading, Named
    <3> QED  BY <2>5, <2>6, <3>5, ServedNext
  <2>8. Ways(c)'
    BY <2>6 DEF Ways, Reads
  <2> QED  BY <1>3, <2>3, <2>4, <2>5, <2>6, <2>7, <2>8, Takes
<1> QED  BY <1>2, <1>4, <1>5

(* A plan in which nothing is loaded. *)
LEMMA NoLoads ==
  ASSUME NEW s \in Seq(Calls), \A k \in 1 .. Len(s) : s[k].cmd # "load", NEW f, NEW now,
         \A i \in F : now[i] = f[i]
  PROVE  Brings(s, f) /\ Covers(s, now, f)
  BY DEF Brings, Covers

LEMMA InitThenWrite ==
  /\ <<Req("init"), Req("write")>> \in Seq(Calls) /\ Head(<<Req("init"), Req("write")>>).cmd = "init"
  /\ \A k \in 1 .. Len(<<Req("init"), Req("write")>>) : <<Req("init"), Req("write")>>[k].cmd # "load"
<1>1. Req("init") \in Calls /\ Req("write") \in Calls /\ Req("init").cmd = "init" /\ Req("write").cmd = "write"
  BY Requests DEF Cmds
<1> QED  BY <1>1

LEMMA AskedCancelTaken ==
  ASSUME Shape, AreaInv, NothingInv, AskedInv, NEW ok \in BOOLEAN, CancelTaken(ok)
  PROVE  AskedInv'
<1>1. Taken("cancel", ok) /\ Continue(<< >>) /\ loadFailed' = loadFailed /\ "cancel" \in Cmds
  BY DEF CancelTaken, Cmds
<1>2. job' = job /\ last' = last
  BY <1>1 DEF Continue
<1>3. /\ ~loadFailed' /\ task' # 0 => task' = job'["service"].part
      /\ th' = th /\ th["service"].at = "idle" /\ last["service"] = "none" /\ Ways("cancel")
  BY <1>1, <1>2, TakenClear
<1>4. cl'.at = "waits" /\ cl'.todo = <<Req("init"), Req("write")>> /\ ans' = NoAns
  <2>1. Tail(cl.todo) = <<Req("init"), Req("write")>>
    BY <1>1, TakenThen, PlanSteps
  <2>2. Tail(cl.todo) \o << >> = Tail(cl.todo)
    BY <2>1, InitThenWrite, Lefts
  <2>3. cl'.at = "waits" /\ cl'.todo = Tail(cl.todo) \o << >>
    BY <1>1, ContinuesThen
  <2>4. ans' = NoAns
    BY <1>1, TakenThen
  <2> QED  BY <2>1, <2>2, <2>3, <2>4
<1>5. PICK c : c = "init"
  OBVIOUS
<1>6. Head(cl'.todo).cmd = c
  BY <1>4, <1>5, InitThenWrite
<1>7. job'["service"].src = "default" /\ Ways(c)'
  BY <1>2, <1>3, <1>5 DEF Ways, Reads
<1>8. AskedFor("service")' = Base(c)'
  BY <1>5, <1>7 DEF AskedFor, Base
<1>9. Served(c)'
  <2>1. /\ Brings(cl'.todo, AskedFor("service")')
        /\ Covers(cl'.todo, Base(c)', AskedFor("service")')
    BY <1>4, <1>8, InitThenWrite, NoLoads
  <2> QED  BY <1>4, <1>5, <1>6, <2>1, ServedNext
<1>10. ServiceActing
  BY DEF ServiceActing, ClientStep
<1> QED  BY <1>2, <1>3, <1>4, <1>5, <1>6, <1>7, <1>9, <1>10, Takes

LEMMA AskedTitlesTaken ==
  ASSUME Shape, AreaInv, NothingInv, AskedInv, NEW ok \in BOOLEAN, TitlesTaken(ok)
  PROVE  AskedInv'
<1>1. Taken("titles", ok) /\ Continue(<< >>) /\ loadFailed' = loadFailed /\ "titles" \in Cmds
  BY DEF TitlesTaken, Cmds
<1>2. job' = job /\ last' = last
  BY <1>1 DEF Continue
<1>3. /\ ~loadFailed' /\ task' # 0 => task' = job'["service"].part
      /\ th' = th /\ th["service"].at = "idle" /\ last["service"] = "none" /\ Ways("titles")
      /\ Clear("service")' => Clear("service") /\ Served("titles")
      /\ Untouched("service")' <=> Untouched("service")
  BY <1>1, <1>2, TakenClear
<1>4. cl'.at = "waits" /\ cl'.todo = <<Req("stat")>> /\ ans' = NoAns /\ cl'.copy = NoFiles
  <2>1. Tail(cl.todo) = <<Req("stat")>> /\ <<Req("stat")>> \in Seq(Calls)
    BY <1>1, TakenThen, PlanSteps
  <2>2. cl.copy = NoFiles
    BY <1>1, TakenThen DEF AskedInv, Asking
  <2>3. cl'.copy = cl.copy
    BY <1>1 DEF Continue, Shape, ClientTyped
  <2> QED  BY <1>1, <2>1, <2>2, <2>3, ContinuesThen, TakenThen, Lefts
<1>5. PICK c : c = "stat"
  OBVIOUS
<1>6. Head(cl'.todo).cmd = c
  <2>1. Req("stat").cmd = "stat"
    BY DEF Req
  <2> QED  BY <1>4, <1>5, <2>1
<1>7. Ways(c)'
  BY <1>2, <1>3, <1>5 DEF Ways, Reads
<1>8. ASSUME Clear("service")' PROVE Served(c)'
  <2>1. Untouched("service")'
    BY <1>3, <1>8 DEF Served, Reads, ReadAsked
  <2>2. ~Answer' /\ th'["service"].at = "idle"
    BY <1>3, <1>4 DEF Answer
  <2>3. ReadAsked(c)'
    BY <1>5, <2>1, <2>2 DEF ReadAsked
  <2> QED  BY <1>5, <2>3 DEF Served, Filling
<1>9. ServiceActing
  BY DEF ServiceActing, ClientStep
<1> QED  BY <1>2, <1>3, <1>4, <1>6, <1>7, <1>8, <1>9, Takes

LEMMA AskedInitSaveTaken ==
  ASSUME Shape, AreaInv, NothingInv, AskedInv, NEW ok \in BOOLEAN, InitSaveTaken(ok)
  PROVE  AskedInv'
<1> DEFINE f == AskedFor("service")
<1>1. /\ Taken("initsave", ok) /\ "initsave" \in Cmds /\ loadFailed' = loadFailed
      /\ \/ ans.result = "icon" /\ Continue(<<Req("write")>>)
         \/ /\ cl' = [cl EXCEPT !.todo = <<Req("cancel"), Req("init"), Req("write")>>]
            /\ job' = [job EXCEPT !["service"].src = "default"] /\ last' = last
  BY DEF InitSaveTaken, Cmds
<1>2. cl.at = "waits" /\ ans' = NoAns /\ res' = res /\ Tail(cl.todo) = << >> /\ JobsTyped
  BY <1>1, TakenThen, PlanSteps DEF Shape
<1>3. ServiceActing
  BY DEF ServiceActing, ClientStep
<1>4. CASE ans.result = "icon" /\ Continue(<<Req("write")>>)
  <2>1. job' = job /\ last' = last
    BY <1>4 DEF Continue
  <2>2. /\ Clear("service")' => Clear("service") /\ Served("initsave")
        /\ AskedFor("service")' = f /\ ans # NoAns
        /\ ~loadFailed' /\ task' # 0 => task' = job'["service"].part
        /\ th' = th /\ th["service"].at = "idle" /\ last["service"] = "none"
    BY <1>1, <2>1, TakenClear
  <2>3. <<Req("write")>> \in Seq(Calls) /\ Req("write").cmd = "write"
    BY Requests DEF Cmds
  <2>4. cl'.at = "waits" /\ cl'.todo = <<Req("write")>>
    BY <1>1, <1>2, <1>4, <2>3, ContinuesThen, Lefts
  <2>5. PICK c : c = "write"
    OBVIOUS
  <2>6. Head(cl'.todo).cmd = c
    BY <2>3, <2>4, <2>5
  <2>7. ASSUME Clear("service")' PROVE Served(c)'
    <3>1. Named(res["service"])' = f
      BY <1>2, <1>4, <2>2, <2>7 DEF Served, Answer, Named
    <3>2. \A k \in 1 .. Len(cl'.todo) : cl'.todo[k].cmd # "load"
      BY <2>3, <2>4
    <3>3. Brings(cl'.todo, AskedFor("service")') /\ Covers(cl'.todo, Named(res["service"])', AskedFor("service")')
      BY <2>2, <2>3, <2>4, <3>1, <3>2, NoLoads
    <3> QED  BY <1>2, <2>4, <2>5, <2>6, <3>3, ServedNext
  <2>8. Ways(c)'
    BY <2>5 DEF Ways, Reads
  <2> QED  BY <1>3, <2>1, <2>2, <2>4, <2>5, <2>6, <2>7, <2>8, Takes
<1>5. CASE /\ cl' = [cl EXCEPT !.todo = <<Req("cancel"), Req("init"), Req("write")>>]
           /\ job' = [job EXCEPT !["service"].src = "default"] /\ last' = last
  <2>1. job'["service"].src = "default" /\ job'["service"].part = job["service"].part
    BY <1>2, <1>5, Two DEF JobsTyped
  <2>2. /\ ~loadFailed' /\ task' # 0 => task' = job'["service"].part
        /\ th' = th /\ th["service"].at = "idle" /\ last["service"] = "none"
    BY <1>1, <2>1, TakenClear
  <2>3. PICK c : c = "cancel"
    OBVIOUS
  <2>4. cl'.at = "waits" /\ Head(cl'.todo).cmd = c
    <3>1. cl'.at = "waits" /\ cl'.todo = <<Req("cancel"), Req("init"), Req("write")>>
      BY <1>2, <1>5 DEF Shape, ClientTyped
    <3>2. Req("cancel").cmd = "cancel"
      BY DEF Req
    <3> QED  BY <2>3, <3>1, <3>2
  <2>5. Ways(c)' /\ Served(c)'
    BY <2>1, <2>3 DEF Ways, Reads, Served, Filling
  <2> QED  BY <1>3, <1>5, <2>2, <2>3, <2>4, <2>5, Takes
<1> QED  BY <1>1, <1>4, <1>5

(* What is said of the calls to come, by what they are. *)
LEMMA ItemsSaid ==
  ASSUME NEW s
  PROVE  /\ \A f : Brings(s, f) <=> \A x \in Items(s) : x.cmd = "load" => x.data = f[x.i]
         /\ \A now, f : Covers(s, now, f) <=>
              \A i \in F : now[i] = f[i] \/ \E x \in Items(s) : x.cmd = "load" /\ x.i = i
         /\ \A have, before : Missing(s, have, before) <=>
              \A i \in F : IF before[i] = "none"
                           THEN have[i].size = 0 /\ \A x \in Items(s) : x.i # i
                           ELSE \/ have[i].size > 0 /\ have[i].data = before[i]
                                \/ \E x \in Items(s) : x.i = i
<1>1. \A f : Brings(s, f) <=> \A x \in Items(s) : x.cmd = "load" => x.data = f[x.i]
  BY DEF Brings, Items
<1>2. ASSUME NEW i
      PROVE  /\ (\E k \in 1 .. Len(s) : s[k].i = i) <=> \E x \in Items(s) : x.i = i
             /\ (\E k \in 1 .. Len(s) : s[k].cmd = "load" /\ s[k].i = i)
                  <=> \E x \in Items(s) : x.cmd = "load" /\ x.i = i
             /\ (\A k \in 1 .. Len(s) : s[k].i # i) <=> \A x \in Items(s) : x.i # i
  BY Zenon DEF Items
<1>3. ASSUME NEW now, NEW f
      PROVE  Covers(s, now, f) <=>
               \A i \in F : now[i] = f[i] \/ \E x \in Items(s) : x.cmd = "load" /\ x.i = i
  BY <1>2, Zenon DEF Covers
<1>4. ASSUME NEW have, NEW before
      PROVE  Missing(s, have, before) <=>
               \A i \in F : IF before[i] = "none"
                            THEN have[i].size = 0 /\ \A x \in Items(s) : x.i # i
                            ELSE \/ have[i].size > 0 /\ have[i].data = before[i]
                                 \/ \E x \in Items(s) : x.i = i
  <2> DEFINE Old(i) == IF before[i] = "none"
                       THEN have[i].size = 0 /\ \A k \in 1 .. Len(s) : s[k].i # i
                       ELSE \/ have[i].size > 0 /\ have[i].data = before[i]
                            \/ \E k \in 1 .. Len(s) : s[k].i = i
             New(i) == IF before[i] = "none"
                       THEN have[i].size = 0 /\ \A x \in Items(s) : x.i # i
                       ELSE \/ have[i].size > 0 /\ have[i].data = before[i]
                            \/ \E x \in Items(s) : x.i = i
  <2>1. ASSUME NEW i \in F PROVE Old(i) <=> New(i)
    BY <1>2
  <2>2. Missing(s, have, before) <=> \A i \in F : Old(i)
    BY DEF Missing
  <2> HIDE DEF Old, New
  <2>3. Missing(s, have, before) <=> \A i \in F : New(i)
    BY <2>1, <2>2
  <2> QED  BY <2>3 DEF New
<1> QED  BY <1>1, <1>3, <1>4

LEMMA AskedStatTaken ==
  ASSUME Shape, AreaInv, NothingInv, AskedInv, NEW ok \in BOOLEAN, StatTaken(ok)
  PROVE  AskedInv'
<1> DEFINE j == job["service"]
<1>1. Taken("stat", ok) /\ loadFailed' = loadFailed /\ "stat" \in Cmds /\ ans.files \in Table
  BY StatTakenThen DEF Cmds
<1>2. PICK files \in Table : files = ans.files
  BY <1>1
<1>3. PICK all : all = Joined(ReadsOf(files))
  OBVIOUS
<1>4. (ok /\ all # << >> /\ Continue(all)) \/ End(FALSE)
  BY <1>2, <1>3, StatTakenThen
<1>5. ServiceActing
  BY DEF ServiceActing, ClientStep
<1>6. CASE End(FALSE)
  BY <1>1, <1>5, <1>6, TakesLast
<1>7. CASE ok /\ all # << >> /\ Continue(all)
  <2>1. job' = job /\ last' = last
    BY <1>7 DEF Continue
  <2>2. /\ Clear("service")' => Clear("service") /\ Served("stat") /\ Answer
        /\ Untouched("service")' <=> Untouched("service")
        /\ ~loadFailed' /\ task' # 0 => task' = job'["service"].part
        /\ th' = th /\ th["service"].at = "idle" /\ last["service"] = "none" /\ Ways("stat")
    BY <1>1, <1>7, <2>1, TakenClear
  <2>3. /\ all \in Seq(ReadCalls)
        /\ \A i \in F : (\E x \in Items(all) : x.i = i) <=> files[i].size > 0
    BY <1>3, ReadsMade
  <2>4. cl'.at = "waits" /\ cl'.todo = all /\ cl'.copy = NoFiles /\ ans' = NoAns
    <3>1. cl.at = "waits" /\ Call.cmd = "stat" /\ Tail(cl.todo) = << >> /\ ans' = NoAns
      BY <1>1, TakenThen, PlanSteps
    <3>2. cl.copy = NoFiles
      BY <3>1 DEF AskedInv, Asking
    <3>3. cl'.copy = cl.copy
      BY <1>7 DEF Continue, Shape, ClientTyped
    <3>4. all \in Seq(Calls)
      BY <2>3, Requests
    <3>5. cl'.at = "waits" /\ cl'.todo = Tail(cl.todo) \o all
      BY <1>1, <1>7, ContinuesThen
    <3>6. cl'.todo = all
      BY <3>1, <3>4, <3>5, Lefts
    <3> QED  BY <3>1, <3>2, <3>3, <3>5, <3>6
  <2>5. PICK c : c = "read"
    OBVIOUS
  <2>6. Head(cl'.todo).cmd = c
    <3>1. Head(all) \in ReadCalls
      BY <1>7, <2>3
    <3>2. Head(all).cmd = "read"
      BY <3>1 DEF ReadCalls
    <3> QED  BY <2>4, <2>5, <3>2
  <2>7. Ways(c)'
    BY <2>1, <2>2, <2>5 DEF Ways, Reads
  <2>8. ASSUME Clear("service")' PROVE Served(c)'
    <3>1. Untouched("service") /\ files = disk[j.part].table
      BY <1>2, <2>2, <2>8 DEF Served, Reads, ReadAsked
    <3>2. Missing(all, NoFiles, j.before)
      <4>1. ASSUME NEW i \in F PROVE j.before[i] = "none" <=> files[i].size = 0
        <5>1. ReadBack(disk[j.part].area, files[i]) = j.before[i]
          BY <3>1, Two, Untouchedly
        <5>2. files[i] \in Entry /\ disk[j.part].area \in Sectored
          <6>1. j.part \in Parts
            BY <1>1, TakenThen
          <6> QED  BY <6>1 DEF Shape, DiskTyped, Table
        <5> QED  BY <5>1, <5>2, ReadBackKnown
      <4>2. ASSUME NEW i \in F PROVE files[i].size \in Nat /\ NoFiles[i].size = 0
        BY FileSizes DEF Table, Entry, NoFiles, Static
      <4>3. ASSUME NEW i \in F
            PROVE  IF j.before[i] = "none"
                   THEN NoFiles[i].size = 0 /\ \A x \in Items(all) : x.i # i
                   ELSE \E x \in Items(all) : x.i = i
        BY <2>3, <4>1, <4>2
      <4> QED  BY <4>3, ItemsSaid
    <3>3. Untouched("service")' /\ ~Answer' /\ th'["service"].at = "idle"
      BY <2>2, <2>4, <3>1 DEF Answer
    <3>4. Missing(cl'.todo, cl'.copy, job'["service"].before)
      BY <2>1, <2>4, <3>2
    <3>5. ReadAsked(c)'
      BY <2>5, <3>3, <3>4 DEF ReadAsked, Missing
    <3> QED  BY <2>5, <3>5 DEF Served, Filling
  <2> QED  BY <1>5, <2>1, <2>2, <2>4, <2>5, <2>6, <2>7, <2>8, Takes
<1> QED  BY <1>4, <1>6, <1>7

LEMMA ItemsLeft ==
  ASSUME NEW s \in Seq(Calls), s # << >>
  PROVE  \A x : x \in Items(s) <=> x = Head(s) \/ x \in Items(Tail(s))
<1>1. PICK n \in Nat : n = Len(s)
  OBVIOUS
<1>2. /\ n >= 1 /\ Head(s) = s[1] /\ Len(Tail(s)) = n - 1
      /\ \A k \in 1 .. n - 1 : Tail(s)[k] = s[k + 1]
  BY <1>1
<1>3. \A k \in 1 .. n : k = 1 \/ (k - 1 \in 1 .. n - 1 /\ (k - 1) + 1 = k)
  BY <1>2
<1>4. \A k \in 1 .. n - 1 : k + 1 \in 1 .. n
  OBVIOUS
<1>5. ASSUME NEW x \in Items(s) PROVE x = Head(s) \/ x \in Items(Tail(s))
  <2>1. PICK k \in 1 .. n : x = s[k]
    BY <1>1 DEF Items
  <2>2. CASE k = 1
    BY <1>2, <2>1, <2>2
  <2>3. CASE k - 1 \in 1 .. n - 1 /\ (k - 1) + 1 = k
    <3>1. PICK l \in 1 .. n - 1 : l + 1 = k
      BY <2>3
    <3>2. x = Tail(s)[l]
      BY <1>2, <2>1, <3>1
    <3> QED  BY <1>2, <3>1, <3>2 DEF Items
  <2> QED  BY <1>3, <2>2, <2>3
<1>6. ASSUME NEW x \in Items(Tail(s)) PROVE x \in Items(s)
  <2>1. PICK k \in 1 .. n - 1 : x = Tail(s)[k]
    BY <1>2 DEF Items
  <2>2. PICK l \in 1 .. n : l = k + 1
    BY <1>4
  <2>3. x = s[l]
    BY <1>2, <2>1, <2>2
  <2> QED  BY <1>1, <2>2, <2>3 DEF Items
<1>7. Head(s) \in Items(s)
  BY <1>1, <1>2 DEF Items
<1> QED  BY <1>5, <1>6, <1>7

LEMMA FilledThen ==
  ASSUME NEW s \in Seq(Calls), s # << >>, Head(s) \in ReadCalls, NEW have \in [F -> Resources],
         NEW before, Missing(s, have, before)
  PROVE  Missing(Tail(s), Filled(have, Head(s), before[Head(s).i]), before)
<1>1. PICK r \in ReadCalls : r = Head(s)
  OBVIOUS
<1>2. PICK k \in F : k = r.i
  BY DEF ReadCalls
<1>3. PICK new : new = Filled(have, r, before[k])
  OBVIOUS
<1>4. \A x : x \in Items(s) <=> x = r \/ x \in Items(Tail(s))
  BY <1>1, ItemsLeft
<1>5. ASSUME NEW i \in F
      PROVE  IF before[i] = "none"
             THEN have[i].size = 0 /\ \A x \in Items(s) : x.i # i
             ELSE \/ have[i].size > 0 /\ have[i].data = before[i]
                  \/ \E x \in Items(s) : x.i = i
  <2>1. CASE before[i] = "none"
    BY <2>1 DEF Missing, Items
  <2>2. CASE before[i] # "none"
    BY <2>2 DEF Missing, Items
  <2> QED  BY <2>1, <2>2
<1>6. before[k] # "none"
  BY <1>2, <1>4, <1>5
<1>7. new[k].size > 0 /\ new[k].data = before[k]
  <2>1. r.size \in Nat \ {0}
    BY DEF ReadCalls
  <2>2. new[k] = [data |-> before[k], size |-> r.size, buf |-> FALSE]
    BY <1>2, <1>3, <1>6 DEF Filled
  <2> QED  BY <2>1, <2>2
<1>8. ASSUME NEW i \in F
      PROVE  IF before[i] = "none"
             THEN new[i].size = 0 /\ \A x \in Items(Tail(s)) : x.i # i
             ELSE \/ new[i].size > 0 /\ new[i].data = before[i]
                  \/ \E x \in Items(Tail(s)) : x.i = i
  <2>1. CASE i = k
    BY <1>6, <1>7, <2>1
  <2>2. CASE i # k
    <3>1. new[i] = have[i]
      BY <1>2, <1>3, <2>2 DEF Filled
    <3>2. r.i # i
      BY <1>2, <2>2
    <3> QED  BY <1>4, <1>5, <3>1, <3>2, Zenon
  <2> QED  BY <2>1, <2>2
<1>9. Missing(Tail(s), new, before)
  BY <1>8, ItemsSaid
<1> QED  BY <1>1, <1>2, <1>3, <1>9

(* What is loaded when all files have been read. *)
LEMMA WritesServe ==
  ASSUME NEW have \in [F -> Resources], NEW t \in T, job[t].src = "title",
         job[t].title \in GameTitles, Missing(<< >>, have, job[t].before)
  PROVE  LET all == Writes(have, job[t].title) IN
         Brings(all, AskedFor(t)) /\ Covers(all, Base("initdef"), AskedFor(t))
<1> DEFINE j == job[t]
           all == Writes(have, j.title)
<1>1. PICK f : f = AskedFor(t)
  OBVIOUS
<1>2. PICK now : now = Base("initdef")
  OBVIOUS
<1>3. \A i \in F : now[i] = Named(PrepareOSDDefaultResources)[i]
  BY <1>2 DEF Base
<1>4. \A i \in F : f[i] = IF i = IconSys THEN j.title
                          ELSE IF j.before[i] = "none" THEN now[i] ELSE j.before[i]
  BY <1>1, <1>3 DEF AskedFor
<1>5. \A i \in F : IF j.before[i] = "none" THEN have[i].size = 0
                   ELSE have[i].size > 0 /\ have[i].data = j.before[i]
  BY ItemsOne, ItemsSaid
<1>6. /\ \A x \in Items(all) : x.cmd = "load" =>
           \E i \in F : Loads(have, i) /\ x = LoadOf(have, j.title, i)
      /\ \A i \in F : Loads(have, i) => LoadOf(have, j.title, i) \in Items(all)
      /\ \A i \in F : LoadOf(have, j.title, i).cmd = "load" /\ LoadOf(have, j.title, i).i = i
  BY WritesMade
<1>7. \A i \in F : LoadOf(have, j.title, i).data = IF i = IconSys THEN j.title ELSE have[i].data
  BY DEF LoadOf, Load
<1> HIDE DEF j, all
<1>8. ASSUME NEW x \in Items(all), x.cmd = "load" PROVE x.data = f[x.i]
  <2>1. PICK i \in F : Loads(have, i) /\ x = LoadOf(have, j.title, i)
    BY <1>6, <1>8
  <2>2. x.i = i /\ x.data = IF i = IconSys THEN j.title ELSE have[i].data
    BY <1>6, <1>7, <2>1
  <2>3. i # IconSys => have[i].size > 0
    BY <2>1 DEF Loads
  <2>4. i # IconSys => have[i].data = f[i]
    <3>1. CASE j.before[i] = "none"
      BY <1>5, <2>3, <3>1
    <3>2. CASE j.before[i] # "none"
      BY <1>4, <1>5, <3>2
    <3> QED  BY <3>1, <3>2
  <2> QED  BY <1>4, <2>2, <2>4
<1>9. ASSUME NEW i \in F PROVE now[i] = f[i] \/ \E x \in Items(all) : x.cmd = "load" /\ x.i = i
  <2>1. CASE Loads(have, i)
    BY <1>6, <2>1
  <2>2. CASE ~Loads(have, i)
    BY <1>4, <1>5, <2>2 DEF Loads
  <2> QED  BY <2>1, <2>2
<1>10. Brings(all, f) /\ Covers(all, now, f)
  BY <1>8, <1>9, ItemsSaid
<1> QED  BY <1>1, <1>2, <1>10 DEF all, j

LEMMA AskedReadTaken ==
  ASSUME Shape, AreaInv, NothingInv, AskedInv, NEW ok \in BOOLEAN, ReadTaken(ok)
  PROVE  AskedInv'
<1> DEFINE j == job["service"]
           have == Filled(cl.copy, Call, ans.data)
<1>1. Taken("read", ok) /\ loadFailed' = loadFailed /\ "read" \in Cmds
  BY ReadTakenThen DEF Cmds
<1>2. \/ End(FALSE)
      \/ /\ ok /\ have \in [F -> Resources] /\ UNCHANGED <<job, last>>
         /\ cl'.at = "waits" /\ cl'.copy = have
         /\ cl'.todo = IF Len(cl.todo) = 1 THEN Writes(have, j.title) ELSE Tail(cl.todo)
  <2>1. PICK todo : todo = IF Len(cl.todo) = 1 THEN Writes(have, j.title) ELSE Tail(cl.todo)
    OBVIOUS
  <2>2. \/ End(FALSE)
        \/ /\ ok /\ have \in [F -> Resources] /\ UNCHANGED <<job, last>>
           /\ cl' = [cl EXCEPT !.copy = have, !.todo = todo]
    BY <2>1, ReadTakenThen
  <2> HIDE DEF have
  <2>3. cl.at = "waits" /\ ans' = NoAns /\ ClientTyped
    BY <1>1, TakenThen DEF Shape
  <2> QED  BY <2>1, <2>2, <2>3, PlanTyped
<1>3. ServiceActing
  BY DEF ServiceActing, ClientStep
<1>4. CASE End(FALSE)
  BY <1>1, <1>3, <1>4, TakesLast
<1> HIDE DEF have
<1>5. ASSUME ok, have \in [F -> Resources], UNCHANGED <<job, last>>, cl'.at = "waits", cl'.copy = have,
             cl'.todo = IF Len(cl.todo) = 1 THEN Writes(have, j.title) ELSE Tail(cl.todo)
      PROVE  AskedInv'
  <2>1. job' = job /\ last' = last
    BY <1>5
  <2>2. /\ Clear("service")' => Clear("service") /\ Served("read") /\ Answer
        /\ AskedFor("service")' = AskedFor("service")
        /\ Untouched("service")' <=> Untouched("service")
        /\ ~loadFailed' /\ task' # 0 => task' = job'["service"].part
        /\ th' = th /\ th["service"].at = "idle" /\ last["service"] = "none" /\ Ways("read")
    BY <1>1, <1>5, <2>1, TakenClear
  <2>3. /\ cl.todo \in Seq(Calls) /\ cl.todo # << >> /\ Call = Head(cl.todo) /\ Call \in ReadCalls
        /\ Tail(cl.todo) \in Seq(Calls) /\ ans' = NoAns /\ j.title \in GameTitles
        /\ Len(cl.todo) = 1 => Tail(cl.todo) = << >>
        /\ Len(cl.todo) # 1 => Reading(Tail(cl.todo))
    BY <1>1, TakenThen, PlanSteps
  <2>4. j.src = "title" /\ job'["service"] = j
    <3>1. Ways("read")
      BY <2>2
    <3> QED  BY <2>1, <3>1 DEF Ways, Reads
  <2>5. ASSUME Clear("service")' PROVE Untouched("service") /\ Missing(Tail(cl.todo), have, j.before)
    <3>1. ReadAsked("read") /\ Answer
      BY <2>2, <2>5 DEF Served, Reads
    <3>2. Untouched("service") /\ ans.data = j.before[Call.i] /\ Missing(cl.todo, cl.copy, j.before)
      BY <3>1 DEF ReadAsked
    <3>3. have = Filled(cl.copy, Head(cl.todo), j.before[Head(cl.todo).i])
      BY <2>3, <3>2 DEF have
    <3>4. cl.copy \in [F -> Resources]
      BY DEF Shape, ClientTyped
    <3>5. PICK s \in Seq(Calls) : s = cl.todo
      BY <2>3
    <3>6. PICK old \in [F -> Resources] : old = cl.copy
      BY <3>4
    <3>7. PICK before : before = j.before
      OBVIOUS
    <3>8. Missing(Tail(s), Filled(old, Head(s), before[Head(s).i]), before)
      <4>1. s # << >> /\ Head(s) \in ReadCalls /\ Missing(s, old, before)
        BY <2>3, <3>2, <3>5, <3>6, <3>7
      <4> QED  BY <4>1, FilledThen
    <3> QED  BY <3>2, <3>3, <3>5, <3>6, <3>7, <3>8
  <2>6. CASE Len(cl.todo) = 1
    <3>1. PICK c : c = "initdef"
      OBVIOUS
    <3>2. PICK all : all = Writes(have, j.title)
      OBVIOUS
    <3>3. cl'.todo = all
      BY <1>5, <2>6, <3>2
    <3>4. Head(cl'.todo).cmd = c
      <4>1. Head(Writes(have, j.title)).cmd = "initdef"
        BY <1>5, <2>3, WritesMade
      <4> QED  BY <3>1, <3>2, <3>3, <4>1
    <3>5. Ways(c)'
      BY <2>4, <3>1 DEF Ways, Reads
    <3>6. ASSUME Clear("service")' PROVE Served(c)'
      <4>1. Missing(<< >>, have, j.before)
        BY <2>3, <2>5, <2>6, <3>6
      <4>2. Brings(all, AskedFor("service")) /\ Covers(all, Base("initdef"), AskedFor("service"))
        BY <1>5, <2>3, <2>4, <3>2, <4>1, Two, WritesServe
      <4>3. Base(c)' = Base("initdef")
        BY <3>1 DEF Base
      <4>4. Brings(cl'.todo, AskedFor("service")') /\ Covers(cl'.todo, Base(c)', AskedFor("service")')
        BY <2>2, <3>3, <3>6, <4>2, <4>3
      <4> QED  BY <1>5, <2>3, <3>1, <3>4, <4>4, ServedNext
    <3> QED  BY <1>3, <1>5, <2>1, <2>2, <3>1, <3>4, <3>5, <3>6, Takes
  <2>7. CASE Len(cl.todo) # 1
    <3>1. PICK c : c = "read"
      OBVIOUS
    <3>2. cl'.todo = Tail(cl.todo)
      BY <1>5, <2>7
    <3>3. Head(cl'.todo).cmd = c
      <4>1. Head(Tail(cl.todo)) \in ReadCalls
        BY <2>3, <2>7, ReadingSteps
      <4>2. Head(Tail(cl.todo)).cmd = "read"
        BY <4>1 DEF ReadCalls
      <4> QED  BY <3>1, <3>2, <4>2
    <3>4. Ways(c)'
      BY <2>4, <3>1 DEF Ways, Reads
    <3>5. ASSUME Clear("service")' PROVE Served(c)'
      <4>1. Untouched("service")' /\ ~Answer' /\ th'["service"].at = "idle"
        BY <2>2, <2>3, <2>5, <3>5 DEF Answer
      <4>2. Missing(cl'.todo, cl'.copy, job'["service"].before)
        BY <1>5, <2>4, <2>5, <3>2, <3>5
      <4>3. ReadAsked(c)'
        BY <3>1, <4>1, <4>2 DEF ReadAsked, Missing
      <4> QED  BY <3>1, <4>3 DEF Served, Filling
    <3> QED  BY <1>3, <1>5, <2>1, <2>2, <3>1, <3>3, <3>4, <3>5, Takes
  <2> QED  BY <2>6, <2>7
<1> QED  BY <1>2, <1>4, <1>5

LEMMA AskedClient ==
  ASSUME Shape, AreaInv, NothingInv, AskedInv, ClientStep
  PROVE  AskedInv'
<1>1. PICK ok \in BOOLEAN :
         \/ InitSaveTaken(ok) \/ InitTaken(ok) \/ LoadTaken(ok) \/ CancelTaken(ok)
         \/ TitlesTaken(ok) \/ WriteTaken(ok) \/ StatTaken(ok) \/ ReadTaken(ok)
  BY DEF ClientStep
<1>2. CASE InitSaveTaken(ok)
  BY <1>2, AskedInitSaveTaken
<1>3. CASE InitTaken(ok) \/ LoadTaken(ok)
  BY <1>3, AskedInitLoadTaken
<1>4. CASE CancelTaken(ok)
  BY <1>4, AskedCancelTaken
<1>5. CASE TitlesTaken(ok)
  BY <1>5, AskedTitlesTaken
<1>6. CASE WriteTaken(ok)
  BY <1>6, AskedWriteTaken
<1>7. CASE StatTaken(ok)
  BY <1>7, AskedStatTaken
<1>8. CASE ReadTaken(ok)
  BY <1>8, AskedReadTaken
<1> QED  BY <1>1, <1>2, <1>3, <1>4, <1>5, <1>6, <1>7, <1>8

(* The user of the client. *)
LEMMA AskedComesGone ==
  ASSUME Shape, AreaInv, NothingInv, AskedInv, ClientComes \/ ClientGone
  PROVE  AskedInv'
<1>1. ServiceActing
  BY DEF ServiceActing
<1>2. UNCHANGED <<disk, res, th, task, job, last, alone, loadFailed>>
  BY DEF ClientComes, ClientGone, disks, mem, ghosts
<1>3. Told("service")'
  <2>1. th["service"].at \notin {"open"} \cup Opened
    BY DEF ClientComes, ClientGone, Shape, ServicePlaced, Opened
  <2>2. Clear("service")' => Clear("service") /\ disk' = disk
    BY <1>2 DEF Clear, DeleteIconMisplaced
  <2>3. Told("service") /\ th["service"].at # "end"
    BY Two DEF ClientComes, ClientGone, Shape, ServicePlaced, AskedInv
  <2> QED  BY <1>2, <2>1, <2>2, <2>3, Two, ToldClosed
<1>4. th["service"].at \notin {"stat", "read", "end"}
  BY DEF ClientComes, ClientGone, Shape, ServicePlaced
<1>5. cl'.at # "waits" /\ cl'.copy = NoFiles
  <2>1. CASE ClientComes
    <3>1. cl.copy = NoFiles /\ cl' = [cl EXCEPT !.at = "idle"]
      BY <2>1 DEF ClientComes, AskedInv, Asking
    <3> QED  BY <3>1 DEF Shape, ClientTyped
  <2>2. CASE ClientGone
    BY <2>2 DEF ClientGone, Away
  <2> QED  BY <2>1, <2>2
<1>6. ~loadFailed /\ task # 0 => task = job["service"].part
  BY DEF AskedInv, Asking
<1>7. Asking'
  BY <1>2, <1>4, <1>5, <1>6 DEF Asking
<1> QED  BY <1>1, <1>3, <1>7, ServiceKeeps, ServiceMoved

LEMMA SendsThen ==
  ASSUME Shape, NothingInv, AskedInv, NEW p \in Parts, NEW title \in NewTitles,
         NEW src \in Sources, NEW save \in Saves, cl.at = "idle",
         Asks("service", p, title, src, save), NEW todo, Sends(todo),
         UNCHANGED <<th, task, ans, loadFailed>>
  PROVE  /\ th' = th /\ th["service"].at = "idle" /\ last'["service"] = "none"
         /\ job'["service"] = [part |-> p, title |-> title, src |-> src, save |-> save,
                               before |-> ContentsOf(p)]
         /\ cl'.at = "waits" /\ cl'.todo = todo /\ cl'.copy = NoFiles /\ ans' = NoAns
         /\ ~loadFailed' /\ task' # 0 => task' = job'["service"].part
<1>1. title \in GameTitles /\ "service" \in T
  BY OsdAssumption, Two
<1>2. /\ last'["service"] = "none"
      /\ job'["service"] = [part |-> p, title |-> title, src |-> src, save |-> save,
                            before |-> ContentsOf(p)]
  BY <1>1, AsksTyped
<1>3. th["service"].at = "idle" /\ ans = NoAns
  BY DEF Shape, ServicePlaced, Answering
<1>4. cl'.at = "waits" /\ cl'.todo = todo /\ cl'.copy = cl.copy
  BY DEF Sends, Shape, ClientTyped
<1>5. cl.copy = NoFiles
  BY DEF AskedInv, Asking
<1>6. ~loadFailed => task = 0
  BY DEF NothingInv, Freed
<1> QED  BY <1>2, <1>3, <1>4, <1>5, <1>6

LEMMA AskedClientRetitles ==
  ASSUME Shape, AreaInv, NothingInv, AskedInv, NEW p \in Parts, NEW title \in NewTitles,
         ClientRetitles(p, title)
  PROVE  AskedInv'
<1>1. PICK todo : todo = <<Req("titles"), Req("stat")>>
  OBVIOUS
<1>2. /\ cl.at = "idle" /\ Asks("service", p, title, "title", "none") /\ Sends(todo)
      /\ UNCHANGED <<disk, th, task, ans, loadFailed>>
  BY <1>1 DEF ClientRetitles, disks
<1>3. "title" \in Sources /\ "none" \in Saves
  BY DEF Sources, Saves
<1>4. /\ th' = th /\ th["service"].at = "idle" /\ last'["service"] = "none"
      /\ job'["service"] = [part |-> p, title |-> title, src |-> "title", save |-> "none",
                            before |-> ContentsOf(p)]
      /\ cl'.at = "waits" /\ cl'.todo = todo /\ cl'.copy = NoFiles /\ ans' = NoAns
      /\ ~loadFailed' /\ task' # 0 => task' = job'["service"].part
  BY <1>2, <1>3, SendsThen
<1>5. PICK c : c = "titles"
  OBVIOUS
<1>6. Head(cl'.todo).cmd = c
  <2>1. Req("titles").cmd = "titles"
    BY DEF Req
  <2> QED  BY <1>1, <1>4, <1>5, <2>1
<1>7. job'["service"].src = "title" /\ job'["service"].part = p /\ job'["service"].before = ContentsOf(p)
  BY <1>4
<1>8. Ways(c)'
  BY <1>5, <1>7 DEF Ways
<1>9. Untouched("service")'
  <2>1. ContentsOf(p)' = ContentsOf(p)
    BY <1>2, SameContents
  <2> QED  BY <1>7, <2>1 DEF Untouched
<1>10. ~Answer' /\ th'["service"].at = "idle"
  BY <1>4 DEF Answer
<1>11. ReadAsked(c)'
  BY <1>5, <1>9, <1>10 DEF ReadAsked
<1>12. Served(c)'
  BY <1>5, <1>11 DEF Served, Filling
<1>13. ServiceActing
  BY DEF ServiceActing
<1> QED  BY <1>4, <1>6, <1>8, <1>12, <1>13, Takes

(* The icon of a folder, and what it makes of the built-in files. *)
LEMMA ConvertMcSaveBrings ==
  ASSUME NEW title \in GameTitles, NEW save \in {"view", "full"}
  PROVE  LET todo == <<Req("init")>> \o ConvertMcSave(title, save) \o <<Req("write")>> IN
         /\ Head(todo).cmd = "init"
         /\ save = "view" =>
              /\ Brings(todo, Named(PrepareOSDResources(save, title)))
              /\ Covers(todo, Named(PrepareOSDResources("none", title)),
                        Named(PrepareOSDResources(save, title)))
<1> DEFINE first == <<Req("init")>>
           final == <<Req("write")>>
           loads == ConvertMcSave(title, save)
           one == Load(IconSys, title, FileSize[title])
           two == Load(ViewIcon, "saveview", FileSize["saveview"])
           begun == first \o loads
<1>1. /\ Req("init") \in Calls /\ Req("write") \in Calls
      /\ Req("init").cmd = "init" /\ Req("write").cmd = "write"
  BY Requests DEF Cmds
<1>2. /\ one \in Calls /\ two \in Calls /\ Load(ViewIcon, "savedel", FileSize["savedel"]) \in Calls
      /\ one.cmd = "load" /\ one.i = IconSys /\ one.data = title
      /\ two.cmd = "load" /\ two.i = ViewIcon /\ two.data = "saveview"
  <2>1. IconSys \in F /\ ViewIcon \in F /\ title \in Known /\ FileSize[title] \in Nat
        /\ {"saveview", "savedel"} \subseteq Known
        /\ FileSize["saveview"] \in Nat /\ FileSize["savedel"] \in Nat
    BY FileSizes DEF GameTitles, F, IconSys, ViewIcon
  <2> QED  BY <2>1, Requests DEF Load
<1>3. loads \in Seq(Calls) /\ (save = "view" => loads = <<one>> \o <<two>>)
  <2> HIDE DEF one, two
  <2>1. <<one, two>> \in Seq(Calls) /\ <<one>> \o <<two>> = <<one, two>>
    BY <1>2, Pair
  <2>2. loads = <<one, two>> \o (IF save = "full" THEN <<Load(ViewIcon, "savedel", FileSize["savedel"])>>
                                 ELSE << >>)
    BY DEF ConvertMcSave, one, two
  <2> HIDE DEF loads
  <2>3. CASE save = "view"
    <3>1. loads = <<one, two>> \o << >>
      BY <2>2, <2>3
    <3> QED  BY <2>1, <3>1, Lefts
  <2>4. CASE save = "full"
    <3>1. loads = <<one, two>> \o <<Load(ViewIcon, "savedel", FileSize["savedel"])>>
      BY <2>2, <2>4
    <3> QED  BY <1>2, <2>1, <2>4, <3>1
  <2> QED  BY <2>3, <2>4
<1> HIDE DEF loads, one, two
<1>4. /\ first \in Seq(Calls) /\ final \in Seq(Calls) /\ <<one>> \in Seq(Calls) /\ <<two>> \in Seq(Calls)
      /\ Len(first) >= 1 /\ Head(first) = Req("init")
  BY <1>1, <1>2
<1>5. /\ Items(first) = {Req("init")} /\ Items(final) = {Req("write")}
      /\ Items(<<one>>) = {one} /\ Items(<<two>>) = {two}
  BY ItemsOne
<1> HIDE DEF first, final
<1>6. begun \in Seq(Calls) /\ Items(begun) = Items(first) \cup Items(loads)
  BY <1>3, <1>4, ItemsJoined
<1>7. Len(begun) >= 1 /\ Head(begun) = Req("init")
  BY <1>3, <1>4, HeadJoined
<1> HIDE DEF begun
<1>8. Items(begun \o final) = Items(begun) \cup Items(final) /\ Head(begun \o final) = Req("init")
  BY <1>4, <1>6, <1>7, ItemsJoined, HeadJoined
<1>9. PICK todo : todo = begun \o final
  OBVIOUS
<1>10. ASSUME save = "view"
       PROVE  /\ Brings(todo, Named(PrepareOSDResources(save, title)))
              /\ Covers(todo, Named(PrepareOSDResources("none", title)),
                        Named(PrepareOSDResources(save, title)))
  <2>1. Items(loads) = {one} \cup {two}
    <3>1. PICK a \in Seq(Calls) : a = <<one>>
      BY <1>4
    <3>2. PICK b \in Seq(Calls) : b = <<two>>
      BY <1>4
    <3>3. Items(a \o b) = Items(a) \cup Items(b)
      BY ItemsJoined
    <3> QED  BY <1>3, <1>5, <1>10, <3>1, <3>2, <3>3
  <2>2. \A x : x \in Items(todo) <=> x = Req("init") \/ x = one \/ x = two \/ x = Req("write")
    BY <1>5, <1>6, <1>8, <1>9, <2>1
  <2>3. PICK f : f = Named(PrepareOSDResources(save, title))
    OBVIOUS
  <2>4. PICK now : now = Named(PrepareOSDResources("none", title))
    OBVIOUS
  <2>5. /\ f[IconSys] = title /\ f[ViewIcon] = "saveview"
        /\ \A i \in F : i # IconSys /\ i # ViewIcon => f[i] = now[i]
    BY <1>10, <2>3, <2>4
    DEF Named, PrepareOSDResources, GenerateIconFilesFromMCSave, Allocated, F, IconSys, ViewIcon, DelIcon
  <2>6. \A x \in Items(todo) : x.cmd = "load" => x.data = f[x.i]
    BY <1>1, <1>2, <2>2, <2>5
  <2>7. \A i \in F : now[i] = f[i] \/ \E x \in Items(todo) : x.cmd = "load" /\ x.i = i
    BY <1>2, <2>2, <2>5
  <2>8. Brings(todo, f) /\ Covers(todo, now, f)
    BY <2>6, <2>7, ItemsSaid
  <2> QED  BY <2>3, <2>4, <2>8
<1> QED  BY <1>1, <1>8, <1>9, <1>10 DEF begun, first, final, loads

LEMMA AskedClientInstalls ==
  ASSUME Shape, AreaInv, NothingInv, AskedInv, NEW p \in Parts, NEW title \in NewTitles,
         NEW src \in {"default", "save", "external"}, NEW save \in SavesFor(src),
         ClientInstalls(p, title, src, save)
  PROVE  AskedInv'
<1>1. PICK todo :
        todo = CASE src = "default" -> <<Req("init"), Req("write")>>
                 [] src = "save" -> <<Req("initsave")>>
                 [] src = "external" -> <<Req("init")>> \o ConvertMcSave(title, save) \o <<Req("write")>>
  OBVIOUS
<1>2. /\ cl.at = "idle" /\ Asks("service", p, title, src, save) /\ Sends(todo)
      /\ UNCHANGED <<disk, th, task, ans, loadFailed>>
      /\ src = "external" => save \in {"view", "full"}
  BY <1>1 DEF ClientInstalls, disks, VerifyMcSave
<1>3. src \in Sources /\ save \in Saves /\ title \in GameTitles
  BY OsdAssumption DEF Sources, Saves, SavesFor
<1>4. /\ th' = th /\ th["service"].at = "idle" /\ last'["service"] = "none"
      /\ job'["service"] = [part |-> p, title |-> title, src |-> src, save |-> save,
                            before |-> ContentsOf(p)]
      /\ cl'.at = "waits" /\ cl'.todo = todo /\ cl'.copy = NoFiles /\ ans' = NoAns
      /\ ~loadFailed' /\ task' # 0 => task' = job'["service"].part
  BY <1>2, <1>3, SendsThen
<1>5. job'["service"].src = src /\ job'["service"].save = save /\ job'["service"].title = title
  BY <1>4
<1>6. ServiceActing
  BY DEF ServiceActing
<1>7. PICK c : c = IF src = "save" THEN "initsave" ELSE "init"
  OBVIOUS
<1>8. Head(todo).cmd = c
  <2>1. CASE src = "default"
    BY <1>1, <1>7, <2>1, InitThenWrite
  <2>2. CASE src = "save"
    BY <1>1, <1>7, <2>2 DEF Req
  <2>3. CASE src = "external"
    BY <1>1, <1>2, <1>3, <1>7, <2>3, ConvertMcSaveBrings
  <2> QED  BY <2>1, <2>2, <2>3
<1>9. Ways(c)'
  BY <1>5, <1>7 DEF Ways, Reads
<1>10. ASSUME Clear("service")' PROVE Served(c)'
  <2>1. CASE src = "save"
    <3>1. ~Answer' /\ c = "initsave"
      BY <1>4, <1>7, <2>1 DEF Answer
    <3> QED  BY <3>1 DEF Served, Filling, Reads
  <2>2. CASE src # "save"
    <3>1. c = "init"
      BY <1>7, <2>2
    <3>2. Base(c)' = Named(PrepareOSDResources("none", title))
      BY <1>5, <3>1 DEF Base
    <3>3. AskedFor("service")' = Named(PrepareOSDResources(IF src = "default" THEN "none" ELSE save, title))
      BY <1>5, <2>2 DEF AskedFor
    <3>4. Brings(todo, AskedFor("service")') /\ Covers(todo, Base(c)', AskedFor("service")')
      <4>1. CASE src = "default"
        <5>1. AskedFor("service")' = Base(c)'
          BY <3>2, <3>3, <4>1
        <5> QED  BY <1>1, <4>1, <5>1, InitThenWrite, NoLoads
      <4>2. CASE src = "external"
        <5>1. save = "view"
          BY <1>2, <1>5, <1>10, <4>2 DEF Clear, DeleteIconMisplaced
        <5> QED  BY <1>1, <1>3, <3>2, <3>3, <4>2, <5>1, ConvertMcSaveBrings
      <4> QED  BY <2>2, <4>1, <4>2
    <3> QED  BY <1>4, <1>8, <3>1, <3>4, ServedNext
  <2> QED  BY <2>1, <2>2
<1> QED  BY <1>4, <1>6, <1>8, <1>9, <1>10, Takes

(* All together. *)
LEMMA AskedUser ==
  ASSUME Shape, AreaInv, NothingInv, AskedInv, UserStep
  PROVE  AskedInv'
<1>1. CASE MenuActing
  BY <1>1, AskedMenu
<1>2. CASE ClientComes \/ ClientGone
  BY <1>2, AskedComesGone
<1>3. CASE \E p \in Parts, title \in NewTitles : ClientRetitles(p, title)
  BY <1>3, AskedClientRetitles
<1>4. CASE \E p \in Parts, title \in NewTitles, src \in {"default", "save", "external"} :
             \E save \in SavesFor(src) : ClientInstalls(p, title, src, save)
  BY <1>4, AskedClientInstalls
<1> QED  BY <1>1, <1>2, <1>3, <1>4 DEF UserStep, MenuActing

LEMMA AskedNext ==
  ASSUME Shape, AreaInv, NothingInv, AskedInv, [OsdNext]_osdVars
  PROVE  AskedInv'
<1>1. CASE \E t \in T : ThreadStep(t)
  BY <1>1, AskedThread
<1>2. CASE MenuStep
  BY <1>2, AskedMenu DEF MenuActing
<1>3. CASE ServiceStep
  BY <1>3, AskedService
<1>4. CASE ClientStep
  BY <1>4, AskedClient
<1>5. CASE UserStep
  BY <1>5, AskedUser
<1>6. CASE UNCHANGED osdVars
  <2>1. UNCHANGED <<disk, th, res, copy, job, last, alone, loadFailed, cl, ans, task>>
    BY <1>6 DEF osdVars, disks, mem, ghosts
  <2>2. Kept("menu") /\ Kept("service")
    BY <2>1 DEF Kept, Clear, DeleteIconMisplaced
  <2>3. Told("service")' /\ Asking'
    BY <2>1, <2>2, Two, ToldKept, AskingKept DEF AskedInv
  <2> QED  BY <2>1, <2>2, <2>3, ServiceMoved
<1> QED  BY <1>1, <1>2, <1>3, <1>4, <1>5, <1>6 DEF OsdNext

LEMMA AskedInit ==
  ASSUME OsdInit
  PROVE  AskedInv
<1>1. /\ th = [t \in T |-> Resting] /\ last = [t \in T |-> "none"] /\ cl = Away /\ ans = NoAns
      /\ task = 0 /\ alone = [t \in T |-> FALSE]
  BY DEF OsdInit
<1>2. \A t \in T : th[t].at = "idle" /\ last[t] = "none" /\ ~Clear(t)
  BY <1>1 DEF Resting, Clear
<1>3. \A t \in T : Told(t)
  BY <1>2 DEF Told, Opened
<1>4. MenuAsked
  BY <1>2, Two DEF MenuAsked
<1>5. cl.at = "away" /\ cl.copy = NoFiles
  BY <1>1 DEF Away
<1>6. Asking
  BY <1>1, <1>2, <1>5, Two DEF Asking
<1> QED  BY <1>3, <1>4, <1>6 DEF AskedInv

(* What is said of the changes that are under way, AskedInv, holds on. *)
THEOREM AskedKept == OsdSpec => []AskedInv
<1>1. OsdInit => AskedInv
  BY AskedInit
<1>2. Shape /\ AreaInv /\ NothingInv /\ AskedInv /\ [OsdNext]_osdVars => AskedInv'
  BY AskedNext
<1> QED  BY <1>1, <1>2, ShapeKept, AreaKept, NothingKept, PTL DEF OsdSpec

(* Whoever is told that a change was made has the files that were asked    *)
(* for, as long as the other side installed nothing meanwhile, no resource *)
(* was lost, and the client did not load an icon in the other one's place. *)
THEOREM ChangesAsAsked == OsdSpec => []AsAsked
<1>1. AskedInv => AsAsked
  BY DEF AskedInv, Told, Clear, Finished, AsAsked
<1> QED  BY <1>1, AskedKept, PTL
=============================================================================
