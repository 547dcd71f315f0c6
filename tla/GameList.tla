------------------------------ MODULE GameList ------------------------------
(***************************************************************************)
(* The central game list, HDLGameList.c, and those who read it: the main   *)
(* menu, which keeps a pointer into it from frame to frame, and the        *)
(* service thread of the server, which loads it again when its client has  *)
(* changed the disk and sends it to the client.  A load frees the list,    *)
(* walks the directory of the disk and builds a new one, under a lock that *)
(* GetHDLGameList does not take.  At its end the menu stops the server.    *)
(***************************************************************************)
EXTENDS Integers, FiniteSets

CONSTANTS
  Games,         \* how many games the disk may hold: 1 .. Games are their names
  Displayed,     \* GAME_LIST_MAX_DISPLAYED_GAMES
  EarlyClients,  \* whether a client may come before the menu has its list
  AcceptFails,   \* whether accept() may fail and end the server loop
  MaxChanges     \* bound: how many times the disk is changed

ASSUME GameListAssumption ==
  /\ Games \in Nat \ {0} /\ Displayed \in Nat \ {0} /\ MaxChanges \in Nat
  /\ {EarlyClients, AcceptFails} \subseteq BOOLEAN

VARIABLES
  onDisk,      \* the title of each game on the disk, 0 if it is not there
  changes,     \* how many times the disk was changed
  list,        \* what CentralGameList points at
  central,     \* CentralGameList: "null" or "live"
  num,         \* NumGamesInCentralGameList
  lock,        \* who holds CentralGameListLockSemaID
  known,       \* the menu's CurrentGameListGeneration is that of the list
  needReload,  \* NeedReloadGameList
  ui,          \* where MainMenu is
  after,       \* where it goes on after a dialog and what the dialog brings
  quits,       \* done: the user has quit
  ptr,         \* its HDLGameList: "null", "live" (the central list), "freed"
  count,       \* its NumHDLGames
  sel, view,   \* SelectedGameIndex, GameListViewPortStart
  shown,       \* the game the user saw highlighted, 0 if another is selected
  sv,          \* where the service thread is
  sent,        \* how many entries it has sent
  remote,      \* RuntimeData.IsRemoteClientConnected
  awaits,      \* what the client waits for
  want, got,   \* how many entries it expects, and has
  surplus,     \* entries nobody expects
  loop,        \* the server loop: "run", "ended", or "died" of accept()
  early,       \* the list was loaded again before the menu's first frame
  halfway,     \* the disk was changed by a call that failed
  between      \* the menu loaded the list between LOAD and READ of the client

diskVars == <<onDisk, changes>>
listVars == <<list, central, num, lock>>
frame == <<after, quits>>
menuVars == <<ui, frame, ptr, count, sel, view, shown>>
servVars == <<sv, sent, remote>>
clntVars == <<awaits, want, got, surplus>>
histVars == <<early, halfway, between>>
vars == <<diskVars, listVars, known, needReload, menuVars, servVars, clntVars, loop, histVars>>

Names == 1 .. Games
Count(l) == Cardinality({g \in Names : l[g] # 0})

(* The entry at an index, which counts from 0, of the sorted list; 0 if    *)
(* there is none. *)
EntryAt(l, i) ==
  IF i >= Count(l) THEN 0
  ELSE CHOOSE g \in Names : l[g] # 0 /\ Cardinality({h \in Names : l[h] # 0 /\ h < g}) = i

(* SystemInitThread has loaded the list once, before the menu. *)
Init ==
  /\ onDisk \in [Names -> {0, 1}] /\ changes = 0
  /\ list = onDisk /\ num = Count(onDisk)
  /\ central = IF num = 0 THEN "null" ELSE "live"
  /\ lock = "free" /\ known = FALSE /\ needReload = FALSE
  /\ ui = "start" /\ after = "draw" /\ quits = FALSE
  /\ ptr = "null" /\ count = 0 /\ sel = 0 /\ view = 0 /\ shown = 0
  /\ sv = "off" /\ sent = 0 /\ remote = FALSE
  /\ awaits = "gone" /\ want = 0 /\ got = 0 /\ surplus = 0
  /\ loop = "run"
  /\ early = FALSE /\ halfway = FALSE /\ between = FALSE

Change(d) ==
  /\ changes < MaxChanges
  /\ onDisk' = d
  /\ changes' = changes + 1

Running == ui # "over"

-----------------------------------------------------------------------------
(* LoadHDLGameList, in two steps of the menu or of the service thread.     *)

(* Slip: the list's memory is used again. *)
FreeListKeeps(who) ==
  /\ lock = "free"
  /\ lock' = who
  /\ central' = "null"
  /\ UNCHANGED ptr
  /\ list' = [g \in Names |-> 0]
  /\ UNCHANGED num

(* The lock is taken and the list is freed; NumGamesInCentralGameList is   *)
(* left as it was. *)
FreeList(who) ==
  /\ lock = "free"
  /\ lock' = who
  /\ central' = "null"
  /\ ptr' = IF ptr = "live" THEN "freed" ELSE ptr
  /\ list' = [g \in Names |-> 0]
  /\ UNCHANGED num

(* Slip: the generation stays. *)
BuildListQuietly(who) ==
  /\ lock = who
  /\ lock' = "free"
  /\ list' = onDisk /\ num' = Count(onDisk)
  /\ central' = IF num' = 0 THEN "null" ELSE "live"
  /\ UNCHANGED known
  /\ early' = (early \/ ui = "space")
  /\ halfway' = FALSE
  /\ between' = (between \/ (who = "menu" /\ awaits \in {"count", "list", "recv"}))

(* The list is built from what the directory says. *)
BuildList(who) ==
  /\ lock = who
  /\ lock' = "free"
  /\ list' = onDisk /\ num' = Count(onDisk)
  /\ central' = IF num' = 0 THEN "null" ELSE "live"
  /\ known' = FALSE
  /\ early' = (early \/ ui = "space")
  /\ halfway' = FALSE
  /\ between' = (between \/ (who = "menu" /\ awaits \in {"count", "list", "recv"}))

(* GetGameListData: the selection goes back to the first game. *)
GetGameListData ==
  /\ ptr' = central /\ count' = num
  /\ sel' = 0 /\ view' = 0

-----------------------------------------------------------------------------
(* MainMenu: its start, its frames.                                        *)

(* LoadGameList gets the list, without the lock, ... *)
MenuStart ==
  /\ ui = "start"
  /\ GetGameListData
  /\ ui' = "space"
  /\ UNCHANGED <<frame, diskVars, listVars, known, needReload, shown, servVars, clntVars, loop,
                 histVars>>

(* ... asks the disk for its free space, and the generation is read then.  *)
MenuSpace ==
  /\ ui = "space"
  /\ known' = TRUE
  /\ ui' = "draw"
  /\ UNCHANGED <<frame, diskVars, listVars, needReload, ptr, count, sel, view, shown, servVars,
                 clntVars, loop, histVars>>

(* EnterRemoteClientMenu lasts while a client is connected. *)
MenuTop ==
  /\ ui = "top"
  /\ ~remote
  /\ ui' = "keys"
  /\ UNCHANGED <<frame, diskVars, listVars, known, needReload, ptr, count, sel, view, shown,
                 servVars, clntVars, loop, histVars>>

(* The direction pad moves the selection before the buttons of the frame   *)
(* are looked at: what they act on was not shown. *)
Moved(next) ==
  /\ ui' = next
  /\ shown' = IF sel' = sel THEN shown ELSE 0

KeyUp ==
  /\ ui = "keys" /\ count > 0 /\ sel > 0
  /\ sel' = sel - 1
  /\ view' = IF sel = view THEN view - 1 ELSE view
  /\ Moved("up")
  /\ UNCHANGED <<frame, diskVars, listVars, known, needReload, ptr, count, servVars, clntVars,
                 loop, histVars>>

KeyDown ==
  /\ ui \in {"keys", "up"} /\ count > 0
  /\ sel' = IF sel < count - 1 THEN sel + 1 ELSE sel
  /\ view' = IF sel' - view = Displayed THEN view + 1 ELSE view
  /\ Moved("buttons")
  /\ UNCHANGED <<frame, diskVars, listVars, known, needReload, ptr, count, servVars, clntVars,
                 loop, histVars>>

(* The button that quits goes before the others of the frame: the user     *)
(* says yes, and one more frame is drawn, or no.                           *)
CancelButton ==
  /\ ui \in {"keys", "up", "buttons"}
  /\ ui' = "draw" /\ after' = "draw"
  /\ quits' \in BOOLEAN
  /\ UNCHANGED <<diskVars, listVars, known, needReload, ptr, count, sel, view, shown,
                 servVars, clntVars, loop, histVars>>

(* START or SELECT, or neither; the buttons for the selected game are      *)
(* looked at when that is done.                                            *)
Button ==
  /\ ui \in {"keys", "up", "buttons"}
  /\ ui' \in {"install", "options", "games"} /\ after' = "games"
  /\ UNCHANGED <<quits, diskVars, listVars, known, needReload, ptr, count, sel, view, shown,
                 servVars, clntVars, loop, histVars>>

(* If there are games now, the select button, ... *)
GameButtons ==
  /\ ui = "games"
  /\ \/ count = 0 /\ ui' = "draw" /\ after' = "draw"
     \/ count > 0 /\ ui' \in {"update", "triangle"} /\ after' = "triangle"
  /\ UNCHANGED <<quits, diskVars, listVars, known, needReload, ptr, count, sel, view, shown,
                 servVars, clntVars, loop, histVars>>

(* ... and TRIANGLE, without another look at the number of games.          *)
Triangle ==
  /\ ui = "triangle"
  /\ ui' \in {"delete", "draw"} /\ after' = "draw"
  /\ UNCHANGED <<quits, diskVars, listVars, known, needReload, ptr, count, sel, view, shown,
                 servVars, clntVars, loop, histVars>>

(* The list is locked, and got again if its generation is another. *)
LockForDraw ==
  /\ ui = "draw"
  /\ lock = "free"
  /\ lock' = "menu"
  /\ known' = TRUE
  /\ IF known THEN UNCHANGED <<ptr, count, sel, view>> ELSE GetGameListData
  /\ ui' = "drawing" /\ shown' = 0
  /\ UNCHANGED <<frame, diskVars, list, central, num, needReload, servVars, clntVars,
                 loop, histVars>>

(* RedrawMainMenu. *)
Draw ==
  /\ ui = "drawing"
  /\ shown' = IF count > 0 /\ ptr = "live" THEN EntryAt(list, sel) ELSE 0
  /\ lock' = "free"
  /\ ui' = IF quits THEN "exit" ELSE "top"
  /\ UNCHANGED <<frame, diskVars, list, central, num, known, needReload, ptr, count, sel, view,
                 servVars, clntVars, loop, histVars>>

-----------------------------------------------------------------------------
(* What the menu does to the disk.                                         *)

(* The game that the menu's pointer and index name.  A freed list may hold *)
(* anything.                                                               *)
Chosen == IF ptr = "live" THEN {EntryAt(list, sel)} \ {0} ELSE Names

(* Every dialog may be left, or fail and change nothing. *)
DialogLeft ==
  /\ ui \in {"install", "options", "update", "delete"}
  /\ ui' = after
  /\ UNCHANGED <<frame, diskVars, listVars, known, needReload, ptr, count, sel, view, shown,
                 servVars, clntVars, loop, histVars>>

(* Options may ask for the list to be sorted, or not, from now on. *)
OptionsChanged ==
  /\ ui = "options"
  /\ ui' = "reload"
  /\ UNCHANGED <<frame, diskVars, listVars, known, needReload, ptr, count, sel, view, shown,
                 servVars, clntVars, loop, histVars>>

(* StartInstallGame: an old installation is removed, the new one made. *)
InstallBegins ==
  /\ ui = "install"
  /\ \E g \in Names : Change([onDisk EXCEPT ![g] = 1])
  /\ ui' = "copy"
  /\ UNCHANGED <<frame, listVars, known, needReload, ptr, count, sel, view, shown, servVars,
                 clntVars, loop, histVars>>

InstallEnds ==
  /\ ui = "copy"
  /\ ui' = "reload"
  /\ UNCHANGED <<frame, diskVars, listVars, known, needReload, ptr, count, sel, view, shown,
                 servVars, clntVars, loop, histVars>>

(* A failed installation is removed, and the list is not loaded again. *)
InstallFails ==
  /\ ui = "copy"
  /\ \E g \in Names : onDisk' = [onDisk EXCEPT ![g] = 0]
  /\ halfway' = TRUE
  /\ ui' = after
  /\ UNCHANGED <<frame, changes, listVars, known, needReload, ptr, count, sel, view, shown,
                 servVars, clntVars, loop, early, between>>

Retitled(d, g) == [d EXCEPT ![g] = IF d[g] = 0 THEN 0 ELSE 3 - d[g]]

(* UpdateGame, if the game is still there; it may fail once the title was  *)
(* written.                                                                *)
UpdateDone ==
  /\ ui = "update"
  /\ \E g \in Chosen : onDisk[g] # 0 /\ Change(Retitled(onDisk, g))
  /\ \/ ui' = "reload" /\ UNCHANGED halfway
     \/ ui' = after /\ halfway' = TRUE
  /\ UNCHANGED <<frame, listVars, known, needReload, ptr, count, sel, view, shown, servVars,
                 clntVars, loop, early, between>>

(* DeleteGame. *)
DeleteDone ==
  /\ ui = "delete"
  /\ \E g \in Chosen : Change([onDisk EXCEPT ![g] = 0])
  /\ ui' = "reload"
  /\ UNCHANGED <<frame, listVars, known, needReload, ptr, count, sel, view, shown, servVars,
                 clntVars, loop, histVars>>

(* ReloadGameList. *)
MenuFrees ==
  /\ ui = "reload"
  /\ FreeList("menu")
  /\ ui' = "loading"
  /\ UNCHANGED <<frame, diskVars, known, needReload, count, sel, view, shown, servVars, clntVars,
                 loop, histVars>>

MenuBuilds ==
  /\ ui = "loading"
  /\ BuildList("menu")
  /\ ui' = "loaded"
  /\ UNCHANGED <<frame, diskVars, needReload, ptr, count, sel, view, shown, servVars, clntVars,
                 loop>>

(* The pointer and the number are got when the lock is gone. *)
MenuLoaded ==
  /\ ui = "loaded"
  /\ GetGameListData
  /\ ui' = after /\ shown' = 0
  /\ UNCHANGED <<frame, diskVars, listVars, known, needReload, servVars, clntVars, loop,
                 histVars>>

-----------------------------------------------------------------------------
(* The service thread and its client.                                      *)

Connect ==
  /\ Running /\ sv = "off" /\ awaits = "gone" /\ loop = "run"
  /\ EarlyClients \/ ui \notin {"start", "space"}
  /\ sv' = "idle" /\ awaits' = "idle" /\ remote' = TRUE
  /\ UNCHANGED <<diskVars, listVars, known, needReload, menuVars, sent, want, got,
                 surplus, loop, histVars>>

(* UpdateGameListEntry, DeleteGameEntry, PrepareGameInstallation: the disk *)
(* is changed and the list is to be loaded again.  An update that fails    *)
(* once the title was written does not ask for that.                       *)
ClientChanges ==
  /\ Running /\ sv = "idle" /\ awaits = "idle" /\ surplus = 0
  /\ \E g \in Names :
       \/ onDisk[g] # 0 /\ Change(Retitled(onDisk, g))
       \/ onDisk[g] # 0 /\ Change([onDisk EXCEPT ![g] = 0])
       \/ onDisk[g] = 0 /\ Change([onDisk EXCEPT ![g] = 1])
  /\ needReload' = TRUE
  /\ UNCHANGED <<listVars, known, menuVars, servVars, clntVars, loop, histVars>>

ClientUpdateFails ==
  /\ Running /\ sv = "idle" /\ awaits = "idle" /\ surplus = 0
  /\ \E g \in Names : onDisk[g] # 0 /\ Change(Retitled(onDisk, g))
  /\ halfway' = TRUE
  /\ UNCHANGED <<listVars, known, needReload, menuVars, servVars, clntVars, loop, early,
                 between>>

(* LoadGameList of the server: the list is loaded if need be.              *)
LoadCommand ==
  /\ Running /\ sv = "idle" /\ awaits = "idle" /\ surplus = 0
  /\ awaits' = "count"
  /\ sv' = IF needReload THEN "reload" ELSE "answer"
  /\ needReload' = FALSE
  /\ between' = FALSE
  /\ UNCHANGED <<diskVars, listVars, known, menuVars, sent, remote, want, got, surplus,
                 loop, early, halfway>>

ServiceFrees ==
  /\ Running /\ sv \in {"reload", "byereload"}
  /\ FreeList("service")
  /\ sv' = IF sv = "reload" THEN "loading" ELSE "byeloading"
  /\ UNCHANGED <<frame, diskVars, known, needReload, ui, count, sel, view, shown, sent, remote,
                 clntVars, loop, histVars>>

ServiceBuilds ==
  /\ Running /\ sv \in {"loading", "byeloading"}
  /\ BuildList("service")
  /\ sv' = IF sv = "loading" THEN "answer" ELSE "off"
  /\ UNCHANGED <<diskVars, needReload, menuVars, sent, remote, clntVars, loop>>

(* The number of games is answered, as it is now. *)
AnswerCount ==
  /\ Running /\ sv = "answer"
  /\ sv' = "idle"
  /\ awaits' = IF awaits = "gone" THEN "gone" ELSE IF num > 0 THEN "list" ELSE "idle"
  /\ want' = (IF awaits' = "list" THEN num ELSE 0) /\ got' = 0
  /\ UNCHANGED <<diskVars, listVars, known, needReload, menuVars, sent, remote, surplus,
                 loop, histVars>>

(* The client, who was told of games, asks for all of them. *)
ReadCommand ==
  /\ Running /\ sv = "idle" /\ awaits = "list"
  /\ awaits' = "recv"
  /\ sv' = "read"
  /\ UNCHANGED <<diskVars, listVars, known, needReload, menuVars, sent, remote, want, got,
                 surplus, loop, histVars>>

(* ReadGameList: the list is locked until the last entry is sent, or       *)
(* ENOENT if there is none.                                                *)
ReadStarts ==
  /\ Running /\ sv = "read"
  /\ lock = "free"
  /\ lock' = "service"
  /\ sv' = "send"
  /\ sent' = 0
  /\ UNCHANGED <<diskVars, list, central, num, known, needReload, menuVars, remote,
                 clntVars, loop, histVars>>

(* An entry is taken by the client, if it still expects one. *)
SendEntry ==
  /\ Running /\ sv = "send" /\ sent < num /\ awaits # "gone"
  /\ sent' = sent + 1
  /\ IF got < want
     THEN got' = got + 1 /\ UNCHANGED surplus
     ELSE surplus' = surplus + 1 /\ UNCHANGED got
  /\ UNCHANGED <<diskVars, listVars, known, needReload, menuVars, sv, remote, awaits, want,
                 loop, histVars>>

(* Slip: one entry too few is sent. *)
ReadEndsEarly ==
  /\ Running /\ sv = "send"
  /\ sent + 1 >= num
  /\ lock' = "free"
  /\ sv' = "idle" /\ sent' = 0
  /\ awaits' = IF awaits # "gone" /\ (num = 0 \/ got = want) THEN "idle" ELSE awaits
  /\ UNCHANGED <<diskVars, list, central, num, known, needReload, menuVars, remote, want,
                 got, surplus, loop, histVars>>

ReadEnds ==
  /\ Running /\ sv = "send"
  /\ sent = num \/ awaits = "gone"
  /\ lock' = "free"
  /\ sv' = "idle" /\ sent' = 0
  /\ awaits' = IF awaits # "gone" /\ (num = 0 \/ got = want) THEN "idle" ELSE awaits
  /\ UNCHANGED <<diskVars, list, central, num, known, needReload, menuVars, remote, want,
                 got, surplus, loop, histVars>>

(* The client leaves, its connection is lost, or it has waited too long.   *)
ClientLeaves ==
  /\ Running /\ awaits # "gone"
  /\ awaits' = "gone" /\ want' = 0 /\ got' = 0 /\ surplus' = 0
  /\ UNCHANGED <<diskVars, listVars, known, needReload, menuVars, servVars, loop, histVars>>

(* CleanupClientConnection: the menu is let on, and the list is loaded if  *)
(* the client changed anything since.                                      *)
Cleanup ==
  /\ Running /\ sv = "idle" /\ awaits = "gone"
  /\ remote' = FALSE
  /\ needReload' = FALSE
  /\ sv' = IF needReload THEN "byereload" ELSE "off"
  /\ UNCHANGED <<diskVars, listVars, known, menuVars, sent, clntVars, loop, histVars>>

-----------------------------------------------------------------------------
(* The end: DeinitializeServer and DeinitCentralHDLGameList.               *)

(* ServerThreadExecCmd looks whether the loop runs, ... *)
ExitChecks ==
  /\ ui = "exit"
  /\ ui' = IF loop = "run" THEN "stop" ELSE "deinit"
  /\ UNCHANGED <<frame, diskVars, listVars, known, needReload, ptr, count, sel, view, shown,
                 servVars, clntVars, loop, histVars>>

(* ... and stores its thread and the command, and sleeps. *)
ExitStops ==
  /\ ui = "stop"
  /\ ui' = "sleep"
  /\ UNCHANGED <<frame, diskVars, listVars, known, needReload, ptr, count, sel, view, shown,
                 servVars, clntVars, loop, histVars>>

WakeMenu == ui' = IF ui = "sleep" THEN "deinit" ELSE ui

(* Slip: the loop ends without waking who stopped it. *)
LoopStopsQuietly ==
  /\ Running /\ loop = "run" /\ ui = "sleep"
  /\ loop' = "ended"
  /\ UNCHANGED ui
  /\ UNCHANGED <<frame, diskVars, listVars, known, needReload, ptr, count, sel, view, shown,
                 servVars, clntVars, histVars>>

(* The loop sees the command when no client has come for three seconds. *)
LoopStops ==
  /\ Running /\ loop = "run" /\ ui = "sleep"
  /\ loop' = "ended"
  /\ WakeMenu
  /\ UNCHANGED <<frame, diskVars, listVars, known, needReload, ptr, count, sel, view, shown,
                 servVars, clntVars, histVars>>

(* accept() fails, and the loop ends by itself. *)
LoopDies ==
  /\ Running /\ loop = "run" /\ AcceptFails
  /\ loop' = "died"
  /\ WakeMenu
  /\ UNCHANGED <<frame, diskVars, listVars, known, needReload, ptr, count, sel, view, shown,
                 servVars, clntVars, histVars>>

(* The lock is taken and deleted, the list is freed, and main returns.     *)
Deinit ==
  /\ ui = "deinit"
  /\ lock = "free"
  /\ lock' = "deleted"
  /\ central' = "null" /\ num' = 0 /\ list' = [g \in Names |-> 0]
  /\ ui' = "over"
  /\ UNCHANGED <<frame, diskVars, known, needReload, ptr, count, sel, view, shown, servVars,
                 clntVars, loop, histVars>>

MenuSteps ==
  \/ MenuStart \/ MenuSpace \/ MenuTop \/ LockForDraw \/ Draw \/ MenuFrees
  \/ MenuBuilds \/ MenuLoaded \/ ExitChecks \/ ExitStops \/ Deinit

UserSteps ==
  \/ KeyDown \/ KeyUp \/ CancelButton \/ Button \/ GameButtons \/ Triangle
  \/ DialogLeft \/ OptionsChanged \/ InstallBegins \/ InstallEnds \/ InstallFails
  \/ UpdateDone \/ DeleteDone

ServiceSteps ==
  \/ ServiceFrees \/ ServiceBuilds \/ AnswerCount \/ ReadStarts \/ SendEntry
  \/ ReadEnds \/ Cleanup

ClientSteps ==
  \/ Connect \/ ClientChanges \/ ClientUpdateFails \/ LoadCommand \/ ReadCommand
  \/ ClientLeaves

Next == MenuSteps \/ UserSteps \/ ServiceSteps \/ ClientSteps \/ LoopStops \/ LoopDies

Spec == Init /\ [][Next]_vars

(* Threads that can run do, and one that waits for the lock gets it in     *)
(* turn, as the semaphores of the console queue their threads.  Nothing is *)
(* assumed of what is sent to a client, for which the server sets no       *)
(* timeout: of SendEntry, ReadEnds and AnswerCount.                        *)
ServiceAlone == ServiceFrees \/ ServiceBuilds \/ ReadStarts \/ Cleanup

FairSpec ==
  /\ Spec
  /\ WF_vars(MenuSteps) /\ WF_vars(ServiceAlone) /\ WF_vars(LoopStops)
  /\ SF_vars(LockForDraw) /\ SF_vars(Deinit)

-----------------------------------------------------------------------------
(* Types. *)
TypeOK ==
  /\ changes \in 0 .. MaxChanges
  /\ onDisk \in [Names -> 0 .. 2] /\ list \in [Names -> 0 .. 2]
  /\ central \in {"null", "live"} /\ ptr \in {"null", "live", "freed"}
  /\ num \in 0 .. Games /\ count \in 0 .. Games
  /\ lock \in {"free", "menu", "service", "deleted"}
  /\ ui \in {"start", "space", "draw", "drawing", "top", "keys", "up", "buttons", "games",
             "triangle", "install", "options", "update", "delete", "copy", "reload",
             "loading", "loaded", "exit", "stop", "sleep", "deinit", "over"}
  /\ after \in {"draw", "games", "triangle"} /\ quits \in BOOLEAN
  /\ sent \in 0 .. Games /\ want \in 0 .. Games /\ got \in 0 .. want
  /\ surplus \in 0 .. Games
  /\ lock = "menu" => ui \in {"loading", "drawing"}
  /\ lock = "service" => sv \in {"loading", "byeloading", "send"}

(* Whenever the menu's pointer or number is not that of the central list,  *)
(* and nobody is at work on the list, the generation tells: the next frame *)
(* draws the list that is there.  Unless the list was loaded again between *)
(* the menu's first look at it and at its generation.                      *)
StaleIsNoticed ==
  lock \in {"free", "menu"} /\ ui \notin {"start", "space", "loading", "over"} /\ ~early =>
    (known => ptr = central /\ count = num)

(* The highlighted game exists and is among those that are displayed, from *)
(* frame to frame, however the list grows and shrinks.                     *)
SelectionInView ==
  ui = "drawing" /\ count > 0 =>
    /\ sel < count
    /\ view <= sel /\ sel < view + Displayed
    /\ count >= Displayed => view + Displayed <= count

(* As long as its list was not freed, the menu deletes and updates the     *)
(* game that the user saw highlighted, unless in the frame whose button    *)
(* did it the direction pad moved the selection, or START, SELECT or the   *)
(* select button had the list loaded again: then the first game of the new *)
(* list is selected, which no frame has shown.                             *)
ActsOnShown ==
  ui \in {"update", "delete"} /\ ptr = "live" /\ shown # 0 => EntryAt(list, sel) = shown

(* With no client left, a frame shows what is on the disk, unless a change *)
(* of the disk failed halfway: then nobody loads the list again.           *)
ListUpToDate ==
  ui = "drawing" /\ sv = "off" /\ ~halfway => list = onDisk

(* What is on the screen is what is there and what a button acts on.       *)
ScreenTrue == TypeOK /\ SelectionInView /\ ActsOnShown /\ ListUpToDate

(* The client gets as many entries as it was told, unless the menu loaded  *)
(* the list between its two commands: then it gets too few and waits, or   *)
(* too many, which it takes for answers.                                   *)
ClientListWhole ==
  ~between => surplus = 0 /\ (awaits = "recv" /\ sv = "idle" => FALSE)

(* No client keeps an entry of the list from being sent for ever.          *)
SendsEnd == []<>(sv # "send")

(* A frame that waits for the list is drawn, whoever loads or sends it. *)
FrameDrawn == (ui = "draw") ~> (ui \in {"top", "exit"})

(* Who quits gets out, unless the server loop ended by itself: if it did   *)
(* after it was seen to run, nobody wakes the main thread.                 *)
ExitEnds == (ui = "exit") ~> (ui = "over" \/ loop = "died")

(* The menu waits for nothing for ever, neither for the list nor, unless   *)
(* the server loop ended by itself, for its end, as long as no client that *)
(* has asked for the list stops receiving: the list is locked while it is  *)
(* sent, and the menu with it.                                             *)
WaitsEnd == SendsEnd => FrameDrawn /\ ExitEnds
=============================================================================
