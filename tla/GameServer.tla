----------------------------- MODULE GameServer -----------------------------
(***************************************************************************)
(* The server of the console, HDLGameSvr.c, and its rival for the disk,    *)
(* the main menu.  MAX_CLIENTS is 1: one client slot with two threads of   *)
(* equal priority, the service thread that executes the commands of the    *)
(* client and the data thread that moves a game, both of which may close   *)
(* the game.  The accept loop runs at a higher priority, the main menu at  *)
(* a lower one.  InstallationLockSema keeps the menu and the client from   *)
(* using hdl0: at the same time; StateSemaID guards the slot's task.       *)
(*                                                                         *)
(* The ring of banks is reduced to io (BankWriter and BankReader have it   *)
(* in full).  Between calls that block, code of equal priority is one step.*)
(***************************************************************************)
EXTENDS Integers

CONSTANTS
  OpenFailures,  \* whether opening a game for I/O may fail
  DiskErrors,    \* whether the I/O thread may die of a disk error
  LostPeers,     \* whether the control connection may break during a transfer
  Updates        \* whether games are updated or looked at through hdl0:

ASSUME ServerAssumption ==
  {OpenFailures, DiskErrors, LostPeers, Updates} \subseteq BOOLEAN

VARIABLES
  svPc,        \* where ServerClientService is
  status,      \* client->status
  task,        \* client->task
  taskData,    \* client->TaskData: "null", or which context it points to
  stateSema,   \* who holds client->StateSemaID
  dtPc,        \* where DataThread is
  dtRunning,   \* client->DataThreadRunning
  context,     \* the InstallationContext the data thread works on
  io,          \* the open game: "none", "running", or "dead" I/O thread
  lock,        \* who holds InstallationLockSema
  numClients,  \* NumClientsConnected
  remote,      \* RuntimeData.IsRemoteClientConnected
  needReload,  \* NeedReloadGameList
  uiPc         \* where MainMenu is

slotVars  == <<status, task, taskData>>
dataVars  == <<dtPc, dtRunning, context>>
countVars == <<numClients, remote>>
vars == <<svPc, status, task, taskData, stateSema, dtPc, dtRunning, context,
          io, lock, numClients, remote, needReload, uiPc>>

ServicePlaces == {"dormant", "recv", "init", "open", "connect", "end", "respond",
                  "closewait", "update", "cleanup", "cleanend", "cleanslot",
                  "cleancount", "reload"}
DataPlaces    == {"dormant", "ready", "transfer", "disconnect", "close", "end", "clear"}
MenuPlaces    == {"menu", "remote", "frame", "lockwait", "install", "select",
                  "update"}

Init ==
  /\ svPc = "dormant"
  /\ status = {}
  /\ task = "NONE"
  /\ taskData = "null"
  /\ stateSema = "free"
  /\ dtPc = "dormant"
  /\ dtRunning = FALSE
  /\ context = "none"
  /\ io = "none"
  /\ lock = "none"
  /\ numClients = 0
  /\ remote = FALSE
  /\ needReload = FALSE
  /\ uiPc = "menu"

-----------------------------------------------------------------------------
(* SignalSema(InstallationLockSema): a waiting thread gets it at once.     *)
ReleaseLock ==
  IF uiPc = "lockwait"
  THEN lock' = "menu" /\ uiPc' = "install"
  ELSE lock' = "none" /\ UNCHANGED uiPc

(* Slip: the installation lock is not released.                            *)
EndInstallationKeepsLock ==
  /\ io = "running"
  /\ io' = "none"
  /\ status' = status \ {"OPENED_FILE", "MOUNTED_FS"}
  /\ task' = "NONE"
  /\ taskData' = "null"
  /\ context' = IF context = "live" THEN "freed" ELSE context
  /\ UNCHANGED <<lock, uiPc>>

(* EndInstallation of an open game, once IOEndWrite or IOEndRead returned: *)
(* they never do when the I/O thread is dead.  The context is freed under  *)
(* whoever still works on it.                                              *)
EndInstallation ==
  /\ io = "running"
  /\ io' = "none"
  /\ status' = status \ {"OPENED_FILE", "MOUNTED_FS"}
  /\ task' = "NONE"
  /\ taskData' = "null"
  /\ context' = IF context = "live" THEN "freed" ELSE context
  /\ ReleaseLock

-----------------------------------------------------------------------------
(* ServerLoop accepts a connection and finds the slot empty.  StartThread  *)
(* fails while the service thread of the last client is still on its way   *)
(* out, and leaves the status as it is.                                    *)
Accept ==
  /\ status = {}
  /\ status' = {"CONNECTED"}
  /\ IF svPc = "dormant"
     THEN /\ svPc' = "recv"
          /\ numClients' = numClients + 1
          /\ remote' = TRUE
     ELSE UNCHANGED <<svPc, countVars>>
  /\ UNCHANGED <<task, taskData, stateSema, dataVars, io, lock, needReload, uiPc>>

-----------------------------------------------------------------------------
(* The service thread.  It only gets to its next recv by blocking, when    *)
(* the data thread that it may have started has run.                       *)
Receiving == svPc = "recv" /\ dtPc # "ready"
Verified  == "VERSION_VERIFIED" \in status

(* HDLGMAN_CLIENT_SEND_VERSION with the right version.                     *)
SendVersion ==
  /\ Receiving
  /\ ~Verified
  /\ status' = status \cup {"VERSION_VERIFIED"}
  /\ UNCHANGED <<svPc, task, taskData, stateSema, dataVars, io, lock,
                 countVars, needReload, uiPc>>

(* PREP_GAME_INST, INIT_GAME_WRITE or INIT_GAME_READ, up to WaitSema.      *)
RequestInit ==
  /\ Receiving
  /\ Verified
  /\ svPc' = "init"
  /\ UNCHANGED <<slotVars, stateSema, dataVars, io, lock, countVars, needReload, uiPc>>

(* The request is turned away with -EBUSY: the slot has a task, or the     *)
(* menu has the lock.                                                      *)
InitBusy ==
  /\ svPc = "init"
  /\ stateSema = "free"
  /\ task # "NONE" \/ lock # "none"
  /\ stateSema' = "service"
  /\ svPc' = "respond"
  /\ UNCHANGED <<slotVars, dataVars, io, lock, countVars, needReload, uiPc>>

(* Slip: the answer of PollSema is ignored.                                *)
InitLocksAnyway ==
  /\ svPc = "init"
  /\ stateSema = "free"
  /\ task = "NONE"
  /\ stateSema' = "service"
  /\ lock' = "client"
  /\ taskData' = "game"
  /\ svPc' = "open"
  /\ UNCHANGED <<status, task, dataVars, io, countVars, needReload, uiPc>>

(* PollSema takes the lock, the context is allocated.                      *)
InitLocks ==
  /\ svPc = "init"
  /\ stateSema = "free"
  /\ task = "NONE"
  /\ lock = "none"
  /\ stateSema' = "service"
  /\ lock' = "client"
  /\ taskData' = "game"
  /\ svPc' = "open"
  /\ UNCHANGED <<status, task, dataVars, io, countVars, needReload, uiPc>>

(* The game is prepared (when it is new), mounted and opened, the banks    *)
(* are allocated and the I/O thread is started.                            *)
OpenGame ==
  /\ svPc = "open"
  /\ io' = "running"
  /\ status' = status \cup {"MOUNTED_FS", "OPENED_FILE"}
  /\ task' = "GAME"
  /\ needReload' \in {needReload, TRUE}
  /\ svPc' = "connect"
  /\ UNCHANGED <<taskData, stateSema, dataVars, lock, countVars, uiPc>>

(* One of these fails and what was opened is undone.  EndInstallation does *)
(* nothing, because the slot has no task yet.                              *)
OpenFails ==
  /\ OpenFailures
  /\ svPc = "open"
  /\ svPc' = "respond"
  /\ UNCHANGED <<slotVars, stateSema, dataVars, io, lock, countVars, needReload, uiPc>>

(* InitDataConnection: the client is reached and the data thread starts.   *)
Connect ==
  /\ svPc = "connect"
  /\ dtPc = "dormant"
  /\ dtPc' = "ready"
  /\ svPc' = "respond"
  /\ UNCHANGED <<slotVars, stateSema, dtRunning, context, io, lock,
                 countVars, needReload, uiPc>>

(* The client is not reached, or the data thread has not ended yet.        *)
ConnectFails ==
  /\ svPc = "connect"
  /\ svPc' = "end"
  /\ UNCHANGED <<slotVars, stateSema, dataVars, io, lock, countVars, needReload, uiPc>>

(* EndInstallation in the service thread, after a failed Init.             *)
InitEnds ==
  /\ svPc = "end"
  /\ EndInstallation
  /\ svPc' = "respond"
  /\ UNCHANGED <<stateSema, dtPc, dtRunning, countVars, needReload>>

(* SignalSema(StateSemaID), and the response is sent.                      *)
Respond ==
  /\ svPc = "respond"
  /\ stateSema' = "free"
  /\ svPc' = "recv"
  /\ UNCHANGED <<slotVars, dataVars, io, lock, countVars, needReload, uiPc>>

(* CLOSE_GAME: HandleCloseGame waits while the data thread is running.     *)
RequestClose ==
  /\ Receiving
  /\ Verified
  /\ svPc' = "closewait"
  /\ UNCHANGED <<slotVars, stateSema, dataVars, io, lock, countVars, needReload, uiPc>>

CloseGameReturns ==
  /\ svPc = "closewait"
  /\ ~dtRunning
  /\ svPc' = "recv"
  /\ UNCHANGED <<slotVars, stateSema, dataVars, io, lock, countVars, needReload, uiPc>>

(* UPD_GAME_ENTRY and READ_GAME_ENTRY mount hdl0: for a short while; an    *)
(* update asks for the game list to be reloaded.  A client does not send   *)
(* them while it transfers a game.                                         *)
RequestUpdate ==
  /\ Updates
  /\ Receiving
  /\ Verified
  /\ task # "GAME"
  /\ svPc' = "update"
  /\ UNCHANGED <<slotVars, stateSema, dataVars, io, lock, countVars, needReload, uiPc>>

UpdateReturns ==
  /\ svPc = "update"
  /\ needReload' \in {needReload, TRUE}
  /\ svPc' = "recv"
  /\ UNCHANGED <<slotVars, stateSema, dataVars, io, lock, countVars, uiPc>>

(* INIT_OSD_RESOURCES, and INIT_DEFAULT_OSD_RESOURCES, which does not take *)
(* StateSemaID.                                                            *)
InitOSDResources ==
  /\ Receiving
  /\ Verified
  /\ task = "NONE"
  /\ task' = "OSD"
  /\ taskData' = "osd"
  /\ UNCHANGED <<svPc, status, stateSema, dataVars, io, lock, countVars, needReload, uiPc>>

(* WRITE_OSD_RESOURCES, which does not take StateSemaID, and               *)
(* OSD_RES_WRITE_CANCEL.                                                   *)
EndOSDResources ==
  /\ Receiving
  /\ Verified
  /\ task = "OSD"
  /\ task' = "NONE"
  /\ taskData' = "null"
  /\ UNCHANGED <<svPc, status, stateSema, dataVars, io, lock, countVars, needReload, uiPc>>

(* LOAD_GAME_LIST takes the request to reload, DEL_GAME_ENTRY makes one.   *)
GameListRequest ==
  /\ Receiving
  /\ Verified
  /\ needReload' \in BOOLEAN
  /\ UNCHANGED <<svPc, slotVars, stateSema, dataVars, io, lock, countVars, uiPc>>

(* recv or a response fails: the socket is closed.                         *)
Disconnected ==
  /\ Receiving
  /\ LostPeers \/ dtPc = "dormant"
  /\ svPc' = "cleanup"
  /\ UNCHANGED <<slotVars, stateSema, dataVars, io, lock, countVars, needReload, uiPc>>

(* CleanupClientConnection: WaitSema(StateSemaID), and the task is looked  *)
(* at.                                                                     *)
Cleanup ==
  /\ svPc = "cleanup"
  /\ stateSema = "free"
  /\ stateSema' = "service"
  /\ svPc' = IF task = "GAME" THEN "cleanend" ELSE "cleanslot"
  /\ UNCHANGED <<slotVars, dataVars, io, lock, countVars, needReload, uiPc>>

(* EndInstallation, whatever the data thread is doing.                     *)
CleanupEnds ==
  /\ svPc = "cleanend"
  /\ EndInstallation
  /\ svPc' = "cleanslot"
  /\ UNCHANGED <<stateSema, dtPc, dtRunning, countVars, needReload>>

(* The slot is empty from here on.                                         *)
CleanupSlot ==
  /\ svPc = "cleanslot"
  /\ status' = {}
  /\ task' = "NONE"
  /\ taskData' = "null"
  /\ stateSema' = "free"
  /\ svPc' = "cleancount"
  /\ UNCHANGED <<dataVars, io, lock, countVars, needReload, uiPc>>

(* Slip: the remote screen is not taken away.                              *)
CleanupCountKeepsRemote ==
  /\ svPc = "cleancount"
  /\ numClients' = numClients - 1
  /\ needReload' = FALSE
  /\ svPc' = IF needReload THEN "reload" ELSE "dormant"
  /\ UNCHANGED <<slotVars, stateSema, dataVars, io, lock, remote, uiPc>>

(* CleanupClientConnection counts the client out, and looks whether the    *)
(* game list is to be read again.                                          *)
CleanupCount ==
  /\ svPc = "cleancount"
  /\ numClients' = numClients - 1
  /\ remote' = (remote /\ numClients' >= 1)
  /\ needReload' = FALSE
  /\ svPc' = IF needReload THEN "reload" ELSE "dormant"
  /\ UNCHANGED <<slotVars, stateSema, dataVars, io, lock, uiPc>>

(* LoadHDLGameList returns and the service thread ends.                    *)
Reload ==
  /\ svPc = "reload"
  /\ svPc' = "dormant"
  /\ UNCHANGED <<slotVars, stateSema, dataVars, io, lock, countVars, needReload, uiPc>>

ServiceThread ==
  \/ InitBusy
  \/ InitLocks
  \/ OpenGame
  \/ OpenFails
  \/ Connect
  \/ ConnectFails
  \/ InitEnds
  \/ Respond
  \/ CloseGameReturns
  \/ UpdateReturns
  \/ Cleanup
  \/ CleanupEnds
  \/ CleanupSlot
  \/ CleanupCount
  \/ Reload

Client ==
  \/ Accept
  \/ SendVersion
  \/ RequestInit
  \/ RequestClose
  \/ RequestUpdate
  \/ InitOSDResources
  \/ EndOSDResources
  \/ GameListRequest
  \/ Disconnected

-----------------------------------------------------------------------------
(* The data thread.                                                        *)

(* It first runs, and looks at the task.                                   *)
DataStarts ==
  /\ dtPc = "ready"
  /\ IF task = "GAME"
     THEN dtPc' = "transfer" /\ dtRunning' = TRUE /\ context' = "live"
     ELSE dtPc' = "dormant" /\ UNCHANGED <<dtRunning, context>>
  /\ UNCHANGED <<svPc, slotVars, stateSema, io, lock, countVars, needReload, uiPc>>

(* WriteGame or ReadGame returns: all was moved, or the socket or the disk *)
(* failed.                                                                 *)
TransferEnds ==
  /\ dtPc = "transfer"
  /\ dtPc' = "disconnect"
  /\ UNCHANGED <<svPc, slotVars, stateSema, dtRunning, context, io, lock,
                 countVars, needReload, uiPc>>

(* DisconnectDataConnection: the remote has closed its end.                *)
DataDisconnects ==
  /\ dtPc = "disconnect"
  /\ dtPc' = "close"
  /\ UNCHANGED <<svPc, slotVars, stateSema, dtRunning, context, io, lock,
                 countVars, needReload, uiPc>>

(* Slip: the task of the slot is not looked at again.                      *)
CloseGameUnchecked ==
  /\ dtPc = "close"
  /\ stateSema = "free"
  /\ dtPc' = "end"
  /\ stateSema' = "data"
  /\ UNCHANGED <<svPc, slotVars, dtRunning, context, io, lock,
                 countVars, needReload, uiPc>>

(* CloseGame: WaitSema(StateSemaID).                                       *)
CloseGame ==
  /\ dtPc = "close"
  /\ stateSema = "free"
  /\ IF task = "GAME"
     THEN dtPc' = "end" /\ stateSema' = "data"
     ELSE dtPc' = "clear" /\ UNCHANGED stateSema
  /\ UNCHANGED <<svPc, slotVars, dtRunning, context, io, lock,
                 countVars, needReload, uiPc>>

(* EndInstallation in the data thread.                                     *)
CloseGameEnds ==
  /\ dtPc = "end"
  /\ EndInstallation
  /\ stateSema' = "free"
  /\ dtPc' = "clear"
  /\ UNCHANGED <<svPc, dtRunning, countVars, needReload>>

(* Slip: the data thread ends without clearing DataThreadRunning.          *)
DataExitsStillRunning ==
  /\ dtPc = "clear"
  /\ dtPc' = "dormant"
  /\ context' = "none"
  /\ UNCHANGED <<svPc, slotVars, stateSema, dtRunning, io, lock, countVars, needReload, uiPc>>

(* DataThreadRunning = 0, and the thread ends.                             *)
DataExits ==
  /\ dtPc = "clear"
  /\ dtPc' = "dormant"
  /\ dtRunning' = FALSE
  /\ context' = "none"
  /\ UNCHANGED <<svPc, slotVars, stateSema, io, lock, countVars, needReload, uiPc>>

DataThread ==
  \/ DataStarts
  \/ TransferEnds
  \/ DataDisconnects
  \/ CloseGame
  \/ CloseGameEnds
  \/ DataExits

(* The I/O thread deletes itself after a failed transfer.                  *)
IOThreadDies ==
  /\ DiskErrors
  /\ io = "running"
  /\ io' = "dead"
  /\ UNCHANGED <<svPc, slotVars, stateSema, dataVars, lock, countVars, needReload, uiPc>>

-----------------------------------------------------------------------------
(* The main menu.                                                          *)

(* The top of a frame: a connected client takes the menu off the screen.   *)
MenuTop ==
  /\ uiPc = "menu"
  /\ uiPc' = IF remote THEN "remote" ELSE "frame"
  /\ UNCHANGED <<svPc, slotVars, stateSema, dataVars, io, lock, countVars, needReload>>

(* EnterRemoteClientMenu returns when nobody is connected any more.        *)
RemoteMenuEnds ==
  /\ uiPc = "remote"
  /\ ~remote
  /\ uiPc' = "frame"
  /\ UNCHANGED <<svPc, slotVars, stateSema, dataVars, io, lock, countVars, needReload>>

(* START: WaitSema(InstallationLockSema).                                  *)
PressStart ==
  /\ uiPc = "frame"
  /\ IF lock = "none"
     THEN lock' = "menu" /\ uiPc' = "install"
     ELSE uiPc' = "lockwait" /\ UNCHANGED lock
  /\ UNCHANGED <<svPc, slotVars, stateSema, dataVars, io, countVars, needReload>>

(* StartInstallGame and the reload of the list are done.                   *)
InstallEnds ==
  /\ uiPc = "install"
  /\ lock' = "none"
  /\ uiPc' = "select"
  /\ UNCHANGED <<svPc, slotVars, stateSema, dataVars, io, countVars, needReload>>

(* UpdateGame, perhaps in the same frame, mounts hdl0: without the lock.   *)
PressSelect ==
  /\ Updates
  /\ uiPc \in {"frame", "select"}
  /\ uiPc' = "update"
  /\ UNCHANGED <<svPc, slotVars, stateSema, dataVars, io, lock, countVars, needReload>>

(* The rest of a frame.                                                    *)
FrameEnds ==
  /\ uiPc \in {"frame", "select", "update"}
  /\ uiPc' = "menu"
  /\ UNCHANGED <<svPc, slotVars, stateSema, dataVars, io, lock, countVars, needReload>>

Menu == MenuTop \/ RemoteMenuEnds \/ PressStart \/ InstallEnds \/ PressSelect \/ FrameEnds

Next == Client \/ ServiceThread \/ DataThread \/ IOThreadDies \/ Menu

Spec == Init /\ [][Next]_vars

(* The threads are scheduled whenever they are ready, and a semaphore goes *)
(* to the thread that has waited for it longest.  Assumed are a disc       *)
(* installation and a transfer that end, a client that receives what is    *)
(* sent, and one that closes its data connection or is lost: the console   *)
(* waits for that without a timeout (DisconnectDataConnection).            *)
FairSpec ==
  /\ Spec
  /\ WF_vars(ServiceThread) /\ SF_vars(InitBusy \/ InitLocks) /\ SF_vars(Cleanup)
  /\ WF_vars(DataThread) /\ SF_vars(CloseGame)
  /\ WF_vars(InstallEnds)
-----------------------------------------------------------------------------
(* Properties.                                                             *)

TypeOK ==
  /\ svPc \in ServicePlaces
  /\ status \subseteq {"CONNECTED", "VERSION_VERIFIED", "OPENED_FILE", "MOUNTED_FS"}
  /\ task \in {"NONE", "GAME", "OSD"}
  /\ taskData \in {"null", "game", "osd"}
  /\ stateSema \in {"free", "service", "data"}
  /\ dtPc \in DataPlaces
  /\ dtRunning \in BOOLEAN
  /\ context \in {"none", "live", "freed"}
  /\ io \in {"none", "running", "dead"}
  /\ lock \in {"none", "client", "menu"}
  /\ numClients \in 0 .. 1
  /\ remote \in BOOLEAN
  /\ needReload \in BOOLEAN
  /\ uiPc \in MenuPlaces

(* InstallationLockSema does its work: while the menu installs a game, no  *)
(* client has one open, whatever fails on either side; and a client's game *)
(* is open exactly as long as its slot has that task, with the context and *)
(* the lock that belong to it.                                             *)
OneInstaller ==
  /\ uiPc = "install" <=> lock = "menu"
  /\ io # "none" <=> task = "GAME"
  /\ task = "GAME" => lock = "client" /\ taskData = "game"

(* A game is closed once.  Two threads run EndInstallation on the same     *)
(* slot; the one that gets to it finds its own game still open, and never  *)
(* that of a later request.                                                *)
ClosedOnce ==
  /\ dtPc = "end" => context = "live" /\ io # "none"
  /\ svPc \in {"end", "cleanend"} => io # "none"
  /\ ~(dtPc = "end" /\ svPc \in {"end", "cleanend"})

(* The console shows the remote screen exactly while a client is served,   *)
(* up to the last steps of its cleanup, and the count of clients never     *)
(* drifts.                                                                 *)
RemoteScreenHonest ==
  /\ remote <=> numClients = 1
  /\ numClients = 1 <=> svPc \notin {"dormant", "reload"}

(* A menu that waits for the installation lock gets it in the end.  (As    *)
(* FairSpec says, a client that keeps its data connection open is left     *)
(* out: for it the menu waits for ever.)                                   *)
MenuGetsLock == (uiPc = "lockwait") ~> (uiPc = "install")

(* CLOSE_GAME is answered: no way through the data thread leaves out the   *)
(* flag that the service thread polls, provided that the data thread ends. *)
CloseAnswered == (svPc = "closewait") ~> (svPc = "recv")
=============================================================================
