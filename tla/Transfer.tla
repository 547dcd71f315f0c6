------------------------------ MODULE Transfer ------------------------------
(***************************************************************************)
(* A game on its way between the PC client (InstallerThread and            *)
(* RetrieveThread of install-main.c, on top of client.c and                *)
(* HDLGManClient.c) and the console (DataThread and the command handlers   *)
(* of HDLGameSvr.c), over a command connection and a data connection that  *)
(* may both be lost.  The client retries a block, reconnects and resumes;  *)
(* the console knows nothing of blocks, it writes what arrives.            *)
(*                                                                         *)
(* The unit is a bank of the console; a block, a bank of the client, is K  *)
(* units.  A game is the sequence 1, 2, .. Total.  The rings of banks at   *)
(* both ends are modelled in WriteGame, ReadGame and ClientIO, the slot    *)
(* and the lock of the console in GameServer.                              *)
(***************************************************************************)
EXTENDS Integers, Sequences

CONSTANTS
  Blocks,          \* the blocks of a game
  K,               \* the units of a block
  Window,          \* the units that may be under way on the data connection
  NJobs,           \* the games the user installs in one go
  RETRY_COUNT,
  RECONNECT_COUNT,
  MaxFaults        \* how often something fails: a connection, the disk, ...

ASSUME TransferAssumption ==
  /\ {Blocks, K, Window, NJobs, RETRY_COUNT, RECONNECT_COUNT} \subseteq Nat \ {0}
  /\ MaxFaults \in Nat

VARIABLES
  mode,      \* "install" or "retrieve"
  job,       \* JobIndex + 1
  cPc,       \* where the client's thread is
  back,      \* where AttemptReconnectCmd returns to
  lsn,       \* units of the blocks that are done
  bank,      \* the units of the block at hand that were sent or received
  retries, reconnects,
  result,    \* of the thread: a count from 0 is "ok", "kept" is 1
  copyResult,\* installResult
  file,      \* the image file of a retrieved game
  kept,      \* the image file was not removed
  cmd,       \* the command connection: "up", "down", or "free": its slot is empty
  data,      \* the data connection is "up" or "broken"
  finC, finS,\* the client, the server has shut down its sending
  wire,      \* what is under way on the data connection
  task,      \* the client's slot has a game open
  dPc,       \* where DataThread is; "stuck" is for ever
  spos,      \* the unit the server is at
  remaining, \* InstallationContext->remaining
  io,        \* the console's I/O thread is "ok" or "dead"
  part,      \* the games that have a partition
  disk,      \* what is in the partition of each game
  faults,    \* faults that may still happen
  dropped,   \* units that the client had sent were lost or thrown away
  skipped,   \* a block was given up and counted as done
  diskError  \* the disk failed

client == <<job, cPc, back, lsn, bank, retries, reconnects, result, copyResult, file, kept>>
line   == <<data, finC, finS, wire>>
server == <<task, dPc, spos, remaining, io>>
games  == <<part, disk>>
past   == <<dropped, skipped, diskError>>
vars   == <<mode, client, cmd, line, server, games, faults, past>>

Total == Blocks * K
Games == 1 .. NJobs
Blank == [u \in 1 .. Total |-> 0]
Whole == [u \in 1 .. Total |-> u]
Unit  == 0 .. Total

(* A game to be installed may be there already; one to be retrieved is.    *)
Init ==
  /\ mode \in {"install", "retrieve"}
  /\ job = 1
  /\ cPc = IF mode = "install" THEN "job" ELSE "open"
  /\ back = "none"
  /\ lsn = 0 /\ bank = <<>>
  /\ retries = 0 /\ reconnects = 0
  /\ result = "ok" /\ copyResult = "ok"
  /\ file = <<>> /\ kept = FALSE
  /\ cmd = "up"
  /\ data = "broken" /\ finC = FALSE /\ finS = FALSE /\ wire = <<>>
  /\ task = FALSE /\ dPc = "dormant" /\ spos = 1 /\ remaining = 0 /\ io = "ok"
  /\ part \in IF mode = "install" THEN {{}, {NJobs}} ELSE {{1}}
  /\ disk = [g \in Games |-> IF g \in part THEN Whole ELSE Blank]
  /\ faults = MaxFaults
  /\ dropped = FALSE /\ skipped = FALSE /\ diskError = FALSE

Fault == faults > 0 /\ faults' = faults - 1

-----------------------------------------------------------------------------
(* Commands of the client, as the server answers them.                     *)

(* PrepareDataConnection and AcceptDataConnection: the server calls back.  *)
(* A client that gets no answer resets the connection                      *)
(* (ClosePendingDataConnection).                                           *)
DataConnected(accepted) ==
  data' = accepted /\ finC' = FALSE /\ finS' = FALSE /\ wire' = <<>>

(* Slip: the offset of the request is not sought to.                       *)
OpenGameAtStart(offset, accepted) ==
  /\ task' = TRUE
  /\ dPc' = "run"
  /\ spos' = 1
  /\ remaining' = Total - offset
  /\ io' = "ok"
  /\ DataConnected(accepted)

(* MountOpenGame and InitDataConnection: the game is open at the offset,   *)
(* the data connection is made and the data thread started.                *)
OpenGame(offset, accepted) ==
  /\ task' = TRUE
  /\ dPc' = "run"
  /\ spos' = offset + 1
  /\ remaining' = Total - offset
  /\ io' = "ok"
  /\ DataConnected(accepted)

(* The answer arrives, or gets lost with the connection. *)
Answered   == UNCHANGED <<cmd, faults>>
AnswerLost == Fault /\ cmd' = "down"

(* DEL_GAME_ENTRY fails, unnoticed, while the partition is in use. *)
DeleteGame(g) == part' = IF task THEN part ELSE part \ {g}

-----------------------------------------------------------------------------
(* InstallerThread.                                                        *)

EndJobs(r) ==
  /\ cPc' = "end" /\ result' = r
  /\ UNCHANGED <<job, back, lsn, bank, retries, reconnects, copyResult, file, kept>>

(* The image cannot be opened or is no game. *)
BadImage ==
  /\ cPc = "job" /\ job <= NJobs
  /\ Fault
  /\ EndJobs("error")
  /\ UNCHANGED <<mode, cmd, line, server, games, past>>

(* The game is there already, and the user wants to keep it. *)
KeepInstalled ==
  /\ cPc = "job" /\ job <= NJobs
  /\ cmd = "up" /\ job \in part
  /\ EndJobs("kept")
  /\ UNCHANGED <<mode, cmd, line, server, games, faults, past>>

(* The game is new, or deleted first. *)
StartJob ==
  /\ cPc = "job" /\ job <= NJobs
  /\ cPc' = "prepare"
  /\ IF cmd = "up" THEN DeleteGame(job) ELSE UNCHANGED part
  /\ UNCHANGED <<mode, job, back, lsn, bank, retries, reconnects, result, copyResult,
                 file, kept, cmd, line, server, disk, faults, past>>

JobsDone ==
  /\ cPc = "job" /\ job > NJobs
  /\ EndJobs("ok")
  /\ UNCHANGED <<mode, cmd, line, server, games, faults, past>>

(* PREP_GAME_INST makes the partition, opens it and calls back. *)
Prepare ==
  /\ cPc = "prepare"
  /\ cmd = "up" /\ ~task /\ dPc = "dormant" /\ job \notin part
  /\ part' = part \cup {job}
  /\ disk' = [disk EXCEPT ![job] = Blank]
  /\ \/ /\ OpenGame(0, "up") /\ Answered
        /\ cPc' = "loop" /\ lsn' = 0
        /\ UNCHANGED <<job, back, bank, retries, reconnects, result, copyResult, file, kept>>
     \/ OpenGame(0, "broken") /\ AnswerLost /\ EndJobs("lost")
  /\ UNCHANGED <<mode, past>>

(* It is refused, or fails: before there is a partition, or after, when    *)
(* the client cannot be called back.  The partition stays then.            *)
PrepareFails ==
  /\ cPc = "prepare"
  /\ \/ /\ cmd = "up" /\ Fault
        /\ UNCHANGED <<part, disk>>
        /\ EndJobs("error")
     \/ /\ cmd = "up" /\ ~task /\ job \notin part
        /\ IF dPc = "dormant" THEN Fault ELSE UNCHANGED faults
        /\ part' = part \cup {job}
        /\ disk' = [disk EXCEPT ![job] = Blank]
        /\ EndJobs("error")
     \/ /\ cmd # "up"
        /\ UNCHANGED <<part, disk, faults>>
        /\ EndJobs("lost")
  /\ UNCHANGED <<mode, cmd, line, server, past>>

(* RetrieveThread opens the game, and then the image file. *)
OpenForRead ==
  /\ cPc = "open"
  /\ \/ /\ cmd = "up" /\ ~task /\ dPc = "dormant"
        /\ \/ /\ OpenGame(0, "up") /\ Answered
              /\ \/ cPc' = "loop" /\ kept' = TRUE /\ UNCHANGED result
                 \/ cPc' = "end" /\ result' = "eio" /\ UNCHANGED kept
           \/ /\ OpenGame(0, "broken") /\ AnswerLost
              /\ cPc' = "end" /\ result' = "error" /\ UNCHANGED kept
     \/ /\ cmd # "up" \/ faults > 0
        /\ UNCHANGED <<cmd, faults, line, server, kept>>
        /\ cPc' = "end" /\ result' = "error"
  /\ UNCHANGED <<mode, job, back, lsn, bank, retries, reconnects, copyResult, file,
                 games, past>>

-----------------------------------------------------------------------------
(* The loop over the blocks, the same in both threads.                     *)

(* The head of the loop. *)
NextBlock ==
  /\ cPc = "loop"
  /\ retries' = 0 /\ bank' = <<>>
  /\ cPc' = IF lsn < Total THEN "block" ELSE "finish"
  /\ copyResult' = "ok"
  /\ UNCHANGED <<mode, job, back, lsn, reconnects, result, file, kept, cmd, line, server,
                 games, faults, past>>

(* The loop is left with an error. *)
GiveUp(r) ==
  /\ cPc' = "finish" /\ result' = r /\ copyResult' = r
  /\ UNCHANGED <<job, back, lsn, bank, reconnects, file, kept>>

(* INSTALLER_CMD_ABORT. *)
Abort ==
  /\ cPc = "loop" /\ lsn < Total
  /\ GiveUp("abort")
  /\ retries' = 0
  /\ UNCHANGED <<mode, cmd, line, server, games, faults, past>>

(* The block at hand counts as done: lsn and the ring move on. *)
BlockDone(b) ==
  /\ lsn' = lsn + K
  /\ file' = IF mode = "retrieve" THEN file \o b ELSE file
  /\ cPc' = "loop"
  /\ bank' = <<>>

(* HDLGManWriteGame: a unit of the block goes to the connection. *)
SendUnit ==
  /\ mode = "install" /\ cPc = "block"
  /\ data = "up" /\ Len(wire) < Window
  /\ LET u == lsn + Len(bank) + 1 IN
     /\ wire' = Append(wire, u)
     /\ IF Len(bank) + 1 = K
        THEN BlockDone(bank)
        ELSE bank' = Append(bank, u) /\ UNCHANGED <<lsn, file, cPc>>
  /\ UNCHANGED <<mode, job, back, retries, reconnects, result, copyResult, kept, cmd, data,
                 finC, finS, server, games, faults, past>>

(* HDLGManReadGame: a unit of the block arrives. *)
ReceiveUnit ==
  /\ mode = "retrieve" /\ cPc = "block"
  /\ data = "up" /\ wire # <<>>
  /\ wire' = Tail(wire)
  /\ IF Len(bank) + 1 = K
     THEN BlockDone(Append(bank, Head(wire)))
     ELSE bank' = Append(bank, Head(wire)) /\ UNCHANGED <<lsn, file, cPc>>
  /\ UNCHANGED <<mode, job, back, retries, reconnects, result, copyResult, kept, cmd, data,
                 finC, finS, server, games, faults, past>>

(* The data connection is gone, or the server has nothing more to send. *)
BlockFails ==
  /\ cPc = "block"
  /\ data = "broken" \/ (mode = "retrieve" /\ wire = <<>> /\ finS)
  /\ cPc' = "shut"
  /\ UNCHANGED <<mode, job, back, lsn, bank, retries, reconnects, result, copyResult, file,
                 kept, cmd, line, server, games, faults, past>>

(* DoRecv gives up waiting for data, and takes the command connection      *)
(* down: of a console that is slow, or that waits for ever.                *)
ReceiveTimesOut ==
  /\ mode = "retrieve" /\ cPc = "block"
  /\ data = "up" /\ wire = <<>>
  /\ Fault \/ (dPc = "stuck" /\ UNCHANGED faults)
  /\ cmd' = IF cmd = "up" THEN "down" ELSE cmd
  /\ cPc' = "shut"
  /\ UNCHANGED <<mode, job, back, lsn, bank, retries, reconnects, result, copyResult, file,
                 kept, line, server, games, past>>

(* Slip: the sending is not shut down.                                     *)
ShutDataSilently ==
  /\ cPc \in {"shut", "finish"}
  /\ cPc' = IF cPc = "shut" THEN "drain" ELSE "drainEnd"
  /\ UNCHANGED <<mode, job, back, lsn, bank, retries, reconnects, result, copyResult, file,
                 kept, cmd, line, server, games, faults, past>>

(* CloseDataConnection shuts down the sending... *)
ShutData ==
  /\ cPc \in {"shut", "finish"}
  /\ finC' = TRUE
  /\ cPc' = IF cPc = "shut" THEN "drain" ELSE "drainEnd"
  /\ UNCHANGED <<mode, job, back, lsn, bank, retries, reconnects, result, copyResult, file,
                 kept, cmd, data, finS, wire, server, games, faults, past>>

(* ... and throws away what comes... *)
DrainData ==
  /\ cPc \in {"drain", "drainEnd"}
  /\ mode = "retrieve" /\ wire # <<>>
  /\ wire' = Tail(wire)
  /\ UNCHANGED <<mode, client, cmd, data, finC, finS, server, games, faults, past>>

(* ... until the server is done too. *)
DataClosed ==
  /\ cPc \in {"drain", "drainEnd"}
  /\ data = "broken" \/ (finS /\ (mode = "retrieve" => wire = <<>>))
  /\ cPc' = IF cPc = "drain" THEN "status"
            ELSE IF result = "lost" THEN "clean" ELSE "closeGame"
  /\ retries' = IF cPc = "drain" THEN retries ELSE 0
  /\ UNCHANGED <<mode, job, back, lsn, bank, reconnects, result, copyResult, file,
                 kept, cmd, line, server, games, faults, past>>

(* HDLGManGetIOStatus. *)
GetIOStatus ==
  /\ cPc = "status"
  /\ \/ /\ cmd = "up" /\ io = "ok" /\ Answered
        /\ cPc' = "resume" /\ reconnects' = 0
        /\ UNCHANGED <<back, result, copyResult>>
     \/ /\ cmd = "up" /\ io = "dead" /\ Answered
        /\ cPc' = "finish" /\ result' = "eio" /\ copyResult' = "eio"
        /\ UNCHANGED <<back, reconnects>>
     \/ /\ IF cmd = "up" THEN AnswerLost ELSE Answered
        /\ cPc' = "reconnect" /\ back' = "resume" /\ reconnects' = 0
        /\ UNCHANGED <<result, copyResult>>
  /\ UNCHANGED <<mode, job, lsn, bank, retries, file, kept, line, server, games, past>>

(* ReconnectToServer, and the versions are exchanged. *)
Handshake == cmd = "free" /\ cmd' = "up"

(* AttemptReconnectCmd: the server's only slot has to be empty. *)
Reconnect ==
  /\ cPc = "reconnect"
  /\ \/ /\ Handshake
        /\ reconnects' = 0
        /\ IF back = "closeGame" /\ retries + 1 = RETRY_COUNT
           THEN cPc' = "clean" /\ UNCHANGED retries
           ELSE cPc' = back /\ retries' = IF back = "closeGame" THEN retries + 1 ELSE retries
        /\ UNCHANGED <<result, copyResult>>
     \/ /\ reconnects + 1 < RECONNECT_COUNT
        /\ reconnects' = reconnects + 1
        /\ UNCHANGED <<cmd, cPc, retries, result, copyResult>>
     \/ /\ reconnects + 1 = RECONNECT_COUNT
        /\ result' = "lost" /\ copyResult' = "lost"
        /\ cPc' = IF back = "closeGame" THEN "clean" ELSE "finish"
        /\ UNCHANGED <<cmd, retries, reconnects>>
  /\ UNCHANGED <<mode, job, back, lsn, bank, file, kept, line, server, games, faults, past>>

(* An attempt to resume has failed, or was not answered. *)
ResumeAgain ==
  /\ IF reconnects + 1 < RECONNECT_COUNT
     THEN reconnects' = reconnects + 1 /\ UNCHANGED <<cPc, result, copyResult>>
     ELSE /\ result' = "lost" /\ copyResult' = "lost"
          /\ cPc' = "finish"
          /\ UNCHANGED reconnects
  /\ UNCHANGED <<job, back, lsn, bank, retries, file, kept>>

(* ReconnectToServerForWrite, ...ForRead: the transfer is resumed at the   *)
(* block at hand, and the block tried again.  When it was tried often      *)
(* enough, the retry loop ends there, and the block counts as done.        *)
Resume ==
  /\ cPc = "resume"
  /\ cmd = "up" /\ ~task /\ dPc = "dormant" /\ job \in part
  /\ OpenGame(lsn, "up")
  /\ IF retries + 1 < RETRY_COUNT
     THEN /\ retries' = retries + 1
          /\ bank' = <<>>
          /\ cPc' = "block"
          /\ UNCHANGED <<lsn, file, skipped>>
     ELSE /\ BlockDone([u \in 1 .. K |-> 0])
          /\ skipped' = TRUE
          /\ UNCHANGED retries
  /\ UNCHANGED <<mode, job, back, reconnects, result, copyResult, kept, cmd, games,
                 faults, dropped, diskError>>

(* It is resumed, but the client does not get the answer. *)
ResumeUnanswered ==
  /\ cPc = "resume"
  /\ cmd = "up" /\ ~task /\ dPc = "dormant" /\ job \in part
  /\ OpenGame(lsn, "broken") /\ AnswerLost
  /\ ResumeAgain
  /\ UNCHANGED <<mode, games, past>>

(* It is refused while the last transfer is not over, or fails. *)
ResumeFails ==
  /\ cPc = "resume"
  /\ \/ cmd # "up" \/ task \/ dPc # "dormant" \/ job \notin part
     \/ faults > 0
  /\ ResumeAgain
  /\ UNCHANGED <<mode, cmd, line, server, games, faults, past>>

(* CLOSE_GAME is answered when the data thread has ended. *)
CloseGame ==
  /\ cPc = "closeGame"
  /\ cmd = "up" /\ dPc = "dormant"
  /\ \/ Answered /\ result' = "ok" /\ cPc' = "clean" /\ UNCHANGED <<back, reconnects>>
     \/ /\ AnswerLost
        /\ cPc' = "reconnect" /\ back' = "closeGame" /\ reconnects' = 0
        /\ UNCHANGED result
  /\ UNCHANGED <<mode, job, lsn, bank, retries, copyResult, file, kept, line, server,
                 games, past>>

(* The connection is lost, or the data thread never ends and the answer is *)
(* given up after 30 seconds.                                              *)
CloseGameFails ==
  /\ cPc = "closeGame"
  /\ cmd # "up" \/ dPc = "stuck" \/ (dPc = "end" /\ io = "dead")
  /\ cmd' = IF cmd = "up" THEN "down" ELSE cmd
  /\ cPc' = "reconnect" /\ back' = "closeGame" /\ reconnects' = 0
  /\ UNCHANGED <<mode, job, lsn, bank, retries, result, copyResult, file, kept, line, server,
                 games, faults, past>>

(* A game that was copied is looked up and gets its icon; when there is    *)
(* none, or the icon fails, the installation has failed after all.         *)
FinishInstall ==
  /\ mode = "install" /\ cPc = "clean"
  /\ copyResult = "ok"
  /\ \/ /\ cmd = "up" /\ job \in part
        /\ cPc' = "job" /\ job' = job + 1 /\ result' = "ok"
        /\ UNCHANGED <<part, faults>>
     \/ /\ cmd = "up" /\ job \in part /\ Fault
        /\ DeleteGame(job)
        /\ cPc' = "end" /\ result' = "error" /\ UNCHANGED job
     \/ /\ cmd # "up" \/ job \notin part
        /\ cPc' = "end" /\ result' = "error" /\ UNCHANGED <<job, part, faults>>
  /\ UNCHANGED <<mode, back, lsn, bank, retries, reconnects, copyResult, file, kept, cmd,
                 line, server, disk, past>>

(* Slip: the game of a failed installation is left.                        *)
UndoInstallNot ==
  /\ mode = "install" /\ cPc = "clean"
  /\ copyResult # "ok"
  /\ EndJobs(copyResult)
  /\ UNCHANGED <<mode, cmd, line, server, games, faults, past>>

(* The game of a failed installation is deleted. *)
UndoInstall ==
  /\ mode = "install" /\ cPc = "clean"
  /\ copyResult # "ok"
  /\ IF cmd = "up" THEN DeleteGame(job) ELSE UNCHANGED part
  /\ EndJobs(copyResult)
  /\ UNCHANGED <<mode, cmd, line, server, disk, faults, past>>

(* The image of a failed copy is removed.  What is reported is the result  *)
(* of CLOSE_GAME.                                                          *)
FinishRetrieve ==
  /\ mode = "retrieve" /\ cPc = "clean"
  /\ kept' = (copyResult = "ok")
  /\ cPc' = "end"
  /\ UNCHANGED <<mode, job, back, lsn, bank, retries, reconnects, result, copyResult, file,
                 cmd, line, server, games, faults, past>>

Client ==
  \/ BadImage \/ KeepInstalled \/ StartJob \/ JobsDone \/ Prepare \/ PrepareFails
  \/ OpenForRead \/ NextBlock \/ SendUnit \/ ReceiveUnit \/ BlockFails
  \/ ReceiveTimesOut \/ ShutData \/ DrainData \/ DataClosed \/ GetIOStatus
  \/ Reconnect \/ Resume \/ ResumeUnanswered \/ ResumeFails \/ CloseGame \/ CloseGameFails
  \/ FinishInstall \/ UndoInstall \/ FinishRetrieve

-----------------------------------------------------------------------------
(* The server.                                                             *)

(* WriteGame receives a unit, which the I/O thread writes.  When the disk  *)
(* fails, that thread ends: banks that are full stay full, and WriteGame   *)
(* may wait for an empty one for ever (IOGetNextWrBuffer).                 *)
WriteUnit ==
  /\ mode = "install" /\ dPc = "run" /\ task
  /\ remaining > 0 /\ wire # <<>> /\ io = "ok"
  /\ wire' = Tail(wire)
  /\ spos' = spos + 1 /\ remaining' = remaining - 1
  /\ \/ /\ disk' = [disk EXCEPT ![job][spos] = Head(wire)]
        /\ UNCHANGED <<io, dPc, faults, diskError>>
     \/ /\ Fault /\ io' = "dead" /\ diskError' = TRUE
        /\ dPc' \in IF remaining > 1 THEN {"run", "stuck"} ELSE {"run"}
        /\ UNCHANGED disk
  /\ UNCHANGED <<mode, client, cmd, data, finC, finS, task, part, dropped, skipped>>

(* ReadGame sends a unit, and looks then whether the disk has failed. *)
ReadUnit ==
  /\ mode = "retrieve" /\ dPc = "run" /\ task
  /\ remaining > 0
  /\ data = "up" /\ Len(wire) < Window
  /\ wire' = Append(wire, disk[job][spos])
  /\ spos' = spos + 1 /\ remaining' = remaining - 1
  /\ dPc' = IF io = "dead" THEN "linger" ELSE "run"
  /\ finS' = (io = "dead")
  /\ UNCHANGED <<mode, client, cmd, data, finC, task, io, games, faults, past>>

(* The disk fails at one of the units that are still to be read, and the   *)
(* I/O thread ends.  ReadGame has a unit left that was read before, or     *)
(* waits for one for ever (IOReadNext).                                    *)
ReadFails ==
  /\ mode = "retrieve" /\ dPc = "run" /\ task
  /\ remaining > 0 /\ io = "ok"
  /\ Fault /\ io' = "dead" /\ diskError' = TRUE
  /\ dPc' \in IF remaining > 1 THEN {"run", "stuck"} ELSE {"stuck"}
  /\ UNCHANGED <<mode, client, cmd, line, task, spos, remaining, games, dropped, skipped>>

(* Everything is moved, or the connection fails, or the game was closed    *)
(* under the thread, or WriteGame has received another unit and finds that *)
(* the disk has failed: the thread shuts down its sending.                 *)
TransferEnds ==
  /\ dPc = "run"
  /\ \/ remaining = 0
     \/ data = "broken"
     \/ mode = "install" /\ wire = <<>> /\ finC
     \/ mode = "install" /\ wire # <<>> /\ io = "dead"
     \/ ~task
  /\ finS' = TRUE
  /\ dPc' = "linger"
  /\ UNCHANGED <<mode, client, cmd, data, finC, wire, task, spos, remaining, io, games,
                 faults, past>>

(* DisconnectDataConnection throws away what comes... *)
Drain ==
  /\ mode = "install" /\ dPc = "linger" /\ wire # <<>>
  /\ wire' = Tail(wire)
  /\ UNCHANGED <<mode, client, cmd, data, finC, finS, server, games, faults, past>>

(* ... until the client is done too. *)
Disconnected ==
  /\ dPc = "linger"
  /\ data = "broken" \/ (finC /\ (mode = "install" => wire = <<>>))
  /\ dPc' = "end"
  /\ UNCHANGED <<mode, client, cmd, line, task, spos, remaining, io, games, faults, past>>

(* CloseGame: EndInstallation, unless the game was closed already.  It     *)
(* never returns when the I/O thread is dead.  The banks that are still    *)
(* to be written may fail now, which nobody gets to know.                  *)
EndGame ==
  /\ dPc = "end"
  /\ \/ ~task /\ UNCHANGED <<task, disk, faults, diskError>>
     \/ task /\ io = "ok" /\ task' = FALSE /\ UNCHANGED <<disk, faults, diskError>>
     \/ /\ task /\ io = "ok" /\ task' = FALSE
        /\ mode = "install" /\ spos > 1 /\ Fault
        /\ disk' = [disk EXCEPT ![job][spos - 1] = 0]
        /\ diskError' = TRUE
  /\ dPc' = "exit"
  /\ UNCHANGED <<mode, client, cmd, line, spos, remaining, io, part, dropped, skipped>>

(* DataThreadRunning = 0. *)
DataExits ==
  /\ dPc = "exit"
  /\ dPc' = "dormant"
  /\ UNCHANGED <<mode, client, cmd, line, task, spos, remaining, io, games, faults, past>>

(* CleanupClientConnection: the server sees that the command connection is *)
(* lost, closes the game and empties the slot.                             *)
Cleanup ==
  /\ cmd = "down"
  /\ task => io = "ok"
  /\ cmd' = "free"
  /\ task' = FALSE
  /\ dropped' = (dropped \/ (mode = "install" /\ task /\ remaining > 0))
  /\ UNCHANGED <<mode, client, line, dPc, spos, remaining, io, games, faults, skipped,
                 diskError>>

Server == WriteUnit \/ ReadUnit \/ ReadFails \/ TransferEnds \/ Drain \/ Disconnected \/ EndGame
          \/ DataExits \/ Cleanup

(* The connections are lost; what is under way is lost with them. *)
LoseData ==
  /\ data = "up"
  /\ Fault
  /\ data' = "broken" /\ wire' = <<>>
  /\ dropped' = (dropped \/ (mode = "install" /\ wire # <<>>))
  /\ UNCHANGED <<mode, client, cmd, finC, finS, server, games, skipped, diskError>>

LoseCommand ==
  /\ cmd = "up" /\ cPc # "end"
  /\ Fault
  /\ cmd' = "down"
  /\ UNCHANGED <<mode, client, line, server, games, past>>

Next == Client \/ Abort \/ Server \/ LoseData \/ LoseCommand

Spec == Init /\ [][Next]_vars

(* Both programs run on; a lost connection is seen by both sides.  Waiting *)
(* for a semaphore that nobody signals is a disabled step, as is sending   *)
(* to a side that does not receive.                                        *)
FairSpec == Spec /\ WF_vars(Client) /\ WF_vars(Server)

-----------------------------------------------------------------------------
(* Properties.                                                             *)

(* Type invariant of the client, the connections and the console.          *)
TypeOK ==
  /\ mode \in {"install", "retrieve"}
  /\ job \in 1 .. NJobs + 1
  /\ cPc \in {"job", "prepare", "open", "loop", "block", "shut", "drain", "status",
              "reconnect", "resume", "finish", "drainEnd", "closeGame", "clean", "end"}
  /\ back \in {"none", "resume", "closeGame"}
  /\ lsn \in Unit
  /\ bank \in Seq(Unit) /\ Len(bank) < K
  /\ retries \in 0 .. RETRY_COUNT - 1 /\ reconnects \in 0 .. RECONNECT_COUNT - 1
  /\ {result, copyResult} \subseteq {"ok", "kept", "abort", "lost", "eio", "error"}
  /\ file \in Seq(Unit) /\ Len(file) \in {0, lsn}
  /\ kept \in BOOLEAN
  /\ cmd \in {"up", "down", "free"}
  /\ data \in {"up", "broken"} /\ finC \in BOOLEAN /\ finS \in BOOLEAN
  /\ wire \in Seq(Unit) /\ Len(wire) <= Window
  /\ task \in BOOLEAN
  /\ dPc \in {"dormant", "run", "stuck", "linger", "end", "exit"}
  /\ spos \in 1 .. Total + 1 /\ remaining \in Unit
  /\ io \in {"ok", "dead"}
  /\ part \subseteq Games
  /\ disk \in [Games -> [1 .. Total -> Unit]]
  /\ faults \in 0 .. MaxFaults
  /\ {dropped, skipped, diskError} \subseteq BOOLEAN

Success == cPc = "end" /\ result \in {"ok", "kept"}

(* However often a transfer is interrupted and resumed, what is in a       *)
(* partition is in its place, unless a block was given up on the way.      *)
RightPlace ==
  ~skipped => \A g \in part, u \in 1 .. Total : disk[g][u] \in {0, u}

(* A retrieved image is a prefix of the game at all times, whatever was    *)
(* lost and received again, unless a block was given up on the way.        *)
RetrievedInOrder ==
  ~skipped => \A u \in 1 .. Len(file) : file[u] = u

(* Every sector is where it belongs, on the disk and in the image file.    *)
InPlace == TypeOK /\ RightPlace /\ RetrievedInOrder

(* When the client reports success, every game that it has worked on is    *)
(* whole, unless data was lost on the wire, a block was given up or the    *)
(* disk failed.                                                            *)
SuccessIsWhole ==
  Success /\ ~(dropped \/ skipped \/ diskError) =>
    IF mode = "install"
    THEN \A g \in Games : g < job => g \in part /\ disk[g] = Whole
    ELSE kept => file = Whole

(* A copy that was begun and failed leaves no game behind on a console     *)
(* that can be reached, unless the connection was given up: the console's  *)
(* thread may still have the game open then.                               *)
FailureLeavesNothing ==
  cPc = "end" /\ mode = "install" /\ cmd = "up" /\ copyResult \notin {"ok", "lost"} =>
    job \notin part

(* When the client reports success, the console has closed the game, and   *)
(* the next operation finds the lock free.                                 *)
ClosedAtSuccess == Success /\ copyResult = "ok" /\ cmd = "up" => ~task

(* What the client reports is what it leaves behind.                       *)
ReportTrue == SuccessIsWhole /\ FailureLeavesNothing /\ ClosedAtSuccess

(* The client ends whatever is lost: neither close of the data connection  *)
(* waits for the other.  It may wait for ever only for a console whose     *)
(* data thread waits for a bank of an I/O thread that a disk error ended.  *)
ClientEnds == <>(cPc = "end") \/ <>(dPc = "stuck")
=============================================================================
