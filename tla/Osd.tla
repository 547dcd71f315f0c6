-------------------------------- MODULE Osd --------------------------------
(***************************************************************************)
(* The resources a game is shown with in the console's browser: OSD.c,     *)
(* which writes them into the attribute area of the game's partition, the  *)
(* menu that has them installed or retitled, the requests of the server    *)
(* that let a PC client do the same, and the client's side of them.        *)
(*                                                                         *)
(* A thread's step ends where the code waits for the IOP or for the other  *)
(* end of the connection: the offset of the next file, a static variable   *)
(* of InstallOSDFile, is shared by the menu and the client's service       *)
(* thread, and their steps interleave.                                     *)
(***************************************************************************)
EXTENDS OsdArea, Sequences, FiniteSets, FiniteSetsExt

CONSTANTS
  Parts,      \* the games' partitions, positive numbers
  MenuParts,  \* bound: those that the menu is asked to change
  NewTitles,  \* bound: the titles that are asked for
  Cards,      \* what the memory cards may have of the game
  Folders,    \* what a folder on a USB device or on the PC may have of it
  MaxJobs,    \* bound: the changes that menu and client ask for together
  MaxFaults,  \* bound: the disk or the heap refuses so often
  MaxTurns    \* bound: two that install at once take turns so often

(* What a card or a folder has of a game: nothing, an icon.sys without the  *)
(* icon it names, that icon, or the one for a deletion, too. *)
Saves == {"none", "sys", "view", "full"}

ASSUME OsdAssumption ==
  /\ Parts \subseteq Nat \ {0} /\ MenuParts \subseteq Parts
  /\ NewTitles \subseteq GameTitles
  /\ Cards \subseteq Seq(Saves) /\ Folders \subseteq Saves

T == {"menu", "service"}
Other(t) == IF t = "menu" THEN "service" ELSE "menu"

VARIABLES
  disk,    \* disk[p]: the table, and what the sectors hold
  pos,     \* PartExtAttrOffset
  th,      \* th[t]: where the thread is
  res,     \* res[t]: InstFileList, or the resources of the client's context
  copy,    \* FileBuffers: what the menu read back to change a title
  heap,    \* the buffers that are allocated on the console
  leaked,  \* those that nothing points to any more
  task,    \* the partition of the client's TASK_OSD_RESOURCE_CONFIG, or 0
  cl,      \* the client: the calls it has to make, the first under way
  ans,     \* the answer that the client has not taken
  job,     \* job[t]: what was asked for, and the files there were
  last,    \* last[t]: what the user was told of it
  alone,   \* alone[t]: the other thread has installed nothing since
  spoilt,  \* "raced": two installed at once; "table": one was not written;
           \* "seek": the driver refused a position
  turn,    \* who installed last, and the turns taken
  loadFailed,  \* a resource did not reach the server
  jobs, faults

disks == <<disk, pos>>
mem == <<res, copy, heap, leaked>>
ghosts == <<job, last, alone, turn, spoilt, loadFailed, jobs>>
osdVars == <<disks, mem, th, task, cl, ans, ghosts, faults>>

NoFiles == [i \in F |-> Static("none")]
Resting == [at |-> "idle", doing |-> "none", part |-> 0, i |-> 0, data |-> "none",
            files |-> NoTable, tab |-> NoTable, seek |-> 0, ok |-> TRUE]
NoJob == [part |-> 0, title |-> "short", src |-> "none", save |-> "none", before |-> OldFiles]
NoAns == [result |-> "none", data |-> "none", files |-> NoTable]
Away == [at |-> "away", todo |-> << >>, copy |-> NoFiles]

ContentsOf(p) == [i \in F |-> ReadBack(disk[p].area, disk[p].table[i])]
Buffers(list) == Cardinality({i \in F : list[i].buf})

OsdInit ==
  /\ disk = [p \in Parts |-> [table |-> OldTable, area |-> OldArea]]
  /\ pos = 0
  /\ th = [t \in T |-> Resting]
  /\ res = [t \in T |-> NoFiles] /\ copy = NoFiles
  /\ heap = 0 /\ leaked = 0
  /\ task = 0 /\ cl = Away /\ ans = NoAns
  /\ job = [t \in T |-> NoJob]
  /\ last = [t \in T |-> "none"]
  /\ alone = [t \in T |-> FALSE]
  /\ turn = [who |-> "menu", n |-> 0]
  /\ spoilt = {} /\ loadFailed = FALSE
  /\ jobs = 0 /\ faults = 0


-----------------------------------------------------------------------------
(* The resources. *)

Allocated(data, size) == [data |-> data, size |-> size, buf |-> TRUE]

(* The list takes a buffer over, and frees the one it had. *)
LoadOSDResource(t, i, data, size) ==
  /\ res' = [res EXCEPT ![t][i] = Allocated(data, size)]
  /\ heap' = heap - (IF res[t][i].buf THEN 1 ELSE 0)

(* A folder has an icon that its icon.sys names; the one for a deletion is *)
(* optional. *)
GenerateIconFilesFromMCSave(save) == save \in {"view", "full"}

(* The resources of an installation: the icons of the save if it has those *)
(* that it names, the built-in one otherwise, and always an icon.sys. *)
PrepareOSDResources(save, title) ==
  LET new(data) == Allocated(data, FileSize[data]) IN
  [i \in F |->
     CASE i = IconSys -> new(title)
       [] i = ViewIcon /\ GenerateIconFilesFromMCSave(save) -> new("saveview")
       [] i = DelIcon /\ save = "full" -> new("savedel")
       [] OTHER -> PrepareOSDDefaultResources[i]]

(* The first card with an icon.sys of the game. *)
FindGameSaveFolder(card) == {slot \in DOMAIN card : card[slot] # "none"}
LoadMcSaveSys(card) ==
  LET found == FindGameSaveFolder(card) IN
  IF found = {} THEN "none" ELSE card[Min(found)]

FreeOSDResources(t) ==
  /\ res' = [res EXCEPT ![t] = NoFiles]
  /\ heap' = heap - Buffers(res[t])

-----------------------------------------------------------------------------
(* Reading the attribute area, by either thread. *)

(* What was read is an icon.sys, and what its title is. *)
LoadIconSysFile(data) == data \in GameTitles

Opened == {"file", "write", "table"}
(* The partition driver opens a partition once. *)
Busy(t) == LET u == th[Other(t)] IN u.at \in Opened /\ u.part = th[t].part

(* A fault, while not both are installing (a bound). *)
Fault ==
  /\ faults < MaxFaults /\ \E t \in T : th[t].at \notin Opened
  /\ faults' = faults + 1

Goes(t, at) == th' = [th EXCEPT ![t].at = at]
Fails(t) == th' = [th EXCEPT ![t].at = "end", ![t].ok = FALSE]

(* The first file from i on that the table has. *)
NextFile(files, i) ==
  LET left == {j \in F : j >= i /\ files[j].size > 0} IN
  IF left = {} THEN BootKelf + 1 ELSE Min(left)

GetOSDResourceFileStats(t) ==
  /\ th[t].at = "stat"
  /\ LET files == disk[th[t].part].table IN
     \/ Busy(t) /\ Fails(t)
     \/ /\ ~Busy(t)
        /\ th' = [th EXCEPT ![t].files = files,
                            ![t].at = IF th[t].doing = "stat" THEN "end" ELSE "read",
                            ![t].i = CASE th[t].doing = "titles" -> IconSys
                                       [] th[t].doing = "update" -> NextFile(files, 0)
                                       [] OTHER -> @]
  /\ UNCHANGED <<disks, mem, task, cl, ans, ghosts, faults>>

(* The caller's buffer is filled; a title's and a client's are freed when  *)
(* they have been looked at. *)
ReadOSDResourceFile(t) ==
  /\ th[t].at = "read" /\ th[t].i \in F /\ ~Busy(t)
  /\ LET i == th[t].i
         data == ReadBack(disk[th[t].part].area, th[t].files[i]) IN
     IF th[t].doing = "update"
     THEN /\ th' = [th EXCEPT ![t].i = NextFile(th[t].files, i + 1)]
          /\ copy' = [copy EXCEPT ![i] = Allocated(data, th[t].files[i].size)]
          /\ heap' = heap + 1
     ELSE /\ th' = [th EXCEPT ![t].at = "end", ![t].data = data]
          /\ UNCHANGED <<copy, heap>>
  /\ UNCHANGED <<disks, res, leaked, task, cl, ans, ghosts, faults>>

FreeCopies == copy' = NoFiles /\ heap' = heap - Buffers(copy)

ReadFails(t) ==
  /\ th[t].at = "read" /\ th[t].i \in F
  /\ \/ Busy(t) /\ faults' = faults
     \/ ~Busy(t) /\ Fault
  /\ Fails(t)
  /\ IF t = "menu" THEN FreeCopies ELSE UNCHANGED <<copy, heap>>
  /\ UNCHANGED <<disks, res, leaked, task, cl, ans, ghosts>>

-----------------------------------------------------------------------------
(* Writing it. *)

Open(t) ==
  /\ th[t].at = "open"
  /\ \/ Busy(t) /\ Fails(t) /\ UNCHANGED spoilt
     \/ /\ ~Busy(t)
        /\ th' = [th EXCEPT ![t].at = "file", ![t].i = 0, ![t].tab = NoTable, ![t].seek = 0]
        /\ spoilt' = IF th[Other(t)].at \in Opened THEN spoilt \cup {"raced"} ELSE spoilt
  /\ UNCHANGED <<disks, mem, task, cl, ans, job, last, alone, turn, loadFailed, jobs, faults>>

Installs(t) ==
  LET both == th[Other(t)].at \in Opened
      n == IF ~both THEN 0 ELSE IF turn.who = t THEN turn.n ELSE turn.n + 1 IN
  /\ n <= MaxTurns
  /\ turn' = [who |-> t, n |-> n]
  /\ alone' = [alone EXCEPT ![Other(t)] = FALSE]

(* What follows a file: the next one, or the table, which is written even  *)
(* if a file was not. *)
AfterFile(t, ok, tab, seek) ==
  LET i == th[t].i IN
  th' = [th EXCEPT ![t].ok = ok, ![t].tab = tab, ![t].seek = seek,
                   ![t].at = IF ok /\ i < BootKelf THEN "file" ELSE "table",
                   ![t].i = IF ok /\ i < BootKelf THEN i + 1 ELSE i]

FirstOffset(t) == IF th[t].i = SystemCnf THEN Sector ELSE pos

(* Slip: no icon is put in the place of the second one. *)
InstallNothingAtAll(t) ==
  /\ th[t].at = "file" /\ res[t][th[t].i].size < 1
  /\ pos' = FirstOffset(t)
  /\ AfterFile(t, th[t].i \in Optional, th[t].tab, th[t].seek)
  /\ Installs(t)
  /\ UNCHANGED <<disk, mem, task, cl, ans, job, last, spoilt, loadFailed, jobs, faults>>
(* An empty file: the second icon becomes the first once more. *)
InstallNothing(t) ==
  /\ th[t].at = "file" /\ res[t][th[t].i].size < 1
  /\ pos' = FirstOffset(t)
  /\ LET i == th[t].i
         tab == th[t].tab IN
     AfterFile(t, i \in Optional,
               IF i = DelIcon THEN [tab EXCEPT ![DelIcon] = tab[ViewIcon]] ELSE tab,
               th[t].seek)
  /\ Installs(t)
  /\ UNCHANGED <<disk, mem, task, cl, ans, job, last, spoilt, loadFailed, jobs, faults>>

InstallOSDFile(t) ==
  /\ th[t].at = "file" /\ res[t][th[t].i].size >= 1
  /\ LET at == Hopped(FirstOffset(t), res[t][th[t].i].size) IN
     /\ pos' = at
     /\ th' = [th EXCEPT ![t].at = "write", ![t].seek = hddLseek(@, at)]
     /\ spoilt' = IF hddLseek(th[t].seek, at) = at THEN spoilt ELSE spoilt \cup {"seek"}
  /\ Installs(t)
  /\ UNCHANGED <<disk, mem, task, cl, ans, job, last, loadFailed, jobs, faults>>

Behind(offset, size) == offset + Rounded(size)

(* The file that was written gets the offset that the static variable has  *)
(* by now. *)
WriteFile(t) ==
  /\ th[t].at = "write"
  /\ LET i == th[t].i
         r == res[t][i]
         p == th[t].part
         tab == [th[t].tab EXCEPT ![i] = [offset |-> pos, size |-> r.size]]
         fits == Fits(th[t].seek, r.size)
         write(size) ==
           disk' = [disk EXCEPT ![p].area = Written(@, th[t].seek, r.data, size)] IN
     /\ \/ /\ write(r.size) /\ faults' = faults
           /\ AfterFile(t, fits, IF fits THEN tab ELSE th[t].tab, Transferred(th[t].seek, r.size))
        \/ Fault /\ write(1) /\ AfterFile(t, FALSE, th[t].tab, th[t].seek)
     /\ pos' = Behind(pos, r.size)
  /\ Installs(t)
  /\ UNCHANGED <<mem, task, cl, ans, job, last, spoilt, loadFailed, jobs>>

WriteTable(t) ==
  /\ th[t].at = "table"
  /\ \/ /\ disk' = [disk EXCEPT ![th[t].part].table = th[t].tab]
        /\ Goes(t, "end")
        /\ UNCHANGED <<spoilt, faults>>
     \/ Fault /\ Fails(t) /\ spoilt' = spoilt \cup {"table"} /\ UNCHANGED disk
  /\ Installs(t)
  /\ UNCHANGED <<pos, mem, task, cl, ans, job, last, loadFailed, jobs>>

-----------------------------------------------------------------------------
(* The menu: a dialog with the titles of a game, opened while no client is *)
(* there, then a change of the title or other icons. *)

Begins(t, at, doing, p) ==
  th' = [th EXCEPT ![t] = [Resting EXCEPT !.at = at, !.doing = doing, !.part = p]]

Asks(t, p, title, src, save) ==
  /\ jobs < MaxJobs /\ jobs' = jobs + 1
  /\ job' = [job EXCEPT ![t] = [part |-> p, title |-> title, src |-> src, save |-> save,
                                before |-> ContentsOf(p)]]
  /\ last' = [last EXCEPT ![t] = "none"]
  /\ alone' = [alone EXCEPT ![t] = th[Other(t)].at \notin Opened]

DialogOpens(p) ==
  /\ th["menu"].at = "idle" /\ cl.at = "away" /\ jobs < MaxJobs
  /\ Begins("menu", "stat", "titles", p)
  /\ UNCHANGED <<disks, mem, task, cl, ans, ghosts, faults>>

DialogShown ==
  /\ th["menu"].at = "end" /\ th["menu"].doing = "titles"
  /\ Begins("menu", "dialog", "titles", th["menu"].part)
  /\ UNCHANGED <<disks, mem, task, cl, ans, ghosts, faults>>

MenuRetitles(title) ==
  /\ th["menu"].at = "dialog"
  /\ Asks("menu", th["menu"].part, title, "title", "none")
  /\ Begins("menu", "stat", "update", th["menu"].part)
  /\ UNCHANGED <<disks, mem, task, cl, ans, turn, spoilt, loadFailed, faults>>

(* All files are read: those that there are, with the new icon.sys, go     *)
(* over the built-in ones. *)
UpdateFiles ==
  /\ th["menu"].at = "read" /\ th["menu"].i \notin F
  /\ IF LoadIconSysFile(copy[IconSys].data)
     THEN /\ res' = [res EXCEPT !["menu"] =
                 [i \in F |-> CASE i = IconSys -> Allocated(job["menu"].title, FileSize[job["menu"].title])
                                [] i # IconSys /\ copy[i].buf -> copy[i]
                                [] OTHER -> PrepareOSDDefaultResources[i]]]
          /\ copy' = NoFiles /\ heap' = heap
          /\ Goes("menu", "open")
     ELSE FreeCopies /\ Fails("menu") /\ UNCHANGED res
  /\ UNCHANGED <<disks, leaked, task, cl, ans, ghosts, faults>>

(* From the icon of a save or a folder, only if it is there; the user is   *)
(* asked to choose again otherwise. *)
MenuInstalls(title, src, save) ==
  /\ th["menu"].at = "dialog"
  /\ src = "external" => GenerateIconFilesFromMCSave(save)
  /\ Asks("menu", th["menu"].part, title, src, save)
  /\ LET new == PrepareOSDResources(save, title) IN
     res' = [res EXCEPT !["menu"] = new] /\ heap' = heap + Buffers(new)
  /\ Begins("menu", "open", "install", th["menu"].part)
  /\ UNCHANGED <<disks, copy, leaked, task, cl, ans, turn, spoilt, loadFailed, faults>>

Tells(t, ok) ==
  last' = [last EXCEPT ![t] = IF ~ok THEN "fail"
                              ELSE IF job[t].src \in {"save", "external"} THEN "icon" ELSE "ok"]

MenuInstalled ==
  /\ th["menu"].at = "end" /\ th["menu"].doing = "install"
  /\ FreeOSDResources("menu")
  /\ Tells("menu", th["menu"].ok)
  /\ Begins("menu", "idle", "none", 0)
  /\ UNCHANGED <<disks, copy, leaked, task, cl, ans, job, alone, turn, spoilt, loadFailed, jobs, faults>>

(* The function returns without freeing what it loaded. *)
MenuRetitled ==
  /\ th["menu"].at = "end" /\ th["menu"].doing = "update"
  /\ leaked' = leaked + Buffers(res["menu"])
  /\ res' = [res EXCEPT !["menu"] = NoFiles]
  /\ Tells("menu", th["menu"].ok)
  /\ Begins("menu", "idle", "none", 0)
  /\ UNCHANGED <<disks, copy, heap, task, cl, ans, job, alone, turn, spoilt, loadFailed, jobs, faults>>

-----------------------------------------------------------------------------
(* The server's requests. *)

Call == IF cl.at = "waits" THEN Head(cl.todo) ELSE [cmd |-> "none"]
Asked(cmd) == th["service"].at = "idle" /\ ans = NoAns /\ Call.cmd = cmd
Answers(result) == ans' = [NoAns EXCEPT !.result = result]

InitDefaultOSDResources ==
  /\ Asked("initdef")
  /\ IF task # 0
     THEN Answers("fail") /\ UNCHANGED <<res, task>>
     ELSE /\ res' = [res EXCEPT !["service"] = PrepareOSDDefaultResources]
          /\ task' = job["service"].part
          /\ Answers("ok")
  /\ UNCHANGED <<disks, copy, heap, leaked, th, cl, ghosts, faults>>

InitOSDResources ==
  /\ Asked("init") \/ Asked("initsave")
  /\ \E card \in Cards :
       LET save == IF Call.cmd = "initsave" THEN LoadMcSaveSys(card) ELSE "none"
           new == PrepareOSDResources(save, job["service"].title) IN
       IF task # 0
       THEN Answers("fail") /\ UNCHANGED <<res, heap, task, job>>
       ELSE /\ res' = [res EXCEPT !["service"] = new]
            /\ heap' = heap + Buffers(new)
            /\ task' = job["service"].part
            /\ job' = [job EXCEPT !["service"].save = IF Call.cmd = "initsave" THEN save ELSE @]
            /\ Answers(IF GenerateIconFilesFromMCSave(save) THEN "icon" ELSE "ok")
  /\ UNCHANGED <<disks, copy, leaked, th, cl, last, alone, turn, spoilt, loadFailed, jobs, faults>>

(* The first answer has the client send the file. *)
OSDResourceLoadInit ==
  /\ Asked("load")
  /\ \/ /\ task # 0
        /\ th' = [th EXCEPT !["service"].at = "payload", !["service"].i = Call.i]
        /\ heap' = heap + 1
        /\ UNCHANGED <<ans, faults>>
     \/ /\ (task = 0 /\ faults' = faults) \/ Fault
        /\ Answers("fail")
        /\ UNCHANGED <<th, heap>>
  /\ UNCHANGED <<disks, res, copy, leaked, task, cl, ghosts>>

ResourceArrives ==
  /\ th["service"].at = "payload" /\ cl.at = "waits"
  /\ LoadOSDResource("service", Call.i, Call.data, Call.size)
  /\ Answers("ok") /\ Goes("service", "idle")
  /\ UNCHANGED <<disks, copy, leaked, task, cl, ghosts, faults>>

ResourceLost ==
  /\ th["service"].at = "payload" /\ cl.at = "gone"
  /\ heap' = heap - 1
  /\ Goes("service", "idle")
  /\ UNCHANGED <<disks, res, copy, leaked, task, cl, ans, ghosts, faults>>

WriteOSDResources ==
  /\ Asked("write")
  /\ IF task = 0
     THEN Answers("fail") /\ UNCHANGED th
     ELSE Begins("service", "open", "write", task) /\ UNCHANGED ans
  /\ UNCHANGED <<disks, mem, task, cl, ghosts, faults>>

ResourcesWritten ==
  /\ th["service"].at = "end" /\ th["service"].doing = "write"
  /\ FreeOSDResources("service")
  /\ task' = 0
  /\ Answers(IF th["service"].ok THEN "ok" ELSE "fail")
  /\ Begins("service", "idle", "none", 0)
  /\ UNCHANGED <<disks, copy, leaked, cl, ghosts, faults>>

(* Slip: the resources go, the task stays. *)
CancelKeepsTask ==
  /\ Asked("cancel")
  /\ IF task = 0
     THEN Answers("fail") /\ UNCHANGED <<res, heap>>
     ELSE FreeOSDResources("service") /\ Answers("ok")
  /\ UNCHANGED <<disks, copy, leaked, th, task, cl, ghosts, faults>>

CancelOSDResourceWrite ==
  /\ Asked("cancel")
  /\ IF task = 0
     THEN Answers("fail") /\ UNCHANGED <<res, heap, task>>
     ELSE FreeOSDResources("service") /\ task' = 0 /\ Answers("ok")
  /\ UNCHANGED <<disks, copy, leaked, th, cl, ghosts, faults>>
(* GetOSDResourceStat, ReadOSDResource and ReadOSDResourceTitles. *)
ReadingRequest ==
  /\ \E cmd \in {"stat", "read", "titles"} :
       /\ Asked(cmd)
       /\ th' = [th EXCEPT !["service"] = [Resting EXCEPT !.at = "stat", !.doing = cmd,
                              !.part = job["service"].part, !.i = Call.i]]
  /\ UNCHANGED <<disks, mem, task, cl, ans, ghosts, faults>>

(* Slip: a file that could not be read is not answered. *)
ReadingAnsweredIfRead ==
  /\ th["service"].at = "end" /\ th["service"].doing \in {"stat", "read", "titles"}
  /\ th["service"].ok
  /\ ans' = [result |-> "ok", data |-> th["service"].data, files |-> th["service"].files]
  /\ Begins("service", "idle", "none", 0)
  /\ UNCHANGED <<disks, mem, task, cl, ghosts, faults>>

ReadingAnswered ==
  /\ th["service"].at = "end" /\ th["service"].doing \in {"stat", "read", "titles"}
  /\ LET s == th["service"] IN
     ans' = [result |-> IF s.ok THEN "ok" ELSE "fail", data |-> s.data, files |-> s.files]
  /\ Begins("service", "idle", "none", 0)
  /\ UNCHANGED <<disks, mem, task, cl, ghosts, faults>>

(* The context is freed, what its resources had is not. *)
CleanupClientConnection ==
  /\ cl.at = "gone" /\ th["service"].at = "idle"
  /\ leaked' = leaked + Buffers(res["service"])
  /\ res' = [res EXCEPT !["service"] = NoFiles]
  /\ task' = 0 /\ cl' = Away /\ ans' = NoAns
  /\ job' = [job EXCEPT !["service"] = NoJob]
  /\ last' = [last EXCEPT !["service"] = "none"]
  /\ alone' = [alone EXCEPT !["service"] = FALSE]
  /\ UNCHANGED <<disks, copy, heap, th, turn, spoilt, loadFailed, jobs, faults>>

-----------------------------------------------------------------------------
(* The PC client. *)

Req(cmd) == [cmd |-> cmd, i |-> SystemCnf, data |-> "none", size |-> 0]
Load(i, data, size) == [cmd |-> "load", i |-> i, data |-> data, size |-> size]

ClientComes ==
  /\ cl.at = "away" /\ jobs < MaxJobs
  /\ cl' = [cl EXCEPT !.at = "idle"]
  /\ UNCHANGED <<disks, mem, th, task, ans, ghosts, faults>>

(* The connection is lost, which the server sees when it looks at it next; *)
(* an answer under way goes nowhere. *)
ClientGone ==
  /\ cl.at \in {"idle", "waits"} /\ th["service"].at \in {"idle", "payload"}
  /\ cl' = [Away EXCEPT !.at = "gone"]
  /\ UNCHANGED <<disks, mem, th, task, ans, ghosts, faults>>

Sends(todo) == cl' = [cl EXCEPT !.at = "waits", !.todo = todo]

VerifyMcSave(save) == save \in {"view", "full"}

(* The icon of a folder on the PC: the one for a deletion is loaded in the *)
(* place of the other. *)
ConvertMcSave(title, save) ==
  <<Load(IconSys, title, FileSize[title]), Load(ViewIcon, "saveview", FileSize["saveview"])>>
  \o (IF save = "full" THEN <<Load(ViewIcon, "savedel", FileSize["savedel"])>> ELSE << >>)

ClientInstalls(p, title, src, save) ==
  /\ cl.at = "idle"
  /\ src = "external" => VerifyMcSave(save)
  /\ Asks("service", p, title, src, save)
  /\ Sends(CASE src = "default" -> <<Req("init"), Req("write")>>
              [] src = "save" -> <<Req("initsave")>>
              [] src = "external" -> <<Req("init")>> \o ConvertMcSave(title, save) \o <<Req("write")>>)
  /\ UNCHANGED <<disks, mem, th, task, ans, turn, spoilt, loadFailed, faults>>

ClientRetitles(p, title) ==
  /\ cl.at = "idle"
  /\ Asks("service", p, title, "title", "none")
  /\ Sends(<<Req("titles"), Req("stat")>>)
  /\ UNCHANGED <<disks, mem, th, task, ans, turn, spoilt, loadFailed, faults>>

(* The answer to a call, and whether it was a good one. *)
Taken(cmd, ok) ==
  /\ Call.cmd = cmd /\ ans # NoAns /\ ok = (ans.result # "fail")
  /\ ans' = NoAns
  /\ UNCHANGED <<disks, mem, th, task, alone, turn, spoilt, jobs, faults>>
Continue(more) == cl' = [cl EXCEPT !.todo = Tail(@) \o more] /\ UNCHANGED <<job, last>>
End(ok) ==
  /\ cl' = [Away EXCEPT !.at = "idle"]
  /\ Tells("service", ok)
  /\ UNCHANGED job

(* The server has the icon of a save, or the client cancels and asks for   *)
(* the built-in one. *)
InitSaveTaken(ok) ==
  /\ Taken("initsave", ok)
  /\ IF ans.result = "icon"
     THEN Continue(<<Req("write")>>)
     ELSE /\ cl' = [cl EXCEPT !.todo = <<Req("cancel"), Req("init"), Req("write")>>]
          /\ job' = [job EXCEPT !["service"].src = "default"]
          /\ UNCHANGED last
  /\ UNCHANGED loadFailed

InitTaken(ok) ==
  /\ \E cmd \in {"init", "initdef"} : Taken(cmd, ok)
  /\ IF ok THEN Continue(<< >>) ELSE End(FALSE)
  /\ UNCHANGED loadFailed

(* Only a change of the title goes on without a resource; an installation  *)
(* ends, and the server's task with it does not. *)
LoadTaken(ok) ==
  /\ Taken("load", ok)
  /\ IF ok \/ job["service"].src = "title" THEN Continue(<< >>) ELSE End(FALSE)
  /\ loadFailed' = (loadFailed \/ ~ok)

CancelTaken(ok) == Taken("cancel", ok) /\ Continue(<< >>) /\ UNCHANGED loadFailed
TitlesTaken(ok) == Taken("titles", ok) /\ Continue(<< >>) /\ UNCHANGED loadFailed
WriteTaken(ok) == Taken("write", ok) /\ End(ok) /\ UNCHANGED loadFailed

(* The files are read back one by one, then loaded with the new icon.sys;  *)
(* the buffer of one that is no longer there has what it had. *)
StatTaken(ok) ==
  LET reads == [i \in F |-> [Req("read") EXCEPT !.i = i, !.size = ans.files[i].size]]
      some(i) == IF reads[i].size > 0 THEN <<reads[i]>> ELSE << >>
      all == some(0) \o some(1) \o some(2) \o some(3) \o some(4) IN
  /\ Taken("stat", ok)
  /\ IF ok /\ all # << >> THEN Continue(all) ELSE End(FALSE)
  /\ UNCHANGED loadFailed

ReadTaken(ok) ==
  LET filled == IF ans.data = "none" THEN "torn" ELSE ans.data
      got == [cl.copy EXCEPT ![Call.i] = [data |-> filled, size |-> Call.size, buf |-> FALSE]]
      title == job["service"].title
      load(i) == IF i = IconSys THEN <<Load(i, title, FileSize[title])>>
                 ELSE IF got[i].size > 0 THEN <<Load(i, got[i].data, got[i].size)>> ELSE << >>
      loads == load(0) \o load(1) \o load(2) \o load(3) \o load(4) IN
  /\ Taken("read", ok)
  /\ IF ~ok \/ (Len(cl.todo) = 1 /\ ~LoadIconSysFile(got[IconSys].data))
     THEN End(FALSE)
     ELSE /\ cl' = [cl EXCEPT !.copy = got,
                  !.todo = Tail(@) \o (IF Len(@) > 1 THEN << >>
                                       ELSE <<Req("initdef")>> \o loads \o <<Req("write")>>)]
          /\ UNCHANGED <<job, last>>
  /\ UNCHANGED loadFailed

-----------------------------------------------------------------------------
ThreadStep(t) ==
  \/ GetOSDResourceFileStats(t) \/ ReadOSDResourceFile(t) \/ ReadFails(t)
  \/ Open(t) \/ InstallNothing(t) \/ InstallOSDFile(t) \/ WriteFile(t) \/ WriteTable(t)

MenuStep == DialogShown \/ UpdateFiles \/ MenuInstalled \/ MenuRetitled

ServiceStep ==
  \/ InitDefaultOSDResources \/ InitOSDResources
  \/ OSDResourceLoadInit \/ ResourceArrives \/ ResourceLost
  \/ WriteOSDResources \/ ResourcesWritten \/ CancelOSDResourceWrite
  \/ ReadingRequest \/ ReadingAnswered \/ CleanupClientConnection

ClientStep ==
  \E ok \in BOOLEAN :
    \/ InitSaveTaken(ok) \/ InitTaken(ok) \/ LoadTaken(ok) \/ CancelTaken(ok)
    \/ TitlesTaken(ok) \/ WriteTaken(ok) \/ StatTaken(ok) \/ ReadTaken(ok)

SavesFor(src) == IF src = "external" THEN Folders ELSE {"none"}

UserStep ==
  \/ \E p \in MenuParts : DialogOpens(p)
  \/ ClientComes \/ ClientGone
  \/ \E title \in NewTitles :
       \/ MenuRetitles(title)
       \/ \E p \in Parts : ClientRetitles(p, title)
       \/ \E src \in {"default", "external"} : \E save \in SavesFor(src) :
            MenuInstalls(title, src, save)
       \/ \E p \in Parts : \E src \in {"default", "save", "external"} : \E save \in SavesFor(src) :
            ClientInstalls(p, title, src, save)

OsdNext == (\E t \in T : ThreadStep(t)) \/ MenuStep \/ ServiceStep \/ ClientStep \/ UserStep

OsdSpec == OsdInit /\ [][OsdNext]_osdVars

-----------------------------------------------------------------------------
(* The threads are where they can be, and the offset is one of the area's  *)
(* or behind it. *)
OsdTypeOK ==
  /\ \A t \in T :
       /\ th[t].at \in {"idle", "stat", "read", "end", "open", "file", "write", "table",
                        "dialog", "payload"}
       /\ th[t].at \in Opened => th[t].part \in Parts /\ th[t].i \in F
       /\ \A i \in F : res[t][i].data \in Known
  /\ pos \in Nat /\ heap \in Nat /\ leaked \in Nat
  /\ task \in Parts \cup {0}

(* What HDLoader keeps of the game in the middle of the area is never      *)
(* written over, even if the menu and a client install at once and share   *)
(* the offset: only if their files together are longer than the area, and  *)
(* the driver refuses a position that nobody checks, is the file written   *)
(* where the last one ended, wherever that is. *)
HeaderKept ==
  \/ {"raced", "seek"} \subseteq spoilt
  \/ \A p \in Parts : \A s \in Header : disk[p].area[s] = <<"header", s - HeaderAt>>

(* A file that the table of a game names can be read back as one whole     *)
(* file, whatever write failed or file did not fit, unless the table       *)
(* itself could not be written or two installed at once. *)
TableTrue ==
  \A p \in Parts :
    \/ spoilt \cap {"raced", "table"} # {}
    \/ \E t \in T : th[t].at \in Opened /\ th[t].part = p
    \/ \A i \in F : Whole(disk[p].area, disk[p].table[i])

(* What lies in the attribute area of a game is whole. *)
AreaTrue == OsdTypeOK /\ HeaderKept /\ TableTrue

(* The files that an installation or a change of the title asks for. *)
Named(list) == [i \in F |-> list[i].data]
AskedFor(t) ==
  LET j == job[t]
      builtIn == Named(PrepareOSDDefaultResources)
      old == [i \in F |-> IF j.before[i] = "none" THEN builtIn[i] ELSE j.before[i]] IN
  CASE j.src = "title" -> [old EXCEPT ![IconSys] = j.title]
    [] j.src = "default" -> Named(PrepareOSDResources("none", j.title))
    [] OTHER -> Named(PrepareOSDResources(j.save, j.title))
(* The icon for a deletion is the other one if there is none. *)
Wanted(t) ==
  LET f == AskedFor(t) IN
  IF f[DelIcon] = "none" THEN [f EXCEPT ![DelIcon] = f[ViewIcon]] ELSE f
(* The client loads the icon for a deletion as the icon for the list. *)
DeleteIconMisplaced(t) == t = "service" /\ job[t].src = "external" /\ job[t].save = "full"

(* Whoever is told that the change was made, by the menu or the client,    *)
(* with the icon of a save or the built-in one, has exactly the files that *)
(* were asked for, and those that the title did not touch as they were,    *)
(* as long as the other side installed nothing meanwhile. *)
AsAsked ==
  \A t \in T :
    last[t] \in {"ok", "icon"} /\ alone[t] /\ ~DeleteIconMisplaced(t) /\ ~loadFailed
    => ContentsOf(job[t].part) = Wanted(t)

(* A buffer is in one list, or under way into one, and freed once; only a  *)
(* change of the title by the menu and a client that is lost with its      *)
(* resources leave any behind. *)
HeapOwned ==
  heap = leaked + Buffers(res["menu"]) + Buffers(res["service"]) + Buffers(copy)
         + (IF th["service"].at = "payload" THEN 1 ELSE 0)

(* A client that has been answered, and has lost no resource on the way,   *)
(* leaves the server free for the next one. *)
TaskFree == cl.at = "idle" /\ ~loadFailed => task = 0

(* A change leaves neither memory nor a task behind. *)
NothingLeft == HeapOwned /\ TaskFree

(* A client that waits for an answer is never left waiting by everyone: the *)
(* service thread can go on with what it does for it, the answer is there, *)
(* or the menu can go on that has its turn with the disk. *)
NeverStuck ==
  cl.at = "waits" =>
    ENABLED (\/ \E t \in T : ThreadStep(t)
             \/ ServiceStep
             \/ ClientStep)
=============================================================================
