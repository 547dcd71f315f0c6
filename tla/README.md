# A TLA+ model of the HDLGame installer

HDLGame installer puts PlayStation 2 games on the console's hard disk, either from a
disc in the console's drive or from a PC over the network. This directory holds TLA+
modules that model its control, TLC configurations that check them on small
instances, and theorems about them that TLAPS checks for every instance.

Sections: 1 the system, 2 the modules, 3 the runs with their bounds and fairness,
4 what the models show of the code where it falls short, 5 the proofs, 6 what is not
modelled, 7 the plan.

## 1. The system

### Components

| Component | Source | State it keeps | Operations | Model |
|---|---|---|---|---|
| Bank I/O layer | `io.c` | ring of banks, `WritePtr`, `ReadPtr`, `inBufSema`, `outBufSema`, `CmdAckSema`, command, state, one I/O thread | init, get buffer, signal, read next, advance, end, status, alloc, free | `BankIO`, `BankWriter`, `BankReader` |
| Game transfer | `HDLGameSvr.c` 669-732, 838-940 | `GameInstallationContext` | `WriteGame`, `ReadGame`, `DataThread`, `CloseGame` | `WriteGame`, `ReadGame` |
| Game server | `HDLGameSvr.c` | one client slot (`status`, `task`, `TaskData`, `StateSemaID`, two threads), `InstallationLockSema`, `NumClientsConnected`, `NeedReloadGameList` | accept, about 25 commands, cleanup, shutdown | `GameServer`, and its list, resource and transfer commands in `GameList`, `Osd`, `Transfer` |
| Disc installer | `system.c` 667-910 | `CDVDDriveGameInstallerParams`, the drive's read-ahead | install, cancel | `DiscInstall` |
| Main menu | `menu.c` 1440-2065 | pointer to the game list, generation, selection and view, `IsRemoteClientConnected` | install, update, delete, options, remote screen, quit | `GameList`, `GameServer` (the lock), `Osd` (resources) |
| Game list | `HDLGameList.c` | list, count, generation, lock | load, get, free | `GameList` |
| hdlfs driver | `hdlfs/main.c` | mount table, slices, position, semaphore per mount | format, mount, open, seek, read, write, stat, unmount | `HdlFs`, `FlatDisk` |
| Partition creation | `system.c` 498-653 | none | `GetPartSize`, `CreateAndFormatPartition` | `PartSize`, `HdlFs` |
| APA driver | `apa-hdl/src/` | file slots, `fioSema`; libapa's cache and journal (external) | format, open, create, remove, rename, swap, directory, sub-partitions; seek, read, write | `Apa`, `OsdArea` |
| OSD resources | `OSD.c`, `HDLGManClient/OSD.c` | table and files in the attribute area, a static offset, the slot's resources | install, read back, retitle, from a save, a folder or built-in | `Osd`, `OsdArea`, `IconSys` |
| PC client, transfers | `HDLGManClient/install-main.c`, `client.c` | job queue, sector number, two sockets | install, retrieve, retry, reconnect, resume, close | `Transfer` |
| PC client, banks | `HDLGManClient/io.c` | as `io.c`, with Windows events | as `io.c` | `ClientIO` |
| PC client, windows | `HDLGManClient/main.c`, `HDLGManClient.c` | none of its own in the model | load the list; resource calls | `GameList`, `Osd` (the calls) |
| Start-up, network, devices | `main.c`, `ipconfig.c`, `DeviceSupport.c` | device readiness, addresses | boot, end | order of start and end only |
| Settings, ISO 9660, user interface | `settings.c`, `iso9660.c`, `UI.c`, `font.c`, ... | files and pictures | read, write, draw | not modelled |

### How they interact

* A **producer or consumer thread** (the data thread of a client, or the disc
  installer thread) and the **I/O thread** share the ring of banks. Two counting
  semaphores say how many banks are free and how many are full; a plain variable and
  a counted wake-up tell the I/O thread what to do; `CmdAckSema` tells the caller of
  `IOEndWrite`/`IOEndRead` that it is through. The PC client has the same ring on
  Windows events, which remember one wake-up only.
* The **accept loop** starts the service thread of the slot. The **service thread**
  executes one command at a time; opening a game takes `InstallationLockSema`, starts
  the I/O thread and then the data thread, which transfers the game and closes it.
  Both threads close games, under `StateSemaID`.
* The **main menu** runs at a lower priority. It shows a remote screen while a client
  is connected, and takes `InstallationLockSema` to install from a disc.
* `hdl0:`, the mounted game partition, is one device: the lock is there so that it is
  used by one of them at a time. It lies on the partitions of the **APA driver**, which
  lets one caller in at a time through `fioSema`.
* Menu and service thread share the **game list**: one keeps a pointer into it, the
  other loads it again. They share `OSD.c` too, with a static variable in it.
* The **PC client** drives the server over a command connection and a data connection.
  It believes the answers it gets, retries, reconnects and resumes.

### What is hard

* One bank too many or too few, one pointer not wrapped, one short last bank in the
  middle of a run: half a megabyte of a game is lost, repeated or shifted, and the
  installation still reports success.
* Commands are not queued, only wake-ups are; on the PC, not even those.
* A disk error ends the I/O thread while others wait for it.
* A game is opened in six steps, each of which may fail. Three threads may end an
  installation or look at its result; connections break at any point, on either side,
  and a client may return before the last one is cleaned up.
* A transfer that was interrupted resumes where the client thinks it was.
* A game spreads over several partitions whose sizes are found by trial; every change
  of the partition table takes several flushes, and the power may go between two.
* A list is used without its lock, under an index that was made for another list.
* Files are laid round a header in the middle of the area they share, by two threads.

`PROJECT.json` lists the hazards with their lines and the properties that cover them.

## 2. Modules

* **`BankIO`** - the state of `io.c` (`IOState`), the I/O thread's sleep, dispatch and
  exits. A semaphore is its count; `WakeupThread` is a counter, as the EE kernel
  remembers wake-ups. `IOExecCmd` is `IOExec`.
* **`BankWriter`**, **`BankReader`** - one action per step of `IOExecWriteNext` and
  `IOExecReadNext` between two semaphore operations, and one operator per call of the
  interface. `disk`, and `fetched`, record what passed the file descriptor. Data is a
  number per sector: the position of the sector in the image.
* **`WriteGame`**, **`ReadGame`** - the data thread on top of them, one action per
  blocking call. A receive may fail after part of a bank, a send after part of one.
  Freeing the banks overwrites them with zeros, so that a late use of them shows.
* **`SectorPipe`** - the abstract specification: sectors are put in order, and come
  out in order and complete if OK is reported. `WriteGame` and `ReadGame` implement
  it under the mappings at the end of each module (`ImplementsPipe`).
* **`DiscInstall`** - the installer thread on top of `BankWriter`, with the drive that
  reads one bank ahead, the user who may cancel at any time, and the main thread that
  closes the partition. Memory for the banks, or a thread for the I/O, may be lacking.
* **`GameServer`** - the slot, its two threads, the accept loop, the lock and the menu.
  The ring is reduced to `io`: no game open, an I/O thread that runs, or one that died
  (what that means is in `WriteGame` and `ReadGame`). Code between two blocking calls
  is one action, as service and data thread have the same priority and the kernel does
  not slice time; the higher-priority accept loop may come in between any two.
  `CONSTANTS` switch each kind of failure.
* **`PartSize`** - `GetPartSize` and the layout of slices as operators; its unsigned
  subtraction is modelled by what it does (`Wasteful`). **`HdlFs`** - the life of a
  game: partitions made one by one on a disk that may be full, formatted, mounted,
  sought in, read and written slice by slice, with a disk error at any slice.
  **`FlatDisk`** is what the driver promises, one array of sectors with one position;
  `HdlFs` implements it (`ImplementsFlat`). **`HdlFsMC`** gives the sizes.
* **`Apa`** - the headers on the disk, the slots and `fioSema`. A call that flushes once
  is one action; one that flushes several times is one action per flush, and `Crash`
  may come between any two (libapa's journal makes one flush atomic, which is taken
  from how the code uses it). `SecondEnters` is a thread that `fioSema` lets in while
  another is inside, after a failed rename; the model goes no further then, as what two
  threads do in the driver's cache is beyond it. **`ApaMC`** has the system partitions
  and the symmetry of the threads.
* **`GameList`** - the list with its lock and generation; the menu, one action per
  frame part between two waits; the service thread that loads the list for a client or
  at a client's end; the client; the server loop and its end. `MainMenu` looks at the
  button that quits, and if that was not pressed at START or SELECT, at the select button
  and at TRIANGLE, one after the other in the same frame; `after` is where it goes on
  when the dialog of one of them is over, and `quits` the loop's `done`. `early`,
  `halfway` and `between` record that one of three races or failures took place
  (section 4).
* **`OsdArea`** - the attribute area: `InstallOSDFile`'s placing of a file, the seek and
  the transfer of the APA driver, reading a file back by its table. A sector holds the
  name of a file and which part of it this is. **`Osd`** - `OSD.c`'s installing, reading
  and retitling as threads whose steps end where they wait, run by menu and service
  thread, with the requests of the server and the calls of the client above them;
  buffers are counted. **`OsdMC`** gives the memory cards.
* **`IconSys`** - the text of `icon.sys`: made from a save, from built-in values or by a
  change of the title, printed, and read line by line by console or client. A string
  is how many spaces lead it, from which character of the title it comes, its length,
  what nobody wrote, and the width of its characters. The console's reader clears more
  than the string it reads (section 4): the lines of the struct that follow it, and what
  lies behind the struct, where the outcomes are choices: nothing of note, a change that
  is not written (`NotWritten`), or a console that is lost (`ConsoleLost`).
  **`IconSysMC`** has the saves.
* **`ClientIO`** - the client's ring in both directions, with its events.
* **`Transfer`** - one thread of the client with all its retries, and the console as far
  as the client can tell: the slot, the data thread, the bank it is at, the partition.
  After a disk error the data thread looks at the I/O status with one of its next banks,
  or waits for a bank that nobody will signal: `dPc = "stuck"`, for ever.
* **`WriteGame_proofs`**, **`ReadGame_proofs`**, **`DiscInstall_proofs`**,
  **`Transfer_proofs`** - the theorems, each about the module of its name;
  **`GamePartition_proofs`** - those about `HdlFs`. **`Console_proofs`** has those about
  `GameServer` and `Apa`, **`Client_proofs`** those about `ClientIO` and `IconSys`,
  **`GameList_proofs`** those about `GameList` and `Osd`, both about what the menu, the
  service thread and a client share: in each case two parts that have no variable in
  common. The names in `Apa`, `IconSys` and `Osd` (`ApaSpec`, `iconVars`, `OsdTypeOK`) leave
  room for the other's.

Operators commented "Slip" are deliberately wrong variants of the action that follows
them. No specification uses them; replacing the action by its slip makes the property
named in `PROJECT.json` fail, which shows that the property depends on the code.

## 3. Runs

| Configuration | Shows |
|---|---|
| `WriteGame.cfg` | Received games: banks conserved and disjoint, none used after it is freed, the image complete when OK is reported, `SectorPipe` implemented, the transfer ends unless the disk fails |
| `ReadGame.cfg` | The same for games that are sent |
| `DiscInstall.cfg` | Lack of memory, disc errors, disk errors and cancelling: the drive never reads into a bank still to be written, "installed" means complete (but for the last writes, section 4), every installation ends unless the disk fails |
| `GameServer.cfg` | All failures at once: the lock excludes, a game is closed by one thread, the remote screen and the client count follow the service thread |
| `GameServerCalm.cfg` | Peers may vanish, nothing else fails, and a peer that stays receives and closes its data connection: a waiting menu gets the lock, `CLOSE_GAME` is answered |
| `HdlFs.cfg` | The partitions made hold the image and are accepted by `hdlfs_format`; the three forms of the position agree after every error, no transfer is refused, and the mounted game is a flat disk |
| `Apa.cfg` | After every flush, hence after a crash: the chain of headers, the alignment, the lists of sub-partitions, the names; open slots agree with the disk; a directory walk sees all that stays |
| `GameList.cfg` | The menu notices that its list is not the current one, acts on the game it showed unless that frame's pad or an earlier button of it changed the selection, and shows what is on the disk; the client gets the list it was told of; neither a frame nor quitting waits for ever as long as clients receive what they are sent |
| `Osd.cfg` | HDLoader's header is kept, a table names whole files, whoever is told "done" has the files asked for, nothing is leaked, a waiting client is never left waiting by everyone |
| `IconSys.cfg` | The printed text fits its buffers, a change of the title that is written changes the title alone, a save's title is taken over whole |
| `ClientIO.cfg` | The client's ring loses no wake-up, moves the image in order and whole, and ends |
| `Transfer.cfg` | However often a transfer is interrupted and resumed, sectors are in their places, what the client reports is what is there, and it ends unless a disk error leaves the console's data thread waiting for a bank |

An invariant whose name joins several (`BanksSound`, `CopyFaithful`, `SizesFit`,
`HandleSound`, `DiskWhole`, `SlotsSound`, `ScreenTrue`, `AreaTrue`, `NothingLeft`,
`Copied`, `InPlace`, `ReportTrue`) is a conjunction of named parts, each with its own
comment in the module; `TypeOK` is one of them where it is not a theorem.

### Bounds

* `NBufs` is 3 (32 in the code) and `BufMax` 2 (256). Three banks allow a run of one,
  of two and of all banks, a run cut at the end of the ring, a full ring and an empty
  one; two sectors make a bank longer than the short last one. `ClientIO` takes a
  bank as one block, as nothing there depends on a bank's length.
* `Total` is 13 sectors for writing and 9 for reading and installing: an odd number,
  so that the last bank is short, and more than twice (once and a half) the ring, so
  that every bank is reused and the run wraps at each position.
* `GameServer` needs no bound: every variable is finite. No counter of the rings is cut
  by a guard. `wake` is bounded by the number of banks handed over.
* `HdlFs`: sizes 3, 6 and 12 of which a main partition loses 2 and a sub-partition 1;
  images of 2 sectors (which a doubling of the size would waste) and 7 (up to four
  partitions when the disk is full); the largest size the disk allows is the
  smallest or the largest.
* `Apa`: a disk of 9 units, sizes 1, 2 and 4, two slots, two sub-partitions, one call
  cut off (`MaxCuts`): not a multiple of the largest size, room for fillers in front of
  a partition of 4, and little enough that a partition must take the place of removed
  ones.
* `GameList`: two games, of which one is displayed, so that the view must follow the
  selection; two changes of the disk (`MaxChanges`), as a race needs one change by
  each side.
* `Osd`: an area of 13 sectors with its header in the sixth and seventh (2050 and more,
  in the code), which the longest set of files fills to the last sector; two partitions,
  the menu changing one of them (`MenuParts`); two changes in all (`MaxJobs`), one
  failure (`MaxFaults`) and none while both install; two threads that install at once
  take turns at most twice (`MaxTurns`), which is what one file in the wrong place
  needs.
* `IconSys`: the longest and shortest title, of one byte and three per character; lengths
  of a save's two lines on both sides of every limit; numbers of the most digits, light
  directions within one of either side of zero and rounded to three digits, as the
  console writes them; two rounds of reading (`MaxReads`). The longest text has 501
  bytes.
* `Transfer`: three blocks of two banks, three banks under way, two games, two retries
  and two reconnections (`RETRY_COUNT`, `RECONNECT_COUNT`), three faults (`MaxFaults`):
  enough to use up the retries of one block, or to lose both connections and one again
  while it is re-established.

### Fairness

`FairSpec` assumes weak fairness of each thread: the kernel runs a thread that is ready,
and a disc or disk transfer returns. Nothing is assumed of the user or of failures. What
is assumed of the other side of a connection differs, because the code sets a timeout of
30 seconds for the receives of `ReceiveData` and of the client, and none for a send, nor
for the receives that wait for the other side to close (`HDLGameSvr.c` 444, `client.c`
207):

* `WriteGame` and `ReadGame` take a receive, or a send, to end, with an error perhaps.
* `GameServer` adds strong fairness of the three steps that wait for `StateSemaID`, since a
  semaphore wakes its waiters in order. It assumes that a transfer and a disc installation
  end, that a client receives what it is sent, and that it closes its data connection or
  is lost: its fairness of the data thread includes the receive without a timeout. A
  client that keeps its data connection open keeps the lock.
* `GameList` adds strong fairness, for the same reason, for the two steps of the menu that
  wait for the list's lock. Of the service thread only the steps are fair that it takes
  alone (`ServiceAlone`); sending is not, and that no entry of the list is being sent for
  ever (`SendsEnd`) is the premise of `WaitsEnd`.
* `Transfer` is fair to both programs and to nothing that loses a connection. Sending to a
  side that does not receive, and waiting for a bank of a dead I/O thread, are disabled
  steps there.

`HdlFs`, `Apa`, `Osd` and `IconSys` state safety only and assume no fairness.

`CHECK_DEADLOCK FALSE` appears where the system stops, as each configuration says: a
transfer or an installation is over, the program has ended, there is nothing more to
ask for, or every thread waits for an I/O thread that is gone.

## 4. Where the code falls short

The properties above hold of the code as it is. Some carry an exception, named in their
comments, because the code does not keep what it seems to promise there; and some
claims were dropped because a counterexample shows them false. The counterexamples, each
confirmed against the source:

* A **disk error** deletes the I/O thread without an answer (`io.c` 135, 169); `CloseGame`
  and the installer then wait for it for ever. So does the data thread where it waits for
  a bank before it looks at the status (`HDLGameSvr.c` 847, 913), and with it the client,
  whose send, or whose wait for the connection's end, has no timeout (`client.c` 21, 207).
  Hence "unless the disk fails" in `TransferEnds` of the console and in `InstallEnds`, and
  the exception (`stuck`) of `ClientEnds`.
* An error in the **last writes** of a disc is reported by `IOEndWrite` as 1 and tested
  with `< 0` (`system.c` 769): the game counts as installed (`InstalledIsComplete`).
* **Cancelling** frees the banks and closes the partition under the I/O thread
  (`system.c` 727, 784): `DiskIsDisc` speaks of the time before that.
* A game that **cannot be opened** leaves `InstallationLockSema` taken
  (`HDLGameSvr.c` 826), and the menu waits for ever: `MenuGetsLock` is checked without
  failing opens.
* **Updating** a game mounts `hdl0:` without the lock (`system.c` 430), against the comment
  at `main.h` 36.
* A broken control connection **frees the context** of the game under the data thread
  (`HDLGameSvr.c` 500); `ClosedOnce` covers the closing only.
* A client that connects **during the cleanup** takes the slot and gets no thread
  (`HDLGameSvr.c` 504, 593, 625).
* **Lost data**: the client counts what it has sent as written; if data was lost with the
  connection, it resumes behind it and reports success (`client.c` 203,
  `install-main.c` 174). The same for blocks whose retries are used up, and for a disk
  error that the console meets after the last block. Hence the three exceptions of
  `SuccessIsWhole` and the one of `RightPlace`.
* A **retrieval** that was given up ends with the result of closing the game
  (`install-main.c` 509): the user is told of success, and the image is removed.
* A **failed write or read on the PC** counts as success (`HDLGManClient/io.c` 47,
  `system.c` 89-101 there): `Copied` excepts it.
* A **failed mount** leaves the partition open, and nothing can mount it again
  (`hdlfs/main.c` 406): `BusyOnlyAfterFailure` says it is the only such way.
* A **failed rename** signals `fioSema` twice (`hdd_fio.c` 445), a **refused open** leaves
  its slot filled (`hdd_fio.c` 378), where a directory then begins, and **`HDIOC_SWAPTMP`**
  renames an open partition: the exceptions of `OneAtATime`, `WalkSeesAll` (its
  `id = ""`) and `SlotAgrees`.
* A list that is loaded **between the menu's two first looks** goes unnoticed (`menu.c`
  1812; `early`); a change that **failed halfway** leaves the list as it was (`halfway`);
  a menu that loads the list **between a client's two commands** has it sent another
  number of entries than it expects (`between`); a server loop that ends by itself just
  before the program quits leaves the main thread asleep (`HDLGameSvr.c` 162;
  `loop = "died"`).
* **Several buttons of one frame** are looked at one after the other (`menu.c` 1884-1914).
  START, SELECT and the select button may have the list loaded again, with the selection
  at its first game; the select button or TRIANGLE then acts on a game that no frame has
  shown (the exception of `ActsOnShown`). TRIANGLE acts even when no game is left, since
  the number of games is looked at before the select button only: against the comment at
  `menu.c` 1897, "These options are only valid if a game is selected". With the run's
  constants TLC finds `ui = "delete" /\ count = 0` after a client has deleted the last game
  while the dialog of the select button was open.
* A **client that stops receiving** while it is sent the list keeps the list's lock, and the
  menu waits for that lock in every frame (`HDLGameSvr.c` 995-1019, `menu.c` 1927): `WaitsEnd`
  says that this is the only way to keep the menu waiting.
* The size **in bytes** of each message of a deletion is passed as a number of wide
  characters (`OSD.c` 254-259). `wcsncpy` clears as many: the messages that follow, and up to
  364 wide characters behind the struct, which is on the stack of the caller. That is
  undefined behaviour at each reading of a title on the console. `IconSys` shows that no
  other line of the file suffers, as the cleared messages are read after the line that
  clears them; that the console survives is not claimed. `Osd` and `GameList` take it
  to survive.
* **Two that install resources at once** share the offset of the next file (`OSD.c` 730),
  and a position behind the area is refused unnoticed (`OSD.c` 769): together they may
  overwrite HDLoader's header, which neither does alone (`HeaderKept`).
* The client loads a save's **second icon in the place of the first** (client's `OSD.c` 471:
  `DeleteIconMisplaced`), does not look at the answers to some loads (`loadFailed`), and
  leaves the server's task taken when one fails (`TaskFree`).
* Buffers are **lost** when the menu changes a title and when a client is lost with its
  resources (`HeapOwned` counts them).
* A save's title with a **long second line**, or **without a newline**, is cut or ends in what
  the stack holds (`OSD.c` 370-388: the condition of `TitleWhole`).

## 5. Proofs

Every safety property that the runs check of the bank layers, the data thread, the disc
installer, the game server, the game list, the client's transfers, the hdlfs driver, the
APA driver, a game's resources and `icon.sys` is a theorem of `Spec`, for every value of the
constants, and so are the implementation of `SectorPipe` by both halves of `io.c` and that
of `FlatDisk` by hdlfs; `NeverStuck` of `Osd` alone is not, which is about what is `ENABLED`.
Each module has an inductive invariant (`IInv`, in `Apa` `DriverInv`, in `IconSys` `IconInv`,
in `Osd` `Shape` with three layers over it), one lemma per action that it is kept (`...Keeps`), and a theorem `...Invariance`. TLC
checked each invariant on the run's instance before it was proved.

### The ring of the console

`WriteGame_proofs` proves, for every `NBufs`, `BufMax` and `Total` and with disk errors
allowed or not, `TypeOK`, `BankConservation`, `NoBankOverlap`, `NoUseAfterFree`,
`CompleteImage` and `ImplementsPipe`. The invariant is their conjunction with

* `RingInv`: `WritePtr` is `Taken` banks ahead of `ReadPtr`, modulo the size of the
  ring, and `inBuf` plus `Taken` plus the bank in the data thread's hands is `NBufs`.
  `NoBankOverlap` does not follow from the counts alone, it needs this link between
  counts and pointers;
* `ThreadInv`: a run of banks stays inside the ring;
* `AckInv`: an acknowledgement is given at most once, only after `WRITE_END`, and only
  by a thread that is out of the ring: this is what `NoUseAfterFree` rests on;
* `LoopInv`: how `sent`, `remaining` and the data thread's place go together;
* the content: the full banks, from `ReadPtr` on, hold the sectors that come next behind
  what is on the disk, all of them whole but the last one of the image. `CompleteImage`
  needs that the I/O thread leaves no full bank behind when it ends well.

The refinement follows from the content: what a step appends to `disk` is the head of
what the pipe holds, and every other step is a `Put`, an end, or a stutter.

`ReadGame_proofs` has the same with the pointers exchanged, for `BanksSound` and
`ImplementsPipe`. New there are what the peer has got, the amount the data thread was
handed and the bank that is being sent in parts: together they are a prefix of the game.

`DiscInstall_proofs` proves `BanksSound` and `CopyFaithful`. The drive reads a bank
ahead, so the bank in its hands belongs to the ring's count (`LoopInv`), its content is
what comes after the full ones (`DataInv`), and how the installation ended goes with the
I/O thread's place and with the disk's errors (`EndInv`).

The three begin with the same lemmas: the arithmetic of the ring (`WrapMod`, `WrapShift`,
`RunInRing`, `OneMoreBank`), that banks share no cells (`BankApart`, `RunApart`), and that
a stream of sectors is continued in order (`StreamGoesOn`).

### The ring of the client

`Client_proofs` proves `BanksSound` and `Copied` for every number of banks and every
length of the image, in both directions. Its invariant has two layers. `IInv` is the
control: `RingInv` (the pointers are as far apart as the counts say, with the bank in the
I/O thread's hands among the full ones when it writes), `LoopInv` (the block and the
place of the transfer thread), `ThreadInv` and `EndInv` (what the I/O thread is at goes
with its command; the last command is never overwritten, and the I/O thread leaves no
full bank behind it). `NoLostWakeUp` is part of it, `NoBankOverlap` follows. `DataInv` is
the content: from the read pointer on, the full banks hold the blocks that come next
(`WriteData`, `ReadData`). It is kept because a bank is filled behind all full ones, which
is `RingInv` again. That nothing is missing at the end needs `ThreadInv`.

### Server and list

`Console_proofs` proves of `GameServer` `TypeOK`, `OneInstaller`, `ClosedOnce` and
`RemoteScreenHonest` for every setting of the failures. `ClosedOnce` is not inductive:
`StateSemaInv` says who holds `StateSemaID` at each place, `OpenInv` what the service
thread knows of the slot at each place, and `ContextInv` that an open game with a data
connection is the data thread's own game.

`GameList_proofs` proves `StaleIsNoticed`, `ScreenTrue` and `ClientListWhole` for any
number of games and of lines on the screen, with early clients and a dying server loop or
without. Who is at work on the list is at the places that hold its lock (`LockInv`), and
there is no list while it is loaded (`LoadInv`); so the generation, which a load resets,
covers every place of the menu but the three that section 4 names (`NoticedInv`). The
view follows from frame to frame (`ViewInv`), what was shown stays selected until the pad
moves or the list is freed or loaded again (`ShownInv`; `shown` is 0 from then to the next
frame). `ListUpToDate` needs to know who is to load the
list after each change: `NeedReloadGameList`, the menu's place or the service thread's
(`FreshInv`). `ClientListWhole` needs what the client waits for at each place of the
service thread (`TalkInv`) and that nobody but the menu can load the list between the
client's two commands (`ToldInv`).

### Transfers of the client

`Transfer_proofs` proves `InPlace` and `ReportTrue` for every length of image, size of
block, depth of the connection, number of games, retries and faults. The heart of the
first is `StreamInv`: what is under way on the wire is what comes next for who receives it,
and the console's position, the units under way and the client's place add up, at every
point where the stream will still be taken. The client's place is a whole number of
blocks between two of them (`BlockInv`), so that it resumes where the console was told to
seek; `PlaceInv`, `FileInv`, `ServerInv` and `SourceInv` tie mode, file and slot to the
client's place. The second has a layer of its own, `RInv`: `ArrivedInv` says that unless
something was lost all that the client is past has arrived or is under way, and that the
console stops only when it has all of it, or the connection or the client is gone;
`ResultInv` and `SlotInv` say what the client will report and what it has left.

### The driver and its partitions

`GamePartition_proofs` proves `SizesFit`, `HandleSound` and `ImplementsFlat` for every list of
sizes that double, every disk, every length of image, and however the sizes had to shrink
on a disk that is nearly full. Where a slice starts and how long a game is are recursive
functions, and what they compute for any number of partitions is shown by the least place
that would be wrong: `Least` (a set of numbers has a least one) and `AllAlong` (what holds
at the first place of a list, and at each place if at the one before, holds along it).
From these

* `SizeAllowed`: `GetPartSize` finds a size, and none that the disk refuses;
* `StartsExist` and `SliceStartIs`: there is a function as the recursion of `SliceStart`
  asks for, so it is one; `StartsKept`: a partition that is added moves no slice that was
  there; `LaidOut`: when nothing remains, the slices lie one behind the other, none is
  empty and each fits in its partition behind what that reserves;
* `OneSlice`: a sector of the image lies in exactly one slice; `SizeIsLength`: the sum that
  `getstat` computes is the length of the image.

The invariant says of a game in the making that its partitions hold what does not remain
and that each was needed (`MakeInv`), of a game that is there that it lies in its slices
(`GameInv`), and of the handle that it stands where the caller does and that what is left
of a transfer lies inside the image (`MountInv`). `RequestIs` concludes that a request
stays in one slice and in its partition. For the refinement `TransferPlace` links the
sectors of the image, which `SliceWith` finds, with those of the request: a write changes
what lies between the old and the new position and nothing else, in whichever partition.

The proof showed two assumptions to be too weak. The largest partition that the disk
allows must be one of the sizes or larger: a limit between two sizes lets `FirstFit` stop at
a size above it (`NeverTooBig`). And a main partition must reserve something, or the
largest one is a slice of a length that `hdlfs_format` refuses (`FormatFits`). Both are true
of the program, and are stated by `MaxPartsAssumption` and `SizesAssumption` now.

### The partition driver

`Console_proofs` proves of `Apa` `DiskWhole`, `SlotsSound` and `WalkSeesAll`, for every
size of disk, every list of sizes that double, and any number of slots, sub-partitions,
names, callers, crashes and calls that are cut off. None of the three is inductive.
`DriverInv` is made of

* `DiskInv`: the chain is laid out (`Laid`: blocks follow one another, aligned, none past
  the end of the disk, the last the one with the largest place) and linked as it is laid
  out (`Linked`). `ChainWhole` says it link by link, and what it means for the whole
  layout would need an induction along the chain;
* `SlotInv` and `Agree`: no name is open twice, and what a slot knows is on the disk.
  `Agree` needs the first, or a call by one slot would change another's partition;
* `Walk`: a directory has all it has not seen before it, in the order of places. It is kept
  because nothing between the partition that is read and `next` is a main partition,
  which is `Linked`, and because a partition that is made or removed moves no other;
* `OpInv`: what a call found out before its first flush still holds after the second: room
  for what it makes, though fillers were written in between, the name it creates is still
  free, the sub-partition it will list is there and in nobody's list, and those it will
  delete are in nobody's list any more. `ListedSubsExist` rests on it, as the deletion of
  a sub-partition that somebody lists would break it;
* `SemaInv`: until a rename has failed, `fioSema` counts the threads inside.

Under it lie the lemmas about the chain: `ChainedIs` (linking by places makes a layout a
whole chain), `InsertedIs` (what is left of a split block is laid out: the halves are
aligned, since a size divides the larger ones, `SizeDivides`), `DeletedIs` (cutting off
what is empty at the end), `AppendedIs`, and `FillerFits` with `PaddingIs`: after a filler
the distance to the next aligned place has become shorter by the filler, so that what was
enough room stays enough. `Grows` and `Shrinks` put them together for everyone else on
the disk. The system partitions need an argument of their own, that each is made under
a name that was not used before; the proof showed that it rests on the names of
`formatPartList` being different, which `ApaAssumption` says now.

### The text of icon.sys

`Client_proofs` proves of `IconSys` `OnlyTitles`, `TitleWhole` and `NothingCut`, for every
length of a title's array, every save and however often the file is read and written.

`IconInv` says of each line what it may hold (`Value`), of what is about to be printed
again that it prints as what was read, and of each line that was read that it is what its
reader made of the file's. Under it lies that printing and reading agree: `ParsedIs`
goes through the kinds of lines, and needs that either side has room for the title and
for the message of a deletion (`RoomIs`), that a byte is read as it was printed
(`ByteIs`), and `FourDigitsAgain`: a direction that was rounded to four digits is printed
with the same digits. It is not kept by one side only: both sides read what either wrote.
What the console's reader clears does no harm to the file because it comes later in it
(`OverwrittenLater`): the line is read after it was cleared. Where the console is lost, or
the change not written, the file is still the one that was read.

`NothingCut` needs `LengthInv` besides: how wide the characters of a title are, and how
large a direction, in the data and, ten times smaller, in the text. `TextLengthIs` takes
the length of the text apart into its lines, for which the sum that `TextLength` recurs on
has to exist (`SumsExist`); `TitleLength` and `OtherLength` bound each line, and `TextFits`
adds up: 405 characters and the titles.

The proof showed what the buffers of 512 rest on, and nothing in the code checks: that
no direction in a save's `icon.sys` is ten or more, and that a character of a title takes
at most three bytes. The longest text has 501 then (`TextAssumption`).

### The resources of a game

`GameList_proofs` proves of `Osd` `AreaTrue`, `NothingLeft` and `AsAsked`, for every size
of the attribute area and place of the header in it, any number of games, cards, changes and
faults, and however menu and service thread take turns. Four invariants build on each
other:

* `Shape` is what lies under all: where a thread can be and what it does there
  (`MenuPlaced`, `ServicePlaced`), what it holds open (`Opening`), and that the calls a client
  has yet to make follow one of its plans (`Planned`: they read, or they load and write
  last), so that what it is asked for is what it waits for (`Answering`).
* `AreaInv`, the disk. Most steps leave it alone (`Quiet`); of the others, a file that is about
  to be written misses the header (`SeekClear`, from `HoppedClear`, a lemma on where
  `InstallOSDFile` puts it), unless the driver refused the position, which takes two
  installers: one alone stands at the offset it left (`InPlace`), which is inside the area
  or at its end. The files that a table in the making names lie before that offset, each
  whole, so that the next one tears none (`WrittenKeeps`). An installer can be alone for
  two reasons: nobody else had a partition open (`Racing`), or the other one has not
  installed since (`alone`).
* `NothingInv`, the memory. `HeapOwned` needs to know which lists are empty where: the menu's
  before it has prepared anything, the service thread's while there is no task (`Loose`),
  and `FileBuffers` but for the files before the one that is read (`Copied`), or one list
  would be overwritten and its buffers counted no more. `TaskFree` needs what each call that
  waits says of the task (`Freed`): as long as no resource was lost, a client only asks for
  resources to be set up where the task is free, so that it is not refused.
* `AskedInv`, the change. Of a thread that installs, alone, it says what can be read back
  already (`Told`): the files before its own, by `AreaInv`, which has each of them lie whole
  where the table in the making has it; at the end all of them, and that is still so when
  the user is told, since whoever installs in between takes `alone` away. Its list has to be
  what was asked for when it opens the partition, and that is longer in coming. The menu
  reads the files back one by one (`MenuCopies`). A client's list is made by up to
  fourteen calls, each answered before the next is made, so that the invariant speaks of what is
  there *and* of what the calls to come will bring (`Asking`): while it reads, a file is in
  its copy as it was, or there was none, or a call to come reads it (`Missing`); while it
  loads, a file is in the server's list, or a call to come loads it, and none loads anything
  else (`Loading`). `AsAsked` leaves out the change whose icon goes to the other one's place,
  and the proof shows that this, a resource that did not reach the server, and the other
  side's installation are all there is to leave out. A save is none of them: where the
  server has no icon of it, the client cancels and asks for the built-in one, and nothing of
  the first list is left.

### Assumptions and limits

The assumptions are those named in the modules: `BankAssumption` (at least one bank of
at least one sector), `NBufsAssumption`, `TotalAssumption`, `ServerAssumption`,
`GameListAssumption` and `TransferAssumption` (the latter two: sizes and numbers of tries
are positive, bounds are natural numbers, switches are Boolean), `SizesAssumption`,
`ImagesAssumption` and `MaxPartsAssumption` (the sizes double, what a main partition
reserves is less than the smallest, images are not empty, and the APA driver's largest
partition is of a size that partitions have), and `ApaAssumption` (the sizes are 1 and
what doubles it, the disk's largest among them; the names of the system partitions differ,
and callers do not use them or the empty name for their own). `IconSysAssumption` has the
types of the inputs and that a title's first line is no longer than the title;
`TextAssumption`, which only `NothingCut` needs, is above. `OsdAreaAssumption`: the header lies
behind the files a game was installed with, and the area goes on behind it;
`OsdAssumption`: partitions have positive numbers, and titles, cards and folders are of
the kinds the module names.

Only model-checked:

* `NeverStuck` of `Osd`, which is about what is `ENABLED`.
* All liveness, which the prover does not reach.

## 6. Not modelled

* The content of packets, part names, icons and settings; drawing. `IconSys` has the
  title's characters, not the table that converts them from SJIS.
* Settings, ISO 9660, the user interface toolkit, the disk checks: sequential code on
  files and pictures whose state nobody else shares. Loading IOP modules and polling
  for devices, the link and DHCP: waits for hardware.
* The C library and Windows, libapa's cache and journal, the kernel of the console: by
  what the code expects of them. `swprintf` is taken to print a wide string for `%s`,
  as the newlib of the console's SDK and Windows do.
* Failing semaphore and thread creation beyond "opening fails"; two running clients on
  one PC, whose events have the same names.
* Transfers that return another error than `-EIO`, which `io.c` retries for ever; the one
  case that matters, a write to a closed file, is in `DiscInstall`, and `NeverRefused` of
  `HdlFs` shows that an open game gives no such error.
* What two threads do inside the APA driver after `fioSema` has let both in.
* The network below `recv` and `send`: a connection delivers a prefix of what was sent.
* `MAX_CLIENTS` is 1 in the code, and in the models.

## 7. Plan

Modelling is complete along the first plan, and the theorems it names are proved: those of
the rings, the server, the list, the transfers, the two drivers, a game's resources and
`icon.sys`. Only what the provers do not reach, liveness and `ENABLED`, stays with TLC.
