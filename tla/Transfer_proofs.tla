-------------------------- MODULE Transfer_proofs --------------------------
(***************************************************************************)
(* Proofs about Transfer: whatever is lost, retried and resumed, every     *)
(* unit is in its place, and what the client reports is true.              *)
(***************************************************************************)
EXTENDS Transfer, TLAPS

(* What the assumption says of each constant. *)
LEMMA ConstantTypes ==
  /\ Blocks \in Nat \ {0} /\ K \in Nat \ {0} /\ Window \in Nat \ {0}
  /\ NJobs \in Nat \ {0} /\ RETRY_COUNT \in Nat \ {0} /\ RECONNECT_COUNT \in Nat \ {0}
  /\ MaxFaults \in Nat /\ Total \in Nat \ {0}
<1>1. /\ Blocks \in Nat \ {0} /\ K \in Nat \ {0} /\ Window \in Nat \ {0}
      /\ NJobs \in Nat \ {0} /\ RETRY_COUNT \in Nat \ {0}
      /\ RECONNECT_COUNT \in Nat \ {0} /\ MaxFaults \in Nat
  BY TransferAssumption DEF TransferAssumption
<1>2. Blocks * K \in Nat \ {0}
  BY <1>1
<1> QED  BY <1>1, <1>2 DEF Total

USE ConstantTypes
USE DEF Games

(* A block that begins before the end of the game ends in it, on the       *)
(* border of the next.                                                     *)
LEMMA BlockFits ==
  ASSUME NEW l \in Nat, l < Total, \E b \in 0 .. Blocks : l = b * K
  PROVE  l + K <= Total /\ \E b \in 0 .. Blocks : l + K = b * K
<1>1. PICK b \in 0 .. Blocks : l = b * K
  OBVIOUS
<1>2. b # Blocks
  BY <1>1 DEF Total
<1>3. PICK d \in Nat : Blocks = b + 1 + d
  <2>1. Blocks - b - 1 \in Nat /\ Blocks = b + 1 + (Blocks - b - 1)
    BY <1>2
  <2> QED  BY <2>1
<1>4. (b + 1) * K = b * K + K /\ Blocks * K = (b + 1) * K + d * K /\ d * K \in Nat
  BY <1>3
<1>5. b + 1 \in 0 .. Blocks
  BY <1>2
<1> QED
  BY <1>1, <1>4, <1>5 DEF Total

(* Sequences, one element more at the end and one less at the head.        *)
LEMMA AppendOne ==
  ASSUME NEW S, NEW s \in Seq(S), NEW e \in S
  PROVE  /\ Append(s, e) \in Seq(S) /\ Len(Append(s, e)) = Len(s) + 1 /\ Len(s) \in Nat
         /\ \A i \in 1 .. Len(s) : Append(s, e)[i] = s[i]
         /\ Append(s, e)[Len(s) + 1] = e
OBVIOUS

LEMMA TailOne ==
  ASSUME NEW S, NEW s \in Seq(S), s # <<>>
  PROVE  /\ Tail(s) \in Seq(S) /\ Len(s) \in Nat \ {0} /\ Len(Tail(s)) = Len(s) - 1
         /\ Head(s) = s[1] /\ Head(s) \in S
         /\ \A i \in 1 .. Len(s) - 1 : Tail(s)[i] = s[i + 1]
OBVIOUS

(* The units that follow unit n, in order. *)
InOrder(s, n) == \A i \in 1 .. Len(s) : s[i] = n + i

LEMMA OrderEmpty == \A n : InOrder(<<>>, n)
BY DEF InOrder

LEMMA OrderAppend ==
  ASSUME NEW S, NEW s \in Seq(S), NEW n \in Nat, InOrder(s, n), n + Len(s) + 1 \in S
  PROVE  InOrder(Append(s, n + Len(s) + 1), n)
<1> DEFINE t == Append(s, n + Len(s) + 1)
<1> SUFFICES ASSUME NEW i \in 1 .. Len(t) PROVE t[i] = n + i
  BY DEF InOrder
<1>1. Len(t) = Len(s) + 1 /\ Len(s) \in Nat /\ t[Len(s) + 1] = n + Len(s) + 1
      /\ \A j \in 1 .. Len(s) : t[j] = s[j]
  BY AppendOne
<1> HIDE DEF t
<1>2. CASE i = Len(s) + 1
  BY <1>1, <1>2
<1>3. CASE i \in 1 .. Len(s)
  BY <1>1, <1>3 DEF InOrder
<1> QED  BY <1>1, <1>2, <1>3

LEMMA OrderTail ==
  ASSUME NEW S, NEW s \in Seq(S), s # <<>>, NEW n \in Nat, InOrder(s, n)
  PROVE  Head(s) = n + 1 /\ InOrder(Tail(s), n + 1)
<1> DEFINE t == Tail(s)
<1>1. /\ Len(s) \in Nat \ {0} /\ Len(t) = Len(s) - 1 /\ Head(s) = s[1]
      /\ \A i \in 1 .. Len(s) - 1 : t[i] = s[i + 1]
  BY TailOne
<1> HIDE DEF t
<1>2. Head(s) = n + 1
  BY <1>1 DEF InOrder
<1>3. ASSUME NEW i \in 1 .. Len(t) PROVE t[i] = n + 1 + i
  <2>1. i + 1 \in 1 .. Len(s) /\ t[i] = s[i + 1]
    BY <1>1
  <2> QED  BY <2>1 DEF InOrder
<1>4. InOrder(t, n + 1)
  BY <1>3 DEF InOrder
<1> QED  BY <1>2, <1>4 DEF t

LEMMA OrderConcat ==
  ASSUME NEW S, NEW s \in Seq(S), NEW t \in Seq(S), NEW n \in Nat,
         InOrder(s, n), InOrder(t, n + Len(s))
  PROVE  InOrder(s \o t, n)
<1> DEFINE c == s \o t
<1> SUFFICES ASSUME NEW i \in 1 .. Len(c) PROVE c[i] = n + i
  BY DEF InOrder
<1>1. /\ Len(s) \in Nat /\ Len(t) \in Nat /\ Len(c) = Len(s) + Len(t)
      /\ \A j \in 1 .. Len(s) + Len(t) : c[j] = IF j <= Len(s) THEN s[j] ELSE t[j - Len(s)]
  OBVIOUS
<1> HIDE DEF c
<1>2. CASE i <= Len(s)
  BY <1>1, <1>2 DEF InOrder
<1>3. CASE i > Len(s)
  <2>1. i - Len(s) \in 1 .. Len(t) /\ c[i] = t[i - Len(s)]
    BY <1>1, <1>3
  <2> QED  BY <1>1, <2>1 DEF InOrder
<1> QED  BY <1>1, <1>2, <1>3

(* The type invariant, in parts.                                           *)
TypePc ==
  /\ mode \in {"install", "retrieve"}
  /\ job \in 1 .. NJobs + 1
  /\ cPc \in {"job", "prepare", "open", "loop", "block", "shut", "drain", "status",
              "reconnect", "resume", "finish", "drainEnd", "closeGame", "clean", "end"}
  /\ back \in {"none", "resume", "closeGame"}
  /\ retries \in 0 .. RETRY_COUNT - 1 /\ reconnects \in 0 .. RECONNECT_COUNT - 1
  /\ result \in {"ok", "kept", "abort", "lost", "eio", "error"}
  /\ copyResult \in {"ok", "kept", "abort", "lost", "eio", "error"}

TypeData ==
  /\ lsn \in 0 .. Total
  /\ bank \in Seq(Unit) /\ Len(bank) < K
  /\ file \in Seq(Unit)

TypeWire == wire \in Seq(Unit) /\ Len(wire) <= Window

TypeServer ==
  /\ cmd \in {"up", "down", "free"}
  /\ data \in {"up", "broken"}
  /\ dPc \in {"dormant", "run", "stuck", "linger", "end", "exit"}
  /\ spos \in 1 .. Total + 1 /\ remaining \in 0 .. Total
  /\ io \in {"ok", "dead"}
  /\ faults \in 0 .. MaxFaults

TypeFlags ==
  /\ kept \in BOOLEAN /\ finC \in BOOLEAN /\ finS \in BOOLEAN /\ task \in BOOLEAN
  /\ dropped \in BOOLEAN /\ skipped \in BOOLEAN /\ diskError \in BOOLEAN

TypeDisk == part \subseteq Games /\ disk \in [Games -> [1 .. Total -> Unit]]

(* The places of the client between the opening of a game and its end.     *)
Copying == {"loop", "block", "shut", "drain", "status", "reconnect", "resume",
            "finish", "drainEnd", "closeGame", "clean"}
Streaming == cPc \in {"loop", "block"}

(* The client is inside the loop over the blocks, or behind it.            *)
InBlock == cPc \in {"block", "shut", "drain", "status", "resume"}
           \/ (cPc = "reconnect" /\ back = "resume")
Closing == cPc \in {"closeGame", "clean"} \/ (cPc = "reconnect" /\ back = "closeGame")

(* The units of the game that the client is past. *)
Moved == IF cPc = "block" THEN lsn + Len(bank) ELSE lsn

(* The client's place goes with its mode, its game and its block.          *)
PlaceInv ==
  /\ cPc \in {"job", "prepare"} => mode = "install"
  /\ cPc = "open" => mode = "retrieve" /\ lsn = 0 /\ ~kept
  /\ cPc \notin {"job", "end"} => job \in Games
  /\ mode = "retrieve" => job = 1
  /\ cPc = "reconnect" => back # "none"
  /\ InBlock => lsn < Total

(* The client works through whole blocks.                                 *)
BlockInv == \E b \in 0 .. Blocks : lsn = b * K

(* The image file grows by blocks, and only when a game is retrieved.      *)
FileInv ==
  /\ mode = "install" => file = <<>> /\ ~kept
  /\ mode = "retrieve" => Len(file) = lsn

(* The console's place in the game, its slot and its data connection.      *)
ServerInv ==
  /\ spos + remaining <= Total + 1
  /\ data = "broken" => wire = <<>>
  /\ task => dPc \in {"run", "stuck", "linger", "end"}
  /\ dPc = "run" => ~finS
  /\ cmd = "free" => ~task

(* A game to be retrieved is whole, and is not written.                    *)
SourceInv == mode = "retrieve" => disk[1] = Whole

(* What is under way is what comes next for who receives it, as long as    *)
(* it will be taken.                                                       *)
StreamInv ==
  ~skipped =>
    /\ mode = "install" /\ dPc = "run" /\ task =>
         /\ InOrder(wire, spos - 1)
         /\ Streaming /\ data = "up" => spos + Len(wire) = Moved + 1
    /\ mode = "retrieve" /\ Streaming =>
         /\ InOrder(wire, Moved)
         /\ data = "up" /\ dPc = "run" /\ task => spos = Moved + Len(wire) + 1
         /\ cPc = "block" => InOrder(bank, lsn)
    /\ InOrder(file, 0)

IInv ==
  /\ TypePc /\ TypeData /\ TypeWire /\ TypeServer /\ TypeFlags /\ TypeDisk
  /\ PlaceInv /\ BlockInv /\ FileInv /\ ServerInv /\ SourceInv /\ StreamInv
  /\ RightPlace

-----------------------------------------------------------------------------

(* What does not mention a variable that a step changes is kept.           *)
LEMMA Unmoved ==
  ASSUME IInv
  PROVE  /\ UNCHANGED <<mode, job, cPc, back, retries, reconnects, result, copyResult>>
              => TypePc'
         /\ UNCHANGED <<lsn, bank, file>> => TypeData'
         /\ UNCHANGED <<wire>> => TypeWire'
         /\ UNCHANGED <<cmd, data, dPc, spos, remaining, io, faults>> => TypeServer'
         /\ UNCHANGED <<kept, finC, finS, task, dropped, skipped, diskError>> => TypeFlags'
         /\ UNCHANGED <<part, disk>> => TypeDisk'
         /\ UNCHANGED <<mode, job, cPc, back, lsn, kept>> => PlaceInv'
         /\ UNCHANGED <<lsn>> => BlockInv'
         /\ UNCHANGED <<mode, file, kept, lsn>> => FileInv'
         /\ UNCHANGED <<spos, remaining, data, wire, task, dPc, finS, cmd>> => ServerInv'
         /\ UNCHANGED <<mode, disk>> => SourceInv'
         /\ UNCHANGED <<skipped, mode, dPc, task, wire, spos, cPc, data, lsn, bank, file>>
              => StreamInv'
         /\ UNCHANGED <<skipped, part, disk>> => RightPlace'
<1>1. UNCHANGED <<mode, job, cPc, back, retries, reconnects, result, copyResult>> => TypePc'
  BY DEF IInv, TypePc
<1>2. UNCHANGED <<lsn, bank, file>> => TypeData'
  BY DEF IInv, TypeData
<1>3. UNCHANGED <<wire>> => TypeWire'
  BY DEF IInv, TypeWire
<1>4. UNCHANGED <<cmd, data, dPc, spos, remaining, io, faults>> => TypeServer'
  BY DEF IInv, TypeServer
<1>5. UNCHANGED <<kept, finC, finS, task, dropped, skipped, diskError>> => TypeFlags'
  BY DEF IInv, TypeFlags
<1>6. UNCHANGED <<part, disk>> => TypeDisk'
  BY DEF IInv, TypeDisk
<1>7. UNCHANGED <<mode, job, cPc, back, lsn, kept>> => PlaceInv'
  BY DEF IInv, PlaceInv, InBlock
<1>8. UNCHANGED <<lsn>> => BlockInv'
  BY DEF IInv, BlockInv
<1>9. UNCHANGED <<mode, file, kept, lsn>> => FileInv'
  BY DEF IInv, FileInv
<1>10. UNCHANGED <<spos, remaining, data, wire, task, dPc, finS, cmd>> => ServerInv'
  BY DEF IInv, ServerInv
<1>11. UNCHANGED <<mode, disk>> => SourceInv'
  BY DEF IInv, SourceInv
<1>12. UNCHANGED <<skipped, mode, dPc, task, wire, spos, cPc, data, lsn, bank, file>>
       => StreamInv'
  BY DEF IInv, StreamInv, Streaming, Moved
<1>13. UNCHANGED <<skipped, part, disk>> => RightPlace'
  BY DEF IInv, RightPlace
<1> QED  BY <1>1, <1>2, <1>3, <1>4, <1>5, <1>6, <1>7, <1>8, <1>9, <1>10, <1>11, <1>12, <1>13

(* The steps of the client keep the invariant: its jobs, ... *)
LEMMA BadImageKeeps == ASSUME IInv, BadImage PROVE IInv'
<1> USE DEF IInv
<1>1. UNCHANGED <<mode, cmd, data, finC, finS, wire, task, dPc, spos, remaining, io, part,
                  disk, dropped, skipped, diskError>>
  BY DEF BadImage, games, line, past, server
<1>2. TypeWire' /\ TypeDisk' /\ ServerInv' /\ SourceInv' /\ RightPlace'
  BY <1>1, Unmoved
<1>3. TypePc'
  BY DEF BadImage, Fault, EndJobs, games, line, past, server, TypePc, TypeFlags
<1>4. TypeData'
  BY DEF BadImage, Fault, EndJobs, games, line, past, server, TypeData, TypeWire
<1>5. TypeServer'
  BY DEF BadImage, Fault, EndJobs, games, line, past, server, TypeServer, TypeData,
         ServerInv
<1>6. TypeFlags'
  BY DEF BadImage, Fault, EndJobs, games, line, past, server, TypeFlags
<1>7. PlaceInv'
  BY DEF BadImage, Fault, EndJobs, games, line, past, server, TypePc, PlaceInv, TypeData,
         InBlock, Closing
<1>8. BlockInv'
  BY DEF BadImage, Fault, EndJobs, games, line, past, server, BlockInv, PlaceInv, InBlock,
         TypeData
<1>9. FileInv'
  BY DEF BadImage, Fault, EndJobs, games, line, past, server, FileInv, TypeData, PlaceInv,
         TypePc, InBlock
<1>10. StreamInv'
  BY DEF BadImage, Fault, EndJobs, games, line, past, server, StreamInv, Streaming, Moved,
         TypeData, TypeWire, TypeServer, ServerInv, PlaceInv, InBlock
<1> QED
  BY <1>1, <1>2, <1>3, <1>4, <1>5, <1>6, <1>7, <1>8, <1>9, <1>10

LEMMA KeepInstalledKeeps == ASSUME IInv, KeepInstalled PROVE IInv'
<1> USE DEF IInv
<1>1. UNCHANGED <<mode, cmd, data, finC, finS, wire, task, dPc, spos, remaining, io, part,
                  disk, faults, dropped, skipped, diskError>>
  BY DEF KeepInstalled, games, line, past, server
<1>2. TypeWire' /\ TypeServer' /\ TypeDisk' /\ ServerInv' /\ SourceInv' /\
      RightPlace'
  BY <1>1, Unmoved
<1>3. TypePc'
  BY DEF KeepInstalled, EndJobs, games, line, past, server, TypePc, TypeFlags
<1>4. TypeData'
  BY DEF KeepInstalled, EndJobs, games, line, past, server, TypeData, TypeWire
<1>5. TypeFlags'
  BY DEF KeepInstalled, EndJobs, games, line, past, server, TypeFlags
<1>6. PlaceInv'
  BY DEF KeepInstalled, EndJobs, games, line, past, server, TypePc, PlaceInv, TypeData,
         InBlock, Closing
<1>7. BlockInv'
  BY DEF KeepInstalled, EndJobs, games, line, past, server, BlockInv, PlaceInv, InBlock,
         TypeData
<1>8. FileInv'
  BY DEF KeepInstalled, EndJobs, games, line, past, server, FileInv, TypeData, PlaceInv,
         TypePc, InBlock
<1>9. StreamInv'
  BY DEF KeepInstalled, EndJobs, games, line, past, server, StreamInv, Streaming, Moved,
         TypeData, TypeWire, TypeServer, ServerInv, PlaceInv, InBlock
<1> QED
  BY <1>1, <1>2, <1>3, <1>4, <1>5, <1>6, <1>7, <1>8, <1>9

LEMMA StartJobKeeps == ASSUME IInv, StartJob PROVE IInv'
<1> USE DEF IInv
<1>1. UNCHANGED <<mode, job, back, lsn, bank, retries, reconnects, result, copyResult,
                  file, kept, cmd, data, finC, finS, wire, task, dPc, spos, remaining, io,
                  disk, faults, dropped, skipped, diskError>>
  BY DEF StartJob, line, past, server
<1>2. TypeData' /\ TypeWire' /\ TypeServer' /\ TypeFlags' /\ BlockInv' /\ FileInv' /\
      ServerInv' /\ SourceInv'
  BY <1>1, Unmoved
<1>3. TypePc'
  BY DEF StartJob, DeleteGame, line, past, server, TypePc, TypeFlags
<1>4. TypeDisk'
  BY DEF StartJob, DeleteGame, line, past, server, TypeDisk, TypeServer, TypeWire, Unit
<1>5. PlaceInv'
  BY DEF StartJob, DeleteGame, line, past, server, TypePc, PlaceInv, TypeData, InBlock,
         Closing
<1>6. StreamInv'
  BY DEF StartJob, DeleteGame, line, past, server, StreamInv, Streaming, Moved, TypeData,
         TypeWire, TypeServer, ServerInv, PlaceInv, InBlock
<1>7. RightPlace'
  BY DEF StartJob, DeleteGame, line, past, server, RightPlace, TypeDisk, TypeServer
<1> QED
  BY <1>1, <1>2, <1>3, <1>4, <1>5, <1>6, <1>7

LEMMA JobsDoneKeeps == ASSUME IInv, JobsDone PROVE IInv'
<1> USE DEF IInv
<1>1. UNCHANGED <<mode, cmd, data, finC, finS, wire, task, dPc, spos, remaining, io, part,
                  disk, faults, dropped, skipped, diskError>>
  BY DEF JobsDone, games, line, past, server
<1>2. TypeWire' /\ TypeServer' /\ TypeDisk' /\ ServerInv' /\ SourceInv' /\
      RightPlace'
  BY <1>1, Unmoved
<1>3. TypePc'
  BY DEF JobsDone, EndJobs, games, line, past, server, TypePc, TypeFlags
<1>4. TypeData'
  BY DEF JobsDone, EndJobs, games, line, past, server, TypeData, TypeWire
<1>5. TypeFlags'
  BY DEF JobsDone, EndJobs, games, line, past, server, TypeFlags
<1>6. PlaceInv'
  BY DEF JobsDone, EndJobs, games, line, past, server, TypePc, PlaceInv, TypeData, InBlock,
         Closing
<1>7. BlockInv'
  BY DEF JobsDone, EndJobs, games, line, past, server, BlockInv, PlaceInv, InBlock, TypeData
<1>8. FileInv'
  BY DEF JobsDone, EndJobs, games, line, past, server, FileInv, TypeData, PlaceInv, TypePc,
         InBlock
<1>9. StreamInv'
  BY DEF JobsDone, EndJobs, games, line, past, server, StreamInv, Streaming, Moved,
         TypeData, TypeWire, TypeServer, ServerInv, PlaceInv, InBlock
<1> QED
  BY <1>1, <1>2, <1>3, <1>4, <1>5, <1>6, <1>7, <1>8, <1>9

LEMMA PrepareKeeps == ASSUME IInv, Prepare PROVE IInv'
<1> USE DEF IInv
<1>1. TypePc'
  BY DEF Prepare, OpenGame, DataConnected, Answered, AnswerLost, Fault, EndJobs, past,
         TypePc, TypeFlags
<1>2. TypeData'
  BY DEF Prepare, OpenGame, DataConnected, Answered, AnswerLost, Fault, EndJobs, past,
         TypeData, TypeWire
<1>3. TypeWire'
  <2>1. wire' = <<>>
    BY DEF Prepare, OpenGame, DataConnected
  <2> QED  BY <2>1 DEF TypeWire
<1>4. TypeServer'
  BY DEF Prepare, OpenGame, DataConnected, Answered, AnswerLost, Fault, EndJobs, past,
         TypeServer, TypeData, ServerInv
<1>5. TypeFlags'
  BY DEF Prepare, OpenGame, DataConnected, Answered, AnswerLost, Fault, EndJobs, past,
         TypeFlags
<1>6. TypeDisk'
  BY SMTT(30) DEF Prepare, OpenGame, DataConnected, Answered, AnswerLost, Fault, EndJobs,
                  past, TypeDisk, TypeServer, TypeWire, Unit, PlaceInv, TypePc, Blank
<1>7. PlaceInv'
  BY DEF Prepare, OpenGame, DataConnected, Answered, AnswerLost, Fault, EndJobs, past,
         TypePc, PlaceInv, TypeData, InBlock, Closing
<1>8. BlockInv'
  <2>1. lsn' = 0 \/ lsn' = lsn
    BY DEF Prepare, EndJobs
  <2>2. 0 \in 0 .. Blocks /\ 0 = 0 * K
    OBVIOUS
  <2> QED  BY <2>1, <2>2 DEF BlockInv
<1>9. FileInv'
  BY DEF Prepare, OpenGame, DataConnected, Answered, AnswerLost, Fault, EndJobs, past,
         FileInv, TypeData, PlaceInv, TypePc, InBlock
<1>10. ServerInv'
  BY DEF Prepare, OpenGame, DataConnected, Answered, AnswerLost, Fault, EndJobs, past,
         ServerInv, TypeServer, TypeWire, TypeFlags
<1>11. SourceInv'
  BY DEF Prepare, OpenGame, DataConnected, Answered, AnswerLost, Fault, EndJobs, past,
         SourceInv, PlaceInv, TypePc
<1>12. StreamInv'
  <2>1. mode = "install" /\ mode' = mode /\ file' = file /\ skipped' = skipped
        /\ spos' = 1 /\ wire' = <<>>
    BY DEF Prepare, OpenGame, DataConnected, EndJobs, PlaceInv, past
  <2>2. Len(wire') = 0 /\ InOrder(wire', 0)
    BY <2>1, OrderEmpty
  <2>3. (cPc' = "loop" /\ lsn' = 0) \/ cPc' = "end"
    BY DEF Prepare, EndJobs
  <2>4. Streaming' => Moved' = 0
    BY <2>3 DEF Streaming, Moved
  <2> QED  BY <2>1, <2>2, <2>4 DEF StreamInv
<1>13. RightPlace'
  BY DEF Prepare, OpenGame, DataConnected, Answered, AnswerLost, Fault, EndJobs, past,
         RightPlace, TypeDisk, TypeServer, PlaceInv, TypePc, Blank
<1> QED
  BY <1>1, <1>2, <1>3, <1>4, <1>5, <1>6, <1>7, <1>8, <1>9, <1>10, <1>11, <1>12, <1>13

LEMMA PrepareFailsKeeps == ASSUME IInv, PrepareFails PROVE IInv'
<1> USE DEF IInv
<1>1. UNCHANGED <<mode, cmd, data, finC, finS, wire, task, dPc, spos, remaining, io,
                  dropped, skipped, diskError>>
  BY DEF PrepareFails, line, past, server
<1>2. TypeWire' /\ ServerInv'
  BY <1>1, Unmoved
<1>3. TypePc'
  BY DEF PrepareFails, Fault, EndJobs, line, past, server, TypePc, TypeFlags
<1>4. TypeData'
  BY DEF PrepareFails, Fault, EndJobs, line, past, server, TypeData, TypeWire
<1>5. TypeServer'
  BY DEF PrepareFails, Fault, EndJobs, line, past, server, TypeServer, TypeData, ServerInv
<1>6. TypeFlags'
  BY DEF PrepareFails, Fault, EndJobs, line, past, server, TypeFlags
<1>7. TypeDisk'
  <2>1. CASE job \in Games /\ part' = part \cup {job} /\ disk' = [disk EXCEPT ![job] = Blank]
    BY <2>1 DEF TypeDisk, Blank, Unit
  <2>2. CASE part' = part /\ disk' = disk
    BY <2>2 DEF TypeDisk
  <2> QED  BY <2>1, <2>2 DEF PrepareFails, PlaceInv
<1>8. PlaceInv'
  BY DEF PrepareFails, Fault, EndJobs, line, past, server, TypePc, PlaceInv, TypeData,
         InBlock, Closing
<1>9. BlockInv'
  BY DEF PrepareFails, Fault, EndJobs, line, past, server, BlockInv, PlaceInv, InBlock,
         TypeData
<1>10. FileInv'
  BY DEF PrepareFails, Fault, EndJobs, line, past, server, FileInv, TypeData, PlaceInv,
         TypePc, InBlock
<1>11. SourceInv'
  BY DEF PrepareFails, Fault, EndJobs, line, past, server, SourceInv, PlaceInv, TypePc
<1>12. StreamInv'
  BY DEF PrepareFails, Fault, EndJobs, line, past, server, StreamInv, Streaming, Moved,
         TypeData, TypeWire, TypeServer, ServerInv, PlaceInv, InBlock
<1>13. RightPlace'
  <2>1. CASE job \in Games /\ part' = part \cup {job} /\ disk' = [disk EXCEPT ![job] = Blank]
    BY <2>1 DEF RightPlace, TypeDisk, Blank, PrepareFails, past
  <2>2. CASE part' = part /\ disk' = disk
    BY <2>2 DEF RightPlace, PrepareFails, past
  <2> QED  BY <2>1, <2>2 DEF PrepareFails, PlaceInv
<1> QED
  BY <1>1, <1>2, <1>3, <1>4, <1>5, <1>6, <1>7, <1>8, <1>9, <1>10, <1>11, <1>12, <1>13

LEMMA OpenForReadKeeps == ASSUME IInv, OpenForRead PROVE IInv'
<1> USE DEF IInv
<1>1. UNCHANGED <<mode, job, back, lsn, bank, retries, reconnects, copyResult, file, part,
                  disk, dropped, skipped, diskError>>
  BY DEF OpenForRead, games, line, past, server
<1>2. TypeData' /\ TypeDisk' /\ BlockInv' /\ SourceInv' /\ RightPlace'
  BY <1>1, Unmoved
<1>3. TypePc'
  BY DEF OpenForRead, OpenGame, DataConnected, Answered, AnswerLost, Fault, games, line,
         past, server, TypePc, TypeFlags
<1>4. TypeWire'
  <2>1. wire' = <<>> \/ wire' = wire
    BY DEF OpenForRead, OpenGame, DataConnected, line
  <2>2. CASE wire' = <<>>
    BY <2>2 DEF TypeWire
  <2>3. CASE wire' = wire
    BY <2>3 DEF TypeWire
  <2> QED  BY <2>1, <2>2, <2>3
<1>5. TypeServer'
  BY DEF OpenForRead, OpenGame, DataConnected, Answered, AnswerLost, Fault, games, line,
         past, server, TypeServer, TypeData, ServerInv
<1>6. TypeFlags'
  BY DEF OpenForRead, OpenGame, DataConnected, Answered, AnswerLost, Fault, games, line,
         past, server, TypeFlags
<1>7. PlaceInv'
  BY DEF OpenForRead, OpenGame, DataConnected, Answered, AnswerLost, Fault, games, line,
         past, server, TypePc, PlaceInv, TypeData, InBlock, Closing
<1>8. FileInv'
  BY DEF OpenForRead, OpenGame, DataConnected, Answered, AnswerLost, Fault, games, line,
         past, server, FileInv, TypeData, PlaceInv, TypePc, InBlock
<1>9. ServerInv'
  <2>1. CASE UNCHANGED <<cmd, line, server>>
    BY <2>1 DEF line, server, ServerInv
  <2>2. CASE OpenGame(0, "up") \/ OpenGame(0, "broken")
    <3>1. cmd' # "free"
      BY <2>2 DEF OpenForRead, OpenGame, Answered, AnswerLost, ServerInv, server
    <3> QED  BY <2>2, <3>1 DEF OpenGame, DataConnected, ServerInv
  <2> QED  BY <2>1, <2>2 DEF OpenForRead
<1>10. StreamInv'
  <2>1. mode = "retrieve" /\ mode' = mode /\ file' = file /\ skipped' = skipped /\ lsn' = 0
    BY DEF OpenForRead, PlaceInv, past
  <2>2. CASE cPc' = "end"
    BY <2>1, <2>2 DEF StreamInv, Streaming
  <2>3. CASE cPc' = "loop" /\ spos' = 1 /\ wire' = <<>>
    <3>1. Len(wire') = 0 /\ InOrder(wire', 0)
      BY <2>3, OrderEmpty
    <3>2. Moved' = 0
      BY <2>1, <2>3 DEF Moved
    <3> QED  BY <2>1, <2>3, <3>1, <3>2 DEF StreamInv
  <2>4. \/ cPc' = "end"
        \/ cPc' = "loop" /\ spos' = 1 /\ wire' = <<>>
    BY DEF OpenForRead, OpenGame, DataConnected, PlaceInv
  <2> QED  BY <2>1, <2>2, <2>3, <2>4
<1> QED
  BY <1>1, <1>2, <1>3, <1>4, <1>5, <1>6, <1>7, <1>8, <1>9, <1>10

(* ... the loop over the blocks, ... *)
LEMMA NextBlockKeeps == ASSUME IInv, NextBlock PROVE IInv'
<1> USE DEF IInv
<1>1. UNCHANGED <<mode, job, back, lsn, reconnects, result, file, kept, cmd, data, finC,
                  finS, wire, task, dPc, spos, remaining, io, part, disk, faults, dropped,
                  skipped, diskError>>
  BY DEF NextBlock, games, line, past, server
<1>2. TypeWire' /\ TypeServer' /\ TypeFlags' /\ TypeDisk' /\ BlockInv' /\ FileInv' /\
      ServerInv' /\ SourceInv' /\ RightPlace'
  BY <1>1, Unmoved
<1>3. TypePc'
  BY DEF NextBlock, games, line, past, server, TypePc, TypeFlags
<1>4. TypeData'
  BY DEF NextBlock, games, line, past, server, TypeData, TypeWire
<1>5. PlaceInv'
  BY DEF NextBlock, games, line, past, server, TypePc, PlaceInv, TypeData, InBlock, Closing
<1>6. StreamInv'
  <2>1. /\ cPc = "loop" /\ bank' = <<>> /\ cPc' \in {"block", "finish"}
        /\ UNCHANGED <<mode, dPc, task, data, wire, spos, skipped, file, lsn>>
    BY DEF NextBlock, line, past, server
  <2>2. Len(bank') = 0 /\ InOrder(bank', lsn)
    BY <2>1, OrderEmpty
  <2>3. Moved' = Moved
    BY <2>1, <2>2 DEF Moved, TypeData
  <2> QED  BY <2>1, <2>2, <2>3 DEF StreamInv, Streaming
<1> QED
  BY <1>1, <1>2, <1>3, <1>4, <1>5, <1>6

(* What sending a unit does to the client's block. *)
LEMMA SendUnitMoves ==
  ASSUME IInv, SendUnit
  PROVE  /\ lsn + K <= Total /\ (\E b \in 0 .. Blocks : lsn + K = b * K) /\ lsn \in Nat
         /\ Len(bank) \in Nat /\ lsn + Len(bank) + 1 \in Unit
         /\ wire' = Append(wire, lsn + Len(bank) + 1) /\ wire' \in Seq(Unit)
         /\ Len(wire') = Len(wire) + 1 /\ Len(wire) \in Nat
         /\ lsn' \in {lsn, lsn + K} /\ cPc' \in {"loop", "block"}
         /\ bank' \in Seq(Unit) /\ Len(bank') < K
         /\ Moved' = lsn + Len(bank) + 1
<1> USE DEF IInv
<1>a. lsn + K <= Total /\ (\E b \in 0 .. Blocks : lsn + K = b * K) /\ lsn \in Nat
  <2>1. lsn \in Nat /\ lsn < Total /\ \E b \in 0 .. Blocks : lsn = b * K
    BY DEF SendUnit, TypeData, PlaceInv, InBlock, BlockInv
  <2> QED  BY <2>1, BlockFits
<1>b. Len(bank) \in Nat /\ lsn + Len(bank) + 1 \in Unit
  BY <1>a DEF TypeData, Unit
<1>c. wire' = Append(wire, lsn + Len(bank) + 1) /\ wire' \in Seq(Unit)
      /\ Len(wire') = Len(wire) + 1 /\ Len(wire) \in Nat
  BY <1>b, AppendOne DEF SendUnit, TypeWire
<1>d. \/ Len(bank) + 1 = K /\ lsn' = lsn + K /\ cPc' = "loop" /\ bank' = <<>>
      \/ /\ Len(bank) + 1 # K /\ lsn' = lsn /\ cPc' = "block"
         /\ bank' = Append(bank, lsn + Len(bank) + 1)
  BY DEF SendUnit, BlockDone
<1>e. bank' \in Seq(Unit) /\ Len(bank') < K
  <2>1. CASE bank' = <<>>
    BY <2>1
  <2>2. CASE Len(bank) + 1 # K /\ bank' = Append(bank, lsn + Len(bank) + 1)
    BY <1>b, <2>2, AppendOne DEF TypeData
  <2> QED  BY <1>d, <2>1, <2>2
<1>f. Moved' = lsn + Len(bank) + 1
  <2>1. CASE Len(bank) + 1 = K /\ lsn' = lsn + K /\ cPc' = "loop"
    BY <1>a, <1>b, <2>1 DEF Moved
  <2>2. CASE lsn' = lsn /\ cPc' = "block" /\ bank' = Append(bank, lsn + Len(bank) + 1)
    BY <1>a, <1>b, <2>2, AppendOne DEF Moved, TypeData
  <2> QED  BY <1>d, <2>1, <2>2
<1> QED
  <2>1. lsn' \in {lsn, lsn + K} /\ cPc' \in {"loop", "block"}
    BY <1>d
  <2> QED  BY <1>a, <1>b, <1>c, <1>e, <1>f, <2>1

LEMMA SendUnitKeeps == ASSUME IInv, SendUnit PROVE IInv'
<1> USE DEF IInv
<1>a. /\ lsn + K <= Total /\ (\E b \in 0 .. Blocks : lsn + K = b * K) /\ lsn \in Nat
      /\ Len(bank) \in Nat /\ lsn + Len(bank) + 1 \in Unit
      /\ wire' = Append(wire, lsn + Len(bank) + 1) /\ wire' \in Seq(Unit)
      /\ Len(wire') = Len(wire) + 1 /\ Len(wire) \in Nat
      /\ lsn' \in {lsn, lsn + K} /\ cPc' \in {"loop", "block"}
      /\ bank' \in Seq(Unit) /\ Len(bank') < K
      /\ Moved' = lsn + Len(bank) + 1
  BY SendUnitMoves
<1>1. UNCHANGED <<mode, job, back, retries, reconnects, result, copyResult, kept, cmd,
                  data, finC, finS, task, dPc, spos, remaining, io, part, disk, faults,
                  dropped, skipped, diskError>>
  BY DEF SendUnit, games, past, server
<1>2. TypeServer' /\ TypeFlags' /\ TypeDisk' /\ SourceInv' /\ RightPlace'
  BY <1>1, Unmoved
<1>3. TypePc'
  BY DEF SendUnit, BlockDone, games, past, server, TypePc, TypeFlags
<1>4. TypeData'
  BY <1>a DEF SendUnit, BlockDone, TypeData
<1>5. TypeWire'
  BY <1>a DEF SendUnit, TypeWire
<1>6. PlaceInv'
  BY DEF SendUnit, BlockDone, games, past, server, TypePc, PlaceInv, TypeData, InBlock,
         Closing
<1>7. BlockInv'
  <2>1. lsn' = lsn \/ lsn' = lsn + K
    BY <1>a
  <2> QED  BY <1>a, <2>1 DEF BlockInv
<1>8. FileInv'
  BY DEF SendUnit, BlockDone, games, past, server, FileInv, TypeData, PlaceInv, TypePc,
         InBlock
<1>9. ServerInv'
  BY DEF SendUnit, BlockDone, games, past, server, ServerInv, TypeServer, TypeWire,
         TypeFlags
<1>10. StreamInv'
  <2>1. mode = "install" /\ cPc = "block" /\ data = "up" /\ cPc' \in {"loop", "block"}
    BY <1>a DEF SendUnit
  <2>2. UNCHANGED <<mode, dPc, task, data, spos, skipped, file>>
    BY <2>1 DEF SendUnit, BlockDone, server, past
  <2>3. ASSUME ~skipped, dPc = "run", task
        PROVE  InOrder(wire', spos - 1) /\ spos + Len(wire') = Moved' + 1
    <3>1. InOrder(wire, spos - 1) /\ spos + Len(wire) = lsn + Len(bank) + 1
      BY <2>1, <2>3 DEF StreamInv, Streaming, Moved
    <3>2. spos - 1 \in Nat /\ (spos - 1) + Len(wire) + 1 = lsn + Len(bank) + 1
      BY <1>a, <3>1 DEF TypeServer
    <3>3. InOrder(Append(wire, (spos - 1) + Len(wire) + 1), spos - 1)
      BY <1>a, <3>1, <3>2, OrderAppend DEF TypeWire
    <3>4. InOrder(wire', spos - 1)
      BY <1>a, <3>2, <3>3
    <3>5. spos + Len(wire') = Moved' + 1
      <4>1. Len(wire') = Len(wire) + 1 /\ Len(wire) \in Nat /\ Moved' = lsn + Len(bank) + 1
            /\ lsn \in Nat /\ Len(bank) \in Nat /\ spos \in Nat
        BY <1>a DEF TypeServer
      <4>2. spos + Len(wire) = lsn + Len(bank) + 1
        BY <3>1
      <4> QED  BY ONLY <4>1, <4>2
    <3> QED  BY <3>4, <3>5
  <2> QED  BY <2>1, <2>2, <2>3 DEF StreamInv
<1> QED
  BY <1>1, <1>2, <1>3, <1>4, <1>5, <1>6, <1>7, <1>8, <1>9, <1>10

LEMMA ReceiveUnitKeeps == ASSUME IInv, ReceiveUnit PROVE IInv'
<1> USE DEF IInv
<1>a. lsn + K <= Total /\ (\E b \in 0 .. Blocks : lsn + K = b * K) /\ lsn \in Nat
  <2>1. lsn \in Nat /\ lsn < Total /\ \E b \in 0 .. Blocks : lsn = b * K
    BY DEF ReceiveUnit, TypeData, PlaceInv, InBlock, BlockInv
  <2> QED  BY <2>1, BlockFits
<1>b. Head(wire) \in Unit /\ Len(bank) \in Nat /\ Len(wire) \in Nat /\ Tail(wire) \in Seq(Unit)
      /\ Len(Tail(wire)) = Len(wire) - 1 /\ wire' = Tail(wire)
  BY TailOne DEF ReceiveUnit, TypeWire, TypeData
<1> DEFINE b == Append(bank, Head(wire))
<1>c. b \in Seq(Unit) /\ Len(b) = Len(bank) + 1
  BY <1>b, AppendOne DEF TypeData
<1>d. \/ /\ Len(bank) + 1 = K /\ lsn' = lsn + K /\ cPc' = "loop" /\ bank' = <<>>
         /\ file' = file \o b
      \/ /\ Len(bank) + 1 # K /\ lsn' = lsn /\ cPc' = "block" /\ file' = file
         /\ bank' = b
  BY DEF ReceiveUnit, BlockDone
<1> HIDE DEF b
<1>e. bank' \in Seq(Unit) /\ Len(bank') < K
  <2>1. CASE bank' = <<>>
    BY <2>1
  <2>2. CASE Len(bank) + 1 # K /\ bank' = b
    BY <1>b, <1>c, <2>2 DEF TypeData
  <2> QED  BY <1>d, <2>1, <2>2
<1>f. Moved' = lsn + Len(bank) + 1
  <2>1. CASE Len(bank) + 1 = K /\ lsn' = lsn + K /\ cPc' = "loop"
    BY <1>a, <1>b, <2>1 DEF Moved
  <2>2. CASE lsn' = lsn /\ cPc' = "block" /\ bank' = b
    <3>1. Len(bank') = Len(bank) + 1
      BY <1>c, <2>2
    <3> QED  BY <1>a, <1>b, <2>2, <3>1 DEF Moved
  <2> QED  BY <1>d, <2>1, <2>2
<1>g. file' \in Seq(Unit) /\ Len(file') = lsn'
  <2>1. Len(file) = lsn /\ file \in Seq(Unit)
    BY DEF ReceiveUnit, FileInv, TypeData
  <2>2. CASE Len(bank) + 1 = K /\ lsn' = lsn + K /\ file' = file \o b
    <3>1. file \o b \in Seq(Unit) /\ Len(file \o b) = Len(file) + Len(b)
      BY <1>c, <2>1
    <3> QED  BY <1>b, <1>c, <2>1, <2>2, <3>1
  <2> QED  BY <1>d, <2>1, <2>2
<1>1. UNCHANGED <<mode, job, back, retries, reconnects, result, copyResult, kept, cmd,
                  data, finC, finS, task, dPc, spos, remaining, io, part, disk, faults,
                  dropped, skipped, diskError>>
  BY DEF ReceiveUnit, games, past, server
<1>2. TypeServer' /\ TypeFlags' /\ TypeDisk' /\ SourceInv' /\ RightPlace'
  BY <1>1, Unmoved
<1>3. TypePc'
  BY DEF ReceiveUnit, BlockDone, games, past, server, TypePc, TypeFlags
<1>4. TypeData'
  <2>1. lsn' \in 0 .. Total
    BY <1>a, <1>d
  <2> QED  BY <1>e, <1>g, <2>1 DEF TypeData
<1>5. TypeWire'
  BY <1>b DEF TypeWire
<1>6. PlaceInv'
  BY DEF ReceiveUnit, BlockDone, games, past, server, TypePc, PlaceInv, TypeData, InBlock,
         Closing
<1>7. BlockInv'
  <2>1. lsn' = lsn \/ lsn' = lsn + K
    BY <1>d
  <2> QED  BY <1>a, <2>1 DEF BlockInv
<1>8. FileInv'
  <2>1. mode = "retrieve" /\ mode' = mode
    BY DEF ReceiveUnit
  <2> QED  BY <1>g, <2>1 DEF FileInv
<1>9. ServerInv'
  BY DEF ReceiveUnit, BlockDone, games, past, server, ServerInv, TypeServer, TypeWire,
         TypeFlags
<1>10. StreamInv'
  <2>1. mode = "retrieve" /\ cPc = "block" /\ data = "up" /\ cPc' \in {"loop", "block"}
        /\ wire # <<>>
    BY <1>d DEF ReceiveUnit
  <2>2. UNCHANGED <<mode, dPc, task, data, spos, skipped>>
    BY DEF ReceiveUnit, server, past
  <2>3. ASSUME ~skipped
        PROVE  /\ InOrder(wire', Moved')
               /\ dPc = "run" /\ task => spos = Moved' + Len(wire') + 1
               /\ cPc' = "block" => InOrder(bank', lsn')
               /\ InOrder(file', 0)
    <3>1. /\ InOrder(wire, lsn + Len(bank)) /\ InOrder(bank, lsn) /\ InOrder(file, 0)
          /\ dPc = "run" /\ task => spos = lsn + Len(bank) + Len(wire) + 1
      BY <2>1, <2>3 DEF StreamInv, Streaming, Moved
    <3>2. lsn + Len(bank) \in Nat
      BY <1>a, <1>b
    <3>3. Head(wire) = lsn + Len(bank) + 1 /\ InOrder(wire', Moved')
      BY <1>b, <1>f, <2>1, <3>1, <3>2, OrderTail DEF TypeWire
    <3>4. dPc = "run" /\ task => spos = Moved' + Len(wire') + 1
      BY <1>a, <1>b, <1>f, <3>1
    <3>5. InOrder(b, lsn)
      BY <1>a, <1>b, <3>1, <3>3, OrderAppend DEF TypeData, b
    <3>6. InOrder(file', 0)
      <4>1. Len(file) = lsn /\ file \in Seq(Unit)
        BY <2>1 DEF FileInv, TypeData
      <4>2. InOrder(b, 0 + Len(file))
        BY <1>a, <3>5, <4>1
      <4>3. InOrder(file \o b, 0)
        BY <1>c, <3>1, <4>1, <4>2, OrderConcat
      <4> QED  BY <1>d, <3>1, <4>3
    <3> QED  BY <1>d, <3>3, <3>4, <3>5, <3>6
  <2> QED  BY <2>1, <2>2, <2>3 DEF StreamInv
<1> QED
  BY <1>1, <1>2, <1>3, <1>4, <1>5, <1>6, <1>7, <1>8, <1>9, <1>10

(* ... what follows when a block fails, ... *)
LEMMA BlockFailsKeeps == ASSUME IInv, BlockFails PROVE IInv'
<1> USE DEF IInv
<1>1. UNCHANGED <<mode, job, back, lsn, bank, retries, reconnects, result, copyResult,
                  file, kept, cmd, data, finC, finS, wire, task, dPc, spos, remaining, io,
                  part, disk, faults, dropped, skipped, diskError>>
  BY DEF BlockFails, games, line, past, server
<1>2. TypeData' /\ TypeWire' /\ TypeServer' /\ TypeFlags' /\ TypeDisk' /\ BlockInv' /\
      FileInv' /\ ServerInv' /\ SourceInv' /\ RightPlace'
  BY <1>1, Unmoved
<1>3. TypePc'
  BY DEF BlockFails, games, line, past, server, TypePc, TypeFlags
<1>4. PlaceInv'
  BY DEF BlockFails, games, line, past, server, TypePc, PlaceInv, TypeData, InBlock, Closing
<1>5. StreamInv'
  BY DEF BlockFails, games, line, past, server, StreamInv, Streaming, Moved, TypeData,
         TypeWire, TypeServer, ServerInv, PlaceInv, InBlock
<1> QED
  BY <1>1, <1>2, <1>3, <1>4, <1>5

LEMMA ReceiveTimesOutKeeps == ASSUME IInv, ReceiveTimesOut PROVE IInv'
<1> USE DEF IInv
<1>1. UNCHANGED <<mode, job, back, lsn, bank, retries, reconnects, result, copyResult,
                  file, kept, data, finC, finS, wire, task, dPc, spos, remaining, io, part,
                  disk, dropped, skipped, diskError>>
  BY DEF ReceiveTimesOut, games, line, past, server
<1>2. TypeData' /\ TypeWire' /\ TypeFlags' /\ TypeDisk' /\ BlockInv' /\ FileInv' /\
      SourceInv' /\ RightPlace'
  BY <1>1, Unmoved
<1>3. TypePc'
  BY DEF ReceiveTimesOut, Fault, games, line, past, server, TypePc, TypeFlags
<1>4. TypeServer'
  BY DEF ReceiveTimesOut, Fault, games, line, past, server, TypeServer, TypeData, ServerInv
<1>5. PlaceInv'
  BY DEF ReceiveTimesOut, Fault, games, line, past, server, TypePc, PlaceInv, TypeData,
         InBlock, Closing
<1>6. ServerInv'
  BY DEF ReceiveTimesOut, Fault, games, line, past, server, ServerInv, TypeServer, TypeWire,
         TypeFlags
<1>7. StreamInv'
  BY DEF ReceiveTimesOut, Fault, games, line, past, server, StreamInv, Streaming, Moved,
         TypeData, TypeWire, TypeServer, ServerInv, PlaceInv, InBlock
<1> QED
  BY <1>1, <1>2, <1>3, <1>4, <1>5, <1>6, <1>7

LEMMA ShutDataKeeps == ASSUME IInv, ShutData PROVE IInv'
<1> USE DEF IInv
<1>1. UNCHANGED <<mode, job, back, lsn, bank, retries, reconnects, result, copyResult,
                  file, kept, cmd, data, finS, wire, task, dPc, spos, remaining, io, part,
                  disk, faults, dropped, skipped, diskError>>
  BY DEF ShutData, games, past, server
<1>2. TypeData' /\ TypeWire' /\ TypeServer' /\ TypeDisk' /\ BlockInv' /\ FileInv' /\
      ServerInv' /\ SourceInv' /\ RightPlace'
  BY <1>1, Unmoved
<1>3. TypePc'
  BY DEF ShutData, games, past, server, TypePc, TypeFlags
<1>4. TypeFlags'
  BY DEF ShutData, games, past, server, TypeFlags
<1>5. PlaceInv'
  BY DEF ShutData, games, past, server, TypePc, PlaceInv, TypeData, InBlock, Closing
<1>6. StreamInv'
  BY DEF ShutData, games, past, server, StreamInv, Streaming, Moved, TypeData, TypeWire,
         TypeServer, ServerInv, PlaceInv, InBlock
<1> QED
  BY <1>1, <1>2, <1>3, <1>4, <1>5, <1>6

LEMMA DrainDataKeeps == ASSUME IInv, DrainData PROVE IInv'
<1> USE DEF IInv
<1>1. UNCHANGED <<mode, job, cPc, back, lsn, bank, retries, reconnects, result, copyResult,
                  file, kept, cmd, data, finC, finS, task, dPc, spos, remaining, io, part,
                  disk, faults, dropped, skipped, diskError>>
  BY DEF DrainData, client, games, past, server
<1>2. TypePc' /\ TypeData' /\ TypeServer' /\ TypeFlags' /\ TypeDisk' /\ PlaceInv' /\
      BlockInv' /\ FileInv' /\ SourceInv' /\ RightPlace'
  BY <1>1, Unmoved
<1>3. TypeWire'
  BY DEF DrainData, client, games, past, server, TypeWire, TypeData, TypeServer, TypeFlags
<1>4. ServerInv'
  BY DEF DrainData, client, games, past, server, ServerInv, TypeServer, TypeWire, TypeFlags
<1>5. StreamInv'
  BY DEF DrainData, client, games, past, server, StreamInv, Streaming, Moved, TypeData,
         TypeWire, TypeServer, ServerInv, PlaceInv, InBlock
<1> QED
  BY <1>1, <1>2, <1>3, <1>4, <1>5

LEMMA DataClosedKeeps == ASSUME IInv, DataClosed PROVE IInv'
<1> USE DEF IInv
<1>1. UNCHANGED <<mode, job, back, lsn, bank, reconnects, result, copyResult, file, kept,
                  cmd, data, finC, finS, wire, task, dPc, spos, remaining, io, part, disk,
                  faults, dropped, skipped, diskError>>
  BY DEF DataClosed, games, line, past, server
<1>2. TypeData' /\ TypeWire' /\ TypeServer' /\ TypeFlags' /\ TypeDisk' /\ BlockInv' /\
      FileInv' /\ ServerInv' /\ SourceInv' /\ RightPlace'
  BY <1>1, Unmoved
<1>3. TypePc'
  BY DEF DataClosed, games, line, past, server, TypePc, TypeFlags
<1>4. PlaceInv'
  BY DEF DataClosed, games, line, past, server, TypePc, PlaceInv, TypeData, InBlock, Closing
<1>5. StreamInv'
  BY DEF DataClosed, games, line, past, server, StreamInv, Streaming, Moved, TypeData,
         TypeWire, TypeServer, ServerInv, PlaceInv, InBlock
<1> QED
  BY <1>1, <1>2, <1>3, <1>4, <1>5

LEMMA GetIOStatusKeeps == ASSUME IInv, GetIOStatus PROVE IInv'
<1> USE DEF IInv
<1>1. UNCHANGED <<mode, job, lsn, bank, retries, file, kept, data, finC, finS, wire, task,
                  dPc, spos, remaining, io, part, disk, dropped, skipped, diskError>>
  BY DEF GetIOStatus, games, line, past, server
<1>2. TypeData' /\ TypeWire' /\ TypeFlags' /\ TypeDisk' /\ BlockInv' /\ FileInv' /\
      SourceInv' /\ RightPlace'
  BY <1>1, Unmoved
<1>3. TypePc'
  BY DEF GetIOStatus, Answered, AnswerLost, Fault, games, line, past, server, TypePc,
         TypeFlags
<1>4. TypeServer'
  BY DEF GetIOStatus, Answered, AnswerLost, Fault, games, line, past, server, TypeServer,
         TypeData, ServerInv
<1>5. PlaceInv'
  BY DEF GetIOStatus, Answered, AnswerLost, Fault, games, line, past, server, TypePc,
         PlaceInv, TypeData, InBlock, Closing
<1>6. ServerInv'
  BY DEF GetIOStatus, Answered, AnswerLost, Fault, games, line, past, server, ServerInv,
         TypeServer, TypeWire, TypeFlags
<1>7. StreamInv'
  BY DEF GetIOStatus, Answered, AnswerLost, Fault, games, line, past, server, StreamInv,
         Streaming, Moved, TypeData, TypeWire, TypeServer, ServerInv, PlaceInv, InBlock
<1> QED
  BY <1>1, <1>2, <1>3, <1>4, <1>5, <1>6, <1>7

LEMMA ReconnectKeeps == ASSUME IInv, Reconnect PROVE IInv'
<1> USE DEF IInv
<1>1. UNCHANGED <<mode, job, back, lsn, bank, file, kept, data, finC, finS, wire, task,
                  dPc, spos, remaining, io, part, disk, faults, dropped, skipped, diskError>>
  BY DEF Reconnect, games, line, past, server
<1>2. TypeData' /\ TypeWire' /\ TypeFlags' /\ TypeDisk' /\ BlockInv' /\ FileInv' /\
      SourceInv' /\ RightPlace'
  BY <1>1, Unmoved
<1>3. TypePc'
  <2>1. UNCHANGED <<mode, job, back>>
    BY DEF Reconnect
  <2>2. /\ reconnects' \in {0, reconnects, reconnects + 1}
        /\ reconnects' = reconnects + 1 => reconnects + 1 < RECONNECT_COUNT
    BY DEF Reconnect, TypePc
  <2>3. /\ retries' \in {retries, retries + 1}
        /\ retries' = retries + 1 => retries + 1 # RETRY_COUNT
    BY DEF Reconnect, TypePc
  <2>4. /\ cPc' \in {"clean", "reconnect", "resume", "closeGame", "finish"}
        /\ result' \in {result, "lost"} /\ copyResult' \in {copyResult, "lost"}
    BY DEF Reconnect, TypePc, PlaceInv
  <2> QED  BY <2>1, <2>2, <2>3, <2>4 DEF TypePc
<1>4. TypeServer'
  BY DEF Reconnect, Handshake, games, line, past, server, TypeServer, TypeData, ServerInv
<1>5. PlaceInv'
  BY DEF Reconnect, Handshake, games, line, past, server, TypePc, PlaceInv, TypeData,
         InBlock, Closing
<1>6. ServerInv'
  BY DEF Reconnect, Handshake, games, line, past, server, ServerInv, TypeServer, TypeWire,
         TypeFlags
<1>7. StreamInv'
  BY DEF Reconnect, Handshake, games, line, past, server, StreamInv, Streaming, Moved,
         TypeData, TypeWire, TypeServer, ServerInv, PlaceInv, InBlock, TypePc
<1> QED
  BY <1>1, <1>2, <1>3, <1>4, <1>5, <1>6, <1>7

LEMMA ResumeKeeps == ASSUME IInv, Resume PROVE IInv'
<1> USE DEF IInv
<1>a. lsn + K <= Total /\ (\E b \in 0 .. Blocks : lsn + K = b * K) /\ lsn \in Nat
  <2>1. lsn \in Nat /\ lsn < Total /\ \E b \in 0 .. Blocks : lsn = b * K
    BY DEF Resume, TypeData, PlaceInv, InBlock, BlockInv
  <2> QED  BY <2>1, BlockFits
<1>b. \/ /\ bank' = <<>> /\ cPc' = "block" /\ lsn' = lsn /\ file' = file
         /\ skipped' = skipped
      \/ /\ bank' = <<>> /\ cPc' = "loop" /\ lsn' = lsn + K /\ skipped' = TRUE
         /\ file' = IF mode = "retrieve" THEN file \o [u \in 1 .. K |-> 0] ELSE file
  BY DEF Resume, BlockDone
<1>c. bank' = <<>> /\ bank' \in Seq(Unit) /\ Len(bank') = 0
  <2>1. bank' = <<>>
    BY <1>b
  <2> QED  BY <2>1
<1>d. file' \in Seq(Unit) /\ (mode = "retrieve" => Len(file') = lsn')
  <2> DEFINE blank == [u \in 1 .. K |-> 0]
  <2>1. blank \in Seq(Unit) /\ Len(blank) = K
    BY DEF Unit
  <2>2. file \in Seq(Unit) /\ (mode = "retrieve" => Len(file) = lsn)
    BY DEF TypeData, FileInv
  <2> HIDE DEF blank
  <2>3. file \o blank \in Seq(Unit) /\ Len(file \o blank) = Len(file) + K
    BY <2>1, <2>2
  <2>4. CASE file' = file /\ (mode = "retrieve" => lsn' = lsn)
    BY <2>2, <2>4
  <2>5. CASE file' = file \o blank /\ lsn' = lsn + K
    BY <1>a, <2>2, <2>3, <2>5
  <2> QED  BY <1>b, <2>4, <2>5 DEF blank
<1>1. UNCHANGED <<mode, job, back, reconnects, result, copyResult, kept, cmd, part, disk,
                  faults, dropped, diskError>>
  BY DEF Resume, games
<1>2. TypeDisk' /\ SourceInv'
  BY <1>1, Unmoved
<1>3. TypePc'
  BY DEF Resume, OpenGame, DataConnected, BlockDone, games, TypePc, TypeFlags
<1>4. TypeData'
  <2>1. lsn' \in 0 .. Total
    BY <1>a, <1>b
  <2> QED  BY <1>c, <1>d, <2>1 DEF TypeData
<1>5. TypeWire'
  BY DEF Resume, OpenGame, DataConnected, BlockDone, games, TypeWire, TypeData, TypeServer,
         TypeFlags
<1>6. TypeServer'
  BY DEF Resume, OpenGame, DataConnected, BlockDone, games, TypeServer, TypeData, ServerInv
<1>7. TypeFlags'
  BY DEF Resume, OpenGame, DataConnected, BlockDone, games, TypeFlags
<1>8. PlaceInv'
  BY DEF Resume, OpenGame, DataConnected, BlockDone, games, TypePc, PlaceInv, TypeData,
         InBlock, Closing
<1>9. BlockInv'
  <2>1. lsn' = lsn \/ lsn' = lsn + K
    BY <1>b
  <2> QED  BY <1>a, <2>1 DEF BlockInv
<1>10. FileInv'
  <2>1. mode' = mode /\ kept' = kept /\ (mode = "install" => file' = file)
    BY <1>b DEF Resume
  <2> QED  BY <1>d, <2>1 DEF FileInv
<1>11. ServerInv'
  <2>1. spos' = lsn + 1 /\ remaining' = Total - lsn /\ data' = "up" /\ finS' = FALSE
        /\ dPc' = "run" /\ cmd' = cmd /\ cmd = "up"
    BY DEF Resume, OpenGame, DataConnected
  <2> QED  BY <2>1 DEF ServerInv, TypeData
<1>12. StreamInv'
  <2>1. spos' = lsn + 1 /\ wire' = <<>>
    BY DEF Resume, OpenGame, DataConnected
  <2>2. Len(wire') = 0 /\ \A n : InOrder(wire', n) /\ InOrder(bank', n)
    BY <1>c, <2>1, OrderEmpty
  <2>3. CASE skipped' = TRUE
    BY <2>3 DEF StreamInv
  <2>4. CASE cPc' = "block" /\ lsn' = lsn /\ file' = file /\ skipped' = skipped
    <3>1. Moved' = lsn
      BY <1>a, <1>c, <2>4 DEF Moved
    <3>2. spos' = Moved' + Len(wire') + 1
      BY <1>a, <2>1, <2>2, <3>1
    <3>3. spos' + Len(wire') = Moved' + 1
      BY <1>a, <2>1, <2>2, <3>1
    <3>4. ~skipped => InOrder(file', 0)
      BY <2>4 DEF StreamInv
    <3>5. InOrder(wire', spos' - 1) /\ InOrder(wire', Moved') /\ InOrder(bank', lsn')
      BY <2>2
    <3> QED  BY <2>4, <3>2, <3>4, <3>5, <3>3 DEF StreamInv
  <2> QED  BY <1>b, <2>3, <2>4
<1>13. RightPlace'
  BY DEF Resume, OpenGame, DataConnected, BlockDone, games, RightPlace, TypeDisk, TypeServer
<1> QED
  BY <1>1, <1>2, <1>3, <1>4, <1>5, <1>6, <1>7, <1>8, <1>9, <1>10, <1>11, <1>12, <1>13

LEMMA ResumeFailsKeeps == ASSUME IInv, ResumeFails PROVE IInv'
<1> USE DEF IInv
<1>1. UNCHANGED <<mode, job, back, lsn, bank, retries, file, kept, cmd, data, finC, finS,
                  wire, task, dPc, spos, remaining, io, part, disk, faults, dropped,
                  skipped, diskError>>
  BY DEF ResumeFails, ResumeAgain, games, line, past, server
<1>2. TypeData' /\ TypeWire' /\ TypeServer' /\ TypeFlags' /\ TypeDisk' /\ BlockInv' /\
      FileInv' /\ ServerInv' /\ SourceInv' /\ RightPlace'
  BY <1>1, Unmoved
<1>3. TypePc'
  BY DEF ResumeFails, ResumeAgain, games, line, past, server, TypePc, TypeFlags
<1>4. PlaceInv'
  BY DEF ResumeFails, ResumeAgain, games, line, past, server, TypePc, PlaceInv, TypeData,
         InBlock, Closing
<1>5. StreamInv'
  BY DEF ResumeFails, ResumeAgain, games, line, past, server, StreamInv, Streaming, Moved,
         TypeData, TypeWire, TypeServer, ServerInv, PlaceInv, InBlock
<1> QED
  BY <1>1, <1>2, <1>3, <1>4, <1>5

LEMMA ResumeUnansweredKeeps == ASSUME IInv, ResumeUnanswered PROVE IInv'
<1> USE DEF IInv
<1>1. /\ UNCHANGED <<mode, job, back, lsn, bank, retries, file, kept, part, disk, dropped,
                     skipped, diskError>>
      /\ cPc = "resume" /\ cmd = "up" /\ cmd' = "down" /\ cPc' \in {"resume", "finish"}
  BY DEF ResumeUnanswered, ResumeAgain, AnswerLost, games, past
<1>2. /\ task' = TRUE /\ dPc' = "run" /\ spos' = lsn + 1 /\ remaining' = Total - lsn
      /\ io' = "ok" /\ data' = "broken" /\ finC' = FALSE /\ finS' = FALSE /\ wire' = <<>>
      /\ lsn \in 0 .. Total /\ faults' = faults - 1 /\ faults > 0
  BY DEF ResumeUnanswered, OpenGame, DataConnected, AnswerLost, Fault, TypeData
<1>3. TypeData' /\ TypeDisk' /\ BlockInv' /\ FileInv' /\ SourceInv' /\ RightPlace'
  BY <1>1, Unmoved
<1>4. TypePc'
  BY DEF ResumeUnanswered, ResumeAgain, past, TypePc
<1>5. TypeWire'
  BY <1>2 DEF TypeWire
<1>6. TypeServer'
  BY <1>1, <1>2 DEF TypeServer
<1>7. TypeFlags'
  BY <1>1, <1>2, Zenon DEF TypeFlags
<1>8. PlaceInv'
  BY <1>1 DEF PlaceInv, InBlock
<1>9. ServerInv'
  BY <1>1, <1>2 DEF ServerInv
<1>10. StreamInv'
  <2>1. ~Streaming' /\ \A n : InOrder(wire', n)
    BY <1>1, <1>2, OrderEmpty DEF Streaming
  <2> QED  BY <1>1, <2>1 DEF StreamInv
<1> QED
  BY <1>3, <1>4, <1>5, <1>6, <1>7, <1>8, <1>9, <1>10

(* ... and the end of a game. *)
LEMMA CloseGameKeeps == ASSUME IInv, CloseGame PROVE IInv'
<1> USE DEF IInv
<1>1. UNCHANGED <<mode, job, lsn, bank, retries, copyResult, file, kept, data, finC, finS,
                  wire, task, dPc, spos, remaining, io, part, disk, dropped, skipped,
                  diskError>>
  BY DEF CloseGame, games, line, past, server
<1>2. TypeData' /\ TypeWire' /\ TypeFlags' /\ TypeDisk' /\ BlockInv' /\ FileInv' /\
      SourceInv' /\ RightPlace'
  BY <1>1, Unmoved
<1>3. TypePc'
  BY DEF CloseGame, Answered, AnswerLost, Fault, games, line, past, server, TypePc,
         TypeFlags
<1>4. TypeServer'
  BY DEF CloseGame, Answered, AnswerLost, Fault, games, line, past, server, TypeServer,
         TypeData, ServerInv
<1>5. PlaceInv'
  BY DEF CloseGame, Answered, AnswerLost, Fault, games, line, past, server, TypePc,
         PlaceInv, TypeData, InBlock, Closing
<1>6. ServerInv'
  BY DEF CloseGame, Answered, AnswerLost, Fault, games, line, past, server, ServerInv,
         TypeServer, TypeWire, TypeFlags
<1>7. StreamInv'
  BY DEF CloseGame, Answered, AnswerLost, Fault, games, line, past, server, StreamInv,
         Streaming, Moved, TypeData, TypeWire, TypeServer, ServerInv, PlaceInv, InBlock
<1> QED
  BY <1>1, <1>2, <1>3, <1>4, <1>5, <1>6, <1>7

LEMMA CloseGameFailsKeeps == ASSUME IInv, CloseGameFails PROVE IInv'
<1> USE DEF IInv
<1>1. UNCHANGED <<mode, job, lsn, bank, retries, result, copyResult, file, kept, data,
                  finC, finS, wire, task, dPc, spos, remaining, io, part, disk, faults,
                  dropped, skipped, diskError>>
  BY DEF CloseGameFails, games, line, past, server
<1>2. TypeData' /\ TypeWire' /\ TypeFlags' /\ TypeDisk' /\ BlockInv' /\ FileInv' /\
      SourceInv' /\ RightPlace'
  BY <1>1, Unmoved
<1>3. TypePc'
  BY DEF CloseGameFails, games, line, past, server, TypePc, TypeFlags
<1>4. TypeServer'
  BY DEF CloseGameFails, games, line, past, server, TypeServer, TypeData, ServerInv
<1>5. PlaceInv'
  BY DEF CloseGameFails, games, line, past, server, TypePc, PlaceInv, TypeData, InBlock,
         Closing
<1>6. ServerInv'
  BY DEF CloseGameFails, games, line, past, server, ServerInv, TypeServer, TypeWire,
         TypeFlags
<1>7. StreamInv'
  BY DEF CloseGameFails, games, line, past, server, StreamInv, Streaming, Moved, TypeData,
         TypeWire, TypeServer, ServerInv, PlaceInv, InBlock
<1> QED
  BY <1>1, <1>2, <1>3, <1>4, <1>5, <1>6, <1>7

LEMMA FinishInstallKeeps == ASSUME IInv, FinishInstall PROVE IInv'
<1> USE DEF IInv
<1>1. UNCHANGED <<mode, back, lsn, bank, retries, reconnects, copyResult, file, kept, cmd,
                  data, finC, finS, wire, task, dPc, spos, remaining, io, disk, dropped,
                  skipped, diskError>>
  BY DEF FinishInstall, line, past, server
<1>2. TypeData' /\ TypeWire' /\ TypeFlags' /\ BlockInv' /\ FileInv' /\ ServerInv' /\
      SourceInv'
  BY <1>1, Unmoved
<1>3. TypePc'
  BY DEF FinishInstall, Fault, DeleteGame, line, past, server, TypePc, TypeFlags, PlaceInv
<1>4. TypeServer'
  BY DEF FinishInstall, Fault, DeleteGame, line, past, server, TypeServer, TypeData,
         ServerInv
<1>5. TypeDisk'
  BY DEF FinishInstall, Fault, DeleteGame, line, past, server, TypeDisk, TypeServer,
         TypeWire, Unit
<1>6. PlaceInv'
  BY DEF FinishInstall, Fault, DeleteGame, line, past, server, TypePc, PlaceInv, TypeData,
         InBlock, Closing
<1>7. StreamInv'
  BY DEF FinishInstall, Fault, DeleteGame, line, past, server, StreamInv, Streaming, Moved,
         TypeData, TypeWire, TypeServer, ServerInv, PlaceInv, InBlock
<1>8. RightPlace'
  BY DEF FinishInstall, Fault, DeleteGame, line, past, server, RightPlace, TypeDisk,
         TypeServer
<1> QED
  BY <1>1, <1>2, <1>3, <1>4, <1>5, <1>6, <1>7, <1>8

LEMMA UndoInstallKeeps == ASSUME IInv, UndoInstall PROVE IInv'
<1> USE DEF IInv
<1>1. UNCHANGED <<mode, cmd, data, finC, finS, wire, task, dPc, spos, remaining, io, disk,
                  faults, dropped, skipped, diskError>>
  BY DEF UndoInstall, line, past, server
<1>2. TypeWire' /\ TypeServer' /\ ServerInv' /\ SourceInv'
  BY <1>1, Unmoved
<1>3. TypePc'
  BY DEF UndoInstall, DeleteGame, EndJobs, line, past, server, TypePc, TypeFlags
<1>4. TypeData'
  BY DEF UndoInstall, DeleteGame, EndJobs, line, past, server, TypeData, TypeWire
<1>5. TypeFlags'
  BY DEF UndoInstall, DeleteGame, EndJobs, line, past, server, TypeFlags
<1>6. TypeDisk'
  BY DEF UndoInstall, DeleteGame, EndJobs, line, past, server, TypeDisk, TypeServer,
         TypeWire, Unit
<1>7. PlaceInv'
  BY DEF UndoInstall, DeleteGame, EndJobs, line, past, server, TypePc, PlaceInv, TypeData,
         InBlock, Closing
<1>8. BlockInv'
  BY DEF UndoInstall, DeleteGame, EndJobs, line, past, server, BlockInv, PlaceInv, InBlock,
         TypeData
<1>9. FileInv'
  BY DEF UndoInstall, DeleteGame, EndJobs, line, past, server, FileInv, TypeData, PlaceInv,
         TypePc, InBlock
<1>10. StreamInv'
  BY DEF UndoInstall, DeleteGame, EndJobs, line, past, server, StreamInv, Streaming, Moved,
         TypeData, TypeWire, TypeServer, ServerInv, PlaceInv, InBlock
<1>11. RightPlace'
  BY DEF UndoInstall, DeleteGame, EndJobs, line, past, server, RightPlace, TypeDisk,
         TypeServer
<1> QED
  BY <1>1, <1>2, <1>3, <1>4, <1>5, <1>6, <1>7, <1>8, <1>9, <1>10, <1>11

LEMMA FinishRetrieveKeeps == ASSUME IInv, FinishRetrieve PROVE IInv'
<1> USE DEF IInv
<1>1. UNCHANGED <<mode, job, back, lsn, bank, retries, reconnects, result, copyResult,
                  file, cmd, data, finC, finS, wire, task, dPc, spos, remaining, io, part,
                  disk, faults, dropped, skipped, diskError>>
  BY DEF FinishRetrieve, games, line, past, server
<1>2. TypeData' /\ TypeWire' /\ TypeServer' /\ TypeDisk' /\ BlockInv' /\ ServerInv' /\
      SourceInv' /\ RightPlace'
  BY <1>1, Unmoved
<1>3. TypePc'
  BY DEF FinishRetrieve, games, line, past, server, TypePc, TypeFlags
<1>4. TypeFlags'
  BY DEF FinishRetrieve, games, line, past, server, TypeFlags
<1>5. PlaceInv'
  BY DEF FinishRetrieve, games, line, past, server, TypePc, PlaceInv, TypeData, InBlock,
         Closing
<1>6. FileInv'
  BY DEF FinishRetrieve, games, line, past, server, FileInv, TypeData, PlaceInv, TypePc,
         InBlock
<1>7. StreamInv'
  BY DEF FinishRetrieve, games, line, past, server, StreamInv, Streaming, Moved, TypeData,
         TypeWire, TypeServer, ServerInv, PlaceInv, InBlock
<1> QED
  BY <1>1, <1>2, <1>3, <1>4, <1>5, <1>6, <1>7

LEMMA AbortKeeps == ASSUME IInv, Abort PROVE IInv'
<1> USE DEF IInv
<1>1. UNCHANGED <<mode, cmd, data, finC, finS, wire, task, dPc, spos, remaining, io, part,
                  disk, faults, dropped, skipped, diskError>>
  BY DEF Abort, games, line, past, server
<1>2. TypeWire' /\ TypeServer' /\ TypeDisk' /\ ServerInv' /\ SourceInv' /\
      RightPlace'
  BY <1>1, Unmoved
<1>3. TypePc'
  BY DEF Abort, GiveUp, games, line, past, server, TypePc, TypeFlags
<1>4. TypeData'
  BY DEF Abort, GiveUp, games, line, past, server, TypeData, TypeWire
<1>5. TypeFlags'
  BY DEF Abort, GiveUp, games, line, past, server, TypeFlags
<1>6. PlaceInv'
  BY DEF Abort, GiveUp, games, line, past, server, TypePc, PlaceInv, TypeData, InBlock,
         Closing
<1>7. BlockInv'
  BY DEF Abort, GiveUp, games, line, past, server, BlockInv, PlaceInv, InBlock, TypeData
<1>8. FileInv'
  BY DEF Abort, GiveUp, games, line, past, server, FileInv, TypeData, PlaceInv, TypePc,
         InBlock
<1>9. StreamInv'
  BY DEF Abort, GiveUp, games, line, past, server, StreamInv, Streaming, Moved, TypeData,
         TypeWire, TypeServer, ServerInv, PlaceInv, InBlock
<1> QED
  BY <1>1, <1>2, <1>3, <1>4, <1>5, <1>6, <1>7, <1>8, <1>9

(* The steps of the console keep it. *)
LEMMA WriteUnitKeeps == ASSUME IInv, WriteUnit PROVE IInv'
<1> USE DEF IInv
<1>a. /\ wire' = Tail(wire) /\ wire' \in Seq(Unit) /\ Len(wire') = Len(wire) - 1
      /\ Len(wire) \in Nat /\ Head(wire) \in Unit /\ wire # <<>>
  BY TailOne DEF WriteUnit, TypeWire
<1>b. spos \in 1 .. Total /\ remaining \in 1 .. Total /\ spos' = spos + 1
      /\ remaining' = remaining - 1
  <2>1. remaining > 0 /\ spos' = spos + 1 /\ remaining' = remaining - 1
    BY DEF WriteUnit
  <2> QED  BY <2>1 DEF ServerInv, TypeServer
<1>1. UNCHANGED <<mode, job, cPc, back, lsn, bank, retries, reconnects, result, copyResult,
                  file, kept, cmd, data, finC, finS, task, part, dropped, skipped>>
      /\ dPc = "run" /\ dPc' \in {"run", "stuck"}
  BY DEF WriteUnit, client
<1>2. TypePc' /\ TypeData' /\ PlaceInv' /\ BlockInv' /\ FileInv'
  BY <1>1, Unmoved
<1>3. TypeWire'
  BY <1>a DEF TypeWire
<1>4. TypeServer'
  <2>1. UNCHANGED <<cmd, data>> /\ io' \in {io, "dead"} /\ faults' \in {faults, faults - 1}
        /\ (faults' # faults => faults > 0)
    BY DEF WriteUnit, Fault
  <2> QED  BY <1>1, <1>b, <2>1 DEF TypeServer
<1>5. TypeFlags'
  BY DEF WriteUnit, Fault, client, TypeFlags
<1>6. TypeDisk'
  <2>1. CASE disk' = disk
    BY <2>1 DEF WriteUnit, TypeDisk
  <2>2. CASE disk' = [disk EXCEPT ![job][spos] = Head(wire)]
    BY <1>a, <1>b, <2>2 DEF WriteUnit, TypeDisk
  <2> QED  BY <2>1, <2>2 DEF WriteUnit
<1>7. ServerInv'
  BY <1>1, <1>a, <1>b DEF ServerInv, TypeServer
<1>8. SourceInv'
  BY DEF WriteUnit, Fault, client, SourceInv, PlaceInv, TypePc
<1>9. StreamInv'
  <2>1. mode = "install" /\ dPc = "run" /\ task
    BY DEF WriteUnit
  <2>2. UNCHANGED <<mode, cPc, lsn, bank, file, data, task, skipped>>
    BY DEF WriteUnit, client
  <2>3. ASSUME ~skipped
        PROVE  /\ InOrder(wire', spos' - 1)
               /\ Streaming /\ data = "up" => spos' + Len(wire') = Moved + 1
    <3>1. /\ InOrder(wire, spos - 1)
          /\ Streaming /\ data = "up" => spos + Len(wire) = Moved + 1
      BY <2>1, <2>3 DEF StreamInv
    <3>2. spos - 1 \in Nat /\ (spos - 1) + 1 = spos' - 1
      BY <1>b
    <3>3. InOrder(wire', spos' - 1)
      BY <1>a, <3>1, <3>2, OrderTail DEF TypeWire
    <3>4. spos' + Len(wire') = spos + Len(wire)
      BY <1>a, <1>b
    <3> QED  BY <3>1, <3>3, <3>4
  <2>4. Moved' = Moved /\ Streaming' = Streaming
    BY <2>2 DEF Moved, Streaming
  <2> QED  BY <2>1, <2>2, <2>3, <2>4 DEF StreamInv
<1>10. RightPlace'
  <2>1. mode = "install" /\ dPc = "run" /\ task /\ skipped' = skipped /\ part' = part
    BY DEF WriteUnit
  <2>2. ~skipped => Head(wire) = spos
    <3>1. ~skipped => InOrder(wire, spos - 1)
      BY <2>1 DEF StreamInv
    <3>2. spos - 1 \in Nat /\ (spos - 1) + 1 = spos
      BY <1>b
    <3> QED  BY <1>a, <3>1, <3>2, OrderTail DEF TypeWire
  <2> SUFFICES ASSUME ~skipped, NEW g \in part, NEW u \in 1 .. Total
               PROVE  disk'[g][u] \in {0, u}
    BY <2>1 DEF RightPlace
  <2>3. ~skipped
    OBVIOUS
  <2>4. CASE disk' = disk
    BY <2>3, <2>4 DEF RightPlace
  <2>5. CASE disk' = [disk EXCEPT ![job][spos] = spos]
    <3>1. disk[g][u] \in {0, u} /\ g \in Games /\ disk \in [Games -> [1 .. Total -> Unit]]
      BY <2>3 DEF RightPlace, TypeDisk
    <3>2. CASE g = job /\ u = spos
      BY <3>1, <3>2, <2>5
    <3>3. CASE ~(g = job /\ u = spos)
      BY <3>1, <3>3, <2>5
    <3> QED  BY <3>2, <3>3
  <2> QED  BY <2>2, <2>4, <2>5 DEF WriteUnit
<1> QED
  BY <1>1, <1>2, <1>3, <1>4, <1>5, <1>6, <1>7, <1>8, <1>9, <1>10

LEMMA ReadUnitKeeps == ASSUME IInv, ReadUnit PROVE IInv'
<1> USE DEF IInv
<1>1. /\ UNCHANGED <<mode, job, cPc, back, lsn, bank, retries, reconnects, result, copyResult,
                     file, kept, cmd, data, finC, task, io, part, disk, faults, dropped,
                     skipped, diskError>>
      /\ mode = "retrieve" /\ dPc = "run" /\ task /\ data = "up"
      /\ dPc' \in {"run", "linger"} /\ (dPc' = "run" => finS' = FALSE) /\ finS' \in BOOLEAN
  BY DEF ReadUnit, client, games, past
<1>2. TypePc' /\ TypeData' /\ TypeDisk' /\ PlaceInv' /\ BlockInv' /\ FileInv' /\
      SourceInv' /\ RightPlace'
  BY <1>1, Unmoved
<1>3. /\ spos \in 1 .. Total /\ spos \in Unit /\ spos' = spos + 1
      /\ remaining' = remaining - 1 /\ remaining' \in 0 .. Total
  <2>1. remaining > 0 /\ spos' = spos + 1 /\ remaining' = remaining - 1
    BY DEF ReadUnit
  <2> QED  BY <2>1 DEF ServerInv, TypeServer, Unit
<1>4. disk[job][spos] = spos
  BY <1>1, <1>3 DEF SourceInv, PlaceInv, Whole
<1>5. wire' = Append(wire, spos) /\ Len(wire) < Window
  BY <1>4 DEF ReadUnit
<1>6. wire' \in Seq(Unit) /\ Len(wire') = Len(wire) + 1 /\ Len(wire) \in Nat
  BY <1>3, <1>5, AppendOne DEF TypeWire
<1>7. TypeWire'
  BY <1>5, <1>6 DEF TypeWire
<1>8. TypeServer'
  BY <1>1, <1>3 DEF TypeServer
<1>9. TypeFlags'
  BY <1>1, Zenon DEF TypeFlags
<1>10. ServerInv'
  <2>1. spos' + remaining' = spos + remaining
    BY <1>3 DEF TypeServer
  <2> QED  BY <1>1, <2>1 DEF ServerInv
<1>11. StreamInv'
  <2>1. ASSUME ~skipped, Streaming
        PROVE  InOrder(wire', Moved) /\ spos' = Moved + Len(wire') + 1
    <3>1. InOrder(wire, Moved) /\ spos = Moved + Len(wire) + 1
      BY <1>1, <2>1 DEF StreamInv
    <3>2. Moved \in Nat
      BY DEF Moved, TypeData
    <3>3. InOrder(Append(wire, Moved + Len(wire) + 1), Moved)
      BY <1>3, <3>1, <3>2, OrderAppend DEF TypeWire
    <3> QED  BY <1>3, <1>5, <1>6, <3>1, <3>2, <3>3
  <2>2. Moved' = Moved /\ Streaming' = Streaming
    BY <1>1 DEF Moved, Streaming
  <2> QED  BY <1>1, <2>1, <2>2 DEF StreamInv
<1> QED
  BY <1>2, <1>7, <1>8, <1>9, <1>10, <1>11

LEMMA ReadFailsKeeps == ASSUME IInv, ReadFails PROVE IInv'
<1> USE DEF IInv
<1>1. /\ UNCHANGED <<mode, job, cPc, back, lsn, bank, retries, reconnects, result, copyResult,
                     file, kept, cmd, data, finC, finS, wire, task, spos, remaining, part, disk,
                     dropped, skipped>>
      /\ dPc = "run" /\ dPc' \in {"run", "stuck"} /\ io' = "dead" /\ diskError' = TRUE
      /\ faults > 0 /\ faults' = faults - 1
  BY DEF ReadFails, Fault, client, line, games
<1>2. TypePc' /\ TypeData' /\ TypeWire' /\ TypeDisk' /\ PlaceInv' /\ BlockInv' /\
      FileInv' /\ SourceInv' /\ RightPlace'
  BY <1>1, Unmoved
<1>3. TypeServer'
  BY <1>1 DEF TypeServer
<1>4. TypeFlags'
  BY <1>1, Zenon DEF TypeFlags
<1>5. ServerInv'
  BY <1>1 DEF ServerInv
<1>6. StreamInv'
  <2>1. Moved' = Moved /\ Streaming' = Streaming
    BY <1>1 DEF Moved, Streaming
  <2> QED  BY <1>1, <2>1 DEF StreamInv
<1> QED
  BY <1>2, <1>3, <1>4, <1>5, <1>6

LEMMA TransferEndsKeeps == ASSUME IInv, TransferEnds PROVE IInv'
<1> USE DEF IInv
<1>1. UNCHANGED <<mode, job, cPc, back, lsn, bank, retries, reconnects, result, copyResult,
                  file, kept, cmd, data, finC, wire, task, spos, remaining, io, part, disk,
                  faults, dropped, skipped, diskError>>
  BY DEF TransferEnds, client, games, past
<1>2. TypePc' /\ TypeData' /\ TypeWire' /\ TypeDisk' /\ PlaceInv' /\ BlockInv' /\
      FileInv' /\ SourceInv' /\ RightPlace'
  BY <1>1, Unmoved
<1>3. TypeServer'
  BY DEF TransferEnds, client, games, past, TypeServer, TypeData, ServerInv
<1>4. TypeFlags'
  BY DEF TransferEnds, client, games, past, TypeFlags
<1>5. ServerInv'
  BY DEF TransferEnds, client, games, past, ServerInv, TypeServer, TypeWire, TypeFlags
<1>6. StreamInv'
  BY DEF TransferEnds, client, games, past, StreamInv, Streaming, Moved, TypeData, TypeWire,
         TypeServer, ServerInv, PlaceInv, InBlock
<1> QED
  BY <1>1, <1>2, <1>3, <1>4, <1>5, <1>6

LEMMA DrainKeeps == ASSUME IInv, Drain PROVE IInv'
<1> USE DEF IInv
<1>1. UNCHANGED <<mode, job, cPc, back, lsn, bank, retries, reconnects, result, copyResult,
                  file, kept, cmd, data, finC, finS, task, dPc, spos, remaining, io, part,
                  disk, faults, dropped, skipped, diskError>>
  BY DEF Drain, client, games, past, server
<1>2. TypePc' /\ TypeData' /\ TypeServer' /\ TypeFlags' /\ TypeDisk' /\ PlaceInv' /\
      BlockInv' /\ FileInv' /\ SourceInv' /\ RightPlace'
  BY <1>1, Unmoved
<1>3. TypeWire'
  BY DEF Drain, client, games, past, server, TypeWire, TypeData, TypeServer, TypeFlags
<1>4. ServerInv'
  BY DEF Drain, client, games, past, server, ServerInv, TypeServer, TypeWire, TypeFlags
<1>5. StreamInv'
  BY DEF Drain, client, games, past, server, StreamInv, Streaming, Moved, TypeData,
         TypeWire, TypeServer, ServerInv, PlaceInv, InBlock
<1> QED
  BY <1>1, <1>2, <1>3, <1>4, <1>5

LEMMA DisconnectedKeeps == ASSUME IInv, Disconnected PROVE IInv'
<1> USE DEF IInv
<1>1. UNCHANGED <<mode, job, cPc, back, lsn, bank, retries, reconnects, result, copyResult,
                  file, kept, cmd, data, finC, finS, wire, task, spos, remaining, io, part,
                  disk, faults, dropped, skipped, diskError>>
  BY DEF Disconnected, client, games, line, past
<1>2. TypePc' /\ TypeData' /\ TypeWire' /\ TypeFlags' /\ TypeDisk' /\ PlaceInv' /\
      BlockInv' /\ FileInv' /\ SourceInv' /\ RightPlace'
  BY <1>1, Unmoved
<1>3. TypeServer'
  BY DEF Disconnected, client, games, line, past, TypeServer, TypeData, ServerInv
<1>4. ServerInv'
  BY DEF Disconnected, client, games, line, past, ServerInv, TypeServer, TypeWire, TypeFlags
<1>5. StreamInv'
  BY DEF Disconnected, client, games, line, past, StreamInv, Streaming, Moved, TypeData,
         TypeWire, TypeServer, ServerInv, PlaceInv, InBlock
<1> QED
  BY <1>1, <1>2, <1>3, <1>4, <1>5

LEMMA EndGameKeeps == ASSUME IInv, EndGame PROVE IInv'
<1> USE DEF IInv
<1>1. UNCHANGED <<mode, job, cPc, back, lsn, bank, retries, reconnects, result, copyResult,
                  file, kept, cmd, data, finC, finS, wire, spos, remaining, io, part,
                  dropped, skipped>>
  BY DEF EndGame, client, line
<1>2. TypePc' /\ TypeData' /\ TypeWire' /\ PlaceInv' /\ BlockInv' /\ FileInv'
  BY <1>1, Unmoved
<1>3. TypeServer'
  <2>1. UNCHANGED <<cmd, data, spos, remaining, io>> /\ dPc' = "exit"
    BY DEF EndGame, client, line
  <2>2. faults' \in 0 .. MaxFaults
    BY DEF EndGame, Fault, TypeServer
  <2> QED  BY <2>1, <2>2 DEF TypeServer
<1>4. TypeFlags'
  BY DEF EndGame, Fault, client, line, TypeFlags
<1>5. TypeDisk'
  <2>1. part' = part /\ 0 \in Unit
    BY DEF EndGame, Unit
  <2>2. CASE disk' = disk
    BY <2>1, <2>2 DEF TypeDisk
  <2>3. CASE disk' = [disk EXCEPT ![job][spos - 1] = 0]
    BY <2>1, <2>3 DEF TypeDisk
  <2> QED  BY <2>2, <2>3 DEF EndGame
<1>6. ServerInv'
  BY DEF EndGame, Fault, client, line, ServerInv, TypeServer, TypeWire, TypeFlags
<1>7. SourceInv'
  BY DEF EndGame, Fault, client, line, SourceInv, PlaceInv, TypePc
<1>8. StreamInv'
  BY DEF EndGame, Fault, client, line, StreamInv, Streaming, Moved, TypeData, TypeWire,
         TypeServer, ServerInv, PlaceInv, InBlock
<1>9. RightPlace'
  <2>1. skipped' = skipped /\ part' = part
    BY DEF EndGame
  <2> SUFFICES ASSUME ~skipped, NEW g \in part, NEW u \in 1 .. Total
               PROVE  disk'[g][u] \in {0, u}
    BY <2>1 DEF RightPlace
  <2>3. ~skipped
    OBVIOUS
  <2>4. CASE disk' = disk
    BY <2>3, <2>4 DEF RightPlace
  <2>5. CASE disk' = [disk EXCEPT ![job][spos - 1] = 0]
    <3>1. disk[g][u] \in {0, u} /\ g \in Games /\ disk \in [Games -> [1 .. Total -> Unit]]
      BY <2>3 DEF RightPlace, TypeDisk
    <3>2. CASE g = job /\ u = spos - 1
      BY <3>1, <3>2, <2>5
    <3>3. CASE ~(g = job /\ u = spos - 1)
      BY <3>1, <3>3, <2>5
    <3> QED  BY <3>2, <3>3
  <2> QED  BY <2>4, <2>5 DEF EndGame
<1> QED
  BY <1>1, <1>2, <1>3, <1>4, <1>5, <1>6, <1>7, <1>8, <1>9

LEMMA DataExitsKeeps == ASSUME IInv, DataExits PROVE IInv'
<1> USE DEF IInv
<1>1. UNCHANGED <<mode, job, cPc, back, lsn, bank, retries, reconnects, result, copyResult,
                  file, kept, cmd, data, finC, finS, wire, task, spos, remaining, io, part,
                  disk, faults, dropped, skipped, diskError>>
  BY DEF DataExits, client, games, line, past
<1>2. TypePc' /\ TypeData' /\ TypeWire' /\ TypeFlags' /\ TypeDisk' /\ PlaceInv' /\
      BlockInv' /\ FileInv' /\ SourceInv' /\ RightPlace'
  BY <1>1, Unmoved
<1>3. TypeServer'
  BY DEF DataExits, client, games, line, past, TypeServer, TypeData, ServerInv
<1>4. ServerInv'
  BY DEF DataExits, client, games, line, past, ServerInv, TypeServer, TypeWire, TypeFlags
<1>5. StreamInv'
  BY DEF DataExits, client, games, line, past, StreamInv, Streaming, Moved, TypeData,
         TypeWire, TypeServer, ServerInv, PlaceInv, InBlock
<1> QED
  BY <1>1, <1>2, <1>3, <1>4, <1>5

LEMMA CleanupKeeps == ASSUME IInv, Cleanup PROVE IInv'
<1> USE DEF IInv
<1>1. UNCHANGED <<mode, job, cPc, back, lsn, bank, retries, reconnects, result, copyResult,
                  file, kept, data, finC, finS, wire, dPc, spos, remaining, io, part, disk,
                  faults, skipped, diskError>>
  BY DEF Cleanup, client, games, line
<1>2. TypePc' /\ TypeData' /\ TypeWire' /\ TypeDisk' /\ PlaceInv' /\ BlockInv' /\
      FileInv' /\ SourceInv' /\ RightPlace'
  BY <1>1, Unmoved
<1>3. TypeServer'
  BY DEF Cleanup, client, games, line, TypeServer, TypeData, ServerInv
<1>4. TypeFlags'
  BY DEF Cleanup, client, games, line, TypeFlags
<1>5. ServerInv'
  BY DEF Cleanup, client, games, line, ServerInv, TypeServer, TypeWire, TypeFlags
<1>6. StreamInv'
  BY DEF Cleanup, client, games, line, StreamInv, Streaming, Moved, TypeData, TypeWire,
         TypeServer, ServerInv, PlaceInv, InBlock
<1> QED
  BY <1>1, <1>2, <1>3, <1>4, <1>5, <1>6

(* Lost connections keep it. *)
LEMMA LoseDataKeeps == ASSUME IInv, LoseData PROVE IInv'
<1> USE DEF IInv
<1>1. UNCHANGED <<mode, job, cPc, back, lsn, bank, retries, reconnects, result, copyResult,
                  file, kept, cmd, finC, finS, task, dPc, spos, remaining, io, part, disk,
                  skipped, diskError>>
  BY DEF LoseData, client, games, server
<1>2. TypePc' /\ TypeData' /\ TypeDisk' /\ PlaceInv' /\ BlockInv' /\ FileInv' /\
      SourceInv' /\ RightPlace'
  BY <1>1, Unmoved
<1>3. TypeWire'
  BY DEF LoseData, Fault, client, games, server, TypeWire, TypeData, TypeServer, TypeFlags
<1>4. TypeServer'
  BY DEF LoseData, Fault, client, games, server, TypeServer, TypeData, ServerInv
<1>5. TypeFlags'
  BY DEF LoseData, Fault, client, games, server, TypeFlags
<1>6. ServerInv'
  BY DEF LoseData, Fault, client, games, server, ServerInv, TypeServer, TypeWire, TypeFlags
<1>7. StreamInv'
  <2>1. /\ wire' = <<>> /\ data' = "broken"
        /\ UNCHANGED <<mode, cPc, dPc, task, spos, skipped, file, lsn, bank>>
    BY DEF LoseData, client, server
  <2>2. \A n : InOrder(wire', n)
    BY <2>1, OrderEmpty
  <2>3. Moved' = Moved /\ Streaming' = Streaming
    BY <2>1 DEF Moved, Streaming
  <2> QED  BY <2>1, <2>2, <2>3 DEF StreamInv
<1> QED
  BY <1>1, <1>2, <1>3, <1>4, <1>5, <1>6, <1>7

LEMMA LoseCommandKeeps == ASSUME IInv, LoseCommand PROVE IInv'
<1> USE DEF IInv
<1>1. UNCHANGED <<mode, job, cPc, back, lsn, bank, retries, reconnects, result, copyResult,
                  file, kept, data, finC, finS, wire, task, dPc, spos, remaining, io, part,
                  disk, dropped, skipped, diskError>>
  BY DEF LoseCommand, client, games, line, past, server
<1>2. TypePc' /\ TypeData' /\ TypeWire' /\ TypeFlags' /\ TypeDisk' /\ PlaceInv' /\
      BlockInv' /\ FileInv' /\ SourceInv' /\ StreamInv' /\ RightPlace'
  BY <1>1, Unmoved
<1>3. TypeServer'
  BY DEF LoseCommand, Fault, client, games, line, past, server, TypeServer, TypeData,
         ServerInv
<1>4. ServerInv'
  BY DEF LoseCommand, Fault, client, games, line, past, server, ServerInv, TypeServer,
         TypeWire, TypeFlags
<1> QED
  BY <1>1, <1>2, <1>3, <1>4

-----------------------------------------------------------------------------
(* Nothing has been moved yet, and a game that is there is whole.          *)
LEMMA InitHolds == Init => IInv
<1> SUFFICES ASSUME Init PROVE IInv
  OBVIOUS
<1> USE DEF Init
<1>1. TypePc /\ TypeWire /\ TypeServer
  BY DEF TypePc, TypeWire, TypeServer
<1>2. TypeData
  BY DEF TypeData
<1>3. TypeFlags
  BY DEF TypeFlags
<1>4. TypeDisk
  <2>1. Blank \in [1 .. Total -> Unit] /\ Whole \in [1 .. Total -> Unit]
    BY DEF Blank, Whole, Unit
  <2>2. part \subseteq Games
    OBVIOUS
  <2> QED  BY <2>1, <2>2 DEF TypeDisk
<1>5. PlaceInv /\ FileInv /\ ServerInv
  BY DEF PlaceInv, FileInv, ServerInv, InBlock
<1>6. BlockInv
  <2>1. 0 \in 0 .. Blocks /\ 0 = 0 * K
    OBVIOUS
  <2> QED  BY <2>1 DEF BlockInv
<1>7. SourceInv
  BY DEF SourceInv
<1>8. StreamInv
  BY OrderEmpty DEF StreamInv, Streaming
<1>9. RightPlace
  BY DEF RightPlace, Blank, Whole
<1> QED  BY <1>1, <1>2, <1>3, <1>4, <1>5, <1>6, <1>7, <1>8, <1>9 DEF IInv

(* The invariant is inductive.                                             *)
LEMMA NextKeeps == ASSUME IInv, [Next]_vars PROVE IInv'
<1>1. CASE Client
  BY <1>1, BadImageKeeps, KeepInstalledKeeps, StartJobKeeps, JobsDoneKeeps, PrepareKeeps,
           PrepareFailsKeeps, OpenForReadKeeps, NextBlockKeeps, SendUnitKeeps,
           ReceiveUnitKeeps, BlockFailsKeeps, ReceiveTimesOutKeeps, ShutDataKeeps,
           DrainDataKeeps, DataClosedKeeps, GetIOStatusKeeps, ReconnectKeeps, ResumeKeeps,
           ResumeUnansweredKeeps, ResumeFailsKeeps, CloseGameKeeps,
           CloseGameFailsKeeps, FinishInstallKeeps,
           UndoInstallKeeps, FinishRetrieveKeeps DEF Client
<1>2. CASE Abort
  BY <1>2, AbortKeeps
<1>3. CASE Server
  BY <1>3, WriteUnitKeeps, ReadUnitKeeps, ReadFailsKeeps, TransferEndsKeeps, DrainKeeps,
           DisconnectedKeeps, EndGameKeeps, DataExitsKeeps, CleanupKeeps DEF Server
<1>4. CASE LoseData \/ LoseCommand
  BY <1>4, LoseDataKeeps, LoseCommandKeeps
<1>5. CASE UNCHANGED vars
  <2>1. /\ UNCHANGED <<mode, cmd, faults>> /\ UNCHANGED client /\ UNCHANGED line
        /\ UNCHANGED server /\ UNCHANGED games /\ UNCHANGED past
    BY <1>5 DEF vars
  <2>2. QED
    BY <2>1, Unmoved DEF client, line, server, games, past, IInv
<1> QED  BY <1>1, <1>2, <1>3, <1>4, <1>5 DEF Next

(* It holds always. *)
THEOREM Invariance == Spec => []IInv
BY InitHolds, NextKeeps, PTL DEF Spec

(* What is in a partition is in its place and a retrieved image is a       *)
(* prefix of the game, whatever connection is lost and wherever a transfer *)
(* is resumed, until a block is given up.                                  *)
THEOREM InPlaceAlways == Spec => []InPlace
<1>1. IInv => InPlace
  <2> SUFFICES ASSUME IInv PROVE InPlace
    OBVIOUS
  <2>1. TypeOK
    <3>1. {result, copyResult} \subseteq {"ok", "kept", "abort", "lost", "eio", "error"}
      BY DEF IInv, TypePc
    <3>2. {dropped, skipped, diskError} \subseteq BOOLEAN
      BY Zenon DEF IInv, TypeFlags
    <3>3. kept \in BOOLEAN /\ finC \in BOOLEAN /\ finS \in BOOLEAN /\ task \in BOOLEAN
      BY Zenon DEF IInv, TypeFlags
    <3>4. Len(file) \in {0, lsn}
      BY DEF IInv, FileInv, TypePc
    <3> QED
      BY <3>1, <3>2, <3>3, <3>4
         DEF IInv, TypeOK, TypePc, TypeData, TypeWire, TypeServer, TypeDisk, Unit
  <2>2. RightPlace /\ RetrievedInOrder
    BY DEF IInv, StreamInv, InOrder, RetrievedInOrder
  <2> QED  BY <2>1, <2>2 DEF InPlace
<1> QED  BY <1>1, Invariance, PTL

(* What the client will report.                                            *)
ResultInv ==
  /\ cPc \in {"job", "prepare", "open", "loop"} \/ InBlock => result = "ok" /\ copyResult = "ok"
  /\ cPc \in {"finish", "drainEnd"} => result = copyResult
  /\ cPc \in {"finish", "drainEnd"} \/ Closing => (copyResult = "ok" => lsn = Total)
  /\ cPc = "end" /\ kept => lsn = Total

(* Who reports has left the slot empty. *)
SlotInv ==
  /\ cPc \in {"job", "prepare"} => ~task
  /\ cPc = "clean" /\ copyResult # "lost" => ~task
  /\ Success /\ copyResult = "ok" => ~task

(* Nothing was lost. *)
Unharmed == ~(dropped \/ skipped \/ diskError)

(* All that the client is past has arrived or is under way, and all that   *)
(* has arrived is on the disk; the console stops only when it has all, or  *)
(* the connection is lost, or the client has stopped.                      *)
ArrivedInv ==
  mode = "install" /\ Unharmed =>
    /\ \A g \in Games : g < job => g \in part /\ disk[g] = Whole
    /\ io = "ok"
    /\ cPc \in Copying =>
         /\ \A u \in 1 .. Total : u < spos => disk[job][u] = u
         /\ spos + remaining = Total + 1
         /\ lsn < spos + Len(wire)
         /\ Streaming => ~finC
         /\ Streaming /\ data = "up" => spos + Len(wire) = Moved + 1
         /\ dPc # "run" => wire = <<>> \/ spos = Total + 1
         /\ dPc # "run" /\ data = "up" /\ Streaming => spos = Total + 1
         /\ dPc = "run" /\ ~task => remaining = 0
         /\ Closing /\ copyResult = "ok" => spos = Total + 1

RInv == ResultInv /\ SlotInv /\ FailureLeavesNothing /\ ArrivedInv

(* The client is never past the end of the game. *)
LEMMA MovedInGame ==
  ASSUME IInv
  PROVE  Streaming => Moved \in 0 .. Total
<1> USE DEF IInv
<1>1. CASE cPc = "block"
  <2>1. lsn \in Nat /\ lsn < Total /\ \E b \in 0 .. Blocks : lsn = b * K
    BY <1>1 DEF TypeData, PlaceInv, InBlock, BlockInv
  <2>2. lsn + K <= Total
    BY <2>1, BlockFits
  <2>3. Len(bank) \in Nat /\ Len(bank) < K
    BY DEF TypeData
  <2> QED  BY <1>1, <2>1, <2>2, <2>3 DEF Moved
<1>2. CASE cPc # "block"
  BY <1>2 DEF Moved, TypeData
<1> QED  BY <1>1, <1>2

(* The same for what is reported.                                          *)
LEMMA Unreported ==
  ASSUME RInv
  PROVE  /\ UNCHANGED <<cPc, back, result, copyResult, lsn, kept>> => ResultInv'
         /\ UNCHANGED <<cPc, task, copyResult, result>> => SlotInv'
         /\ UNCHANGED <<cPc, mode, cmd, copyResult, part, job>> => FailureLeavesNothing'
         /\ UNCHANGED <<mode, dropped, skipped, diskError, job, part, disk, io, cPc, spos,
                        remaining, lsn, wire, finC, data, bank, dPc, task, back, copyResult>>
              => ArrivedInv'
<1>1. UNCHANGED <<cPc, back, result, copyResult, lsn, kept>> => ResultInv'
  BY DEF RInv, ResultInv, InBlock, Closing
<1>2. UNCHANGED <<cPc, task, copyResult, result>> => SlotInv'
  BY DEF RInv, SlotInv, Success
<1>3. UNCHANGED <<cPc, mode, cmd, copyResult, part, job>> => FailureLeavesNothing'
  BY DEF RInv, FailureLeavesNothing
<1>4. UNCHANGED <<mode, dropped, skipped, diskError, job, part, disk, io, cPc, spos,
                  remaining, lsn, wire, finC, data, bank, dPc, task, back, copyResult>>
       => ArrivedInv'
  BY DEF RInv, ArrivedInv, Unharmed, Copying, Streaming, Moved, Closing
<1> QED  BY <1>1, <1>2, <1>3, <1>4

(* Step by step, what will be reported: the client, ... *)
LEMMA BadImageReports == ASSUME IInv, RInv, BadImage PROVE RInv'
<1> USE DEF IInv, RInv
<1>1. ResultInv'
  BY DEF BadImage, Fault, EndJobs, games, line, past, server, ResultInv, InBlock, Closing,
         TypePc, TypeData, PlaceInv, FileInv
<1>2. SlotInv'
  BY DEF BadImage, Fault, EndJobs, games, line, past, server, SlotInv, Success, ServerInv,
         TypePc, PlaceInv, ResultInv, Closing, InBlock
<1>3. FailureLeavesNothing'
  BY DEF BadImage, Fault, EndJobs, games, line, past, server, FailureLeavesNothing, SlotInv,
         ResultInv, PlaceInv, Closing, InBlock
<1>4. ArrivedInv'
  BY DEF BadImage, Fault, EndJobs, games, line, past, server, ArrivedInv, Unharmed, Copying,
         Streaming, Moved, Closing, InBlock, TypeData, TypeWire, TypeServer, ServerInv,
         PlaceInv, ResultInv
<1> QED
  BY <1>1, <1>2, <1>3, <1>4

LEMMA KeepInstalledReports == ASSUME IInv, RInv, KeepInstalled PROVE RInv'
<1> USE DEF IInv, RInv
<1>1. ResultInv'
  BY DEF KeepInstalled, EndJobs, games, line, past, server, ResultInv, InBlock, Closing,
         TypePc, TypeData, PlaceInv, FileInv
<1>2. SlotInv'
  BY DEF KeepInstalled, EndJobs, games, line, past, server, SlotInv, Success, ServerInv,
         TypePc, PlaceInv, ResultInv, Closing, InBlock
<1>3. FailureLeavesNothing'
  BY DEF KeepInstalled, EndJobs, games, line, past, server, FailureLeavesNothing, SlotInv,
         ResultInv, PlaceInv, Closing, InBlock
<1>4. ArrivedInv'
  BY DEF KeepInstalled, EndJobs, games, line, past, server, ArrivedInv, Unharmed, Copying,
         Streaming, Moved, Closing, InBlock, TypeData, TypeWire, TypeServer, ServerInv,
         PlaceInv, ResultInv
<1> QED
  BY <1>1, <1>2, <1>3, <1>4

LEMMA StartJobReports == ASSUME IInv, RInv, StartJob PROVE RInv'
<1> USE DEF IInv, RInv
<1>1. ResultInv'
  BY DEF StartJob, DeleteGame, line, past, server, ResultInv, InBlock, Closing, TypePc,
         TypeData, PlaceInv, FileInv
<1>2. SlotInv'
  BY DEF StartJob, DeleteGame, line, past, server, SlotInv, Success, ServerInv, TypePc,
         PlaceInv, ResultInv, Closing, InBlock
<1>3. FailureLeavesNothing'
  BY DEF StartJob, DeleteGame, line, past, server, FailureLeavesNothing, SlotInv, ResultInv,
         PlaceInv, Closing, InBlock
<1>4. ArrivedInv'
  BY DEF StartJob, DeleteGame, line, past, server, ArrivedInv, Unharmed, Copying, Streaming,
         Moved, Closing, InBlock, TypeData, TypeWire, TypeServer, ServerInv, PlaceInv,
         ResultInv
<1> QED
  BY <1>1, <1>2, <1>3, <1>4

LEMMA JobsDoneReports == ASSUME IInv, RInv, JobsDone PROVE RInv'
<1> USE DEF IInv, RInv
<1>1. ResultInv'
  BY DEF JobsDone, EndJobs, games, line, past, server, ResultInv, InBlock, Closing, TypePc,
         TypeData, PlaceInv, FileInv
<1>2. SlotInv'
  BY DEF JobsDone, EndJobs, games, line, past, server, SlotInv, Success, ServerInv, TypePc,
         PlaceInv, ResultInv, Closing, InBlock
<1>3. FailureLeavesNothing'
  BY DEF JobsDone, EndJobs, games, line, past, server, FailureLeavesNothing, SlotInv,
         ResultInv, PlaceInv, Closing, InBlock
<1>4. ArrivedInv'
  BY DEF JobsDone, EndJobs, games, line, past, server, ArrivedInv, Unharmed, Copying,
         Streaming, Moved, Closing, InBlock, TypeData, TypeWire, TypeServer, ServerInv,
         PlaceInv, ResultInv
<1> QED
  BY <1>1, <1>2, <1>3, <1>4

LEMMA PrepareReports == ASSUME IInv, RInv, Prepare PROVE RInv'
<1> USE DEF IInv, RInv
<1>1. ResultInv'
  BY DEF Prepare, OpenGame, DataConnected, Answered, AnswerLost, Fault, EndJobs, past,
         ResultInv, InBlock, Closing, TypePc, TypeData, PlaceInv, FileInv
<1>2. SlotInv'
  BY DEF Prepare, OpenGame, DataConnected, Answered, AnswerLost, Fault, EndJobs, past,
         SlotInv, Success, ServerInv, TypePc, PlaceInv, ResultInv, Closing, InBlock
<1>3. FailureLeavesNothing'
  BY DEF Prepare, OpenGame, DataConnected, Answered, AnswerLost, Fault, EndJobs, past,
         FailureLeavesNothing, SlotInv, ResultInv, PlaceInv, Closing, InBlock
<1>4. ArrivedInv'
  <2>1. /\ mode = "install" /\ cPc = "prepare" /\ UNCHANGED <<mode, job, copyResult>>
        /\ UNCHANGED <<dropped, skipped, diskError>>
        /\ part' = part \cup {job} /\ disk' = [disk EXCEPT ![job] = Blank]
    BY DEF Prepare, EndJobs, past, PlaceInv
  <2>2. /\ dPc' = "run" /\ task' = TRUE /\ spos' = 1 /\ remaining' = Total - 0 /\ io' = "ok"
        /\ wire' = <<>> /\ finC' = FALSE
    BY DEF Prepare, OpenGame, DataConnected
  <2>3. (cPc' = "loop" /\ lsn' = 0) \/ cPc' = "end"
    BY DEF Prepare, EndJobs
  <2>4. Unharmed' => \A g \in Games : g < job => g \in part' /\ disk'[g] = Whole
    BY <2>1 DEF ArrivedInv, Unharmed, TypeDisk, TypePc
  <2>5. Len(wire') = 0 /\ ~Closing' /\ (cPc' = "loop" => Moved' = 0)
    BY <2>2, <2>3 DEF Closing, Moved
  <2> QED  BY <2>1, <2>2, <2>3, <2>4, <2>5 DEF ArrivedInv, Copying
<1> QED
  BY <1>1, <1>2, <1>3, <1>4

LEMMA PrepareFailsReports == ASSUME IInv, RInv, PrepareFails PROVE RInv'
<1> USE DEF IInv, RInv
<1>1. ResultInv'
  BY DEF PrepareFails, Fault, EndJobs, line, past, server, ResultInv, InBlock, Closing,
         TypePc, TypeData, PlaceInv, FileInv
<1>2. SlotInv'
  BY DEF PrepareFails, Fault, EndJobs, line, past, server, SlotInv, Success, ServerInv,
         TypePc, PlaceInv, ResultInv, Closing, InBlock
<1>3. FailureLeavesNothing'
  BY DEF PrepareFails, Fault, EndJobs, line, past, server, FailureLeavesNothing, SlotInv,
         ResultInv, PlaceInv, Closing, InBlock
<1>4. ArrivedInv'
  BY DEF PrepareFails, Fault, EndJobs, line, past, server, ArrivedInv, Unharmed, Copying,
         Streaming, Moved, Closing, InBlock, TypeData, TypeWire, TypeServer, ServerInv,
         PlaceInv, ResultInv, TypeDisk, TypePc
<1> QED
  BY <1>1, <1>2, <1>3, <1>4

LEMMA OpenForReadReports == ASSUME IInv, RInv, OpenForRead PROVE RInv'
<1> USE DEF IInv, RInv
<1>1. ResultInv'
  BY DEF OpenForRead, OpenGame, DataConnected, Answered, AnswerLost, Fault, games, line,
         past, server, ResultInv, InBlock, Closing, TypePc, TypeData, PlaceInv, FileInv
<1>2. SlotInv'
  BY DEF OpenForRead, OpenGame, DataConnected, Answered, AnswerLost, Fault, games, line,
         past, server, SlotInv, Success, ServerInv, TypePc, PlaceInv, ResultInv, Closing,
         InBlock
<1>3. FailureLeavesNothing'
  BY DEF OpenForRead, OpenGame, DataConnected, Answered, AnswerLost, Fault, games, line,
         past, server, FailureLeavesNothing, SlotInv, ResultInv, PlaceInv, Closing, InBlock
<1>4. ArrivedInv'
  BY DEF OpenForRead, OpenGame, DataConnected, Answered, AnswerLost, Fault, games, line,
         past, server, ArrivedInv, Unharmed, Copying, Streaming, Moved, Closing, InBlock,
         TypeData, TypeWire, TypeServer, ServerInv, PlaceInv, ResultInv
<1> QED
  BY <1>1, <1>2, <1>3, <1>4

LEMMA NextBlockReports == ASSUME IInv, RInv, NextBlock PROVE RInv'
<1> USE DEF IInv, RInv
<1>1. ResultInv'
  BY DEF NextBlock, games, line, past, server, ResultInv, InBlock, Closing, TypePc,
         TypeData, PlaceInv, FileInv
<1>2. SlotInv'
  BY DEF NextBlock, games, line, past, server, SlotInv, Success, ServerInv, TypePc,
         PlaceInv, ResultInv, Closing, InBlock
<1>3. FailureLeavesNothing'
  BY DEF NextBlock, games, line, past, server, FailureLeavesNothing, SlotInv, ResultInv,
         PlaceInv, Closing, InBlock
<1>4. ArrivedInv'
  BY DEF NextBlock, games, line, past, server, ArrivedInv, Unharmed, Copying, Streaming,
         Moved, Closing, InBlock, TypeData, TypeWire, TypeServer, ServerInv, PlaceInv,
         ResultInv
<1> QED
  BY <1>1, <1>2, <1>3, <1>4

LEMMA SendUnitReports == ASSUME IInv, RInv, SendUnit PROVE RInv'
<1> USE DEF IInv, RInv
<1>a. /\ lsn + K <= Total /\ (\E b \in 0 .. Blocks : lsn + K = b * K) /\ lsn \in Nat
      /\ Len(bank) \in Nat /\ lsn + Len(bank) + 1 \in Unit
      /\ wire' = Append(wire, lsn + Len(bank) + 1) /\ wire' \in Seq(Unit)
      /\ Len(wire') = Len(wire) + 1 /\ Len(wire) \in Nat
      /\ lsn' \in {lsn, lsn + K} /\ cPc' \in {"loop", "block"}
      /\ bank' \in Seq(Unit) /\ Len(bank') < K
      /\ Moved' = lsn + Len(bank) + 1
  BY SendUnitMoves
<1>1. ResultInv'
  BY DEF SendUnit, BlockDone, games, past, server, ResultInv, InBlock, Closing, TypePc,
         TypeData, PlaceInv, FileInv
<1>2. SlotInv'
  BY DEF SendUnit, BlockDone, games, past, server, SlotInv, Success, ServerInv, TypePc,
         PlaceInv, ResultInv, Closing, InBlock
<1>3. FailureLeavesNothing'
  BY DEF SendUnit, BlockDone, games, past, server, FailureLeavesNothing, SlotInv, ResultInv,
         PlaceInv, Closing, InBlock
<1>4. ArrivedInv'
  <2>1. /\ mode = "install" /\ cPc = "block" /\ data = "up"
        /\ UNCHANGED <<mode, data, finC, job, copyResult>>
    BY DEF SendUnit
  <2>2. UNCHANGED <<part, disk, io, spos, remaining, task, dPc>> /\ Unharmed' = Unharmed
    BY DEF SendUnit, games, server, past, Unharmed
  <2> SUFFICES ASSUME Unharmed PROVE ArrivedInv'
    BY <2>2 DEF ArrivedInv
  <2>3. /\ spos + Len(wire) = lsn + Len(bank) + 1 /\ spos + remaining = Total + 1 /\ ~finC
        /\ dPc # "run" => spos = Total + 1
        /\ dPc = "run" /\ ~task => remaining = 0
        /\ \A u \in 1 .. Total : u < spos => disk[job][u] = u
    BY <2>1 DEF ArrivedInv, Copying, Streaming, Moved
  <2>4. dPc = "run"
    BY <1>a, <2>3 DEF TypeServer, TypeData
  <2>5. spos + Len(wire') = Moved' + 1 /\ lsn' < spos + Len(wire')
    <3>1. spos + Len(wire') = Moved' + 1
      <4>1. Len(wire') = Len(wire) + 1 /\ Len(wire) \in Nat /\ Moved' = lsn + Len(bank) + 1
            /\ lsn \in Nat /\ Len(bank) \in Nat /\ spos \in Nat
        BY <1>a DEF TypeServer
      <4>2. spos + Len(wire) = lsn + Len(bank) + 1
        BY <2>3
      <4> QED  BY ONLY <4>1, <4>2
    <3>2. lsn' <= Moved'
      <4>1. lsn' \in Nat /\ Len(bank') \in Nat
        BY <1>a
      <4>2. CASE cPc' = "block"
        BY ONLY <4>1, <4>2 DEF Moved
      <4>3. CASE cPc' # "block"
        BY ONLY <4>1, <4>3 DEF Moved
      <4> QED  BY <4>2, <4>3
    <3>3. lsn' \in Nat /\ Moved' \in Nat
      BY <1>a
    <3> QED  BY <3>1, <3>2, <3>3
  <2> QED
    BY <1>a, <2>1, <2>2, <2>3, <2>4, <2>5 DEF ArrivedInv, Copying, Closing
<1> QED
  BY <1>1, <1>2, <1>3, <1>4

LEMMA ReceiveUnitReports == ASSUME IInv, RInv, ReceiveUnit PROVE RInv'
<1> USE DEF IInv, RInv
<1>1. ResultInv'
  BY DEF ReceiveUnit, BlockDone, games, past, server, ResultInv, InBlock, Closing, TypePc,
         TypeData, PlaceInv, FileInv
<1>2. SlotInv'
  BY DEF ReceiveUnit, BlockDone, games, past, server, SlotInv, Success, ServerInv, TypePc,
         PlaceInv, ResultInv, Closing, InBlock
<1>3. FailureLeavesNothing'
  BY DEF ReceiveUnit, BlockDone, games, past, server, FailureLeavesNothing, SlotInv,
         ResultInv, PlaceInv, Closing, InBlock
<1>4. ArrivedInv'
  BY DEF ReceiveUnit, BlockDone, games, past, server, ArrivedInv, Unharmed, Copying,
         Streaming, Moved, Closing, InBlock, TypeData, TypeWire, TypeServer, ServerInv,
         PlaceInv, ResultInv
<1> QED
  BY <1>1, <1>2, <1>3, <1>4

LEMMA BlockFailsReports == ASSUME IInv, RInv, BlockFails PROVE RInv'
<1> USE DEF IInv, RInv
<1>1. ResultInv'
  BY DEF BlockFails, games, line, past, server, ResultInv, InBlock, Closing, TypePc,
         TypeData, PlaceInv, FileInv
<1>2. SlotInv'
  BY DEF BlockFails, games, line, past, server, SlotInv, Success, ServerInv, TypePc,
         PlaceInv, ResultInv, Closing, InBlock
<1>3. FailureLeavesNothing'
  BY DEF BlockFails, games, line, past, server, FailureLeavesNothing, SlotInv, ResultInv,
         PlaceInv, Closing, InBlock
<1>4. ArrivedInv'
  BY DEF BlockFails, games, line, past, server, ArrivedInv, Unharmed, Copying, Streaming,
         Moved, Closing, InBlock, TypeData, TypeWire, TypeServer, ServerInv, PlaceInv,
         ResultInv
<1> QED
  BY <1>1, <1>2, <1>3, <1>4

LEMMA ReceiveTimesOutReports == ASSUME IInv, RInv, ReceiveTimesOut PROVE RInv'
<1> USE DEF IInv, RInv
<1>1. ResultInv'
  BY DEF ReceiveTimesOut, Fault, games, line, past, server, ResultInv, InBlock, Closing,
         TypePc, TypeData, PlaceInv, FileInv
<1>2. SlotInv'
  BY DEF ReceiveTimesOut, Fault, games, line, past, server, SlotInv, Success, ServerInv,
         TypePc, PlaceInv, ResultInv, Closing, InBlock
<1>3. FailureLeavesNothing'
  BY DEF ReceiveTimesOut, Fault, games, line, past, server, FailureLeavesNothing, SlotInv,
         ResultInv, PlaceInv, Closing, InBlock
<1>4. ArrivedInv'
  BY DEF ReceiveTimesOut, Fault, games, line, past, server, ArrivedInv, Unharmed, Copying,
         Streaming, Moved, Closing, InBlock, TypeData, TypeWire, TypeServer, ServerInv,
         PlaceInv, ResultInv
<1> QED
  BY <1>1, <1>2, <1>3, <1>4

LEMMA ShutDataReports == ASSUME IInv, RInv, ShutData PROVE RInv'
<1> USE DEF IInv, RInv
<1>1. ResultInv'
  BY DEF ShutData, games, past, server, ResultInv, InBlock, Closing, TypePc, TypeData,
         PlaceInv, FileInv
<1>2. SlotInv'
  BY DEF ShutData, games, past, server, SlotInv, Success, ServerInv, TypePc, PlaceInv,
         ResultInv, Closing, InBlock
<1>3. FailureLeavesNothing'
  BY DEF ShutData, games, past, server, FailureLeavesNothing, SlotInv, ResultInv, PlaceInv,
         Closing, InBlock
<1>4. ArrivedInv'
  BY DEF ShutData, games, past, server, ArrivedInv, Unharmed, Copying, Streaming, Moved,
         Closing, InBlock, TypeData, TypeWire, TypeServer, ServerInv, PlaceInv, ResultInv
<1> QED
  BY <1>1, <1>2, <1>3, <1>4

LEMMA DrainDataReports == ASSUME IInv, RInv, DrainData PROVE RInv'
<1> USE DEF IInv, RInv
<1>1. UNCHANGED <<mode, job, cPc, back, lsn, bank, retries, reconnects, result, copyResult,
                  file, kept, cmd, data, finC, finS, task, dPc, spos, remaining, io, part,
                  disk, faults, dropped, skipped, diskError>>
  BY DEF DrainData, client, games, past, server
<1>2. ResultInv' /\ SlotInv' /\ FailureLeavesNothing'
  BY <1>1, Unreported
<1>3. ArrivedInv'
  BY DEF DrainData, client, games, past, server, ArrivedInv, Unharmed, Copying, Streaming,
         Moved, Closing, InBlock, TypeData, TypeWire, TypeServer, ServerInv, PlaceInv,
         ResultInv
<1> QED
  BY <1>1, <1>2, <1>3

LEMMA DataClosedReports == ASSUME IInv, RInv, DataClosed PROVE RInv'
<1> USE DEF IInv, RInv
<1>1. ResultInv'
  BY DEF DataClosed, games, line, past, server, ResultInv, InBlock, Closing, TypePc,
         TypeData, PlaceInv, FileInv
<1>2. SlotInv'
  BY DEF DataClosed, games, line, past, server, SlotInv, Success, ServerInv, TypePc,
         PlaceInv, ResultInv, Closing, InBlock
<1>3. FailureLeavesNothing'
  BY DEF DataClosed, games, line, past, server, FailureLeavesNothing, SlotInv, ResultInv,
         PlaceInv, Closing, InBlock
<1>4. ArrivedInv'
  BY DEF DataClosed, games, line, past, server, ArrivedInv, Unharmed, Copying, Streaming,
         Moved, Closing, InBlock, TypeData, TypeWire, TypeServer, ServerInv, PlaceInv,
         ResultInv
<1> QED
  BY <1>1, <1>2, <1>3, <1>4

LEMMA GetIOStatusReports == ASSUME IInv, RInv, GetIOStatus PROVE RInv'
<1> USE DEF IInv, RInv
<1>1. ResultInv'
  BY DEF GetIOStatus, Answered, AnswerLost, Fault, games, line, past, server, ResultInv,
         InBlock, Closing, TypePc, TypeData, PlaceInv, FileInv
<1>2. SlotInv'
  BY DEF GetIOStatus, Answered, AnswerLost, Fault, games, line, past, server, SlotInv,
         Success, ServerInv, TypePc, PlaceInv, ResultInv, Closing, InBlock
<1>3. FailureLeavesNothing'
  BY DEF GetIOStatus, Answered, AnswerLost, Fault, games, line, past, server,
         FailureLeavesNothing, SlotInv, ResultInv, PlaceInv, Closing, InBlock
<1>4. ArrivedInv'
  BY DEF GetIOStatus, Answered, AnswerLost, Fault, games, line, past, server, ArrivedInv,
         Unharmed, Copying, Streaming, Moved, Closing, InBlock, TypeData, TypeWire,
         TypeServer, ServerInv, PlaceInv, ResultInv
<1> QED
  BY <1>1, <1>2, <1>3, <1>4

LEMMA ReconnectReports == ASSUME IInv, RInv, Reconnect PROVE RInv'
<1> USE DEF IInv, RInv
<1>1. ResultInv'
  BY DEF Reconnect, Handshake, games, line, past, server, ResultInv, InBlock, Closing,
         TypePc, TypeData, PlaceInv, FileInv
<1>2. SlotInv'
  BY DEF Reconnect, Handshake, games, line, past, server, SlotInv, Success, ServerInv,
         TypePc, PlaceInv, ResultInv, Closing, InBlock
<1>3. FailureLeavesNothing'
  BY DEF Reconnect, Handshake, games, line, past, server, FailureLeavesNothing, SlotInv,
         ResultInv, PlaceInv, Closing, InBlock, TypePc
<1>4. ArrivedInv'
  BY DEF Reconnect, Handshake, games, line, past, server, ArrivedInv, Unharmed, Copying,
         Streaming, Moved, Closing, InBlock, TypeData, TypeWire, TypeServer, ServerInv,
         PlaceInv, ResultInv, TypePc
<1> QED
  BY <1>1, <1>2, <1>3, <1>4

LEMMA ResumeReports == ASSUME IInv, RInv, Resume PROVE RInv'
<1> USE DEF IInv, RInv
<1>1. ResultInv'
  BY DEF Resume, OpenGame, DataConnected, BlockDone, games, ResultInv, InBlock, Closing,
         TypePc, TypeData, PlaceInv, FileInv
<1>2. SlotInv'
  BY DEF Resume, OpenGame, DataConnected, BlockDone, games, SlotInv, Success, ServerInv,
         TypePc, PlaceInv, ResultInv, Closing, InBlock
<1>3. FailureLeavesNothing'
  BY DEF Resume, OpenGame, DataConnected, BlockDone, games, FailureLeavesNothing, SlotInv,
         ResultInv, PlaceInv, Closing, InBlock
<1>4. ArrivedInv'
  <2>1. /\ dPc = "dormant" /\ cPc = "resume"
        /\ spos' = lsn + 1 /\ remaining' = Total - lsn /\ wire' = <<>> /\ data' = "up"
        /\ finC' = FALSE /\ dPc' = "run" /\ task' = TRUE /\ io' = "ok"
        /\ UNCHANGED <<mode, job, part, disk, dropped, diskError>>
    BY DEF Resume, OpenGame, DataConnected, games
  <2>2. \/ cPc' = "block" /\ lsn' = lsn /\ bank' = <<>> /\ skipped' = skipped
        \/ skipped' = TRUE
    BY DEF Resume, BlockDone
  <2> SUFFICES ASSUME mode = "install", Unharmed' PROVE ArrivedInv'
    BY <2>1 DEF ArrivedInv
  <2>3. cPc' = "block" /\ lsn' = lsn /\ bank' = <<>> /\ Unharmed
    BY <2>1, <2>2 DEF Unharmed
  <2>4. /\ \A g \in Games : g < job => g \in part /\ disk[g] = Whole
        /\ \A u \in 1 .. Total : u < spos => disk[job][u] = u
        /\ lsn < spos + Len(wire) /\ (wire = <<>> \/ spos = Total + 1)
    BY <2>1, <2>3 DEF ArrivedInv, Copying
  <2>5. lsn \in 0 .. Total /\ spos \in Nat /\ lsn < spos
    BY <2>4 DEF TypeData, TypeServer
  <2>6. Len(wire') = 0 /\ Len(bank') = 0
    BY <2>1, <2>3
  <2>7. Moved' = lsn
    BY <2>3, <2>5, <2>6 DEF Moved
  <2>8. \A u \in 1 .. Total : u < spos' => disk'[job'][u] = u
    BY <2>1, <2>4, <2>5
  <2>9. spos' + remaining' = Total + 1 /\ lsn' < spos' + Len(wire')
        /\ spos' + Len(wire') = Moved' + 1
    BY <2>1, <2>3, <2>5, <2>6, <2>7
  <2> QED
    BY <2>1, <2>3, <2>4, <2>8, <2>9 DEF ArrivedInv, Copying, Closing
<1> QED
  BY <1>1, <1>2, <1>3, <1>4

LEMMA ResumeFailsReports == ASSUME IInv, RInv, ResumeFails PROVE RInv'
<1> USE DEF IInv, RInv
<1>1. ResultInv'
  BY DEF ResumeFails, ResumeAgain, games, line, past, server, ResultInv, InBlock, Closing,
         TypePc, TypeData, PlaceInv, FileInv
<1>2. SlotInv'
  BY DEF ResumeFails, ResumeAgain, games, line, past, server, SlotInv, Success, ServerInv,
         TypePc, PlaceInv, ResultInv, Closing, InBlock
<1>3. FailureLeavesNothing'
  BY DEF ResumeFails, ResumeAgain, games, line, past, server, FailureLeavesNothing, SlotInv,
         ResultInv, PlaceInv, Closing, InBlock
<1>4. ArrivedInv'
  BY DEF ResumeFails, ResumeAgain, games, line, past, server, ArrivedInv, Unharmed, Copying,
         Streaming, Moved, Closing, InBlock, TypeData, TypeWire, TypeServer, ServerInv,
         PlaceInv, ResultInv
<1> QED
  BY <1>1, <1>2, <1>3, <1>4

LEMMA ResumeUnansweredReports == ASSUME IInv, RInv, ResumeUnanswered PROVE RInv'
<1> USE DEF IInv, RInv
<1>1. /\ UNCHANGED <<mode, job, lsn, file, kept, part, disk, dropped, skipped, diskError>>
      /\ cPc = "resume" /\ cmd' = "down"
      /\ \/ cPc' = "resume" /\ UNCHANGED <<result, copyResult>>
         \/ cPc' = "finish" /\ result' = "lost" /\ copyResult' = "lost"
  BY DEF ResumeUnanswered, ResumeAgain, AnswerLost, games, past
<1>2. /\ task' = TRUE /\ dPc' = "run" /\ spos' = lsn + 1 /\ remaining' = Total - lsn
      /\ io' = "ok" /\ data' = "broken" /\ finC' = FALSE /\ wire' = <<>>
      /\ lsn \in 0 .. Total
  BY DEF ResumeUnanswered, OpenGame, DataConnected, TypeData
<1>3. ResultInv'
  BY <1>1 DEF ResultInv, InBlock, Closing
<1>4. SlotInv'
  BY <1>1 DEF SlotInv, Success
<1>5. FailureLeavesNothing'
  BY <1>1 DEF FailureLeavesNothing
<1>6. ArrivedInv'
  <2> SUFFICES ASSUME mode = "install", Unharmed PROVE ArrivedInv'
    BY <1>1 DEF ArrivedInv, Unharmed
  <2>1. /\ \A g \in Games : g < job => g \in part /\ disk[g] = Whole
        /\ lsn < spos + Len(wire) /\ \A u \in 1 .. Total : u < spos => disk[job][u] = u
        /\ wire = <<>> \/ spos = Total + 1
    BY <1>1 DEF ArrivedInv, Copying, ResumeUnanswered
  <2>2. \A u \in 1 .. Total : u < spos' => disk'[job'][u] = u
    BY <1>1, <1>2, <2>1 DEF TypeServer, TypeWire
  <2>3. ~Streaming' /\ ~Closing' /\ Len(wire') = 0 /\ spos' + remaining' = Total + 1
    BY <1>1, <1>2 DEF Streaming, Closing
  <2> QED  BY <1>1, <1>2, <2>1, <2>2, <2>3 DEF ArrivedInv
<1> QED
  BY <1>3, <1>4, <1>5, <1>6

LEMMA CloseGameReports == ASSUME IInv, RInv, CloseGame PROVE RInv'
<1> USE DEF IInv, RInv
<1>1. ResultInv'
  BY DEF CloseGame, Answered, AnswerLost, Fault, games, line, past, server, ResultInv,
         InBlock, Closing, TypePc, TypeData, PlaceInv, FileInv
<1>2. SlotInv'
  BY DEF CloseGame, Answered, AnswerLost, Fault, games, line, past, server, SlotInv,
         Success, ServerInv, TypePc, PlaceInv, ResultInv, Closing, InBlock
<1>3. FailureLeavesNothing'
  BY DEF CloseGame, Answered, AnswerLost, Fault, games, line, past, server,
         FailureLeavesNothing, SlotInv, ResultInv, PlaceInv, Closing, InBlock
<1>4. ArrivedInv'
  BY DEF CloseGame, Answered, AnswerLost, Fault, games, line, past, server, ArrivedInv,
         Unharmed, Copying, Streaming, Moved, Closing, InBlock, TypeData, TypeWire,
         TypeServer, ServerInv, PlaceInv, ResultInv
<1> QED
  BY <1>1, <1>2, <1>3, <1>4

LEMMA CloseGameFailsReports == ASSUME IInv, RInv, CloseGameFails PROVE RInv'
<1> USE DEF IInv, RInv
<1>1. ResultInv'
  BY DEF CloseGameFails, games, line, past, server, ResultInv, InBlock, Closing, TypePc,
         TypeData, PlaceInv, FileInv
<1>2. SlotInv'
  BY DEF CloseGameFails, games, line, past, server, SlotInv, Success, ServerInv, TypePc,
         PlaceInv, ResultInv, Closing, InBlock
<1>3. FailureLeavesNothing'
  BY DEF CloseGameFails, games, line, past, server, FailureLeavesNothing, SlotInv,
         ResultInv, PlaceInv, Closing, InBlock
<1>4. ArrivedInv'
  BY DEF CloseGameFails, games, line, past, server, ArrivedInv, Unharmed, Copying,
         Streaming, Moved, Closing, InBlock, TypeData, TypeWire, TypeServer, ServerInv,
         PlaceInv, ResultInv
<1> QED
  BY <1>1, <1>2, <1>3, <1>4

LEMMA FinishInstallReports == ASSUME IInv, RInv, FinishInstall PROVE RInv'
<1> USE DEF IInv, RInv
<1>1. ResultInv'
  BY DEF FinishInstall, Fault, DeleteGame, line, past, server, ResultInv, InBlock, Closing,
         TypePc, TypeData, PlaceInv, FileInv
<1>2. SlotInv'
  BY DEF FinishInstall, Fault, DeleteGame, line, past, server, SlotInv, Success, ServerInv,
         TypePc, PlaceInv, ResultInv, Closing, InBlock
<1>3. FailureLeavesNothing'
  BY DEF FinishInstall, Fault, DeleteGame, line, past, server, FailureLeavesNothing,
         SlotInv, ResultInv, PlaceInv, Closing, InBlock
<1>4. ArrivedInv'
  <2>1. /\ cPc = "clean" /\ copyResult = "ok" /\ mode = "install" /\ job \in Games
        /\ UNCHANGED <<mode, disk, io>> /\ Unharmed' = Unharmed
    BY DEF FinishInstall, PlaceInv, server, past, Unharmed
  <2> SUFFICES ASSUME Unharmed PROVE ArrivedInv'
    BY <2>1 DEF ArrivedInv
  <2>2. /\ \A g \in Games : g < job => g \in part /\ disk[g] = Whole
        /\ io = "ok" /\ spos = Total + 1 /\ \A u \in 1 .. Total : u < spos => disk[job][u] = u
    BY <2>1 DEF ArrivedInv, Copying, Closing
  <2>3. disk[job] = Whole
    BY <2>1, <2>2 DEF TypeDisk, Whole
  <2>4. /\ \A g \in Games : g < job' => g \in part' /\ disk[g] = Whole
        /\ cPc' \in {"job", "end"}
    BY <2>1, <2>2, <2>3 DEF FinishInstall, DeleteGame, TypePc
  <2> QED  BY <2>1, <2>2, <2>4 DEF ArrivedInv, Copying
<1> QED
  BY <1>1, <1>2, <1>3, <1>4

LEMMA UndoInstallReports == ASSUME IInv, RInv, UndoInstall PROVE RInv'
<1> USE DEF IInv, RInv
<1>1. ResultInv'
  BY DEF UndoInstall, DeleteGame, EndJobs, line, past, server, ResultInv, InBlock, Closing,
         TypePc, TypeData, PlaceInv, FileInv
<1>2. SlotInv'
  BY DEF UndoInstall, DeleteGame, EndJobs, line, past, server, SlotInv, Success, ServerInv,
         TypePc, PlaceInv, ResultInv, Closing, InBlock
<1>3. FailureLeavesNothing'
  BY DEF UndoInstall, DeleteGame, EndJobs, line, past, server, FailureLeavesNothing,
         SlotInv, ResultInv, PlaceInv, Closing, InBlock
<1>4. ArrivedInv'
  BY DEF UndoInstall, DeleteGame, EndJobs, line, past, server, ArrivedInv, Unharmed,
         Copying, Streaming, Moved, Closing, InBlock, TypeData, TypeWire, TypeServer,
         ServerInv, PlaceInv, ResultInv
<1> QED
  BY <1>1, <1>2, <1>3, <1>4

LEMMA FinishRetrieveReports == ASSUME IInv, RInv, FinishRetrieve PROVE RInv'
<1> USE DEF IInv, RInv
<1>1. ResultInv'
  BY DEF FinishRetrieve, games, line, past, server, ResultInv, InBlock, Closing, TypePc,
         TypeData, PlaceInv, FileInv
<1>2. SlotInv'
  BY DEF FinishRetrieve, games, line, past, server, SlotInv, Success, ServerInv, TypePc,
         PlaceInv, ResultInv, Closing, InBlock
<1>3. FailureLeavesNothing'
  BY DEF FinishRetrieve, games, line, past, server, FailureLeavesNothing, SlotInv,
         ResultInv, PlaceInv, Closing, InBlock
<1>4. ArrivedInv'
  BY DEF FinishRetrieve, games, line, past, server, ArrivedInv, Unharmed, Copying,
         Streaming, Moved, Closing, InBlock, TypeData, TypeWire, TypeServer, ServerInv,
         PlaceInv, ResultInv
<1> QED
  BY <1>1, <1>2, <1>3, <1>4

LEMMA AbortReports == ASSUME IInv, RInv, Abort PROVE RInv'
<1> USE DEF IInv, RInv
<1>1. ResultInv'
  BY DEF Abort, GiveUp, games, line, past, server, ResultInv, InBlock, Closing, TypePc,
         TypeData, PlaceInv, FileInv
<1>2. SlotInv'
  BY DEF Abort, GiveUp, games, line, past, server, SlotInv, Success, ServerInv, TypePc,
         PlaceInv, ResultInv, Closing, InBlock
<1>3. FailureLeavesNothing'
  BY DEF Abort, GiveUp, games, line, past, server, FailureLeavesNothing, SlotInv, ResultInv,
         PlaceInv, Closing, InBlock
<1>4. ArrivedInv'
  BY DEF Abort, GiveUp, games, line, past, server, ArrivedInv, Unharmed, Copying, Streaming,
         Moved, Closing, InBlock, TypeData, TypeWire, TypeServer, ServerInv, PlaceInv,
         ResultInv
<1> QED
  BY <1>1, <1>2, <1>3, <1>4

(* ... the console, ... *)
LEMMA WriteUnitReports == ASSUME IInv, RInv, WriteUnit PROVE RInv'
<1> USE DEF IInv, RInv
<1>a. /\ wire' = Tail(wire) /\ wire' \in Seq(Unit) /\ Len(wire') = Len(wire) - 1
      /\ Len(wire) \in Nat /\ Head(wire) \in Unit /\ wire # <<>>
  BY TailOne DEF WriteUnit, TypeWire
<1>b. spos \in 1 .. Total /\ remaining \in 1 .. Total /\ spos' = spos + 1
      /\ remaining' = remaining - 1
  <2>1. remaining > 0 /\ spos' = spos + 1 /\ remaining' = remaining - 1
    BY DEF WriteUnit
  <2> QED  BY <2>1 DEF ServerInv, TypeServer
<1>1. UNCHANGED <<mode, job, cPc, back, lsn, bank, retries, reconnects, result, copyResult,
                  file, kept, cmd, data, finC, finS, task, part, dropped, skipped>>
  BY DEF WriteUnit, client
<1>2. ResultInv' /\ SlotInv' /\ FailureLeavesNothing'
  BY <1>1, Unreported
<1>3. ArrivedInv'
  <2>1. /\ mode = "install" /\ dPc = "run" /\ task
        /\ UNCHANGED <<mode, data, finC, dropped, skipped, part, task>> /\ UNCHANGED client
    BY DEF WriteUnit
  <2> SUFFICES ASSUME Unharmed, Unharmed' PROVE ArrivedInv'
    BY <2>1 DEF ArrivedInv, Unharmed, WriteUnit
  <2>2. ~skipped /\ ~diskError'
    BY <2>1 DEF Unharmed
  <2>3. Head(wire) = spos
    <3>1. InOrder(wire, spos - 1)
      BY <2>1, <2>2 DEF StreamInv
    <3>2. spos - 1 \in Nat /\ (spos - 1) + 1 = spos
      BY <1>b
    <3> QED  BY <1>a, <3>1, <3>2, OrderTail DEF TypeWire
  <2>4. disk' = [disk EXCEPT ![job][spos] = spos] /\ io' = io /\ dPc' = dPc
    BY <2>2, <2>3 DEF WriteUnit
  <2>5. \A g \in Games : g < job => g \in part' /\ disk'[g] = Whole
    BY <2>1, <2>4 DEF ArrivedInv, TypeDisk, TypePc
  <2>6. CASE cPc \in Copying
    <3>1. job \in Games
      BY <2>6 DEF PlaceInv, Copying
    <3>2. \A u \in 1 .. Total : u < spos' => disk'[job][u] = u
      BY <1>b, <2>1, <2>4, <2>6, <3>1 DEF ArrivedInv, TypeDisk
    <3>3. /\ spos' + remaining' = Total + 1 /\ spos' + Len(wire') = spos + Len(wire)
          /\ remaining # 0
      <4>1. spos + remaining = Total + 1
        BY <2>1, <2>6 DEF ArrivedInv
      <4>2. Total \in Nat
        BY ConstantTypes
      <4> QED  BY <1>a, <1>b, <4>1, <4>2
    <3>4. Moved' = Moved /\ Streaming' = Streaming /\ Closing' = Closing
      BY <2>1 DEF client, Moved, Streaming, Closing
    <3>5. io = "ok" /\ lsn < spos + Len(wire) /\ (Streaming => ~finC)
          /\ (Streaming /\ data = "up" => spos + Len(wire) = Moved + 1)
          /\ (Closing /\ copyResult = "ok" => spos = Total + 1)
      BY <2>1, <2>6 DEF ArrivedInv
    <3>6. UNCHANGED <<cPc, job, lsn, copyResult>>
      BY <2>1 DEF client
    <3>7. /\ lsn' < spos' + Len(wire') /\ (Streaming' => ~finC')
          /\ (Streaming' /\ data' = "up" => spos' + Len(wire') = Moved' + 1)
          /\ ~(Closing' /\ copyResult' = "ok")
      <4>1. spos # Total + 1
        BY <1>b
      <4> QED  BY <2>1, <3>3, <3>4, <3>5, <3>6, <4>1
    <3> QED
      BY <2>1, <2>4, <2>5, <3>2, <3>3, <3>5, <3>6, <3>7 DEF ArrivedInv
  <2>7. CASE cPc \notin Copying
    BY <2>1, <2>4, <2>5, <2>7 DEF ArrivedInv, client, Copying
  <2> QED  BY <2>6, <2>7
<1> QED
  BY <1>1, <1>2, <1>3

LEMMA ReadUnitReports == ASSUME IInv, RInv, ReadUnit PROVE RInv'
<1> USE DEF IInv, RInv
<1>1. /\ UNCHANGED <<mode, job, cPc, back, lsn, result, copyResult, kept, cmd, task, part>>
      /\ mode = "retrieve"
  BY DEF ReadUnit, client, games
<1>2. ResultInv' /\ SlotInv' /\ FailureLeavesNothing'
  BY <1>1, Unreported
<1>3. ArrivedInv'
  BY <1>1 DEF ArrivedInv
<1> QED
  BY <1>2, <1>3

LEMMA ReadFailsReports == ASSUME IInv, RInv, ReadFails PROVE RInv'
<1> USE DEF IInv, RInv
<1>1. /\ UNCHANGED <<mode, job, cPc, back, lsn, result, copyResult, kept, cmd, task, part>>
      /\ mode = "retrieve"
  BY DEF ReadFails, client, games
<1>2. ResultInv' /\ SlotInv' /\ FailureLeavesNothing'
  BY <1>1, Unreported
<1>3. ArrivedInv'
  BY <1>1 DEF ArrivedInv
<1> QED
  BY <1>2, <1>3

LEMMA TransferEndsReports == ASSUME IInv, RInv, TransferEnds PROVE RInv'
<1> USE DEF IInv, RInv
<1>1. UNCHANGED <<mode, job, cPc, back, lsn, bank, retries, reconnects, result, copyResult,
                  file, kept, cmd, data, finC, wire, task, spos, remaining, io, part, disk,
                  faults, dropped, skipped, diskError>>
  BY DEF TransferEnds, client, games, past
<1>2. ResultInv' /\ SlotInv' /\ FailureLeavesNothing'
  BY <1>1, Unreported
<1>3. ArrivedInv'
  BY DEF TransferEnds, client, games, past, ArrivedInv, Unharmed, Copying, Streaming, Moved,
         Closing, InBlock, TypeData, TypeWire, TypeServer, ServerInv, PlaceInv, ResultInv
<1> QED
  BY <1>1, <1>2, <1>3

LEMMA DrainReports == ASSUME IInv, RInv, Drain PROVE RInv'
<1> USE DEF IInv, RInv
<1>a. wire # <<>> /\ Len(wire) \in Nat \ {0} /\ Len(wire') = Len(wire) - 1
  BY TailOne DEF Drain, TypeWire
<1>1. UNCHANGED <<mode, job, cPc, back, lsn, bank, retries, reconnects, result, copyResult,
                  file, kept, cmd, data, finC, finS, task, dPc, spos, remaining, io, part,
                  disk, faults, dropped, skipped, diskError>>
  BY DEF Drain, client, games, past, server
<1>2. ResultInv' /\ SlotInv' /\ FailureLeavesNothing'
  BY <1>1, Unreported
<1>3. ArrivedInv'
  <2>1. /\ mode = "install" /\ dPc = "linger"
        /\ UNCHANGED <<mode, data, finC>> /\ UNCHANGED client /\ UNCHANGED games
        /\ UNCHANGED server /\ Unharmed' = Unharmed
    BY DEF Drain, past, Unharmed
  <2> SUFFICES ASSUME Unharmed PROVE ArrivedInv'
    BY <2>1 DEF ArrivedInv
  <2>2. Moved' = Moved /\ Streaming' = Streaming /\ Closing' = Closing
    BY <2>1 DEF client, Moved, Streaming, Closing
  <2>3. CASE cPc \in Copying
    <3>1. spos = Total + 1 /\ (Streaming /\ data = "up" => spos + Len(wire) = Moved + 1)
      BY <1>a, <2>1, <2>3 DEF ArrivedInv
    <3>2. ~(Streaming /\ data = "up")
      BY <1>a, <3>1, MovedInGame
    <3>3. lsn < spos + Len(wire')
      BY <1>a, <3>1 DEF TypeData
    <3> QED
      BY <2>1, <2>2, <2>3, <3>1, <3>2, <3>3 DEF ArrivedInv, client, games, server
  <2>4. CASE cPc \notin Copying
    BY <2>1, <2>4 DEF ArrivedInv, client, games, server
  <2> QED  BY <2>3, <2>4
<1> QED
  BY <1>1, <1>2, <1>3

LEMMA DisconnectedReports == ASSUME IInv, RInv, Disconnected PROVE RInv'
<1> USE DEF IInv, RInv
<1>1. UNCHANGED <<mode, job, cPc, back, lsn, bank, retries, reconnects, result, copyResult,
                  file, kept, cmd, data, finC, finS, wire, task, spos, remaining, io, part,
                  disk, faults, dropped, skipped, diskError>>
  BY DEF Disconnected, client, games, line, past
<1>2. ResultInv' /\ SlotInv' /\ FailureLeavesNothing'
  BY <1>1, Unreported
<1>3. ArrivedInv'
  BY DEF Disconnected, client, games, line, past, ArrivedInv, Unharmed, Copying, Streaming,
         Moved, Closing, InBlock, TypeData, TypeWire, TypeServer, ServerInv, PlaceInv,
         ResultInv
<1> QED
  BY <1>1, <1>2, <1>3

LEMMA EndGameReports == ASSUME IInv, RInv, EndGame PROVE RInv'
<1> USE DEF IInv, RInv
<1>1. UNCHANGED <<mode, job, cPc, back, lsn, bank, retries, reconnects, result, copyResult,
                  file, kept, cmd, data, finC, finS, wire, spos, remaining, io, part,
                  dropped, skipped>>
  BY DEF EndGame, client, line
<1>2. ResultInv' /\ FailureLeavesNothing'
  BY <1>1, Unreported
<1>3. SlotInv'
  BY SMTT(30) DEF EndGame, Fault, client, line, SlotInv, Success, ServerInv, TypePc,
                  PlaceInv, ResultInv, Closing, InBlock
<1>4. ArrivedInv'
  BY DEF EndGame, Fault, client, line, ArrivedInv, Unharmed, Copying, Streaming, Moved,
         Closing, InBlock, TypeData, TypeWire, TypeServer, ServerInv, PlaceInv, ResultInv
<1> QED
  BY <1>1, <1>2, <1>3, <1>4

LEMMA DataExitsReports == ASSUME IInv, RInv, DataExits PROVE RInv'
<1> USE DEF IInv, RInv
<1>1. UNCHANGED <<mode, job, cPc, back, lsn, bank, retries, reconnects, result, copyResult,
                  file, kept, cmd, data, finC, finS, wire, task, spos, remaining, io, part,
                  disk, faults, dropped, skipped, diskError>>
  BY DEF DataExits, client, games, line, past
<1>2. ResultInv' /\ SlotInv' /\ FailureLeavesNothing'
  BY <1>1, Unreported
<1>3. ArrivedInv'
  BY DEF DataExits, client, games, line, past, ArrivedInv, Unharmed, Copying, Streaming,
         Moved, Closing, InBlock, TypeData, TypeWire, TypeServer, ServerInv, PlaceInv,
         ResultInv
<1> QED
  BY <1>1, <1>2, <1>3

LEMMA CleanupReports == ASSUME IInv, RInv, Cleanup PROVE RInv'
<1> USE DEF IInv, RInv
<1>1. UNCHANGED <<mode, job, cPc, back, lsn, bank, retries, reconnects, result, copyResult,
                  file, kept, data, finC, finS, wire, dPc, spos, remaining, io, part, disk,
                  faults, skipped, diskError>>
  BY DEF Cleanup, client, games, line
<1>2. ResultInv'
  BY <1>1, Unreported
<1>3. SlotInv'
  BY DEF Cleanup, client, games, line, SlotInv, Success, ServerInv, TypePc, PlaceInv,
         ResultInv, Closing, InBlock
<1>4. FailureLeavesNothing'
  BY DEF Cleanup, client, games, line, FailureLeavesNothing, SlotInv, ResultInv, PlaceInv,
         Closing, InBlock
<1>5. ArrivedInv'
  <2>1. /\ task' = FALSE
        /\ UNCHANGED <<mode, dPc, spos, remaining, io, diskError, skipped>>
        /\ UNCHANGED client /\ UNCHANGED line /\ UNCHANGED games
    BY DEF Cleanup
  <2> SUFFICES ASSUME mode = "install", Unharmed' PROVE ArrivedInv'
    BY <2>1 DEF ArrivedInv
  <2>2. Unharmed /\ (task => ~(remaining > 0))
    <3>1. ~dropped' /\ ~skipped' /\ ~diskError'
      BY Zenon DEF Unharmed
    <3>2. ~dropped /\ (task => ~(remaining > 0))
      BY <3>1, Zenon DEF Cleanup
    <3>3. ~skipped /\ ~diskError
      BY <2>1, <3>1
    <3> QED  BY <3>2, <3>3, Zenon DEF Unharmed
  <2>3. Moved' = Moved /\ Streaming' = Streaming /\ Closing' = Closing
    BY <2>1 DEF client, line, Moved, Streaming, Closing
  <2>4. cPc \in Copying /\ dPc = "run" => remaining = 0
    BY <2>2 DEF ArrivedInv, TypeServer
  <2> QED
    BY <2>1, <2>2, <2>3, <2>4 DEF ArrivedInv, client, line, games
<1> QED
  BY <1>1, <1>2, <1>3, <1>4, <1>5

(* ... and lost connections. *)
LEMMA LoseDataReports == ASSUME IInv, RInv, LoseData PROVE RInv'
<1> USE DEF IInv, RInv
<1>1. UNCHANGED <<mode, job, cPc, back, lsn, bank, retries, reconnects, result, copyResult,
                  file, kept, cmd, finC, finS, task, dPc, spos, remaining, io, part, disk,
                  skipped, diskError>>
  BY DEF LoseData, client, games, server
<1>2. ResultInv' /\ SlotInv' /\ FailureLeavesNothing'
  BY <1>1, Unreported
<1>3. ArrivedInv'
  BY DEF LoseData, Fault, client, games, server, ArrivedInv, Unharmed, Copying, Streaming,
         Moved, Closing, InBlock, TypeData, TypeWire, TypeServer, ServerInv, PlaceInv,
         ResultInv
<1> QED
  BY <1>1, <1>2, <1>3

LEMMA LoseCommandReports == ASSUME IInv, RInv, LoseCommand PROVE RInv'
<1> USE DEF IInv, RInv
<1>1. UNCHANGED <<mode, job, cPc, back, lsn, bank, retries, reconnects, result, copyResult,
                  file, kept, data, finC, finS, wire, task, dPc, spos, remaining, io, part,
                  disk, dropped, skipped, diskError>>
  BY DEF LoseCommand, client, games, line, past, server
<1>2. ResultInv' /\ SlotInv' /\ ArrivedInv'
  BY <1>1, Unreported
<1>3. FailureLeavesNothing'
  BY DEF LoseCommand, Fault, client, games, line, past, server, FailureLeavesNothing,
         SlotInv, ResultInv, PlaceInv, Closing, InBlock
<1> QED
  BY <1>1, <1>2, <1>3

-----------------------------------------------------------------------------
(* At the start nothing is reported, and no game is done.                  *)
LEMMA InitReports == Init => RInv
<1> SUFFICES ASSUME Init PROVE RInv
  OBVIOUS
<1>1. ResultInv /\ SlotInv /\ FailureLeavesNothing
  BY DEF Init, ResultInv, SlotInv, FailureLeavesNothing, Success, InBlock, Closing
<1>2. ArrivedInv
  BY DEF Init, ArrivedInv, Copying
<1> QED  BY <1>1, <1>2 DEF RInv

(* Every step keeps what will be reported.                                 *)
LEMMA NextReports == ASSUME IInv, RInv, [Next]_vars PROVE RInv'
<1>1. CASE Client
  BY <1>1, BadImageReports, KeepInstalledReports, StartJobReports, JobsDoneReports,
           PrepareReports, PrepareFailsReports, OpenForReadReports, NextBlockReports,
           SendUnitReports, ReceiveUnitReports, BlockFailsReports, ReceiveTimesOutReports,
           ShutDataReports, DrainDataReports, DataClosedReports, GetIOStatusReports,
           ReconnectReports, ResumeReports, ResumeUnansweredReports, ResumeFailsReports, CloseGameReports,
           CloseGameFailsReports, FinishInstallReports, UndoInstallReports,
           FinishRetrieveReports DEF Client
<1>2. CASE Abort
  BY <1>2, AbortReports
<1>3. CASE Server
  BY <1>3, WriteUnitReports, ReadUnitReports, ReadFailsReports, TransferEndsReports,
           DrainReports, DisconnectedReports, EndGameReports, DataExitsReports,
           CleanupReports DEF Server
<1>4. CASE LoseData \/ LoseCommand
  BY <1>4, LoseDataReports, LoseCommandReports
<1>5. CASE UNCHANGED vars
  <2>1. /\ UNCHANGED <<mode, cmd, faults>> /\ UNCHANGED client /\ UNCHANGED line
        /\ UNCHANGED server /\ UNCHANGED games /\ UNCHANGED past
    BY <1>5 DEF vars
  <2>2. QED
    BY <2>1, Unreported DEF client, line, server, games, past, RInv
<1> QED  BY <1>1, <1>2, <1>3, <1>4, <1>5 DEF Next

(* It holds always. *)
THEOREM ReportInvariance == Spec => []RInv
BY Invariance, InitReports, NextReports, PTL DEF Spec

(* When the client reports success every game that it has worked on is     *)
(* whole and the console has closed it; when it reports a failure nothing  *)
(* is left behind; however connections were lost and resumed on the way.   *)
THEOREM ReportTrueAlways == Spec => []ReportTrue
<1>1. IInv /\ RInv => ReportTrue
  <2> SUFFICES ASSUME IInv, RInv PROVE ReportTrue
    OBVIOUS
  <2>1. FailureLeavesNothing /\ ClosedAtSuccess
    BY DEF RInv, SlotInv, ClosedAtSuccess
  <2>2. SuccessIsWhole
    <3>1. CASE mode = "install"
      BY <3>1 DEF RInv, ArrivedInv, Unharmed, SuccessIsWhole
    <3>2. CASE mode = "retrieve"
      <4> SUFFICES ASSUME ~skipped, kept, cPc = "end" PROVE file = Whole
        BY <3>2 DEF SuccessIsWhole, Success, IInv, TypeFlags
      <4>1. lsn = Total /\ Len(file) = Total /\ InOrder(file, 0) /\ file \in Seq(Unit)
        BY <3>2 DEF IInv, RInv, ResultInv, FileInv, StreamInv, TypeData
      <4>2. file = [u \in 1 .. Len(file) |-> file[u]]
        BY <4>1
      <4>3. \A u \in 1 .. Total : file[u] = u
        BY <4>1 DEF InOrder
      <4> QED  BY <4>1, <4>2, <4>3 DEF Whole
    <3> QED  BY <3>1, <3>2 DEF IInv, TypePc
  <2> QED  BY <2>1, <2>2 DEF ReportTrue
<1> QED  BY <1>1, Invariance, ReportInvariance, PTL

=============================================================================
