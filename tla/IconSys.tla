------------------------------ MODULE IconSys ------------------------------
(***************************************************************************)
(* The icon.sys of a game.  The console or the client make it from that of *)
(* a save or from built-in values and print it as lines of text; either    *)
(* reads it back, line by line, to show the title or to change it.         *)
(***************************************************************************)
EXTENDS Integers, Sequences

CONSTANTS
  TitleMax,    \* OSD_TITLE_MAX_LEN
  Capacity,    \* of the buffer that the text is printed into
  Widths,      \* bound: the bytes of a title's character
  Lengths,     \* bound: the characters of a title that the user types
  SaveTitles,  \* bound: the characters of a save's title, and of its first line
  Alphas, Colours, Directions, Lights, \* bound: the values of a save's icon.sys
  MaxReads     \* bound: how often the file is read back

ASSUME IconSysAssumption ==
  /\ TitleMax \in Nat \ {0} /\ MaxReads \in Nat
  /\ Widths \subseteq Nat /\ Lengths \subseteq Nat
  /\ \A save \in SaveTitles : save \in Nat \X Nat /\ save[2] <= save[1]
  /\ Alphas \cup Colours \cup Directions \cup Lights \subseteq Int

(* A wide character is at most three bytes of UTF-8, and a direction is    *)
(* less than ten when it is rounded, which nobody checks; the buffer has   *)
(* room for the longest text. *)
LargestDirection == 999994
ASSUME TextAssumption ==
  /\ Widths \subseteq 0 .. 3
  /\ \A d \in Directions : -LargestDirection <= d /\ d <= LargestDirection
  /\ Capacity \in Nat /\ 405 + 6 * TitleMax <= Capacity

(* The lines, with the length of their keys; a vector has three values. *)
Line(len, kind) == [len |-> len, kind |-> kind]
Fields == 1 .. 17
Lines ==
  [i \in Fields |->
     CASE i \in 1 .. 2 -> Line(6, "string")      \* title0, title1
       [] i = 3 -> Line(6, "number")            \* bgcola
       [] i \in 4 .. 7 -> Line(6, "numbers")     \* bgcol0 .. bgcol3
       [] i \in 8 .. 10 -> Line(9, "floats")     \* lightdir0 .. lightdir2
       [] i = 11 -> Line(11, "numbers")         \* lightcolamb
       [] i \in 12 .. 14 -> Line(9, "numbers")   \* lightcol0 .. lightcol2
       [] i \in 15 .. 17 -> Line(13, "string")]  \* uninstallmes0 .. uninstallmes2
Title == 1 .. 2

(* A string: spaces, then characters of a title from one on, then some     *)
(* that nobody wrote; all of the same number of bytes. *)
String(lead, from, len, stray, width) ==
  [lead |-> lead, from |-> from, len |-> len, stray |-> stray, width |-> width]
Empty == String(0, 0, 0, 0, 1)
DeleteMessage == String(0, 0, 26, 0, 1)

VARIABLES
  at,       \* what is being done
  reader,   \* who reads, in "line"
  line,     \* the next line
  saved,    \* the save's title: its length and that of its first line, or <<>>
  titles,   \* the two lines of the title
  data,     \* struct IconSysData
  file,     \* the lines of the file
  before,   \* those of the file that was read
  reads,
  overrun   \* the console has written behind the end of its struct IconSysData

iconVars == <<at, reader, line, saved, titles, data, file, before, reads, overrun>>

Least(a, b) == IF a < b THEN a ELSE b
ToByte(n) == n % 256
Vector(x) == <<x, x, x>>

(* wcsncpy: the first so many characters. *)
Clip(s, n) ==
  LET lead == Least(s.lead, n)
      len == Least(s.len, n - lead) IN
  [s EXCEPT !.lead = lead, !.len = len, !.stray = Least(s.stray, n - lead - len)]

(* Typed by the user; what was read last is not typed again. *)
Typed == {String(lead, 100 * (reads + 1), n, 0, w) : lead \in 0 .. 1, n \in Lengths, w \in Widths}

IconInit ==
  /\ at = "title" /\ reader = "none" /\ line = 1 /\ saved = <<>>
  /\ titles = <<Empty, Empty>>
  /\ data = <<>> /\ file = <<>> /\ before = <<>> /\ reads = 0
  /\ overrun = FALSE

-----------------------------------------------------------------------------
(* Slip: the second line begins with the newline's neighbour. *)
ConvertFromNewline(n, first, w) ==
  {<<String(0, 1, first, 0, w), String(0, first, Least(n - first, TitleMax - 1), 0, w)>>}

(* The title of a save of so many characters.  With a newline, either line *)
(* gets one character less than it has room for, and the second is not     *)
(* terminated.  Without, the terminator goes into the wrong array, which   *)
(* may be the one with the title, and the second line of a short title is  *)
(* what lies behind its end. *)
ConvertMcTitle(n, first, w) ==
  LET room == TitleMax - 1
      second == Least(n - first, room)
      beyond == IF w = 1 THEN TitleMax + 1 ELSE TitleMax
      shorter == IF n < TitleMax THEN {n} ELSE {Least(n, beyond), Least(n + 1, 2 * TitleMax) - (TitleMax + 1)}
      behind == IF n < TitleMax THEN 0 ELSE Least(n, 2 * TitleMax) - TitleMax IN
  IF first > 0
  THEN {<<String(0, 1, Least(first, room), 0, w), String(0, first + 1, second, stray, w)>> :
          stray \in IF n - first < room THEN {0} ELSE 0 .. 2}
  ELSE {<<String(0, 1, len, 0, w), String(0, TitleMax + 1, behind, stray, w)>> :
          len \in shorter,
          stray \in IF n >= TitleMax /\ n < 2 * TitleMax THEN {0} ELSE 0 .. 1}

(* The installation dialog begins with the title of the save. *)
TitleOfSave(save, w) ==
  /\ at = "title" /\ saved = <<>>
  /\ saved' = save
  /\ titles' \in ConvertMcTitle(save[1], save[2], w)
  /\ UNCHANGED <<at, reader, line, data, file, before, reads, overrun>>

(* What the user leaves in the dialog. *)
TitleTyped(line1, line2) ==
  /\ at = "title"
  /\ titles' = <<Clip(line1, TitleMax), Clip(line2, TitleMax)>>
  /\ at' = "data" /\ saved' = <<>>
  /\ UNCHANGED <<reader, line, data, file, before, reads, overrun>>

TitleAccepted ==
  /\ at = "title" /\ saved # <<>>
  /\ at' = "data"
  /\ UNCHANGED <<reader, line, saved, titles, data, file, before, reads, overrun>>

-----------------------------------------------------------------------------
(* The values.  Lights are in hundredths, directions in 1/100000. *)
GenerateHDDIconSysFileFromMCSave(alpha, colour, direction, light) ==
  /\ at = "data"
  /\ data' = [i \in Fields |->
                CASE i \in Title -> Clip(titles[i], TitleMax)
                  [] i = 3 -> ToByte(alpha)
                  [] i \in 4 .. 7 -> Vector(ToByte(colour \div 2))
                  [] i \in 8 .. 10 -> Vector(direction)
                  [] i \in 11 .. 14 -> Vector(ToByte((light * 128) \div 100))
                  [] i = 15 -> DeleteMessage
                  [] OTHER -> Empty]
  /\ at' = "print"
  /\ UNCHANGED <<reader, line, saved, titles, file, before, reads, overrun>>

DefaultValues ==
  <<64, <<22, 47, 92>>, <<3, 10, 28>>, <<3, 10, 28>>, <<22, 47, 92>>,
    <<50000, 50000, 50000>>, <<0, -40000, -10000>>, <<-50000, -50000, 50000>>,
    <<62, 62, 55>>, <<33, 42, 64>>, <<18, 18, 49>>, <<31, 31, 31>>,
    DeleteMessage, Empty, Empty>>

DefaultGameIconSys ==
  /\ at = "data"
  /\ data' = [i \in Fields |->
                IF i \in Title THEN Clip(titles[i], TitleMax) ELSE DefaultValues[i - 2]]
  /\ at' = "print"
  /\ UNCHANGED <<reader, line, saved, titles, file, before, reads, overrun>>

-----------------------------------------------------------------------------
(* The text: "key = value", floats with four digits after the point.  Both *)
(* sides print the same. *)
Abs(x) == IF x < 0 THEN -x ELSE x
Digits(n) == IF n < 10 THEN 1 ELSE IF n < 100 THEN 2 ELSE IF n < 1000 THEN 3 ELSE 4
FourDigits(x) == IF x < 0 THEN -((5 - x) \div 10) ELSE (x + 5) \div 10

(* Slip: printed with %f. *)
SixDigitsLength(f) == (IF f < 0 THEN 1 ELSE 0) + Digits(Abs(f) \div 10000) + 7
FloatLength(f) == (IF f < 0 THEN 1 ELSE 0) + Digits(Abs(f) \div 10000) + 5

Printed(i, x) == IF Lines[i].kind = "floats" THEN [k \in 1 .. 3 |-> FourDigits(x[k])] ELSE x

Sum3(Op(_), v) == Op(v[1]) + Op(v[2]) + Op(v[3]) + 2
ValueLength(i, v, unit) ==
  CASE Lines[i].kind = "string" -> v.lead + (v.len + v.stray) * IF unit = "bytes" THEN v.width ELSE 1
    [] Lines[i].kind = "number" -> Digits(v)
    [] Lines[i].kind = "numbers" -> Sum3(Digits, v)
    [] Lines[i].kind = "floats" -> Sum3(FloatLength, v)

(* "PS2X", then the lines; in characters, and in bytes of UTF-8. *)
LineLengths(text, unit) ==
  [i \in Fields |-> Lines[i].len + 3 + ValueLength(i, text[i], unit) + 1]
TextLength(text, unit) ==
  LET upTo[i \in 0 .. 17] == IF i = 0 THEN 5 ELSE upTo[i - 1] + LineLengths(text, unit)[i]
  IN  upTo[17]
Characters(text) == TextLength(text, "characters")
Bytes(text) == TextLength(text, "bytes")

GenerateHDDIconSysFile ==
  /\ at = "print"
  /\ file' = [i \in Fields |-> Printed(i, data[i])]
  /\ at' = "file"
  /\ UNCHANGED <<reader, line, saved, titles, data, before, reads, overrun>>

-----------------------------------------------------------------------------
(* Reading back.  The two sides give a string different room.  The client  *)
(* keeps within its arrays.  The console gives a title one character more  *)
(* than the array has, and a message as many characters as its array has   *)
(* bytes, of which a wide character has four: wcsncpy fills all of that    *)
(* with zeros behind the value, and one more is written behind it.         *)
Message == 15 .. 17
MessageSize == 4 * 121

Zero(i) == CASE Lines[i].kind = "string" -> Empty
             [] Lines[i].kind = "number" -> 0
             [] OTHER -> Vector(0)

LoadIconSysFile(side) ==
  /\ at = "file" /\ reads < MaxReads
  /\ reads' = reads + 1
  /\ reader' = side /\ line' = 1 /\ before' = file
  /\ data' = [i \in Fields |-> Zero(i)]
  /\ at' = "line" /\ overrun' = FALSE
  /\ UNCHANGED <<saved, titles, file>>

RoomOnConsole(i) == IF i \in Title THEN TitleMax + 1 ELSE MessageSize
RoomOnClient(i) == IF i \in Title THEN TitleMax ELSE 60

(* What the zeros of the console reach in the struct: the first character  *)
(* of title1, bgcola with bgcol0, or all the messages that follow.  Those  *)
(* of a message go on behind the struct, over the caller's other variables *)
(* and what its own caller keeps on the stack.                             *)
Overwritten(i) ==
  CASE i = 1 -> {2}
    [] i = 2 -> {3, 4}
    [] i \in Message -> i + 1 .. 17
    [] OTHER -> {}

(* Slip: the first number of a vector is read three times. *)
FirstThrice(v) == [k \in 1 .. 3 |-> ToByte(v[1])]

GetStringValueFromConfigLine(v, room) == Clip([v EXCEPT !.lead = 0], room)
GetXYZIVectorValueFromConfigLine(v) == [k \in 1 .. 3 |-> ToByte(v[k])]
GetXYZFVectorValueFromConfigLine(v) == [k \in 1 .. 3 |-> 10 * v[k]]

Parsed(i, v, room) ==
  CASE Lines[i].kind = "string" -> GetStringValueFromConfigLine(v, room)
    [] Lines[i].kind = "number" -> ToByte(v)
    [] Lines[i].kind = "numbers" -> GetXYZIVectorValueFromConfigLine(v)
    [] Lines[i].kind = "floats" -> GetXYZFVectorValueFromConfigLine(v)

ParseLine(side, room, zeroed) ==
  /\ at = "line" /\ reader = side /\ line \in Fields
  /\ data' = [i \in Fields |->
                IF i = line THEN Parsed(line, before[line], room)
                ELSE IF i \in zeroed THEN Zero(i) ELSE data[i]]
  /\ line' = line + 1
  /\ UNCHANGED <<at, reader, saved, titles, file, before, reads>>

ConsoleParses ==
  /\ ParseLine("console", RoomOnConsole(line), Overwritten(line))
  /\ overrun' = (overrun \/ line \in Message)

ClientParses ==
  /\ ParseLine("client", RoomOnClient(line), {})
  /\ UNCHANGED overrun

(* Undefined behaviour: at the latest when the function that holds the     *)
(* struct returns, the console is lost, if what was overwritten matters... *)
ConsoleLost ==
  /\ overrun
  /\ at \in {"print", "file"} \/ (at = "line" /\ line \notin Fields)
  /\ at' = "lost" /\ reader' = "none" /\ line' = 1
  /\ UNCHANGED <<saved, titles, data, file, before, reads, overrun>>

(* ... and before, the path and the files it was to write may be gone.     *)
NotWritten ==
  /\ overrun /\ at = "print"
  /\ at' = "file"
  /\ UNCHANGED <<reader, line, saved, titles, data, file, before, reads, overrun>>

(* The titles are shown, and the file stays. *)
Shown ==
  /\ at = "line" /\ line \notin Fields
  /\ at' = "file" /\ reader' = "none" /\ line' = 1
  /\ titles' = [i \in Title |-> data[i]]
  /\ UNCHANGED <<saved, data, file, before, reads, overrun>>

(* Another title: the rest of the file is printed again as it was read. *)
Retitled(line1, line2) ==
  /\ at = "line" /\ line \notin Fields
  /\ titles' = <<Clip(line1, TitleMax), Clip(line2, TitleMax)>>
  /\ data' = [data EXCEPT ![1] = titles'[1], ![2] = titles'[2]]
  /\ at' = "print" /\ reader' = "none" /\ line' = 1 /\ saved' = <<>>
  /\ UNCHANGED <<file, before, reads, overrun>>

IconNext ==
  \/ \E save \in SaveTitles, w \in Widths : TitleOfSave(save, w)
  \/ \E line1 \in Typed, line2 \in Typed : TitleTyped(line1, line2)
  \/ TitleAccepted
  \/ \E a \in Alphas, c \in Colours, d \in Directions, l \in Lights :
       GenerateHDDIconSysFileFromMCSave(a, c, d, l)
  \/ DefaultGameIconSys
  \/ GenerateHDDIconSysFile
  \/ LoadIconSysFile("console") \/ LoadIconSysFile("client")
  \/ ConsoleParses \/ ClientParses
  \/ ConsoleLost \/ NotWritten
  \/ Shown
  \/ \E line1 \in Typed, line2 \in Typed : Retitled(line1, line2)

IconSpec == IconInit /\ [][IconNext]_iconVars

-----------------------------------------------------------------------------
(* Types; and a title fits the array it is in, with its terminator or not. *)
IconTypeOK ==
  /\ at \in {"title", "data", "print", "file", "line", "lost"} /\ overrun \in BOOLEAN
  /\ at = "line" <=> reader \in {"console", "client"}
  /\ line \in 1 .. 18 /\ reads \in 0 .. MaxReads
  /\ \A i \in Title : titles[i].lead + titles[i].len + titles[i].stray <= TitleMax + 1

(* The text fits the buffers of both sides, in characters and in bytes,    *)
(* with the longest titles of characters of three bytes and the longest    *)
(* values: a line that was cut could not be read, and the title would stay *)
(* as it is for ever. *)
NothingCut ==
  /\ IconTypeOK
  /\ file # <<>> => Characters(file) < Capacity /\ Bytes(file) <= Capacity

(* A change of the title changes the title alone, whoever wrote the file   *)
(* and whoever reads it, however often, although the console's reading of  *)
(* a string clears lines that follow in the struct; a console that is lost *)
(* for what it cleared behind the struct has not changed more either.  Who *)
(* has read the file has the title that was written, without the spaces    *)
(* before it.                                                              *)
OnlyTitles ==
  /\ at \in {"file", "lost"} /\ before # <<>> =>
       \A i \in Fields \ Title : file[i] = before[i]
  /\ line \notin Fields =>
       \A i \in Title : data[i] = Clip([before[i] EXCEPT !.lead = 0], TitleMax)

(* The title of a save is taken over as it is if its lines are shorter     *)
(* than 15 characters; a longer first line loses its end, a longer second  *)
(* one is not terminated, and a title without a newline loses its second   *)
(* half to what the stack holds or its first to the terminator. *)
TitleWhole ==
  at = "title" /\ saved # <<>> /\ saved[2] \in 1 .. TitleMax - 1 /\ saved[1] - saved[2] < TitleMax - 1 =>
    /\ titles[1].from = 1 /\ titles[1].len = saved[2] /\ titles[1].stray = 0
    /\ titles[2].from = saved[2] + 1 /\ titles[2].len = saved[1] - saved[2]
    /\ titles[2].stray = 0
=============================================================================
