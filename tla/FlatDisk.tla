------------------------------ MODULE FlatDisk ------------------------------
(***************************************************************************)
(* What a mounted game promises to the code above it: one array of         *)
(* sectors, as long as the game, and a position in it that every transfer  *)
(* moves on by what it moved.                                              *)
(***************************************************************************)
EXTENDS Integers, FiniteSets

VARIABLES
  image,  \* the sectors, and none when there is no game
  pos,    \* the next sector
  out     \* what was read last

diskVars == <<image, pos, out>>

Length == Cardinality(DOMAIN image)

Init == image = <<>> /\ pos = 0 /\ out = <<>>

(* A new game holds nothing of its image yet. *)
Create ==
  /\ image = <<>>
  /\ image' = [s \in DOMAIN image' |-> 0]
  /\ UNCHANGED <<pos, out>>

Remove == image' = <<>> /\ UNCHANGED <<pos, out>>

(* The caller moves on, and has no use for what it read any more. *)
Seek == pos' \in 0 .. Length /\ out' = <<>> /\ UNCHANGED image

(* Sectors are put down at the position, and nowhere else. *)
Write ==
  /\ pos' \in pos .. Length
  /\ image' = [s \in DOMAIN image |->
                 IF pos <= s /\ s < pos' THEN s + 1 ELSE image[s]]
  /\ UNCHANGED out

(* The sectors at the position are brought up. *)
Read ==
  /\ pos' \in pos .. Length
  /\ out' = [i \in 1 .. pos' - pos |-> image[pos + i - 1]]
  /\ UNCHANGED image

Next == Create \/ Remove \/ Seek \/ Write \/ Read

Spec == Init /\ [][Next]_diskVars
=============================================================================
