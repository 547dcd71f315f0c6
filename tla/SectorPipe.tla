----------------------------- MODULE SectorPipe -----------------------------
(***************************************************************************)
(* What the buffered I/O layer promises to whoever moves a disc image      *)
(* through it, in either direction: sectors come out in the order in which *)
(* they went in, none is skipped, repeated or changed, and a transfer that *)
(* is reported as complete has let every sector out.  Sectors are numbered *)
(* 1, 2, 3, ... in the order of the image.                                 *)
(***************************************************************************)
EXTENDS Integers, Sequences

VARIABLES
  put,    \* how many sectors went in
  got,    \* the sectors that came out
  report  \* "open" until the transfer is closed, then "OK" or "ERROR"

pipeVars == <<put, got, report>>

Init ==
  /\ put = 0
  /\ got = <<>>
  /\ report = "open"

(* Some more sectors go in.                                                *)
Put ==
  /\ report = "open"
  /\ put' \in Nat
  /\ put' > put
  /\ UNCHANGED <<got, report>>

(* The next sectors come out, never more than went in.                     *)
Get ==
  /\ report = "open"
  /\ Len(got') \in Len(got) + 1 .. put
  /\ got' = [i \in 1 .. Len(got') |-> i]
  /\ UNCHANGED <<put, report>>

(* The transfer ends.  OK is a promise: everything came out.               *)
Close ==
  /\ report = "open"
  /\ report' \in {"OK", "ERROR"}
  /\ (report' = "OK") => (Len(got) = put)
  /\ UNCHANGED <<put, got>>

Next == Put \/ Get \/ Close

Spec == Init /\ [][Next]_pipeVars
=============================================================================
