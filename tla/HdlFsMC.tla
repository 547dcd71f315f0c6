------------------------------ MODULE HdlFsMC -------------------------------
(* Three sizes, of which the smallest leaves one sector to a main          *)
(* partition and two to a sub-partition.                                   *)
EXTENDS HdlFs

MCSizes == <<3, 6, 12>>
=============================================================================
