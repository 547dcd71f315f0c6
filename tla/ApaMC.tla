------------------------------- MODULE ApaMC --------------------------------
(* Two system partitions, and threads that are alike. *)
EXTENDS Apa

MCSystemParts == <<"__net", "__system">>

MCThreads == Permutations(Threads)
=============================================================================
