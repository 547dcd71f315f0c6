------------------------------- MODULE OsdMC -------------------------------
(* The memory cards: a save without its icon on the first, which hides the *)
(* one on the second, or a save with its icon on the second only. *)
EXTENDS Osd

MCCards == {<<"sys", "full">>, <<"none", "view">>}
=============================================================================
