----------------------------- MODULE IconSysMC -----------------------------
(* A save's titles for the run: without a newline as long as a line,       *)
(* longer, and as long as a title can be; with one, both lines short, the  *)
(* first or the second too long, and each just fitting.                    *)
EXTENDS IconSys

MCSaveTitles == {<<16, 0>>, <<20, 0>>, <<32, 0>>,
                 <<12, 7>>, <<29, 15>>, <<26, 16>>, <<30, 10>>}
MCDirections == {-100000, 99995}
=============================================================================
