---------------------------- MODULE MCOsdStorage ----------------------------
(* OsdStorage on two clusters and two devices of different sizes. *)
EXTENDS OsdStorage, TLC

CONSTANTS e1, e2

MCBD == {1, 2}
MCSelections == {{1, 2}, {2}}
MCSize0 == 1 :> 2 @@ 2 :> 1
MCOverlapping == {{1, 2}}
Symmetry == Permutations({e1, e2})
=============================================================================
