----------------------- MODULE MCStorageClassAdmission -----------------------
(* A cluster that comes and goes and the name of one that never exists; of the
   three devices two share a node. *)
EXTENDS StorageClassAdmission, TLC

CONSTANTS grows, never, n1, n2, s1, s2

MCHost == 1 :> n1 @@ 2 :> n1 @@ 3 :> n2
SelectorSymmetry == Permutations(Selector)
=============================================================================
