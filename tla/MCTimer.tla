------------------------------ MODULE MCTimer ------------------------------
(* Instances of Timer for TLC: the dispatchers are interchangeable. *)
EXTENDS Timer, TLC

DispatcherSymmetry == Permutations(Dispatchers)
=============================================================================
