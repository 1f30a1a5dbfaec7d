---------------------------- MODULE MCController ----------------------------
(* Instances of Controller for TLC. *)
EXTENDS Controller, TLC

ControllerSymmetry == Permutations(Ws) \cup Permutations(Nodes)
=============================================================================
