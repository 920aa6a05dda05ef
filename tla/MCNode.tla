------------------------------- MODULE MCNode -------------------------------
(* Node for TLC: calls and targets are interchangeable in the safety runs. *)
EXTENDS Node, TLC

Symmetry == Permutations(Calls) \cup Permutations(Targets) \cup Permutations(MountpointPods)
=============================================================================
