------------------------------- MODULE MCToolVP -------------------------------
(* Instances of ToolVP for TLC. *)
EXTENDS ToolVP, TLC

CONSTANTS a, b, c, v1, v2, v3, v4

TaskSymmetry == Permutations({a, b}) \cup Permutations(VPs)
=============================================================================
