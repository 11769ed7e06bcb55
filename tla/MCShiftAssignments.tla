-------------------------- MODULE MCShiftAssignments --------------------------
(* Instances of ShiftAssignments for TLC. *)
EXTENDS ShiftAssignments, TLC

ShiftSymmetry == Permutations(Shifts)
===============================================================================
