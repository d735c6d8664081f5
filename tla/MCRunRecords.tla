---------------------------- MODULE MCRunRecords ----------------------------
(* RunRecords with two interchangeable processes. *)
EXTENDS RunRecords, TLC

CONSTANTS p1, p2

MCSymmetry == Permutations({p1, p2})
=============================================================================
