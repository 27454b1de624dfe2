---------------------------- MODULE MCUnifiedExec ----------------------------
(***************************************************************************)
(* Model checking of UnifiedExec: process ids are interchangeable.         *)
(***************************************************************************)
EXTENDS UnifiedExec, TLC

IdSymmetry == Permutations(Ids)
=============================================================================
