---------------------------- MODULE MCImportCache ----------------------------
(* Instantiates ImportCache with surface handles as model values. *)
EXTENDS ImportCache, TLC

CONSTANTS h1, h2

HandleSymmetry == Permutations(Handles)
=============================================================================
