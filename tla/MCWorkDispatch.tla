--------------------------- MODULE MCWorkDispatch ---------------------------
(***************************************************************************)
(* Small instances of WorkDispatch.                                        *)
(***************************************************************************)
EXTENDS WorkDispatch, TLC

Symmetry == Permutations(Builds)
=============================================================================
