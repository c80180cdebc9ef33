----------------------------- MODULE MCSampling -----------------------------
(***************************************************************************)
(* A small instance of Sampling for TLC.                                   *)
(***************************************************************************)
EXTENDS Sampling, TLC

CONSTANTS db, http

ChildSymmetry == Permutations({db, http})
=============================================================================
