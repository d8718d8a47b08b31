----------------------------- MODULE MCSessions -----------------------------
(***************************************************************************)
(* Instances of Sessions for TLC.                                          *)
(***************************************************************************)
EXTENDS Sessions, TLC

MCSymmetry == Permutations(Runs) \cup Permutations(Sids)
=============================================================================
