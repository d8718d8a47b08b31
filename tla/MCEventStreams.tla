--------------------------- MODULE MCEventStreams ---------------------------
(***************************************************************************)
(* Instances of EventStreams for TLC.                                      *)
(***************************************************************************)
EXTENDS EventStreams, TLC

MCSymmetry == Permutations(Runs) \cup Permutations(Resolvers)
=============================================================================
