----------------------------- MODULE MCChatRuns -----------------------------
(***************************************************************************)
(* Instances of ChatRuns for TLC.                                          *)
(***************************************************************************)
EXTENDS ChatRuns, TLC

\* Runs, callers, savers and frontends are interchangeable within their set.
MCSymmetry == Permutations(Runs) \cup Permutations(Callers)
              \cup Permutations(Frontends) \cup Permutations(Savers)
=============================================================================
