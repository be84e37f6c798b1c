----------------------------- MODULE MCDataPlane -----------------------------
(* Small instances of DataPlane for TLC.                                   *)
EXTENDS DataPlane, TLC

(* Flows, tokens and calls are interchangeable: no definition names one.   *)
Symmetry ==
  Permutations(Flow) \cup Permutations(Token) \cup Permutations(StartCall)
    \cup Permutations(TermCall)
=============================================================================
