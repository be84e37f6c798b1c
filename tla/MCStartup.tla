------------------------------ MODULE MCStartup ------------------------------
(* Small instances of Startup for TLC.                                     *)
EXTENDS Startup, TLC

Symmetry == Permutations(Port)
=============================================================================
