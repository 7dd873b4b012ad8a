------------------------------ MODULE MCHooks -------------------------------
(* Hooks for TLC.                                                          *)
EXTENDS Hooks, TLC

Symmetric == Permutations(Procs)
=============================================================================
