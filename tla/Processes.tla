------------------------------ MODULE Processes ------------------------------
(* The process table: the processes that may exist while the proxy runs.   *)
EXTENDS Naturals, FiniteSets

CONSTANT Procs

ASSUME ProcessesAssumption == IsFiniteSet(Procs)
=============================================================================
