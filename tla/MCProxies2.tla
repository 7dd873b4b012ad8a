----------------------------- MODULE MCProxies2 -----------------------------
(* Proxies2 for TLC, with all digests in one subdirectory.                 *)
EXTENDS Proxies2, TLC

SharedDir == LET d == CHOOSE d \in Dirs : TRUE IN [u \in Urls |-> d]

Symmetric ==
  Permutations(Procs \ Roots) \cup Permutations(Conns) \cup Permutations(Roots)
=============================================================================
