----------------------------- MODULE MCProxy31 -----------------------------
(* Proxy31 for TLC: the two ways the digests of the URLs may fall, and the *)
(* values that are interchangeable.                                        *)
EXTENDS Proxy31, TLC

\* The first three digits of no two digests agree.
OwnDir == CHOOSE f \in [Urls -> Dirs] : \A u, v \in Urls : f[u] = f[v] => u = v

\* All of them agree.
SharedDir == LET d == CHOOSE d \in Dirs : TRUE IN [u \in Urls |-> d]

Symmetric ==
  Permutations(Procs \ Roots) \cup Permutations(Conns) \cup Permutations(Roots)
=============================================================================
