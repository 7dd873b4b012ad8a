---------------------------- MODULE MCRecompile -----------------------------
(* Recompile for TLC, with all functions of at most Length instructions.   *)
EXTENDS Recompile

CONSTANT Length

Instructions ==
  {<<"mov", 0>>, <<"movdl", 2>>, <<"movdl", 107>>, <<"add", 1>>, <<"add", 100>>,
   <<"sub", 1>>, <<"imul", 2>>, <<"imul", 60>>, <<"div", 0>>}

ShortFunctions == UNION {[1..n -> Instructions] : n \in 1..Length}
=============================================================================
