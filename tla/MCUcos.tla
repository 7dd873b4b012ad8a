------------------------------- MODULE MCUcos -------------------------------
(* Ucos for TLC, with a partition of two blocks.                           *)
EXTENDS Ucos

TwoBlocks == <<101, 102>>
=============================================================================
