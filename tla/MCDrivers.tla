----------------------------- MODULE MCDrivers ------------------------------
(* Drivers for TLC, with texts of one character.                            *)
EXTENDS Drivers, TLC

OneChar == <<"g">>
LineTwo == <<"w">>

OneAndFour == [i \in 0..1 |-> 4^i]

Symmetric == Permutations(Users) \cup Permutations(Addresses)
=============================================================================
