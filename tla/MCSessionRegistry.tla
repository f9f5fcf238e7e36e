------------------------- MODULE MCSessionRegistry -------------------------
(* SessionRegistry for TLC: small sets of rabbits and connections. *)
EXTENDS SessionRegistryProps

CONSTANTS m1, m2

TwoRabbits == {m1, m2}
=============================================================================
