------------------------------- MODULE MCPairing -------------------------------
(* Pairing on two machines and four credentials, two of which may be lost  *)
(* in failed pairings.                                                     *)
EXTENDS Pairing, TLC
CONSTANTS m1, m2, k1, k2, k3, k4, c1, cfg

MCSymmetry == Permutations({m1, m2}) \cup Permutations({k1, k2, k3, k4})
=============================================================================
