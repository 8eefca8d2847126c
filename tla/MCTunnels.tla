------------------------------- MODULE MCTunnels -------------------------------
EXTENDS Tunnels, TLC

MCSymmetry == Permutations(Sessions) \cup Permutations(Clients) \cup Permutations(Tuns)
=============================================================================
