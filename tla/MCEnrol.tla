-------------------------------- MODULE MCEnrol --------------------------------
(* Two services that share a code and a credential file.                   *)
EXTENDS Enrol
CONSTANTS m1, m2, k1, k2, k3, c1, cfg, s1, s2
=============================================================================
