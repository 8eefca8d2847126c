---------------------------- MODULE MCTransparent ----------------------------
(* Transparent mode on small instances.                                    *)
EXTENDS Transparent, TLC
CONSTANTS s1, s2, h1, b1, a1

=============================================================================
