------------------------------- MODULE MCIngress -------------------------------
(* Ingress on a small instance.  Model values are permuted where no        *)
(* liveness property is checked and every session uses tokens.             *)
EXTENDS Ingress, TLC
CONSTANTS s1, s2, h1, h2, b1, b2, a1, a2

MCTokenSessions == {s1, s2}
MCSymmetry == Permutations({h1, h2}) \cup Permutations({b1, b2})
              \cup Permutations({a1, a2}) \cup Permutations({s1, s2})
=============================================================================
