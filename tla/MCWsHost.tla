-------------------------------- MODULE MCWsHost --------------------------------
(* The Cloudflare path: two host sessions one after the other, and one     *)
(* browser connection, of either kind.                                     *)
EXTENDS WsHost, FiniteSets
CONSTANTS s1, s2, r1, w1

MCMax == [c \in Conns |-> IF c \in Http THEN 2 ELSE 3]

Used == {c \in Http : fetchPc[c] # "idle"} \cup {c \in Wss : browserWs[c] # "absent"}
MCSpec == Init /\ [][Next /\ Cardinality(Used') <= 1]_vars /\ Fairness
=============================================================================
