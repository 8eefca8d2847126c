------------------------------- MODULE MCSplice -------------------------------
(* Two bytes to the local service, one back, through pipes of one byte.    *)
EXTENDS Splice

MCMaxBytes == [d \in Dirs |-> IF d = "up" THEN 2 ELSE 1]
=============================================================================
