---------------------------- MODULE InboundLifecycle ----------------------------
(***************************************************************************)
(* What the ingress of the Go Relay promises about one inbound browser     *)
(* connection, whatever goroutines carry it out: the browser waits, is     *)
(* given to at most one data channel, and once closed is never served      *)
(* again; a data channel serves at most one browser and keeps it.          *)
(***************************************************************************)
CONSTANTS Conns, Attachers, NoConn

VARIABLES phase,    \* the life of each inbound connection
          serving   \* the connection each data channel was given

lifecycleVars == <<phase, serving>>

Phases == {"new", "waiting", "served", "closed"}

Init == /\ phase = [b \in Conns |-> "new"]
        /\ serving = [a \in Attachers |-> NoConn]

Move(b, from, to) == phase[b] = from /\ phase' = [phase EXCEPT ![b] = to]

Arrive(b) == Move(b, "new", "waiting") /\ UNCHANGED serving

Refuse(b) == Move(b, "new", "closed") /\ UNCHANGED serving

Serve(b, a) == /\ Move(b, "waiting", "served")
               /\ serving[a] = NoConn
               /\ serving' = [serving EXCEPT ![a] = b]

\* The relay gives up on a waiting browser, or the splice of a served one ends.
End(b) == (Move(b, "waiting", "closed") \/ Move(b, "served", "closed")) /\ UNCHANGED serving

\* Tearing a host down ends every browser of a set in one critical section.
EndAll(B) == /\ \A b \in B : phase[b] = "waiting"
             /\ phase' = [b \in Conns |-> IF b \in B THEN "closed" ELSE phase[b]]
             /\ UNCHANGED serving

Next == \/ \E b \in Conns : Arrive(b) \/ Refuse(b) \/ End(b)
        \/ \E b \in Conns, a \in Attachers : Serve(b, a)
        \/ \E B \in SUBSET Conns : EndAll(B)

Spec == Init /\ [][Next]_lifecycleVars
=============================================================================
