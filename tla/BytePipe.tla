-------------------------------- MODULE BytePipe --------------------------------
(***************************************************************************)
(* What "a raw byte pipe, fully transparent to the two ends"               *)
(* (relay.go:15-19) promises: each end gets, in order, the bytes the other *)
(* has sent, and an end of stream after the last of them.  Once something  *)
(* broke (a process was killed, an end closed early, the local service     *)
(* cannot be reached) the stream may end anywhere, and may end like one    *)
(* that is complete.                                                       *)
(***************************************************************************)
EXTENDS Naturals, Sequences

CONSTANTS Dirs,      \* the two directions
          MaxBytes   \* bytes an end sends at most, per direction

VARIABLES sent,      \* how many bytes the source of a direction has sent
          finished,  \* it will send no more
          got,       \* what its sink has received
          seen,      \* whether the sink saw the stream "open", at "eof" or "broken"
          broken     \* something broke

pipeVars == <<sent, finished, got, seen, broken>>

Init ==
    /\ sent = [d \in Dirs |-> 0] /\ finished = [d \in Dirs |-> FALSE]
    /\ got = [d \in Dirs |-> <<>>] /\ seen = [d \in Dirs |-> "open"]
    /\ broken = FALSE

Send(d) ==
    /\ ~finished[d] /\ sent[d] < MaxBytes[d]
    /\ sent' = [sent EXCEPT ![d] = @ + 1]
    /\ UNCHANGED <<finished, got, seen, broken>>

Finish(d) ==
    /\ finished' = [finished EXCEPT ![d] = TRUE]
    /\ UNCHANGED <<sent, got, seen, broken>>

Receive(d) ==
    /\ seen[d] = "open" /\ Len(got[d]) < sent[d]
    /\ got' = [got EXCEPT ![d] = Append(@, Len(@) + 1)]
    /\ UNCHANGED <<sent, finished, seen, broken>>

SeeEnd(d) ==
    /\ \/ /\ broken \/ (finished[d] /\ Len(got[d]) = sent[d])
          /\ seen' = [seen EXCEPT ![d] = "eof"]
       \/ broken /\ seen' = [seen EXCEPT ![d] = "broken"]
    /\ UNCHANGED <<sent, finished, got, broken>>

\* An end that closes finishes sending and hears no more.
Break(ds) ==
    /\ broken' = TRUE
    /\ finished' = [d \in Dirs |-> finished[d] \/ d \in ds]
    /\ UNCHANGED <<sent, got, seen>>

Next ==
    \/ \E d \in Dirs : Send(d) \/ Finish(d) \/ Receive(d) \/ SeeEnd(d)
    \/ \E ds \in SUBSET Dirs : Break(ds)

Spec == Init /\ [][Next]_pipeVars
=============================================================================
