---------------------------------- MODULE Splice ----------------------------------
(***************************************************************************)
(* The life of one data channel after data.attach: browser <-> relay <->   *)
(* bridge host <-> local service.  The relay's splice (splice.go) and the  *)
(* host's handleInbound and spliceBoth (thost.go) each run one io.Copy per *)
(* direction; a copy that ends half-closes the socket it wrote to, and the *)
(* process closes both sockets when both copies have ended.                *)
(*                                                                         *)
(* A direction is a chain of three pipes (TCP streams) between node 0, its *)
(* source, and node 3, its sink, so that connection c is pipe c of "up"    *)
(* and pipe 4 - c of "down".  TCP: a pipe holds at most Cap bytes, and     *)
(* closing a socket that has unread bytes, or writing to a closed one,     *)
(* resets the connection.  Bytes carry their number.                       *)
(***************************************************************************)
EXTENDS Integers, Sequences, FiniteSets

CONSTANTS MaxBytes,  \* bytes an end sends at most, per direction
          Cap

Dirs == {"up", "down"}
ASSUME SpliceAssumption == MaxBytes \in [Dirs -> Nat] /\ Cap \in Nat \ {0}

Bytes == UNION {1..MaxBytes[d] : d \in Dirs}
Procs == {"relay", "host"}
Hops == 1..3
Copies == Dirs \X {1, 2}

Ack == 0        \* the data.ack frame
None == -1

VARIABLES pipe,      \* pipe[d][h]: the bytes on the way and whether the end was sent
          reset,     \* the connections that were reset
          closed,    \* the sockets that were closed: <<node, connection>>
          procPc,    \* where serveData and handleInbound are
          copyPc,    \* where each copy is; copy <<d, n>> reads pipe n, writes n + 1
          hand,      \* the byte a copy has read and not written
          ahead,     \* what the host's bufio.Reader read beyond data.ack
          sent, finished, got, seen, broken  \* as in BytePipe

tcpVars == <<pipe, reset, closed>>
procVars == <<procPc, copyPc, hand, ahead>>
endVars == <<sent, finished, got, seen, broken>>
spliceVars == <<tcpVars, procVars, endVars>>

Other(d) == IF d = "up" THEN "down" ELSE "up"
Conn(d, h) == IF d = "up" THEN h ELSE 4 - h

\* The socket of node n of direction d on pipe h of d, with nodes and connections
\* counted from the browser.
Sock(d, n, h) == IF d = "up" THEN <<n, h>> ELSE <<3 - n, 4 - h>>
Socks == {<<0, 1>>, <<1, 1>>, <<1, 2>>, <<2, 2>>, <<2, 3>>, <<3, 3>>}
SocksOf(p) == IF p = "relay" THEN {<<1, 1>>, <<1, 2>>} ELSE {<<2, 2>>, <<2, 3>>}
CopiesOf(p) == IF p = "relay" THEN {<<"up", 1>>, <<"down", 2>>} ELSE {<<"up", 2>>, <<"down", 1>>}

SpliceTypeOK ==
    /\ pipe \in [Dirs -> [Hops -> [q : Seq({Ack} \cup Bytes), fin : BOOLEAN]]]
    /\ reset \subseteq Hops /\ closed \subseteq Socks
    /\ procPc \in [Procs -> {"attach", "dial", "splicing", "closed"}]
    /\ copyPc \in [Copies -> {"off", "copy", "done"}]
    /\ hand \in [Copies -> {None} \cup Bytes]
    /\ ahead \in Seq(Bytes)
    /\ sent \in [Dirs -> {0} \cup Bytes] /\ finished \in [Dirs -> BOOLEAN]
    /\ got \in [Dirs -> Seq(Bytes)]
    /\ seen \in [Dirs -> {"open", "eof", "broken"}]
    /\ broken \in BOOLEAN
    /\ \A d \in Dirs, h \in Hops : Len(pipe[d][h].q) <= Cap + 1

\* The relay has written data.ack and runs its splice; the host has not read it.
SpliceInit ==
    /\ pipe = [d \in Dirs |-> [h \in Hops |->
                 [q |-> IF d = "up" /\ h = 2 THEN <<Ack>> ELSE <<>>, fin |-> FALSE]]]
    /\ reset = {} /\ closed = {}
    /\ procPc = [p \in Procs |-> IF p = "relay" THEN "splicing" ELSE "attach"]
    /\ copyPc = [c \in Copies |-> IF c \in CopiesOf("relay") THEN "copy" ELSE "off"]
    /\ hand = [c \in Copies |-> None]
    /\ ahead = <<>>
    /\ sent = [d \in Dirs |-> 0] /\ finished = [d \in Dirs |-> FALSE]
    /\ got = [d \in Dirs |-> <<>>] /\ seen = [d \in Dirs |-> "open"]
    /\ broken = FALSE

-----------------------------------------------------------------------------
\* TCP (external).

Dead(d, h) == Conn(d, h) \in reset

\* A pipe holds Cap bytes, data.ack not counted.
Framed(q) == IF q # <<>> /\ Head(q) = Ack THEN 1 ELSE 0
Room(d, h) == Len(pipe[d][h].q) - Framed(pipe[d][h].q) < Cap
AtEof(d, h) == pipe[d][h].q = <<>> /\ pipe[d][h].fin

\* Closing sockets S: the end of stream is sent, unless bytes were not read.
Unread(s) == \E d \in Dirs, h \in Hops : s = Sock(d, h, h) /\ pipe[d][h].q # <<>>
CloseSocks(S) ==
    /\ closed' = closed \cup S
    /\ reset' = reset \cup {c \in Hops : \E s \in S \ closed : s[2] = c /\ Unread(s)}
    /\ pipe' = [d \in Dirs |-> [h \in Hops |->
                  [pipe[d][h] EXCEPT !.fin = @ \/ Sock(d, h - 1, h) \in S]]]

\* A write is taken by the pipe, or lost on a socket the other side has closed.
Write(d, h, b) ==
    \/ /\ ~Dead(d, h) /\ Room(d, h) /\ Sock(d, h, h) \notin closed
       /\ pipe' = [pipe EXCEPT ![d][h].q = Append(@, b)]
       /\ UNCHANGED <<reset, closed>>
    \/ /\ ~Dead(d, h) /\ Sock(d, h, h) \in closed
       /\ reset' = reset \cup {Conn(d, h)}
       /\ UNCHANGED <<pipe, closed>>

SendFin(d, h) ==
    /\ pipe' = [pipe EXCEPT ![d][h].fin = TRUE]
    /\ UNCHANGED <<reset, closed>>

-----------------------------------------------------------------------------
\* The two processes.

\* Mutant: the copy reads the socket and not the buffered reader.
SocketOnly(q, k) == <<>>

\* Mutant: the frame is taken for data.
FrameKept(q, k) == SubSeq(q, 1, k)

\* What Raw's reader has beyond the frame when it took k items off the socket.
ReadAhead(q, k) == SubSeq(q, 2, k)

\* The host reads data.ack, and perhaps raw bytes with it.
HostReadsAck ==
    /\ procPc["host"] = "attach"
    /\ \E k \in 1..Len(pipe["up"][2].q) :
         /\ ahead' = ReadAhead(pipe["up"][2].q, k)
         /\ pipe' = [pipe EXCEPT !["up"][2].q = SubSeq(@, k + 1, Len(@))]
    /\ procPc' = [procPc EXCEPT !["host"] = "dial"]
    /\ UNCHANGED <<reset, closed, copyPc, hand, endVars>>

HostDials ==
    /\ procPc["host"] = "dial"
    /\ procPc' = [procPc EXCEPT !["host"] = "splicing"]
    /\ copyPc' = [c \in Copies |-> IF c \in CopiesOf("host") THEN "copy" ELSE copyPc[c]]
    /\ UNCHANGED <<tcpVars, hand, ahead, endVars>>

\* Does copy <<d, n>> have bytes in the buffered reader?
Buffered(d, n) == d = "up" /\ n = 2 /\ ahead # <<>>

CopyRead(d, n) ==
    /\ copyPc[<<d, n>>] = "copy" /\ hand[<<d, n>>] = None
    /\ IF Buffered(d, n)
       THEN /\ hand' = [hand EXCEPT ![<<d, n>>] = Head(ahead)]
            /\ ahead' = Tail(ahead)
            /\ UNCHANGED pipe
       ELSE /\ pipe[d][n].q # <<>>
            /\ hand' = [hand EXCEPT ![<<d, n>>] = Head(pipe[d][n].q)]
            /\ pipe' = [pipe EXCEPT ![d][n].q = Tail(@)]
            /\ UNCHANGED ahead
    /\ UNCHANGED <<reset, closed, procPc, copyPc, endVars>>

CopyWrite(d, n) ==
    /\ copyPc[<<d, n>>] = "copy" /\ hand[<<d, n>>] # None
    /\ Write(d, n + 1, hand[<<d, n>>])
    /\ hand' = [hand EXCEPT ![<<d, n>>] = None]
    /\ UNCHANGED <<procPc, copyPc, ahead, endVars>>

\* Mutant: a write that fails is tried again.
WriteRetried(d, n) ==
    hand[<<d, n>>] = None /\ ~Buffered(d, n) /\ (AtEof(d, n) \/ Dead(d, n))

\* io.Copy returns at the end of what it reads, or when a read or write fails.
CopyOver(d, n) ==
    IF hand[<<d, n>>] # None THEN Dead(d, n + 1)
    ELSE ~Buffered(d, n) /\ (AtEof(d, n) \/ Dead(d, n))

\* Mutant: no end of stream is sent.
NoHalfClose(d, h) == UNCHANGED tcpVars

CloseWrite(d, h) == SendFin(d, h)

CopyEnds(d, n) ==
    /\ copyPc[<<d, n>>] = "copy" /\ CopyOver(d, n)
    /\ copyPc' = [copyPc EXCEPT ![<<d, n>>] = "done"]
    /\ hand' = [hand EXCEPT ![<<d, n>>] = None]
    /\ CloseWrite(d, n + 1)
    /\ UNCHANGED <<procPc, ahead, endVars>>

\* Mutant: the first copy that ends is enough.
OneDone(p) == \E c \in CopiesOf(p) : copyPc[c] = "done"

\* <-done, twice.
Done(p) == \A c \in CopiesOf(p) : copyPc[c] = "done"

SpliceOver(p) ==
    /\ procPc[p] = "splicing" /\ Done(p)
    /\ procPc' = [procPc EXCEPT ![p] = "closed"]
    /\ CloseSocks(SocksOf(p))
    /\ UNCHANGED <<copyPc, hand, ahead, endVars>>

\* The host gives up before it splices: data.ack cannot be read, or the local
\* service not be dialled.
HostGivesUp ==
    /\ procPc["host"] \in {"attach", "dial"}
    /\ procPc' = [procPc EXCEPT !["host"] = "closed"]
    /\ CloseSocks({<<2, 2>>})
    /\ broken' = TRUE
    /\ UNCHANGED <<copyPc, hand, ahead, sent, finished, got, seen>>

\* A process is killed, and its system closes its sockets.
Killed(p) ==
    /\ procPc[p] # "closed"
    /\ procPc' = [procPc EXCEPT ![p] = "closed"]
    /\ copyPc' = [c \in Copies |-> IF c \in CopiesOf(p) /\ copyPc[c] = "copy" THEN "done" ELSE copyPc[c]]
    /\ hand' = [c \in Copies |-> IF c \in CopiesOf(p) THEN None ELSE hand[c]]
    /\ CloseSocks(IF procPc[p] = "splicing" THEN SocksOf(p) ELSE {<<2, 2>>})
    /\ broken' = TRUE
    /\ UNCHANGED <<ahead, sent, finished, got, seen>>

-----------------------------------------------------------------------------
\* The browser and the local service (external): the source of d and the sink of
\* the other direction are one socket, which the local service has once dialled.
Up(d) == /\ d = "down" => copyPc[<<"up", 2>>] # "off"
         /\ Sock(d, 0, 1) \notin closed
SinkUp(d) == Up(Other(d))

EndSends(d) ==
    /\ Up(d) /\ ~finished[d] /\ sent[d] < MaxBytes[d]
    /\ Write(d, 1, sent[d] + 1)
    /\ sent' = [sent EXCEPT ![d] = @ + 1]
    /\ UNCHANGED <<procVars, finished, got, seen, broken>>

EndHalfCloses(d) ==
    /\ Up(d) /\ ~finished[d]
    /\ SendFin(d, 1)
    /\ finished' = [finished EXCEPT ![d] = TRUE]
    /\ UNCHANGED <<procVars, sent, got, seen, broken>>

EndReceives(d) ==
    /\ SinkUp(d) /\ seen[d] = "open" /\ pipe[d][3].q # <<>>
    /\ got' = [got EXCEPT ![d] = Append(@, Head(pipe[d][3].q))]
    /\ pipe' = [pipe EXCEPT ![d][3].q = Tail(@)]
    /\ UNCHANGED <<reset, closed, procVars, sent, finished, seen, broken>>

EndSeesEnd(d) ==
    /\ SinkUp(d) /\ seen[d] = "open"
    /\ \/ AtEof(d, 3) /\ ~Dead(d, 3) /\ seen' = [seen EXCEPT ![d] = "eof"]
       \/ Dead(d, 3) /\ seen' = [seen EXCEPT ![d] = "broken"]
    /\ UNCHANGED <<tcpVars, procVars, sent, finished, got, broken>>

\* An end closes its socket: at the end of the exchange, or early.
EndCloses(d) ==
    /\ Up(d)
    /\ CloseSocks({Sock(d, 0, 1)})
    /\ LET early == ~finished[d] \/ seen[Other(d)] = "open" IN
         /\ broken' = (broken \/ early)
         /\ finished' = [finished EXCEPT ![d] = TRUE]
    /\ UNCHANGED <<procVars, sent, got, seen>>

SpliceNext ==
    \/ HostReadsAck
    \/ HostDials
    \/ HostGivesUp
    \/ \E d \in Dirs, n \in {1, 2} : CopyRead(d, n)
    \/ \E d \in Dirs, n \in {1, 2} : CopyWrite(d, n)
    \/ \E d \in Dirs, n \in {1, 2} : CopyEnds(d, n)
    \/ \E p \in Procs : SpliceOver(p)
    \/ \E p \in Procs : Killed(p)
    \/ \E d \in Dirs : EndSends(d)
    \/ \E d \in Dirs : EndHalfCloses(d)
    \/ \E d \in Dirs : EndReceives(d)
    \/ \E d \in Dirs : EndSeesEnd(d)
    \/ \E d \in Dirs : EndCloses(d)

\* Goroutines run on, dials return, and an end reads what it is sent.
SpliceFairness ==
    /\ WF_spliceVars(HostReadsAck) /\ WF_spliceVars(HostDials \/ HostGivesUp)
    /\ \A d \in Dirs, n \in {1, 2} :
         WF_spliceVars(CopyRead(d, n) \/ CopyWrite(d, n) \/ CopyEnds(d, n))
    /\ \A p \in Procs : WF_spliceVars(SpliceOver(p))
    /\ \A d \in Dirs : WF_spliceVars(EndReceives(d) \/ EndSeesEnd(d))

SpliceSpec == SpliceInit /\ [][SpliceNext]_spliceVars /\ SpliceFairness

-----------------------------------------------------------------------------
Pipe == INSTANCE BytePipe

\* The chain of sockets, buffers and copies is one byte pipe per direction: no
\* byte is lost, added or moved, the ones read with data.ack included, and as long
\* as nothing broke the stream ends after its last byte (relay.go:15-19,
\* wire.go:104-108).
PipeSpec == Pipe!Spec

\* A request that is half-closed gets to the local service with its end, and so
\* does a response to the browser, however silent the other direction is
\* (splice.go:9-15, thost.go:186-191).
EndArrives ==
    \A d \in Dirs : finished[d] ~> (seen[d] # "open" \/ broken)

\* When the browser or the relay is gone at one end, and the local service or the
\* host at the other, what is left of the two splices ends: no goroutine waits for
\* ever in io.Copy, and no socket stays open (splice.go:33-36, thost.go:206-209).
SplicesEnd ==
    /\ <<0, 1>> \in closed \/ procPc["relay"] = "closed"
    /\ <<3, 3>> \in closed \/ procPc["host"] = "closed"
    ~> \A p \in Procs : procPc[p] = "closed"
=============================================================================
