--------------------------------- MODULE WsHost ---------------------------------
(***************************************************************************)
(* The Cloudflare path end to end: the Durable Object (module Worker) with *)
(* the Go host of internal/wsbridge/wsthost.go, which reconnects when its  *)
(* WebSocket breaks, and a local service that may refuse a connection,     *)
(* close it early or answer before anything else happens.                  *)
(*                                                                         *)
(* One goroutine reads the WebSocket and handles each frame, the dial of   *)
(* the local service included; one goroutine per connection reads the      *)
(* local service.  A step handles a frame or a read; several writes of one *)
(* handler are one step, since a break of the connection loses a suffix of *)
(* them. Writes to the local service do not block here.                    *)
(***************************************************************************)
EXTENDS Worker

CONSTANTS MaxDown  \* bound: chunks of a response, messages of a local service, for each

ASSUME WsHostAssumption == MaxDown \in [Conns -> Nat]

VARIABLES hostPc,   \* where runOnce of a session is
          hconns,   \* the keys of host.conns
          local,    \* the connection to the local service
          rdPc,     \* where the goroutine that reads the local service is
          upGot,    \* what was written to the local service
          downRead  \* chunks or messages read from the local service

hostVars == <<hostPc, hconns, local, rdPc, upGot, downRead>>
vars == <<workerVars, hostVars>>

TypeOK ==
    /\ WorkerTypeOK
    /\ hostPc \in [Hosts -> {"off", "dialling", "serving", "ended"}]
    /\ hconns \subseteq Conns
    /\ local \in [Conns -> {"none", "refused", "open", "closed"}]
    /\ rdPc \in [Conns -> {"none", "head", "body", "pump", "done"}]
    /\ upGot \in [Conns -> Seq(Nat \ {0})]
    /\ downRead \in [Conns -> Nat] /\ \A c \in Conns : downRead[c] <= MaxDown[c]

Init ==
    /\ WorkerInit
    /\ hostPc = [s \in Hosts |-> "off"]
    /\ hconns = {}
    /\ local = [c \in Conns |-> "none"]
    /\ rdPc = [c \in Conns |-> "none"]
    /\ upGot = [c \in Conns |-> <<>>]
    /\ downRead = [c \in Conns |-> 0]

HostAt(s, from, to) == hostPc[s] = from /\ hostPc' = [hostPc EXCEPT ![s] = to]
ReaderAt(c, from, to) == rdPc[c] = from /\ rdPc' = [rdPc EXCEPT ![c] = to]
Serving(s) == hostPc[s] = "serving"

\* host.ws is the current session, also for the goroutines of earlier ones.  What
\* is written to a session the object has left is lost.
SendWorker(ms) ==
    fromHost' = [s \in Hosts |-> IF Serving(s) /\ sesPc[s] = "open"
                                 THEN fromHost[s] \o ms ELSE fromHost[s]]

HostOnly == UNCHANGED <<hostWs, latest, sesPc, hostUp, conns, asked, fetchPc, pumpPc, bufVars,
                        browserWs, upSent, delivered>>

-----------------------------------------------------------------------------
\* Run and runOnce.

\* One session at a time.
HostDials(s) ==
    /\ \A x \in Hosts : hostPc[x] \in {"off", "ended"}
    /\ HostAt(s, "off", "dialling")
    /\ sesPc' = [sesPc EXCEPT ![s] = "dialled"]
    /\ hostUp' = [hostUp EXCEPT ![s] = TRUE]
    /\ UNCHANGED <<hostWs, latest, fromHost, conns, asked, fetchPc, pumpPc, bufVars, browserWs,
                   upSent, delivered, toHost, hconns, local, rdPc, upGot, downRead>>

\* The handshake and hello.ok; the map is new, what the old one held is left as
\* it is.  The code sets h.ws and empties the map before it reads hello.ok, so what
\* a goroutine of an earlier connection still sends may go out on the new one; the
\* object has no entry for it and ignores it, and here it is lost.
HostConnects(s) ==
    /\ HostAt(s, "dialling", "serving")
    /\ toHost[s] # <<>> /\ Head(toHost[s]) = HelloOk
    /\ toHost' = [toHost EXCEPT ![s] = Tail(@)]
    /\ hconns' = {}
    /\ HostOnly /\ UNCHANGED <<fromHost, local, rdPc, upGot, downRead>>

\* The dial or a read fails.
HostEnds(s) ==
    /\ HostAt(s, "dialling", "ended") \/ HostAt(s, "serving", "ended")
    /\ hostUp' = [hostUp EXCEPT ![s] = FALSE]
    /\ toHost' = [toHost EXCEPT ![s] = <<>>]
    /\ UNCHANGED <<hostWs, latest, sesPc, fromHost, conns, asked, fetchPc, pumpPc, bufVars,
                   browserWs, upSent, delivered, hconns, local, rdPc, upGot, downRead>>

-----------------------------------------------------------------------------
\* The read loop.
Reads(s, t) ==
    /\ Serving(s)
    /\ toHost[s] # <<>> /\ Head(toHost[s]).t = t
    /\ toHost' = [toHost EXCEPT ![s] = Tail(@)]
    /\ HostOnly /\ UNCHANGED hostPc

\* The dial of onInboundWsTunnel succeeds: an answer, and a goroutine that reads.
TunnelDialled(c) ==
    /\ rdPc' = IF c \in Wss THEN [rdPc EXCEPT ![c] = "pump"] ELSE rdPc
    /\ SendWorker(IF c \in Wss THEN <<Msg("resp", c, 0)>> ELSE <<>>)

\* The dial of onInbound, for tunnels the one of onInboundWsTunnel, succeeds.
InboundDialled(s) ==
    /\ Reads(s, "inbound")
    /\ LET c == Head(toHost[s]).conn IN
         /\ hconns' = hconns \cup {c}
         /\ local' = [local EXCEPT ![c] = "open"]
         /\ TunnelDialled(c)
    /\ UNCHANGED <<upGot, downRead>>

\* sendResp502: chunk 0 is the text of the error.
Response502(c) == <<Msg("resp", c, 0), Msg("data", c, 0), Msg("data.end", c, 0)>>

\* The dial fails, in onInbound and in onInboundWsTunnel alike.
DialFails(c) ==
    /\ local' = [local EXCEPT ![c] = "refused"]
    /\ SendWorker(Response502(c))

InboundRefused(s) ==
    /\ Reads(s, "inbound")
    /\ DialFails(Head(toHost[s]).conn)
    /\ UNCHANGED <<hconns, rdPc, upGot, downRead>>

\* onReqBody, or WriteMessage for a tunnel; write errors are ignored.
WriteLocal(m) ==
    upGot' = IF m.conn \in hconns /\ local[m.conn] = "open"
             THEN [upGot EXCEPT ![m.conn] = Append(@, m.n)] ELSE upGot

ReadsData(s) ==
    /\ Reads(s, "data")
    /\ WriteLocal(Head(toHost[s]))
    /\ UNCHANGED <<fromHost, hconns, local, rdPc, downRead>>

\* onRequestEnd: the request is complete, its response is read.
ReadsDataEnd(s) ==
    /\ Reads(s, "data.end")
    /\ LET c == Head(toHost[s]).conn IN
         rdPc' = IF c \in hconns /\ local[c] = "open" THEN [rdPc EXCEPT ![c] = "head"] ELSE rdPc
    /\ UNCHANGED <<fromHost, hconns, local, upGot, downRead>>

Finish(c) == /\ local' = [local EXCEPT ![c] = IF @ = "open" THEN "closed" ELSE @]
             /\ hconns' = hconns \ {c}

ReadsClose(s) ==
    /\ Reads(s, "close")
    /\ LET c == Head(toHost[s]).conn IN
         IF c \in hconns THEN Finish(c) ELSE UNCHANGED <<local, hconns>>
    /\ UNCHANGED <<fromHost, rdPc, upGot, downRead>>

-----------------------------------------------------------------------------
\* readResponse.  What was read ahead is still used after the connection was closed.
ReaderOnly == HostOnly /\ UNCHANGED <<toHost, hostPc, upGot>>

ResponseHead(c) ==
    /\ ReaderAt(c, "head", "body")
    /\ SendWorker(<<Msg("resp", c, 0)>>)
    /\ ReaderOnly /\ UNCHANGED <<local, hconns, downRead>>

\* The local service closes before its head is complete: nobody is told.
ResponseHeadFails(c) ==
    /\ ReaderAt(c, "head", "done")
    /\ Finish(c)
    /\ ReaderOnly /\ UNCHANGED <<fromHost, downRead>>

ReadOne(c) == downRead[c] < MaxDown[c] /\ downRead' = [downRead EXCEPT ![c] = @ + 1]

ResponseChunk(c) ==
    /\ ReaderAt(c, "body", "body")
    /\ ReadOne(c)
    /\ SendWorker(<<Msg("data", c, downRead[c] + 1)>>)
    /\ ReaderOnly /\ UNCHANGED <<local, hconns>>

\* The body is complete, or the local service broke it off: the object is told
\* the same in both cases.
ResponseEnd(c) ==
    /\ ReaderAt(c, "body", "done")
    /\ Finish(c)
    /\ SendWorker(<<Msg("data.end", c, 0)>>)
    /\ ReaderOnly /\ UNCHANGED downRead

\* The goroutine of a tunnel.  An empty message is not sent.
LocalMessage(c) ==
    /\ ReaderAt(c, "pump", "pump")
    /\ ReadOne(c)
    /\ SendWorker(IF downRead[c] + 1 \in Empty THEN <<>> ELSE <<Msg("data", c, downRead[c] + 1)>>)
    /\ ReaderOnly /\ UNCHANGED <<local, hconns>>

TunnelEnd(c) ==
    /\ ReaderAt(c, "pump", "done")
    /\ Finish(c)
    /\ SendWorker(<<Msg("data.end", c, 0)>>)
    /\ ReaderOnly /\ UNCHANGED downRead

ReadLoop(s) ==
    \/ InboundDialled(s) \/ InboundRefused(s)
    \/ ReadsData(s) \/ ReadsDataEnd(s) \/ ReadsClose(s)

Next ==
    \/ \E s \in Hosts : (Attach(s) \/ SessionCloses(s) \/ HostMsg(s)) /\ UNCHANGED hostVars
    \/ \E c \in Http : (FetchStep(c) \/ PumpStep(c)) /\ UNCHANGED hostVars
    \/ \E c \in Wss : TunnelStep(c) /\ UNCHANGED hostVars
    \/ \E s \in Hosts : HostDials(s) \/ HostConnects(s) \/ HostEnds(s)
    \/ \E s \in Hosts : ReadLoop(s)
    \/ \E c \in Http : ResponseHead(c) \/ ResponseHeadFails(c) \/ ResponseChunk(c) \/ ResponseEnd(c)
    \/ \E c \in Wss : LocalMessage(c) \/ TunnelEnd(c)

SafetySpec == Init /\ [][Next]_vars

\* Handlers, timers and goroutines run; a local service ends its response, the
\* browser reads on, and each side notices that the other one has left.
\* Sessions need not break, hosts need not reconnect, browsers need not leave.
Fairness ==
    /\ \A s \in Hosts :
         /\ WF_vars(HostMsg(s) /\ UNCHANGED hostVars)
         /\ WF_vars(~hostUp[s] /\ SessionCloses(s) /\ UNCHANGED hostVars)
         /\ WF_vars(sesPc[s] = "closed" /\ HostEnds(s))
         /\ WF_vars(ReadLoop(s))
    /\ \A c \in Http :
         /\ WF_vars((HeadSeen(c) \/ HeadFails(c)) /\ UNCHANGED hostVars)
         /\ WF_vars((PullChunk(c) \/ PullEnd(c) \/ PullError(c) \/ CancelledPull(c)) /\ UNCHANGED hostVars)
         /\ WF_vars(Demand(c) /\ UNCHANGED hostVars)
         /\ WF_vars((PumpEnds(c) \/ PumpFails(c)) /\ UNCHANGED hostVars)
         /\ WF_vars(ResponseHead(c) \/ ResponseHeadFails(c))
         /\ WF_vars(ResponseEnd(c))
    /\ \A c \in Wss :
         /\ WF_vars(browserWs[c] = "closing" /\ BrowserWsCloses(c) /\ UNCHANGED hostVars)
         /\ WF_vars(local[c] = "closed" /\ TunnelEnd(c))

Spec == SafetySpec /\ Fairness

-----------------------------------------------------------------------------
\* The host the object sends requests to is the one that attached last, until its
\* own connection breaks: the close event of a session that was replaced, which
\* comes late, does not detach its successor (handleHostAttach).
LatestAttached ==
    latest # NoHost => hostWs = IF sesPc[latest] = "open" THEN latest ELSE NoHost

\* A connection in the map was announced to the session that attached last: a
\* frame is never taken for the answer to a request that another session was
\* asked (handleHostAttach).
ConnsOfLatest == \A c \in conns : asked[c] = latest

\* What the browser receives is a prefix of what the local service answered, and
\* a response that ends without an error is all of what the host read, whatever
\* breaks, is retried or is cancelled in between (pull, readResponse).
ResponseFaithful ==
    \A c \in Http :
        LET d == delivered[c] IN
        /\ d = <<0>> \/ \A i \in 1..Len(d) : d[i] = i
        /\ fetchPc[c] = "complete" =>
             IF local[c] = "refused" THEN d = <<0>>
             ELSE rdPc[c] = "done" /\ Len(d) = downRead[c]

\* A request is completed at the local service only when its body was, and with
\* every chunk of it: never when the browser broke it off (the body pump,
\* onRequestEnd).
RequestWhole ==
    \A c \in Http : rdPc[c] # "none" => /\ pumpPc[c] = "sent"
                                        /\ upGot[c] = [i \in 1..upSent[c] |-> i]

\* The map does not leak while its host stays: an entry has a handler that will
\* remove it, but for a response the browser cancelled.
EntryHasHandler ==
    \A c \in conns : IF c \in Wss THEN browserWs[c] = "open"
                     ELSE fetchPc[c] \in {"head", "stream", "full", "cancelled", "left"}

\* No host has attached since the session of the connection has gone.
HostLeft(c) == asked[c] # NoHost /\ ~hostUp[asked[c]]
Abandoned(c) == asked[c] = latest /\ HostLeft(c)

\* Every request is answered or fails, in spite of heads that never come and
\* hosts that are replaced; only a response whose host is gone may hang, until
\* the next host attaches (handleBrowserHttp).
RequestResolved ==
    \A c \in Http : fetchPc[c] \in {"head", "stream"} ~>
                        fetchPc[c] \in {"complete", "failed", "left"} \/ (headReady[c] /\ Abandoned(c))

\* s lists numbers of ns from the smallest on, each once and none left out.
InOrder(s, ns) ==
    \A i \in 1..Len(s) : /\ s[i] \in ns
                         /\ \A j \in 1..(i - 1) : s[j] < s[i]
                         /\ \A k \in ns : k < s[i] => \E j \in 1..(i - 1) : s[j] = k

\* Through a tunnel, each side receives a prefix of the non-empty messages of the
\* other one: none is lost, repeated or reordered before the tunnel ends.
MessagesInOrder ==
    \A c \in Wss : local[c] # "refused" =>
        /\ InOrder(delivered[c], (1..downRead[c]) \ Empty)
        /\ InOrder(upGot[c], (1..upSent[c]) \ Empty)

\* A tunnel that was established and that one side has left is closed at the
\* other, while the session it belongs to is attached (tearDown, finish).
TunnelEndsTogether ==
    \A c \in Wss :
        LET detached == HostLeft(c) \/ asked[c] # latest IN
        /\ browserWs[c] = "closed" /\ local[c] = "open" ~> local[c] = "closed" \/ detached
        /\ local[c] = "closed" ~> browserWs[c] = "closed" \/ detached
=============================================================================
