--------------------------------- MODULE Worker ---------------------------------
(***************************************************************************)
(* The Cloudflare relay (piktak-cf/worker/src/index.ts): the Durable       *)
(* Object of one service.  It answers browser requests through the         *)
(* WebSocket a host has attached, and multiplexes them by connId.  The     *)
(* object is single-threaded: an event handler runs up to its next await   *)
(* without interruption, so a step is one event, one poll of a buffer or   *)
(* one read of a body.                                                     *)
(*                                                                         *)
(* A host attachment is a session.  Frames travel in order in each         *)
(* direction; when a connection breaks each side finds out for itself, and *)
(* what was on its way is lost.  A connId (a random UUID) is the           *)
(* connection itself, and a message or a chunk of a body is its number.    *)
(* The Access gate and the machine code are checked before any of this and *)
(* are not modelled.                                                       *)
(***************************************************************************)
EXTENDS Integers, Sequences

CONSTANTS Hosts,    \* host sessions
          NoHost,
          Http,     \* browser HTTP requests
          Wss,      \* browser WebSockets
          MaxUp,    \* bound: chunks of a request body, messages of a browser, for each
          Empty     \* the numbers of the messages that are empty

ASSUME WorkerAssumption == /\ NoHost \notin Hosts
                           /\ Http \cap Wss = {}
                           /\ MaxUp \in [Http \cup Wss -> Nat]

Conns == Http \cup Wss

VARIABLES hostWs,    \* the session that is attached
          latest,    \* the session that was attached last (history)
          sesPc,     \* a session as the object sees it
          hostUp,    \* the host's end of a session is not closed
          conns,     \* the keys of PiktakRelay.conns
          asked,     \* the session a connection was announced to
          fetchPc,   \* where the fetch handler of an HTTP request is
          pumpPc,    \* where its request body pump is
          headReady, chunks, ended, error,  \* the fields of ConnBuf
          browserWs, \* a browser WebSocket as the object sees it
          upSent,    \* chunks or messages received from the browser
          delivered, \* chunks or messages passed to the browser
          toHost, fromHost

bufVars == <<headReady, chunks, ended, error>>
linkVars == <<hostWs, latest, sesPc, hostUp, fromHost>>
workerVars == <<linkVars, conns, asked, fetchPc, pumpPc, bufVars, browserWs, upSent,
                delivered, toHost>>

Msg(t, c, n) == [t |-> t, conn |-> c, n |-> n]
HelloOk == [t |-> "hello.ok"]
ToHostFrames == {HelloOk} \cup [t : {"inbound", "data", "data.end", "close"}, conn : Conns, n : Nat]
FromHostFrames == [t : {"resp", "data", "data.end"}, conn : Conns, n : Nat]

\* A response is streamed only after its head was received.
WorkerTypeOK ==
    /\ hostWs \in Hosts \cup {NoHost}
    /\ latest \in Hosts \cup {NoHost}
    /\ sesPc \in [Hosts -> {"none", "dialled", "open", "closed"}]
    /\ hostUp \in [Hosts -> BOOLEAN]
    /\ conns \subseteq Conns
    /\ asked \in [Conns -> Hosts \cup {NoHost}]
    /\ fetchPc \in [Http -> {"idle", "head", "stream", "full", "cancelled",
                         "complete", "failed", "left"}]
    /\ pumpPc \in [Http -> {"idle", "pumping", "sent", "failed"}]
    /\ headReady \in [Http -> BOOLEAN]
    /\ chunks \in [Http -> Seq(Nat)]
    /\ ended \in [Http -> BOOLEAN]
    /\ error \in [Http -> BOOLEAN]
    /\ browserWs \in [Wss -> {"absent", "open", "closing", "closed"}]
    /\ upSent \in [Conns -> Nat] /\ \A c \in Conns : upSent[c] <= MaxUp[c]
    /\ delivered \in [Conns -> Seq(Nat)]
    /\ toHost \in [Hosts -> Seq(ToHostFrames)]
    /\ fromHost \in [Hosts -> Seq(FromHostFrames)]
    /\ \A c \in Http : fetchPc[c] \in {"stream", "full", "complete"} => headReady[c]

WorkerInit ==
    /\ hostWs = NoHost /\ latest = NoHost
    /\ sesPc = [s \in Hosts |-> "none"]
    /\ hostUp = [s \in Hosts |-> FALSE]
    /\ conns = {}
    /\ asked = [c \in Conns |-> NoHost]
    /\ fetchPc = [c \in Http |-> "idle"]
    /\ pumpPc = [c \in Http |-> "idle"]
    /\ headReady = [c \in Http |-> FALSE]
    /\ chunks = [c \in Http |-> <<>>]
    /\ ended = [c \in Http |-> FALSE]
    /\ error = [c \in Http |-> FALSE]
    /\ browserWs = [c \in Wss |-> "absent"]
    /\ upSent = [c \in Conns |-> 0]
    /\ delivered = [c \in Conns |-> <<>>]
    /\ toHost = [s \in Hosts |-> <<>>]
    /\ fromHost = [s \in Hosts |-> <<>>]

FetchAt(c, from, to) == fetchPc[c] = from /\ fetchPc' = [fetchPc EXCEPT ![c] = to]
PumpAt(c, from, to) == pumpPc[c] = from /\ pumpPc' = [pumpPc EXCEPT ![c] = to]

\* sendHost: without a host, or on a connection the host has left, it is lost.
SendHost(m) ==
    toHost' = IF hostWs # NoHost /\ hostUp[hostWs]
              THEN [toHost EXCEPT ![hostWs] = Append(@, m)] ELSE toHost

-----------------------------------------------------------------------------
\* The host attachment.

\* Mutants: the map, or the tunnels in it, survive a new attachment.
ConnsKept == conns
TunnelsKept == conns \cap Wss

ConnsAfterAttach == {}

\* What waits on the old host is stale: requests fail, tunnels are closed.
\* The socket of the old host is not closed, and its handlers stay.
Attach(s) ==
    LET stale == conns \ ConnsAfterAttach IN
    /\ sesPc[s] = "dialled" /\ sesPc' = [sesPc EXCEPT ![s] = "open"]
    /\ error' = [c \in Http |-> error[c] \/ c \in stale]
    /\ browserWs' = [c \in Wss |-> IF c \in stale THEN "closing" ELSE browserWs[c]]
    /\ conns' = ConnsAfterAttach
    /\ hostWs' = s /\ latest' = s
    /\ toHost' = IF hostUp[s] THEN [toHost EXCEPT ![s] = <<HelloOk>>] ELSE toHost
    /\ UNCHANGED <<hostUp, fromHost, asked, fetchPc, pumpPc, headReady, chunks, ended,
                   upSent, delivered>>

\* Mutant: the close event of any session detaches the host.
AlwaysDetached(s) == NoHost

HostWsAfterClose(s) == IF hostWs = s THEN NoHost ELSE hostWs

\* The close or error event of a session.
SessionCloses(s) ==
    /\ sesPc[s] = "open" /\ sesPc' = [sesPc EXCEPT ![s] = "closed"]
    /\ hostWs' = HostWsAfterClose(s)
    /\ fromHost' = [fromHost EXCEPT ![s] = <<>>]
    /\ UNCHANGED <<latest, hostUp, conns, asked, fetchPc, pumpPc, bufVars, browserWs, upSent,
                   delivered, toHost>>

-----------------------------------------------------------------------------
\* handleBrowserHttp.

\* 502 {"error":"no host"}
RefuseHttp(c) ==
    /\ hostWs = NoHost
    /\ FetchAt(c, "idle", "failed")
    /\ UNCHANGED <<linkVars, conns, asked, pumpPc, bufVars, browserWs, upSent, delivered, toHost>>

Announce(c) ==
    /\ hostWs # NoHost
    /\ conns' = conns \cup {c}
    /\ asked' = [asked EXCEPT ![c] = hostWs]
    /\ SendHost(Msg("inbound", c, 0))

HttpRequest(c) ==
    /\ FetchAt(c, "idle", "head")
    /\ PumpAt(c, "idle", "pumping")
    /\ Announce(c)
    /\ UNCHANGED <<linkVars, bufVars, browserWs, upSent, delivered>>

\* The body pump runs on whatever becomes of the response.
PumpChunk(c) ==
    /\ PumpAt(c, "pumping", "pumping")
    /\ upSent[c] < MaxUp[c]
    /\ upSent' = [upSent EXCEPT ![c] = @ + 1]
    /\ SendHost(Msg("data", c, upSent[c] + 1))
    /\ UNCHANGED <<linkVars, conns, asked, fetchPc, bufVars, browserWs, delivered>>

PumpEnds(c) ==
    /\ PumpAt(c, "pumping", "sent")
    /\ SendHost(Msg("data.end", c, 0))
    /\ UNCHANGED <<linkVars, conns, asked, fetchPc, bufVars, browserWs, upSent, delivered>>

\* Mutant: a body that breaks off is ended like a complete one.
EndAnyway(c) == Msg("data.end", c, 0)

BreakOff(c) == Msg("close", c, 0)

PumpFails(c) ==
    /\ PumpAt(c, "pumping", "failed")
    /\ error' = [error EXCEPT ![c] = TRUE]
    /\ SendHost(BreakOff(c))
    /\ UNCHANGED <<linkVars, conns, asked, fetchPc, headReady, chunks, ended, browserWs,
                   upSent, delivered>>

\* Mutant: a failed request is streamed like an answered one.
HeadOrError(c) == headReady[c] \/ error[c]

HeadReceived(c) == headReady[c] /\ ~error[c]

HeadSeen(c) ==
    /\ FetchAt(c, "head", "stream")
    /\ HeadReceived(c)
    /\ UNCHANGED <<linkVars, conns, asked, pumpPc, bufVars, browserWs, upSent, delivered, toHost>>

\* Mutant: there is no head deadline.
NoHeadDeadline(c) == error[c]

\* An error was recorded, or HEAD_TIMEOUT_MS passed without a head.
HeadLost(c) == error[c] \/ ~headReady[c]

\* Mutant: the entry is left in the map.
Remember(c) == UNCHANGED conns

Forget(c) == conns' = conns \ {c}

HeadFails(c) ==
    /\ FetchAt(c, "head", "failed")
    /\ HeadLost(c)
    /\ error' = [error EXCEPT ![c] = TRUE]
    /\ Forget(c)
    /\ SendHost(Msg("close", c, 0))
    /\ UNCHANGED <<linkVars, asked, pumpPc, headReady, chunks, ended, browserWs, upSent, delivered>>

\* pull: one poll of the buffer.  The stream calls it again only when the
\* browser wants more than the chunk it has.
PullChunk(c) ==
    /\ FetchAt(c, "stream", "stream") \/ FetchAt(c, "stream", "full")
    /\ chunks[c] # <<>>
    /\ delivered' = [delivered EXCEPT ![c] = Append(@, Head(chunks[c]))]
    /\ chunks' = [chunks EXCEPT ![c] = Tail(@)]
    /\ UNCHANGED <<linkVars, conns, asked, pumpPc, headReady, ended, error, browserWs,
                   upSent, toHost>>

\* Mutant: the end is looked at before the buffer.
EndFirst(c) == ended[c]

Drained(c) == chunks[c] = <<>> /\ ended[c]

PullEnd(c) ==
    /\ FetchAt(c, "stream", "complete")
    /\ Drained(c)
    /\ Forget(c)
    /\ UNCHANGED <<linkVars, asked, pumpPc, bufVars, browserWs, upSent, delivered, toHost>>

PullError(c) ==
    /\ FetchAt(c, "stream", "failed")
    /\ chunks[c] = <<>> /\ ~ended[c] /\ error[c]
    /\ Forget(c)
    /\ UNCHANGED <<linkVars, asked, pumpPc, bufVars, browserWs, upSent, delivered, toHost>>

Demand(c) ==
    /\ FetchAt(c, "full", "stream")
    /\ UNCHANGED <<linkVars, conns, asked, pumpPc, bufVars, browserWs, upSent, delivered, toHost>>

\* The browser goes away.  A pull that is waiting goes on; if none is, nobody
\* takes the entry out of the map before the next host attaches.
Cancel(c) ==
    /\ FetchAt(c, "stream", "cancelled") \/ FetchAt(c, "full", "left")
    /\ error' = [error EXCEPT ![c] = TRUE]
    /\ SendHost(Msg("close", c, 0))
    /\ UNCHANGED <<linkVars, conns, asked, pumpPc, headReady, chunks, ended, browserWs,
                   upSent, delivered>>

\* The last poll of that pull: enqueue and close throw on a cancelled stream.
CancelledPull(c) ==
    /\ IF chunks[c] = <<>> /\ ~ended[c]
       THEN FetchAt(c, "cancelled", "failed") /\ Forget(c)
       ELSE FetchAt(c, "cancelled", "left") /\ UNCHANGED conns
    /\ chunks' = [chunks EXCEPT ![c] = IF @ = <<>> THEN @ ELSE Tail(@)]
    /\ UNCHANGED <<linkVars, asked, pumpPc, headReady, ended, error, browserWs, upSent,
                   delivered, toHost>>

-----------------------------------------------------------------------------
\* handleBrowserWsTunnel.

WsAt(c, from, to) == browserWs[c] = from /\ browserWs' = [browserWs EXCEPT ![c] = to]

RefuseWs(c) ==
    /\ hostWs = NoHost
    /\ WsAt(c, "absent", "closed")
    /\ UNCHANGED <<linkVars, conns, asked, fetchPc, pumpPc, bufVars, upSent, delivered, toHost>>

WsOpens(c) ==
    /\ WsAt(c, "absent", "open")
    /\ Announce(c)
    /\ UNCHANGED <<linkVars, fetchPc, pumpPc, bufVars, upSent, delivered>>

\* An empty message is not forwarded.  One that arrives after the object has closed
\* its side, and before the close event, is.
BrowserMessage(c) ==
    /\ WsAt(c, "open", "open") \/ WsAt(c, "closing", "closing")
    /\ upSent[c] < MaxUp[c]
    /\ upSent' = [upSent EXCEPT ![c] = @ + 1]
    /\ IF upSent'[c] \in Empty THEN UNCHANGED toHost ELSE SendHost(Msg("data", c, upSent'[c]))
    /\ UNCHANGED <<linkVars, conns, asked, fetchPc, pumpPc, bufVars, delivered>>

\* Mutant: the host is not told that the browser has gone.
HostNotTold(c) == UNCHANGED toHost

TellHost(c) == SendHost(Msg("close", c, 0))

\* tearDown, on the close or error event; also after the object has closed it.
BrowserWsCloses(c) ==
    /\ WsAt(c, "open", "closed") \/ WsAt(c, "closing", "closed")
    /\ Forget(c)
    /\ TellHost(c)
    /\ UNCHANGED <<linkVars, asked, fetchPc, pumpPc, bufVars, upSent, delivered>>

-----------------------------------------------------------------------------
\* onHostMsg.  The handler of a replaced session runs as well, and a frame for a
\* connection that is not in the map is ignored.  The host never sends close.
OnHostMsg(m) ==
    LET c == m.conn
        http == c \in conns \cap Http
        tunnel == c \in conns \cap Wss
    IN  /\ headReady' = IF http /\ m.t = "resp" THEN [headReady EXCEPT ![c] = TRUE] ELSE headReady
        /\ chunks' = IF http /\ m.t = "data" THEN [chunks EXCEPT ![c] = Append(@, m.n)] ELSE chunks
        /\ ended' = IF http /\ m.t = "data.end" THEN [ended EXCEPT ![c] = TRUE] ELSE ended
        /\ delivered' = IF tunnel /\ m.t = "data" /\ browserWs[c] = "open"
                        THEN [delivered EXCEPT ![c] = Append(@, m.n)] ELSE delivered
        /\ IF tunnel /\ m.t = "data.end"
           THEN browserWs' = [browserWs EXCEPT ![c] = "closing"] /\ Forget(c)
           ELSE UNCHANGED <<browserWs, conns>>

HostMsg(s) ==
    /\ sesPc[s] = "open" /\ fromHost[s] # <<>>
    /\ OnHostMsg(Head(fromHost[s]))
    /\ fromHost' = [fromHost EXCEPT ![s] = Tail(@)]
    /\ UNCHANGED <<hostWs, latest, sesPc, hostUp, asked, fetchPc, pumpPc, error, upSent, toHost>>

FetchStep(c) ==
    \/ RefuseHttp(c) \/ HttpRequest(c)
    \/ HeadSeen(c) \/ HeadFails(c)
    \/ PullChunk(c) \/ PullEnd(c) \/ PullError(c) \/ Demand(c)
    \/ Cancel(c) \/ CancelledPull(c)
PumpStep(c) == PumpChunk(c) \/ PumpEnds(c) \/ PumpFails(c)
TunnelStep(c) == RefuseWs(c) \/ WsOpens(c) \/ BrowserMessage(c) \/ BrowserWsCloses(c)
=============================================================================
