------------------------------ MODULE WsHostProofs ------------------------------
(***************************************************************************)
(* Proofs about the Cloudflare path, for any number of host sessions,      *)
(* requests and tunnels: nothing that passes through the object and the Go *)
(* host is lost, repeated or reordered before an end that counts.  Every   *)
(* property follows from one inductive invariant, IInv, which links what a *)
(* reader has had with what is still in the queue (module FrameChains).    *)
(***************************************************************************)
EXTENDS WsHost, FrameChains

Had(s) == {s[i] : i \in 1..Len(s)}
Asked(c) == asked[c] # NoHost

\* One session at a time; what was attached, or asked, is a session that opened.
SessionInv ==
    /\ \A s, x \in Hosts : hostUp[s] /\ hostUp[x] => s = x
    /\ \A s \in Hosts : hostUp[s] <=> hostPc[s] \in {"dialling", "serving"}
    /\ \A s \in Hosts : sesPc[s] = "none" <=> hostPc[s] = "off"
    /\ \A s \in Hosts : toHost[s] # <<>> \/ Serving(s) => sesPc[s] \in {"open", "closed"}
    /\ latest = NoHost => hostWs = NoHost
    /\ latest # NoHost => sesPc[latest] \in {"open", "closed"}
    /\ \A c \in Conns : Asked(c) => sesPc[asked[c]] \in {"open", "closed"}

\* A connection nobody was asked about is nowhere.
HandlerInv ==
    /\ \A c \in Conns : ~Asked(c) => c \notin conns
    /\ \A c \in Http : IF Asked(c) THEN fetchPc[c] # "idle" /\ pumpPc[c] # "idle"
                       ELSE fetchPc[c] \in {"idle", "failed"} /\ pumpPc[c] = "idle"
    /\ \A c \in Wss : IF Asked(c) THEN browserWs[c] # "absent"
                      ELSE browserWs[c] \in {"absent", "closed"}

NewInv == HandlerInv /\ \A c \in Conns : ~Asked(c) => local[c] = "none" /\ upSent[c] = 0

\* The frames for the host are about connections it was asked about.
UpFrames == {m \in ToHostFrames : m.t # "hello.ok" =>
                /\ Asked(m.conn)
                /\ m.t = "data" => m.n # 0
                /\ m.t = "data.end" => m.conn \in Http /\ pumpPc[m.conn] = "sent"}
UpFramesInv == \A s \in Hosts : toHost[s] \in Seq(UpFrames)

\* The announcement of a connection comes before all else that is sent about it.
AboutIt == {"inbound", "data", "data.end", "close"}
AnnouncedInv ==
    \A c \in Conns, s \in Hosts :
        /\ First(toHost[s], c, "inbound", AboutIt)
        /\ Has(toHost[s], c, "inbound") => asked[c] = s /\ local[c] = "none"

\* A request body ends once.
EndInv ==
    \A c \in Http : Asked(c) =>
        /\ Once(toHost[asked[c]], c, "data.end")
        /\ Has(toHost[asked[c]], c, "data.end") => rdPc[c] = "none"

\* The reader of the local service starts once, and the map of the host is that of
\* the session it serves.
LocalInv ==
    /\ \A c \in Conns : local[c] = "none" => upGot[c] = <<>>
    /\ \A c \in Conns : local[c] \in {"none", "refused"} => /\ rdPc[c] = "none"
                                                            /\ downRead[c] = 0
                                                            /\ c \notin hconns
    /\ \A c \in Http : rdPc[c] \in {"none", "head"} => downRead[c] = 0
    /\ \A c \in hconns, s \in Hosts : Serving(s) => asked[c] = s

\* What the object has sent, or the host has read, of a connection.
EmptyOf(c) == IF c \in Wss THEN Empty ELSE {}
Sent(c) == (1..upSent[c]) \ EmptyOf(c)
Read(c) == IF local[c] = "refused" THEN {0} ELSE (1..downRead[c]) \ EmptyOf(c)

\* The host takes what is sent about a connection now, or will once it has read
\* the announcement.
Taking(c) == c \in hconns /\ local[c] = "open"
Ready(c) == Taking(c) \/ Has(toHost[asked[c]], c, "inbound")
Attached(c) == hostWs = asked[c] /\ hostUp[asked[c]]

UpLinked(c) == Asked(c) /\ Ready(c) =>
                   Link(toHost[asked[c]], c, Had(upGot[c]), Sent(c), Attached(c))
UpPart(c) ==
    /\ UpLinked(c) /\ InOrder(upGot[c], Sent(c))
    /\ c \in Http => \A i \in 1..Len(upGot[c]) : upGot[c][i] = i
UpInv == \A c \in Conns : UpPart(c)

\* A session that the host uses now was attached after what another one has
\* started was given up.
StartedInv ==
    \A s \in Hosts : hostUp[s] /\ sesPc[s] \in {"open", "closed"} =>
        \A c \in Conns : local[c] # "none" /\ asked[c] # s => c \notin conns

\* A session that has not had its hello.ok has started nothing.
DiallingInv == \A c \in Conns : Asked(c) /\ hostPc[asked[c]] = "dialling" => local[c] = "none"

Over(c) == local[c] = "refused" \/ rdPc[c] = "done"
DownFrames(s) == {m \in FromHostFrames :
                     /\ local[m.conn] # "none"
                     /\ asked[m.conn] # s => m.conn \notin conns
                     /\ m.t = "data.end" => Over(m.conn)}
DownFramesInv == \A s \in Hosts : fromHost[s] \in Seq(DownFrames(s))

\* A response the browser still waits for.
Active(c) == c \in Http => fetchPc[c] \in {"head", "stream", "full"}
Received(c) == IF c \in Http THEN delivered[c] \o chunks[c] ELSE delivered[c]
Connected(c) == Serving(asked[c]) /\ sesPc[asked[c]] = "open"

DownLinked(c) == c \in conns /\ Active(c) =>
                     Link(fromHost[asked[c]], c, Had(Received(c)), Read(c), Connected(c))
DownPart(c) ==
    /\ DownLinked(c) /\ InOrder(delivered[c], Read(c))
    /\ Active(c) => InOrder(Received(c), Read(c))
    /\ (c \in Http /\ local[c] # "refused") =>
          /\ \A i \in 1..Len(delivered[c]) : delivered[c][i] = i
          /\ Active(c) => \A i \in 1..Len(Received(c)) : Received(c)[i] = i
    /\ local[c] = "none" => delivered[c] = <<>> /\ (c \in Http => chunks[c] = <<>> /\ ~ended[c])
DownInv == \A c \in Conns : DownPart(c)

\* A response that was ended is whole.
EndedPart(c) ==
    /\ ended[c] => Over(c) /\ (Active(c) => Read(c) \subseteq Had(Received(c)))
    /\ fetchPc[c] = "complete" => Over(c) /\ Read(c) \subseteq Had(delivered[c])
EndedInv == \A c \in Http : EndedPart(c)

IInv == /\ TypeOK /\ UpFramesInv /\ SessionInv /\ NewInv
        /\ LatestAttached /\ ConnsOfLatest /\ EntryHasHandler
        /\ AnnouncedInv /\ EndInv /\ LocalInv /\ UpInv /\ RequestWhole
        /\ StartedInv /\ DiallingInv /\ DownFramesInv /\ DownInv /\ EndedInv

-----------------------------------------------------------------------------
\* What the queues hold after the object or the host has sent or read.
LEMMA SendHostQueue ==
    ASSUME TypeOK, NEW m, SendHost(m), NEW s \in Hosts
    PROVE  toHost'[s] = IF s = hostWs /\ hostUp[s] THEN Append(toHost[s], m) ELSE toHost[s]
BY WorkerAssumption DEF SendHost, TypeOK, WorkerTypeOK

LEMMA SendHostType ==
    ASSUME TypeOK, NEW m, SendHost(m), NEW S, m \in S, \A s \in Hosts : toHost[s] \in Seq(S)
    PROVE  toHost' \in [Hosts -> Seq(S)]
<1>1. \A s \in Hosts : Append(toHost[s], m) \in Seq(S) BY AppendProperties
<1>2. \A s \in Hosts : toHost'[s] \in Seq(S) BY <1>1, SendHostQueue
<1>3. toHost' = [s \in Hosts |-> toHost'[s]] BY DEF SendHost, TypeOK, WorkerTypeOK
<1> QED BY <1>2, <1>3

LEMMA ReadsHead ==
    ASSUME UpFramesInv, NEW s \in Hosts, toHost[s] # <<>>
    PROVE  /\ Head(toHost[s]) = toHost[s][1] /\ Head(toHost[s]) \in UpFrames
           /\ 1 \in 1..Len(toHost[s]) /\ toHost[s] \in Seq(UpFrames)
           /\ Tail(toHost[s]) \in Seq(UpFrames)
<1>1. toHost[s] \in Seq(UpFrames) BY DEF UpFramesInv
<1>2. Len(toHost[s]) \in Nat \ {0} BY <1>1, EmptySeq
<1>3. Head(toHost[s]) = toHost[s][1] BY <1>1
<1>4. Head(toHost[s]) \in UpFrames /\ Tail(toHost[s]) \in Seq(UpFrames) BY <1>1, HeadTailProperties
<1> QED BY <1>1, <1>2, <1>3, <1>4

LEMMA TailType ==
    ASSUME TypeOK, NEW s \in Hosts, toHost[s] # <<>>, toHost' = [toHost EXCEPT ![s] = Tail(@)]
    PROVE  toHost' \in [Hosts -> Seq(ToHostFrames)]
<1>1. toHost \in [Hosts -> Seq(ToHostFrames)] BY DEF TypeOK, WorkerTypeOK
<1>2. Tail(toHost[s]) \in Seq(ToHostFrames) BY <1>1, HeadTailProperties
<1> QED BY <1>1, <1>2

LEMMA SendWorkerType ==
    ASSUME TypeOK, NEW ms \in Seq(FromHostFrames), SendWorker(ms)
    PROVE  fromHost' \in [Hosts -> Seq(FromHostFrames)]
<1>1. \A s \in Hosts : fromHost[s] \in Seq(FromHostFrames) BY DEF TypeOK, WorkerTypeOK
<1>2. \A s \in Hosts : fromHost[s] \o ms \in Seq(FromHostFrames) BY <1>1, ConcatProperties
<1> QED BY <1>1, <1>2 DEF SendWorker

LEMMA FrameTypes ==
    /\ \A c \in Conns : Msg("inbound", c, 0) \in ToHostFrames /\ Msg("close", c, 0) \in ToHostFrames
                       /\ Msg("data.end", c, 0) \in ToHostFrames
                       /\ Response502(c) \in Seq(FromHostFrames)
                       /\ <<Msg("resp", c, 0)>> \in Seq(FromHostFrames)
                       /\ <<Msg("data.end", c, 0)>> \in Seq(FromHostFrames)
    /\ \A c \in Conns, n \in Nat : Msg("data", c, n) \in ToHostFrames
                                 /\ <<Msg("data", c, n)>> \in Seq(FromHostFrames)
    /\ \A m \in FromHostFrames : m.conn \in Conns /\ m.n \in Nat
    /\ \A m \in UpFrames : /\ m \in ToHostFrames
                           /\ m.t # "hello.ok" => m.conn \in Conns /\ m.n \in Nat /\ Asked(m.conn)
                           /\ m.t = "data" => m.n \in Nat \ {0}
BY DEF Msg, ToHostFrames, FromHostFrames, UpFrames, HelloOk, Response502

-----------------------------------------------------------------------------
LEMMA TypeInit ==
    ASSUME Init
    PROVE  TypeOK
BY WorkerAssumption, WsHostAssumption DEF Init, WorkerInit, TypeOK, WorkerTypeOK, Conns

FetchPcs == {"idle", "head", "stream", "full", "cancelled", "complete", "failed", "left"}

LEMMA FetchType ==
    ASSUME TypeOK, NEW c \in Http, NEW to \in FetchPcs, fetchPc' = [fetchPc EXCEPT ![c] = to],
           to \in {"stream", "full", "complete"} => headReady[c]
    PROVE  /\ fetchPc' \in [Http -> FetchPcs]
           /\ \A d \in Http : fetchPc'[d] \in {"stream", "full", "complete"} => headReady[d]
<1>1. fetchPc \in [Http -> FetchPcs] BY DEF TypeOK, WorkerTypeOK, FetchPcs
<1>2. \A d \in Http : fetchPc[d] \in {"stream", "full", "complete"} => headReady[d]
  BY DEF TypeOK, WorkerTypeOK
<1> QED BY <1>1, <1>2

LEMMA FinishType ==
    ASSUME TypeOK, NEW c \in Conns, Finish(c)
    PROVE  local' \in [Conns -> {"none", "refused", "open", "closed"}] /\ hconns' \subseteq Conns
<1>1. local' = [local EXCEPT ![c] = "closed"] \/ local' = [local EXCEPT ![c] = local[c]]
  BY DEF Finish
<1>2. local \in [Conns -> {"none", "refused", "open", "closed"}] BY DEF TypeOK
<1>3. local' \in [Conns -> {"none", "refused", "open", "closed"}]
  <2>1. CASE local' = [local EXCEPT ![c] = "closed"] BY <1>2, <2>1
  <2>2. CASE local' = [local EXCEPT ![c] = local[c]] BY <1>2, <2>2
  <2> QED BY <1>1, <2>1, <2>2
<1> QED BY <1>3 DEF Finish, TypeOK

LEMMA WsStays ==
    ASSUME TypeOK, NEW c \in Wss, NEW place, WsAt(c, place, place)
    PROVE  browserWs' = browserWs
<1>1. browserWs \in [Wss -> {"absent", "open", "closing", "closed"}] BY DEF TypeOK, WorkerTypeOK
<1>2. browserWs[c] = place /\ browserWs' = [browserWs EXCEPT ![c] = place] BY DEF WsAt
<1> QED BY <1>1, <1>2

LEMMA ReadOneType ==
    ASSUME TypeOK, NEW c \in Conns, ReadOne(c)
    PROVE  downRead' \in [Conns -> Nat] /\ \A d \in Conns : downRead'[d] <= MaxDown[d]
<1>1. /\ downRead \in [Conns -> Nat] /\ MaxDown \in [Conns -> Nat]
      /\ \A d \in Conns : downRead[d] <= MaxDown[d]
  BY WsHostAssumption DEF TypeOK
<1>2. downRead[c] < MaxDown[c] /\ downRead' = [downRead EXCEPT ![c] = downRead[c] + 1] BY DEF ReadOne
<1>3. downRead' \in [Conns -> Nat] BY <1>1, <1>2
<1>4. ASSUME NEW d \in Conns PROVE downRead'[d] <= MaxDown[d]
  <2>1. CASE d = c BY <1>1, <1>2, <2>1
  <2>2. CASE d # c BY <1>1, <1>2, <2>2
  <2> QED BY <2>1, <2>2
<1> QED BY <1>3, <1>4

LEMMA TypeStep ==
    ASSUME TypeOK, UpFramesInv, [Next]_vars
    PROVE  TypeOK'
<1> USE WorkerAssumption, WsHostAssumption DEF Conns
<1>1. ASSUME NEW s \in Hosts, Attach(s) /\ UNCHANGED hostVars PROVE TypeOK'
  <2>1. <<HelloOk>> \in Seq(ToHostFrames) BY DEF ToHostFrames
  <2> QED BY <1>1, <2>1 DEF Attach, TypeOK, WorkerTypeOK, hostVars, ConnsAfterAttach
<1>2. ASSUME NEW s \in Hosts, SessionCloses(s) /\ UNCHANGED hostVars PROVE TypeOK'
  BY <1>2 DEF SessionCloses, HostWsAfterClose, bufVars, TypeOK, WorkerTypeOK, hostVars
<1>3. ASSUME NEW s \in Hosts, HostMsg(s) /\ UNCHANGED hostVars PROVE TypeOK'
  <2>1. fromHost[s] \in Seq(FromHostFrames) /\ fromHost[s] # <<>>
    BY <1>3 DEF HostMsg, TypeOK, WorkerTypeOK
  <2>2. Head(fromHost[s]) \in FromHostFrames /\ Tail(fromHost[s]) \in Seq(FromHostFrames)
    BY <2>1, HeadTailProperties
  <2>3. PICK m \in FromHostFrames : m = Head(fromHost[s]) BY <2>2
  <2>4. m.conn \in Conns /\ m.n \in Nat BY FrameTypes
  <2>5. /\ m.conn \in Http => Append(chunks[m.conn], m.n) \in Seq(Nat)
        /\ Append(delivered[m.conn], m.n) \in Seq(Nat)
    BY <2>4, AppendProperties DEF TypeOK, WorkerTypeOK
  <2>6. OnHostMsg(m) /\ fromHost' = [fromHost EXCEPT ![s] = Tail(fromHost[s])]
        /\ UNCHANGED <<hostWs, latest, sesPc, hostUp, asked, fetchPc, pumpPc, error, upSent, toHost>>
        /\ UNCHANGED hostVars
    BY <1>3, <2>3 DEF HostMsg
  <2>7. fromHost' \in [Hosts -> Seq(FromHostFrames)] BY <2>2, <2>6 DEF TypeOK, WorkerTypeOK
  <2>8. chunks' \in [Http -> Seq(Nat)] /\ delivered' \in [Conns -> Seq(Nat)]
    BY <2>5, <2>6 DEF OnHostMsg, TypeOK, WorkerTypeOK
  <2>9. /\ headReady' \in [Http -> BOOLEAN] /\ ended' \in [Http -> BOOLEAN]
        /\ \A d \in Http : headReady[d] => headReady'[d]
    BY <2>6 DEF OnHostMsg, TypeOK, WorkerTypeOK
  <2>10. browserWs' \in [Wss -> {"absent", "open", "closing", "closed"}] /\ conns' \subseteq Conns
    <3>1. browserWs \in [Wss -> {"absent", "open", "closing", "closed"}] /\ conns \subseteq Conns
      BY DEF TypeOK, WorkerTypeOK
    <3>2. \/ browserWs' = [browserWs EXCEPT ![m.conn] = "closing"] /\ conns' = conns \ {m.conn}
          \/ UNCHANGED <<browserWs, conns>>
      BY <2>6 DEF OnHostMsg, Forget
    <3> QED BY <3>1, <3>2
  <2> QED BY <2>6, <2>7, <2>8, <2>9, <2>10 DEF TypeOK, WorkerTypeOK, hostVars
<1>4. ASSUME NEW c \in Http, UNCHANGED hostVars,
             \/ RefuseHttp(c) \/ HeadSeen(c) \/ PullEnd(c) \/ PullError(c) \/ Demand(c)
      PROVE  TypeOK'
  <2> USE DEF FetchAt, TypeOK, WorkerTypeOK, hostVars, linkVars, bufVars
  <2>1. CASE RefuseHttp(c) BY <1>4, <2>1 DEF RefuseHttp
  <2>2. CASE HeadSeen(c) BY <1>4, <2>2 DEF HeadSeen, HeadReceived
  <2>3. CASE PullEnd(c) BY <1>4, <2>3 DEF PullEnd, Forget
  <2>4. CASE PullError(c) BY <1>4, <2>4 DEF PullError, Forget
  <2>5. CASE Demand(c) BY <1>4, <2>5 DEF Demand
  <2> QED BY <1>4, <2>1, <2>2, <2>3, <2>4, <2>5
<1>5. ASSUME NEW c \in Http, UNCHANGED hostVars, PullChunk(c) \/ CancelledPull(c) PROVE TypeOK'
  <2>1. chunks[c] # <<>> => Tail(chunks[c]) \in Seq(Nat)
                            /\ Append(delivered[c], Head(chunks[c])) \in Seq(Nat)
    BY HeadTailProperties, AppendProperties DEF TypeOK, WorkerTypeOK
  <2> USE DEF FetchAt, TypeOK, WorkerTypeOK, hostVars, linkVars
  <2>2. CASE PullChunk(c)
    <3>1. fetchPc' = [fetchPc EXCEPT ![c] = "stream"] \/ fetchPc' = [fetchPc EXCEPT ![c] = "full"]
      BY <2>2 DEF PullChunk
    <3>2. headReady[c] BY <2>2 DEF PullChunk
    <3>3. delivered' \in [Conns -> Seq(Nat)] /\ chunks' \in [Http -> Seq(Nat)]
      BY <2>1, <2>2 DEF PullChunk
    <3>4. /\ fetchPc' \in [Http -> FetchPcs]
          /\ \A d \in Http : fetchPc'[d] \in {"stream", "full", "complete"} => headReady[d]
      BY <3>1, <3>2, FetchType DEF FetchPcs
    <3>5. UNCHANGED <<linkVars, conns, asked, pumpPc, headReady, ended, error, browserWs,
                      upSent, toHost>>
      BY <2>2 DEF PullChunk
    <3> QED BY <1>5, <3>3, <3>4, <3>5 DEF FetchPcs
  <2>3. CASE CancelledPull(c)
    <3>1. \/ fetchPc' = [fetchPc EXCEPT ![c] = "failed"] /\ conns' = conns \ {c}
          \/ fetchPc' = [fetchPc EXCEPT ![c] = "left"] /\ conns' = conns
      BY <2>3 DEF CancelledPull, Forget
    <3>2. chunks' \in [Http -> Seq(Nat)] BY <2>1, <2>3 DEF CancelledPull
    <3>3. /\ fetchPc' \in [Http -> FetchPcs]
          /\ \A d \in Http : fetchPc'[d] \in {"stream", "full", "complete"} => headReady[d]
      BY <3>1, FetchType DEF FetchPcs
    <3>4. UNCHANGED <<linkVars, asked, pumpPc, headReady, ended, error, browserWs, upSent,
                      delivered, toHost>>
      BY <2>3 DEF CancelledPull
    <3>5. conns' \subseteq Conns BY <3>1
    <3> QED BY <1>5, <3>2, <3>3, <3>4, <3>5 DEF FetchPcs
  <2> QED BY <1>5, <2>2, <2>3
<1>6. ASSUME NEW c \in Http, UNCHANGED hostVars,
             \/ HttpRequest(c) \/ HeadFails(c) \/ Cancel(c)
             \/ PumpChunk(c) \/ PumpEnds(c) \/ PumpFails(c)
      PROVE  TypeOK'
  <2>1. toHost' \in [Hosts -> Seq(ToHostFrames)]
    <3>1. \E m \in ToHostFrames : SendHost(m)
      BY <1>6, FrameTypes DEF HttpRequest, HeadFails, Cancel, PumpChunk, PumpEnds, PumpFails,
                              Announce, BreakOff, TypeOK, WorkerTypeOK
    <3> QED BY <3>1, SendHostType DEF TypeOK, WorkerTypeOK
  <2> USE DEF FetchAt, PumpAt, TypeOK, WorkerTypeOK, hostVars, linkVars, bufVars
  <2>2. CASE HttpRequest(c) BY <1>6, <2>1, <2>2 DEF HttpRequest, Announce
  <2>3. CASE HeadFails(c) BY <1>6, <2>1, <2>3 DEF HeadFails, Forget
  <2>4. CASE Cancel(c)
    <3>1. fetchPc' = [fetchPc EXCEPT ![c] = "cancelled"] \/ fetchPc' = [fetchPc EXCEPT ![c] = "left"]
      BY <2>4 DEF Cancel
    <3>2. /\ fetchPc' \in [Http -> FetchPcs]
          /\ \A d \in Http : fetchPc'[d] \in {"stream", "full", "complete"} => headReady[d]
      BY <3>1, FetchType DEF FetchPcs
    <3>3. UNCHANGED <<linkVars, conns, asked, pumpPc, headReady, chunks, ended, browserWs,
                      upSent, delivered>>
      BY <2>4 DEF Cancel
    <3>4. error' \in [Http -> BOOLEAN] BY <2>4 DEF Cancel
    <3> QED BY <1>6, <2>1, <3>2, <3>3, <3>4 DEF FetchPcs
  <2>5. CASE PumpChunk(c)
    <3>1. pumpPc' = pumpPc BY <2>5 DEF PumpChunk
    <3>2. upSent' \in [Conns -> Nat] /\ \A d \in Conns : upSent'[d] <= MaxUp[d]
      BY <2>5 DEF PumpChunk
    <3> QED BY <1>6, <2>1, <2>5, <3>1, <3>2 DEF PumpChunk
  <2>6. CASE PumpEnds(c) BY <1>6, <2>1, <2>6 DEF PumpEnds
  <2>7. CASE PumpFails(c) BY <1>6, <2>1, <2>7 DEF PumpFails
  <2> QED BY <1>6, <2>2, <2>3, <2>4, <2>5, <2>6, <2>7
<1>7. ASSUME NEW c \in Wss, TunnelStep(c) /\ UNCHANGED hostVars PROVE TypeOK'
  <2>1. toHost' \in [Hosts -> Seq(ToHostFrames)]
    <3>1. UNCHANGED toHost \/ \E m \in ToHostFrames : SendHost(m)
      BY <1>7, FrameTypes DEF TunnelStep, RefuseWs, WsOpens, BrowserMessage, BrowserWsCloses, TellHost,
                              Announce, TypeOK, WorkerTypeOK
    <3> QED BY <3>1, SendHostType DEF TypeOK, WorkerTypeOK
  <2>2. BrowserMessage(c) => browserWs' = browserWs BY WsStays DEF BrowserMessage
  <2> USE DEF WsAt, TypeOK, WorkerTypeOK, hostVars, linkVars, bufVars
  <2>3. CASE RefuseWs(c) BY <1>7, <2>1, <2>3 DEF RefuseWs
  <2>4. CASE WsOpens(c) BY <1>7, <2>1, <2>4 DEF WsOpens, Announce
  <2>5. CASE BrowserMessage(c)
    <3>1. upSent' \in [Conns -> Nat] /\ \A d \in Conns : upSent'[d] <= MaxUp[d]
      BY <2>5 DEF BrowserMessage
    <3>2. UNCHANGED <<linkVars, conns, asked, fetchPc, pumpPc, bufVars, delivered>>
      BY <2>5 DEF BrowserMessage
    <3> QED BY <1>7, <2>1, <2>2, <2>5, <3>1, <3>2
  <2>6. CASE BrowserWsCloses(c) BY <1>7, <2>1, <2>6 DEF BrowserWsCloses, Forget
  <2> QED BY <1>7, <2>3, <2>4, <2>5, <2>6 DEF TunnelStep
<1>8. ASSUME NEW s \in Hosts, HostDials(s) \/ HostConnects(s) \/ HostEnds(s) PROVE TypeOK'
  <2>1. HostConnects(s) => toHost' \in [Hosts -> Seq(ToHostFrames)] BY TailType DEF HostConnects
  <2> USE DEF HostAt, HostOnly, TypeOK, WorkerTypeOK, bufVars
  <2>2. CASE HostDials(s) BY <2>2 DEF HostDials
  <2>3. CASE HostConnects(s) BY <2>1, <2>3 DEF HostConnects
  <2>4. CASE HostEnds(s)
    <3>1. hostPc' = [hostPc EXCEPT ![s] = "ended"] BY <2>4 DEF HostEnds
    <3>2. toHost' \in [Hosts -> Seq(ToHostFrames)] BY <2>4 DEF HostEnds
    <3> QED BY <2>4, <3>1, <3>2 DEF HostEnds
  <2> QED BY <1>8, <2>2, <2>3, <2>4
<1>9. ASSUME NEW s \in Hosts, ReadLoop(s) PROVE TypeOK'
  <2>1. toHost[s] # <<>> BY <1>9 DEF ReadLoop, InboundDialled, InboundRefused, ReadsData, ReadsDataEnd,
                                     ReadsClose, Reads
  <2>2. PICK m \in UpFrames : m = Head(toHost[s]) BY <2>1, ReadsHead
  <2>3. m.t # "hello.ok"
    BY <1>9, <2>2 DEF ReadLoop, InboundDialled, InboundRefused, ReadsData, ReadsDataEnd, ReadsClose, Reads
  <2>4. m.conn \in Conns /\ (m.t = "data" => m.n \in Nat \ {0}) BY <2>3, FrameTypes
  <2>5. toHost' \in [Hosts -> Seq(ToHostFrames)]
    BY <1>9, <2>1, TailType DEF ReadLoop, InboundDialled, InboundRefused, ReadsData, ReadsDataEnd,
                                ReadsClose, Reads
  <2>6. m.t = "data" => Append(upGot[m.conn], m.n) \in Seq(Nat \ {0})
    BY <2>4, AppendProperties DEF TypeOK
  <2>7. fromHost' \in [Hosts -> Seq(FromHostFrames)]
    <3>1. \/ UNCHANGED fromHost
          \/ \E ms \in Seq(FromHostFrames) : SendWorker(ms)
      <4>1. <<>> \in Seq(FromHostFrames) OBVIOUS
      <4> QED BY <1>9, <2>2, <2>4, <4>1, FrameTypes
              DEF ReadLoop, InboundDialled, TunnelDialled, InboundRefused, DialFails,
                  ReadsData, ReadsDataEnd, ReadsClose
    <3> QED BY <3>1, SendWorkerType DEF TypeOK, WorkerTypeOK
  <2> USE <2>2, <2>4, <2>5, <2>7 DEF Reads, HostOnly, TypeOK, WorkerTypeOK, bufVars
  <2>8. CASE InboundDialled(s)
    <3>1. local' \in [Conns -> {"none", "refused", "open", "closed"}] /\ hconns' \subseteq Conns
      BY <2>8 DEF InboundDialled
    <3>2. rdPc' \in [Conns -> {"none", "head", "body", "pump", "done"}]
      BY <2>8 DEF InboundDialled, TunnelDialled
    <3> QED BY <2>8, <3>1, <3>2 DEF InboundDialled
  <2>9. CASE InboundRefused(s) BY <2>9 DEF InboundRefused, DialFails
  <2>10. CASE ReadsData(s) BY <2>6, <2>10 DEF ReadsData, WriteLocal
  <2>11. CASE ReadsDataEnd(s) BY <2>11 DEF ReadsDataEnd
  <2>12. CASE ReadsClose(s)
    <3>1. local' \in [Conns -> {"none", "refused", "open", "closed"}] /\ hconns' \subseteq Conns
      <4>1. CASE m.conn \in hconns BY <2>12, <4>1, FinishType DEF ReadsClose
      <4>2. CASE m.conn \notin hconns BY <2>12, <4>2 DEF ReadsClose
      <4> QED BY <4>1, <4>2
    <3> QED BY <2>12, <3>1 DEF ReadsClose
  <2> QED BY <1>9, <2>8, <2>9, <2>10, <2>11, <2>12 DEF ReadLoop
<1>10. ASSUME NEW c \in Conns,
              \/ ResponseHead(c) \/ ResponseHeadFails(c) \/ ResponseChunk(c) \/ ResponseEnd(c)
              \/ LocalMessage(c) \/ TunnelEnd(c)
       PROVE  TypeOK'
  <2>1. fromHost' \in [Hosts -> Seq(FromHostFrames)]
    <3>1. \/ UNCHANGED fromHost
          \/ \E ms \in Seq(FromHostFrames) : SendWorker(ms)
      <4>1. <<>> \in Seq(FromHostFrames) OBVIOUS
      <4>2. downRead[c] + 1 \in Nat BY DEF TypeOK
      <4> QED BY <1>10, <4>1, <4>2, FrameTypes
              DEF ResponseHead, ResponseHeadFails, ResponseChunk, ResponseEnd, LocalMessage, TunnelEnd
    <3> QED BY <3>1, SendWorkerType DEF TypeOK, WorkerTypeOK
  <2> USE <2>1 DEF ReaderAt, ReaderOnly, HostOnly, TypeOK, WorkerTypeOK, bufVars
  <2>2. CASE ResponseHead(c) BY <2>2 DEF ResponseHead
  <2>3. CASE ResponseHeadFails(c) BY <2>3 DEF ResponseHeadFails, Finish
  <2>4. CASE ResponseChunk(c)
    <3>1. rdPc' = rdPc BY <2>4 DEF ResponseChunk
    <3>2. downRead' \in [Conns -> Nat] /\ \A d \in Conns : downRead'[d] <= MaxDown[d]
      <4>1. ReadOne(c) BY <2>4 DEF ResponseChunk
      <4> HIDE DEF TypeOK
      <4> QED BY <4>1, ReadOneType
    <3> QED BY <2>4, <3>1, <3>2 DEF ResponseChunk
  <2>5. CASE ResponseEnd(c) BY <2>5 DEF ResponseEnd, Finish
  <2>6. CASE LocalMessage(c)
    <3>1. rdPc' = rdPc BY <2>6 DEF LocalMessage
    <3>2. downRead' \in [Conns -> Nat] /\ \A d \in Conns : downRead'[d] <= MaxDown[d]
      BY <2>6 DEF LocalMessage, ReadOne
    <3> QED BY <2>6, <3>1, <3>2 DEF LocalMessage
  <2>7. CASE TunnelEnd(c) BY <2>7 DEF TunnelEnd, Finish
  <2> QED BY <1>10, <2>2, <2>3, <2>4, <2>5, <2>6, <2>7
<1>11. CASE UNCHANGED vars
  BY <1>11 DEF vars, workerVars, linkVars, bufVars, hostVars, TypeOK, WorkerTypeOK
<1> QED BY <1>1, <1>2, <1>3, <1>4, <1>5, <1>6, <1>7, <1>8, <1>9, <1>10, <1>11
        DEF Next, FetchStep, PumpStep

-----------------------------------------------------------------------------
\* The kinds of steps, as far as the requests go.
Sends(m) == SendHost(m) /\ UNCHANGED <<linkVars, hostVars>>

Announces(c) ==
    /\ ~Asked(c) /\ hostWs # NoHost
    /\ asked' = [asked EXCEPT ![c] = hostWs]
    /\ Sends(Msg("inbound", c, 0)) /\ upSent' = upSent
    /\ \A d \in Http : pumpPc'[d] = IF d = c THEN "pumping" ELSE pumpPc[d]

SendsData(c) ==
    /\ Asked(c) /\ (c \in Http => pumpPc[c] = "pumping")
    /\ upSent[c] + 1 \notin EmptyOf(c)
    /\ upSent' = [upSent EXCEPT ![c] = @ + 1]
    /\ Sends(Msg("data", c, upSent[c] + 1)) /\ UNCHANGED <<asked, pumpPc>>

SkipsEmpty(c) ==
    /\ Asked(c) /\ c \in Wss /\ upSent[c] + 1 \in Empty
    /\ upSent' = [upSent EXCEPT ![c] = @ + 1]
    /\ UNCHANGED <<toHost, linkVars, hostVars, asked, pumpPc>>

SendsEnd(c) ==
    /\ Asked(c) /\ c \in Http /\ pumpPc[c] = "pumping"
    /\ pumpPc' = [pumpPc EXCEPT ![c] = "sent"]
    /\ Sends(Msg("data.end", c, 0)) /\ UNCHANGED <<asked, upSent>>

SendsClose(c) ==
    /\ Asked(c)
    /\ \/ pumpPc' = pumpPc
       \/ c \in Http /\ pumpPc[c] = "pumping" /\ pumpPc' = [pumpPc EXCEPT ![c] = "failed"]
    /\ Sends(Msg("close", c, 0)) /\ UNCHANGED <<asked, upSent>>

\* The object or the host gives something up, but for what was never asked.
UpQuiet ==
    /\ UNCHANGED <<toHost, asked, upSent, pumpPc, upGot>>
    /\ hconns' \subseteq hconns
    /\ \A c \in Conns : local'[c] = local[c] \/ (local[c] = "open" /\ local'[c] = "closed")
    /\ \A c \in Http : rdPc'[c] = "none" <=> rdPc[c] = "none"
    /\ \A s \in Hosts : sesPc[s] \in {"open", "closed"} =>
          hostUp'[s] = hostUp[s] /\ (hostWs' = s => hostWs = s)

LEMMA FinishQuiet ==
    ASSUME TypeOK, NEW c \in Conns, Finish(c)
    PROVE  /\ hconns' = hconns \ {c}
           /\ \A d \in Conns : local'[d] = IF d = c /\ local[d] = "open" THEN "closed" ELSE local[d]
BY DEF Finish, TypeOK

LEMMA ReaderQuiet ==
    ASSUME TypeOK, NEW c \in Conns,
           \/ ResponseHead(c) \/ ResponseHeadFails(c) \/ ResponseChunk(c) \/ ResponseEnd(c)
           \/ LocalMessage(c) \/ TunnelEnd(c)
    PROVE  UpQuiet
<1>1. HostOnly /\ UNCHANGED <<toHost, hostPc, upGot>>
  BY DEF ResponseHead, ResponseHeadFails, ResponseChunk, ResponseEnd, LocalMessage, TunnelEnd, ReaderOnly
<1>2. UNCHANGED <<local, hconns>> \/ Finish(c)
  BY DEF ResponseHead, ResponseHeadFails, ResponseChunk, ResponseEnd, LocalMessage, TunnelEnd
<1>3. rdPc[c] # "none" /\ \E to \in {"body", "done", "pump"} : rdPc' = [rdPc EXCEPT ![c] = to]
  BY DEF ResponseHead, ResponseHeadFails, ResponseChunk, ResponseEnd, LocalMessage, TunnelEnd, ReaderAt
<1>4. \A d \in Http : rdPc'[d] = "none" <=> rdPc[d] = "none" BY <1>3 DEF TypeOK
<1>5. /\ hconns' \subseteq hconns
      /\ \A d \in Conns : local'[d] = local[d] \/ (local[d] = "open" /\ local'[d] = "closed")
  BY <1>2, FinishQuiet
<1> QED BY <1>1, <1>4, <1>5 DEF UpQuiet, HostOnly

LEMMA FetchKinds ==
    ASSUME TypeOK, NewInv, NEW c \in Http, FetchStep(c), UNCHANGED hostVars
    PROVE  UpQuiet \/ Announces(c) \/ SendsClose(c)
<1> USE DEF FetchAt, linkVars, hostVars
<1>1. CASE \/ RefuseHttp(c) \/ HeadSeen(c) \/ PullChunk(c) \/ PullEnd(c) \/ PullError(c) \/ Demand(c)
           \/ CancelledPull(c)
  BY <1>1 DEF RefuseHttp, HeadSeen, PullChunk, PullEnd, PullError, Demand, CancelledPull, UpQuiet
<1>2. CASE HttpRequest(c)
  <2>1. ~Asked(c) BY <1>2 DEF HttpRequest, NewInv, HandlerInv
  <2>2. \A d \in Http : pumpPc'[d] = IF d = c THEN "pumping" ELSE pumpPc[d]
    BY <1>2 DEF HttpRequest, PumpAt, TypeOK, WorkerTypeOK
  <2> QED BY <1>2, <2>1, <2>2 DEF HttpRequest, Announce, Announces, Sends
<1>3. CASE HeadFails(c) \/ Cancel(c)
  <2>1. Asked(c) BY <1>3 DEF HeadFails, Cancel, NewInv, HandlerInv
  <2> QED BY <1>3, <2>1 DEF HeadFails, Cancel, SendsClose, Sends
<1> QED BY <1>1, <1>2, <1>3 DEF FetchStep

LEMMA PumpKinds ==
    ASSUME TypeOK, NewInv, NEW c \in Http, PumpStep(c), UNCHANGED hostVars
    PROVE  SendsData(c) \/ SendsEnd(c) \/ SendsClose(c)
<1>1. Asked(c) BY DEF PumpStep, PumpChunk, PumpEnds, PumpFails, PumpAt, NewInv, HandlerInv
<1>2. CASE PumpChunk(c)
  <2>1. pumpPc' = pumpPc BY <1>2 DEF PumpChunk, PumpAt, TypeOK, WorkerTypeOK
  <2>2. EmptyOf(c) = {} BY WorkerAssumption DEF EmptyOf
  <2> QED BY <1>1, <1>2, <2>1, <2>2 DEF PumpChunk, PumpAt, SendsData, Sends
<1>3. CASE PumpEnds(c) BY <1>1, <1>3 DEF PumpEnds, PumpAt, SendsEnd, Sends
<1>4. CASE PumpFails(c) BY <1>1, <1>4 DEF PumpFails, PumpAt, BreakOff, SendsClose, Sends, linkVars
<1> QED BY <1>2, <1>3, <1>4 DEF PumpStep

LEMMA TunnelKinds ==
    ASSUME TypeOK, NewInv, NEW c \in Wss, TunnelStep(c), UNCHANGED hostVars
    PROVE  UpQuiet \/ Announces(c) \/ SendsData(c) \/ SkipsEmpty(c) \/ SendsClose(c)
<1>0. c \notin Http /\ EmptyOf(c) = Empty BY WorkerAssumption DEF EmptyOf
<1>1. CASE RefuseWs(c) BY <1>1 DEF RefuseWs, UpQuiet, linkVars, hostVars
<1>2. CASE WsOpens(c)
  <2>1. ~Asked(c) BY <1>2 DEF WsOpens, WsAt, NewInv, HandlerInv
  <2> QED BY <1>0, <1>2, <2>1 DEF WsOpens, Announce, Announces, Sends
<1>3. CASE BrowserMessage(c)
  <2>1. Asked(c) BY <1>3 DEF BrowserMessage, WsAt, NewInv, HandlerInv
  <2>2. upSent'[c] = upSent[c] + 1 BY <1>3 DEF BrowserMessage, TypeOK, WorkerTypeOK, Conns
  <2>3. CASE upSent[c] + 1 \in Empty
    BY <1>0, <1>3, <2>1, <2>2, <2>3 DEF BrowserMessage, SkipsEmpty, linkVars, hostVars
  <2>4. CASE upSent[c] + 1 \notin Empty
    BY <1>0, <1>3, <2>1, <2>2, <2>4 DEF BrowserMessage, SendsData, Sends, linkVars, hostVars
  <2> QED BY <2>3, <2>4
<1>4. CASE BrowserWsCloses(c)
  <2>1. Asked(c) BY <1>4 DEF BrowserWsCloses, WsAt, NewInv, HandlerInv
  <2> QED BY <1>4, <2>1 DEF BrowserWsCloses, TellHost, SendsClose, Sends
<1> QED BY <1>1, <1>2, <1>3, <1>4 DEF TunnelStep

LEMMA UpKinds ==
    ASSUME TypeOK, NewInv, SessionInv, [Next]_vars
    PROVE  \/ UpQuiet
           \/ \E c \in Conns : \/ Announces(c) \/ SendsData(c) \/ SkipsEmpty(c)
                               \/ SendsEnd(c) \/ SendsClose(c)
           \/ \E s \in Hosts : \/ Attach(s) /\ UNCHANGED hostVars
                               \/ HostConnects(s) \/ HostEnds(s) \/ ReadLoop(s)
<1> USE DEF Conns
<1>1. ASSUME NEW s \in Hosts, (SessionCloses(s) \/ HostMsg(s)) /\ UNCHANGED hostVars PROVE UpQuiet
  BY <1>1, WorkerAssumption
     DEF SessionCloses, HostWsAfterClose, HostMsg, UpQuiet, hostVars, bufVars
<1>2. ASSUME NEW s \in Hosts, HostDials(s) PROVE UpQuiet
  <2>1. sesPc[s] = "none" BY <1>2 DEF HostDials, HostAt, SessionInv
  <2>2. \A x \in Hosts : x # s => hostUp'[x] = hostUp[x]
    BY <1>2 DEF HostDials, TypeOK, WorkerTypeOK
  <2> QED BY <1>2, <2>1, <2>2 DEF HostDials, UpQuiet
<1>3. CASE UNCHANGED vars BY <1>3 DEF vars, workerVars, linkVars, hostVars, UpQuiet
<1> QED BY <1>1, <1>2, <1>3, FetchKinds, PumpKinds, TunnelKinds, ReaderQuiet DEF Next

\* Who was asked, and that a body was sent whole, stays.
LEMMA UpHistory ==
    ASSUME TypeOK, NewInv, SessionInv, [Next]_vars
    PROVE  /\ \A c \in Conns : Asked(c) => asked'[c] = asked[c]
           /\ \A c \in Http : pumpPc[c] = "sent" => pumpPc'[c] = "sent"
           /\ UpFrames \subseteq UpFrames'
<1>1. ASSUME NEW s \in Hosts, HostConnects(s) \/ HostEnds(s) \/ ReadLoop(s) \/ Attach(s)
      PROVE  UNCHANGED <<asked, pumpPc>>
  BY <1>1 DEF HostConnects, HostEnds, HostOnly, Attach, ReadLoop, InboundDialled, InboundRefused,
              ReadsData, ReadsDataEnd, ReadsClose, Reads
<1>2. ASSUME NEW c \in Conns, Announces(c) \/ SendsData(c) \/ SkipsEmpty(c) \/ SendsEnd(c) \/ SendsClose(c)
      PROVE  /\ \A d \in Conns : Asked(d) => asked'[d] = asked[d]
             /\ \A d \in Http : pumpPc[d] = "sent" => pumpPc'[d] = "sent"
  <2> USE DEF TypeOK, WorkerTypeOK
  <2>1. CASE Announces(c)
    <3>1. c \in Http => pumpPc[c] # "sent" BY <2>1 DEF Announces, NewInv, HandlerInv
    <3> QED BY <2>1, <3>1 DEF Announces
  <2>2. CASE SendsData(c) BY <2>2 DEF SendsData
  <2>3. CASE SkipsEmpty(c) BY <2>3 DEF SkipsEmpty
  <2>4. CASE SendsEnd(c) BY <2>4 DEF SendsEnd
  <2>5. CASE SendsClose(c) BY <2>5 DEF SendsClose
  <2> QED BY <1>2, <2>1, <2>2, <2>3, <2>4, <2>5
<1>3. /\ \A c \in Conns : Asked(c) => asked'[c] = asked[c]
      /\ \A c \in Http : pumpPc[c] = "sent" => pumpPc'[c] = "sent"
  BY <1>1, <1>2, UpKinds DEF UpQuiet
<1>4. UpFrames \subseteq UpFrames'
  <2> SUFFICES ASSUME NEW m \in UpFrames PROVE m \in UpFrames' OBVIOUS
  <2>1. m \in ToHostFrames /\ (m.t # "hello.ok" => m.conn \in Conns) BY FrameTypes
  <2> QED BY <1>3, <2>1 DEF UpFrames, Asked
<1> QED BY <1>3, <1>4

LEMMA UpFramesStep ==
    ASSUME TypeOK, NewInv, SessionInv, UpFramesInv, [Next]_vars
    PROVE  UpFramesInv'
<1>0. TypeOK' BY TypeStep
<1> DEFINE F == UpFrames'
<1>1. \A s \in Hosts : toHost[s] \in Seq(F)
  BY UpHistory, SeqMonotonic DEF UpFramesInv
<1>2. \A s \in Hosts : toHost[s] # <<>> => Tail(toHost[s]) \in Seq(F)
  BY <1>1, HeadTailProperties
<1>3. \A c \in Conns : asked'[c] # NoHost =>
         /\ Msg("inbound", c, 0) \in F /\ Msg("close", c, 0) \in F
         /\ \A n \in Nat \ {0} : Msg("data", c, n) \in F
         /\ (c \in Http /\ pumpPc'[c] = "sent" => Msg("data.end", c, 0) \in F)
  BY FrameTypes DEF UpFrames, Msg, Asked
<1>4. HelloOk \in F BY DEF UpFrames, HelloOk, ToHostFrames
<1>5. <<>> \in Seq(F) /\ <<HelloOk>> \in Seq(F) BY <1>4
<1> HIDE DEF F
<1> SUFFICES \A s \in Hosts : toHost'[s] \in Seq(F) BY DEF UpFramesInv, F
<1>6. ASSUME NEW m \in F, SendHost(m) PROVE \A s \in Hosts : toHost'[s] \in Seq(F)
  BY <1>1, <1>6, SendHostType
<1>7. ASSUME NEW c \in Conns, Announces(c) \/ SendsData(c) \/ SkipsEmpty(c) \/ SendsEnd(c) \/ SendsClose(c)
      PROVE  \A s \in Hosts : toHost'[s] \in Seq(F)
  <2>1. Asked(c) => asked'[c] # NoHost BY UpHistory DEF Asked
  <2>2. upSent[c] + 1 \in Nat \ {0} BY DEF TypeOK, WorkerTypeOK
  <2>3. CASE Announces(c)
    <3>1. asked'[c] # NoHost BY <2>3 DEF Announces, TypeOK, WorkerTypeOK
    <3> QED BY <1>3, <1>6, <2>3, <3>1 DEF Announces, Sends
  <2>4. CASE SendsData(c)
    <3>1. asked'[c] # NoHost BY <2>1, <2>4 DEF SendsData
    <3>2. Msg("data", c, upSent[c] + 1) \in F BY <1>3, <2>2, <3>1
    <3> QED BY <1>6, <2>4, <3>2 DEF SendsData, Sends
  <2>5. CASE SkipsEmpty(c) BY <1>1, <2>5 DEF SkipsEmpty
  <2>6. CASE SendsEnd(c)
    <3>1. pumpPc'[c] = "sent" BY <2>6 DEF SendsEnd, TypeOK, WorkerTypeOK
    <3> QED BY <1>3, <1>6, <2>1, <2>6, <3>1 DEF SendsEnd, Sends
  <2>7. CASE SendsClose(c) BY <1>3, <1>6, <2>1, <2>7 DEF SendsClose, Sends
  <2> QED BY <1>7, <2>3, <2>4, <2>5, <2>6, <2>7
<1>8. ASSUME NEW s \in Hosts, Attach(s) PROVE \A x \in Hosts : toHost'[x] \in Seq(F)
  BY <1>1, <1>5, <1>8 DEF Attach, TypeOK, WorkerTypeOK
<1>9. ASSUME NEW s \in Hosts, HostConnects(s) \/ HostEnds(s) \/ ReadLoop(s)
      PROVE  \A x \in Hosts : toHost'[x] \in Seq(F)
  <2>1. \/ toHost[s] # <<>> /\ toHost' = [toHost EXCEPT ![s] = Tail(@)]
        \/ toHost' = [toHost EXCEPT ![s] = <<>>]
    BY <1>9 DEF HostConnects, HostEnds, ReadLoop, InboundDialled, InboundRefused,
                ReadsData, ReadsDataEnd, ReadsClose, Reads
  <2>2. toHost \in [Hosts -> Seq(ToHostFrames)] BY DEF TypeOK, WorkerTypeOK
  <2>3. CASE toHost[s] # <<>> /\ toHost' = [toHost EXCEPT ![s] = Tail(@)]
    BY <1>1, <1>2, <2>2, <2>3
  <2>4. CASE toHost' = [toHost EXCEPT ![s] = <<>>] BY <1>1, <1>5, <2>2, <2>4
  <2> QED BY <2>1, <2>3, <2>4
<1> QED BY <1>1, <1>7, <1>8, <1>9, UpKinds DEF UpQuiet

-----------------------------------------------------------------------------
\* The sessions.
sessionVars == <<hostWs, latest, sesPc, hostUp, hostPc>>

SessionMoves(s) ==
    \/ (Attach(s) \/ SessionCloses(s)) /\ UNCHANGED hostVars
    \/ HostDials(s) \/ HostConnects(s) \/ HostEnds(s)

LEMMA SessionKinds ==
    ASSUME [Next]_vars
    PROVE  UNCHANGED sessionVars \/ \E s \in Hosts : SessionMoves(s)
<1> USE DEF sessionVars, hostVars, linkVars
<1>1. ASSUME NEW s \in Hosts, HostMsg(s) /\ UNCHANGED hostVars PROVE UNCHANGED sessionVars
  BY <1>1 DEF HostMsg
<1>2. ASSUME NEW c \in Http, FetchStep(c) /\ UNCHANGED hostVars PROVE UNCHANGED sessionVars
  BY <1>2 DEF FetchStep, RefuseHttp, HttpRequest, HeadSeen, HeadFails, PullChunk, PullEnd, PullError,
              Demand, Cancel, CancelledPull
<1>3. ASSUME NEW c \in Http, PumpStep(c) /\ UNCHANGED hostVars PROVE UNCHANGED sessionVars
  BY <1>3 DEF PumpStep, PumpChunk, PumpEnds, PumpFails
<1>4. ASSUME NEW c \in Wss, TunnelStep(c) /\ UNCHANGED hostVars PROVE UNCHANGED sessionVars
  BY <1>4 DEF TunnelStep, RefuseWs, WsOpens, BrowserMessage, BrowserWsCloses
<1>5. ASSUME NEW s \in Hosts, ReadLoop(s) PROVE UNCHANGED sessionVars
  BY <1>5 DEF ReadLoop, InboundDialled, InboundRefused, ReadsData, ReadsDataEnd, ReadsClose, Reads, HostOnly
<1>6. ASSUME NEW c \in Conns,
             \/ ResponseHead(c) \/ ResponseHeadFails(c) \/ ResponseChunk(c) \/ ResponseEnd(c)
             \/ LocalMessage(c) \/ TunnelEnd(c)
      PROVE  UNCHANGED sessionVars
  BY <1>6 DEF ResponseHead, ResponseHeadFails, ResponseChunk, ResponseEnd, LocalMessage, TunnelEnd,
              ReaderOnly, HostOnly
<1>7. CASE UNCHANGED vars BY <1>7 DEF vars, workerVars
<1> QED BY <1>1, <1>2, <1>3, <1>4, <1>5, <1>6, <1>7 DEF Next, SessionMoves, Conns

\* The object sends to the session that was attached last and has not closed.
LEMMA HostWsLatest ==
    ASSUME SessionInv, LatestAttached, hostWs # NoHost
    PROVE  hostWs = latest /\ sesPc[hostWs] = "open"
BY DEF SessionInv, LatestAttached

LEMMA ToHostFills ==
    ASSUME TypeOK, NewInv, SessionInv, [Next]_vars, NEW s \in Hosts, toHost'[s] # <<>>
    PROVE  toHost[s] # <<>> \/ (hostWs = s) \/ Attach(s)
<1>1. ASSUME NEW m, SendHost(m) PROVE toHost[s] # <<>> \/ (hostWs = s)
  BY <1>1, SendHostQueue
<1>2. ASSUME NEW c \in Conns, Announces(c) \/ SendsData(c) \/ SkipsEmpty(c) \/ SendsEnd(c) \/ SendsClose(c)
      PROVE  toHost[s] # <<>> \/ (hostWs = s)
  BY <1>1, <1>2 DEF Announces, SendsData, SkipsEmpty, SendsEnd, SendsClose, Sends
<1>3. ASSUME NEW x \in Hosts, Attach(x) PROVE toHost[s] # <<>> \/ Attach(s)
  <2>1. CASE x = s BY <1>3, <2>1
  <2>2. CASE x # s
    <3>1. toHost' = [toHost EXCEPT ![x] = <<HelloOk>>] \/ toHost' = toHost BY <1>3 DEF Attach
    <3>2. toHost'[s] = toHost[s] BY <2>2, <3>1 DEF TypeOK, WorkerTypeOK
    <3> QED BY <3>2
  <2> QED BY <2>1, <2>2
<1>4. ASSUME NEW x \in Hosts, HostConnects(x) \/ HostEnds(x) \/ ReadLoop(x) PROVE toHost[s] # <<>>
  <2>1. (toHost[x] # <<>> /\ toHost' = [toHost EXCEPT ![x] = Tail(@)])
           \/ toHost' = [toHost EXCEPT ![x] = <<>>]
    BY <1>4 DEF HostConnects, HostEnds, ReadLoop, InboundDialled, InboundRefused,
                ReadsData, ReadsDataEnd, ReadsClose, Reads
  <2> QED BY <2>1 DEF TypeOK, WorkerTypeOK
<1> QED BY <1>2, <1>3, <1>4, UpKinds DEF UpQuiet

LEMMA AskedHost ==
    ASSUME TypeOK, NewInv, SessionInv, [Next]_vars, NEW c \in Conns, asked'[c] # NoHost
    PROVE  asked'[c] = asked[c] \/ (asked'[c] = hostWs /\ \E d \in Conns : Announces(d))
<1>1. ASSUME NEW s \in Hosts, HostConnects(s) \/ HostEnds(s) \/ ReadLoop(s) \/ Attach(s)
      PROVE  UNCHANGED asked
  BY <1>1 DEF HostConnects, HostEnds, HostOnly, Attach, ReadLoop, InboundDialled, InboundRefused,
              ReadsData, ReadsDataEnd, ReadsClose, Reads
<1>2. ASSUME NEW d \in Conns, SendsData(d) \/ SkipsEmpty(d) \/ SendsEnd(d) \/ SendsClose(d)
      PROVE  UNCHANGED asked
  BY <1>2 DEF SendsData, SkipsEmpty, SendsEnd, SendsClose
<1>3. ASSUME NEW d \in Conns, Announces(d) PROVE asked'[c] = asked[c] \/ asked'[c] = hostWs
  BY <1>3 DEF Announces, TypeOK, WorkerTypeOK
<1> QED BY <1>1, <1>2, <1>3, UpKinds DEF UpQuiet

LEMMA SessionStep ==
    ASSUME TypeOK, NewInv, SessionInv, LatestAttached, UpFramesInv, [Next]_vars
    PROVE  SessionInv' /\ LatestAttached'
<1>0. TypeOK' BY TypeStep
<1>1. ASSUME NEW s \in Hosts, toHost'[s] # <<>>, ~Attach(s) PROVE sesPc[s] \in {"open", "closed"}
  <2>1. toHost[s] # <<>> \/ (hostWs = s) BY <1>1, ToHostFills
  <2> QED BY <2>1, HostWsLatest, WorkerAssumption DEF SessionInv
<1>2. ASSUME NEW c \in Conns, asked'[c] # NoHost
      PROVE  asked'[c] \in Hosts /\ sesPc[asked'[c]] \in {"open", "closed"}
  <2>1. asked'[c] \in Hosts BY <1>0, <1>2 DEF TypeOK, WorkerTypeOK
  <2>2. CASE asked'[c] = asked[c] BY <1>2, <2>1, <2>2 DEF SessionInv, Asked
  <2>3. CASE asked'[c] = hostWs BY <1>2, <2>1, <2>3, HostWsLatest DEF SessionInv
  <2> QED BY <1>2, <2>1, <2>2, <2>3, AskedHost
<1>3. CASE UNCHANGED sessionVars
  <2>1. \A s \in Hosts : ~Attach(s) BY <1>3 DEF Attach, sessionVars, TypeOK, WorkerTypeOK
  <2> QED BY <1>1, <1>2, <1>3, <2>1 DEF SessionInv, LatestAttached, Asked, Serving, sessionVars
<1>4. ASSUME NEW s \in Hosts, Attach(s), UNCHANGED hostVars PROVE SessionInv' /\ LatestAttached'
  <2>1. sesPc'[s] = "open" /\ sesPc[s] = "dialled" /\ hostPc' = hostPc /\ hostUp' = hostUp
    BY <1>4 DEF Attach, hostVars, TypeOK, WorkerTypeOK
  <2>2. \A x \in Hosts : x # s => sesPc'[x] = sesPc[x] /\ toHost'[x] = toHost[x]
    BY <1>4 DEF Attach, TypeOK, WorkerTypeOK
  <2>3. hostWs' = s /\ latest' = s /\ asked' = asked BY <1>4 DEF Attach
  <2>4. \A c \in Conns : Asked(c) => asked[c] \in Hosts BY DEF Asked, TypeOK, WorkerTypeOK
  <2> QED BY <2>1, <2>2, <2>3, <2>4, WorkerAssumption DEF SessionInv, LatestAttached, Asked, Serving
<1>5. ASSUME NEW s \in Hosts, SessionCloses(s), UNCHANGED hostVars PROVE SessionInv' /\ LatestAttached'
  <2>1. sesPc'[s] = "closed" /\ sesPc[s] = "open" /\ hostPc' = hostPc
    BY <1>5 DEF SessionCloses, hostVars, TypeOK, WorkerTypeOK
  <2>2. \A x \in Hosts : x # s => sesPc'[x] = sesPc[x] BY <1>5 DEF SessionCloses, TypeOK, WorkerTypeOK
  <2>3. /\ hostWs' = IF hostWs = s THEN NoHost ELSE hostWs
        /\ UNCHANGED <<latest, toHost, hostUp, asked>>
    BY <1>5 DEF SessionCloses, HostWsAfterClose
  <2>4. \A c \in Conns : Asked(c) => asked[c] \in Hosts BY DEF Asked, TypeOK, WorkerTypeOK
  <2>5. latest \in Hosts \cup {NoHost} BY DEF TypeOK, WorkerTypeOK
  <2> QED BY <2>1, <2>2, <2>3, <2>4, <2>5, WorkerAssumption DEF SessionInv, LatestAttached, Asked, Serving
<1>6. ASSUME NEW s \in Hosts, HostDials(s) PROVE SessionInv' /\ LatestAttached'
  <2>1. /\ hostPc[s] = "off" /\ hostPc'[s] = "dialling" /\ sesPc'[s] = "dialled" /\ hostUp'[s]
    BY <1>6 DEF HostDials, HostAt, TypeOK, WorkerTypeOK
  <2>2. \A x \in Hosts : x # s => hostPc'[x] = hostPc[x] /\ sesPc'[x] = sesPc[x] /\ hostUp'[x] = hostUp[x]
    BY <1>6 DEF HostDials, HostAt, TypeOK, WorkerTypeOK
  <2>3. UNCHANGED <<hostWs, latest, toHost, asked>> BY <1>6 DEF HostDials
  <2>4. \A c \in Conns : Asked(c) => asked[c] \in Hosts BY DEF Asked, TypeOK, WorkerTypeOK
  <2>5. latest \in Hosts \cup {NoHost} BY DEF TypeOK, WorkerTypeOK
  <2>6. \A x \in Hosts : hostPc[x] \in {"off", "ended"} BY <1>6 DEF HostDials
  <2>7. sesPc[s] = "none" /\ \A x \in Hosts : ~hostUp[x] BY <2>1, <2>6 DEF SessionInv
  <2> QED BY <2>1, <2>2, <2>3, <2>4, <2>5, <2>7 DEF SessionInv, LatestAttached, Asked, Serving
<1>7. ASSUME NEW s \in Hosts, HostConnects(s) PROVE SessionInv' /\ LatestAttached'
  <2>1. hostPc[s] = "dialling" /\ hostPc'[s] = "serving" /\ toHost[s] # <<>>
    BY <1>7 DEF HostConnects, HostAt, TypeOK
  <2>2. \A x \in Hosts : x # s => hostPc'[x] = hostPc[x] /\ toHost'[x] = toHost[x]
    BY <1>7 DEF HostConnects, HostAt, TypeOK, WorkerTypeOK
  <2>3. UNCHANGED <<hostWs, latest, sesPc, hostUp, asked>> BY <1>7 DEF HostConnects, HostOnly
  <2> QED BY <2>1, <2>2, <2>3 DEF SessionInv, LatestAttached, Asked, Serving
<1>8. ASSUME NEW s \in Hosts, HostEnds(s) PROVE SessionInv' /\ LatestAttached'
  <2>1. hostPc[s] \in {"dialling", "serving"} /\ hostPc'[s] = "ended" /\ ~hostUp'[s] /\ toHost'[s] = <<>>
    BY <1>8 DEF HostEnds, HostAt, TypeOK, WorkerTypeOK
  <2>2. \A x \in Hosts : x # s => hostPc'[x] = hostPc[x] /\ toHost'[x] = toHost[x] /\ hostUp'[x] = hostUp[x]
    BY <1>8 DEF HostEnds, HostAt, TypeOK, WorkerTypeOK
  <2>3. UNCHANGED <<hostWs, latest, sesPc, asked>> BY <1>8 DEF HostEnds
  <2> QED BY <2>1, <2>2, <2>3 DEF SessionInv, LatestAttached, Asked, Serving
<1> QED BY <1>3, <1>4, <1>5, <1>6, <1>7, <1>8, SessionKinds DEF SessionMoves

-----------------------------------------------------------------------------
\* The handlers of the object.
EntriesInv == HandlerInv /\ ConnsOfLatest /\ EntryHasHandler

LEMMA FetchEntries ==
    ASSUME TypeOK, SessionInv, LatestAttached, EntriesInv, NEW c \in Http, FetchStep(c) \/ PumpStep(c)
    PROVE  EntriesInv'
<1>0. c \in Conns /\ c \notin Wss BY WorkerAssumption DEF Conns
<1> USE <1>0 DEF EntriesInv, HandlerInv, ConnsOfLatest, EntryHasHandler, Asked, FetchAt, PumpAt, linkVars
<1>t. /\ fetchPc \in [Http -> FetchPcs] /\ pumpPc \in [Http -> {"idle", "pumping", "sent", "failed"}]
      /\ asked \in [Conns -> Hosts \cup {NoHost}] /\ conns \subseteq Conns
  BY DEF TypeOK, WorkerTypeOK, FetchPcs
<1>1. CASE RefuseHttp(c) BY <1>t, <1>1 DEF RefuseHttp
<1>2. CASE HttpRequest(c) BY <1>t, <1>2, HostWsLatest DEF HttpRequest, Announce
<1>3. CASE HeadSeen(c) BY <1>t, <1>3 DEF HeadSeen
<1>4. CASE HeadFails(c) BY <1>t, <1>4 DEF HeadFails, Forget
<1>5. CASE PullChunk(c)
  <2>1. CASE FetchAt(c, "stream", "stream") BY <1>t, <1>5, <2>1 DEF PullChunk
  <2>2. CASE FetchAt(c, "stream", "full") BY <1>t, <1>5, <2>2 DEF PullChunk
  <2> QED BY <1>5, <2>1, <2>2 DEF PullChunk
<1>6. CASE PullEnd(c) BY <1>t, <1>6 DEF PullEnd, Forget
<1>7. CASE PullError(c) BY <1>t, <1>7 DEF PullError, Forget
<1>8. CASE Demand(c) BY <1>t, <1>8 DEF Demand
<1>9. CASE Cancel(c)
  <2>1. CASE FetchAt(c, "stream", "cancelled") BY <1>t, <1>9, <2>1 DEF Cancel
  <2>2. CASE FetchAt(c, "full", "left") BY <1>t, <1>9, <2>2 DEF Cancel
  <2> QED BY <1>9, <2>1, <2>2 DEF Cancel
<1>10. CASE CancelledPull(c)
  <2>1. CASE FetchAt(c, "cancelled", "failed") /\ Forget(c) BY <1>t, <1>10, <2>1 DEF CancelledPull, Forget
  <2>2. CASE FetchAt(c, "cancelled", "left") /\ UNCHANGED conns BY <1>t, <1>10, <2>2 DEF CancelledPull
  <2> QED BY <1>10, <2>1, <2>2 DEF CancelledPull
<1>11. CASE PumpChunk(c) BY <1>t, <1>11 DEF PumpChunk
<1>12. CASE PumpEnds(c) BY <1>t, <1>12 DEF PumpEnds
<1>13. CASE PumpFails(c) BY <1>t, <1>13 DEF PumpFails
<1> QED BY <1>1, <1>2, <1>3, <1>4, <1>5, <1>6, <1>7, <1>8, <1>9, <1>10, <1>11, <1>12, <1>13
        DEF FetchStep, PumpStep

LEMMA TunnelEntries ==
    ASSUME TypeOK, SessionInv, LatestAttached, EntriesInv, NEW c \in Wss, TunnelStep(c)
    PROVE  EntriesInv'
<1>0. c \in Conns /\ c \notin Http BY WorkerAssumption DEF Conns
<1> USE <1>0 DEF EntriesInv, HandlerInv, ConnsOfLatest, EntryHasHandler, Asked, WsAt, linkVars
<1>t. /\ browserWs \in [Wss -> {"absent", "open", "closing", "closed"}]
      /\ asked \in [Conns -> Hosts \cup {NoHost}] /\ conns \subseteq Conns
  BY DEF TypeOK, WorkerTypeOK
<1>1. CASE RefuseWs(c) BY <1>t, <1>1 DEF RefuseWs
<1>2. CASE WsOpens(c) BY <1>t, <1>2, HostWsLatest DEF WsOpens, Announce
<1>3. CASE BrowserMessage(c) BY <1>t, <1>3 DEF BrowserMessage
<1>4. CASE BrowserWsCloses(c)
  <2>1. browserWs[c] \in {"open", "closing"} /\ browserWs' = [browserWs EXCEPT ![c] = "closed"]
    BY <1>4 DEF BrowserWsCloses
  <2> QED BY <1>t, <1>4, <2>1 DEF BrowserWsCloses, Forget
<1> QED BY <1>1, <1>2, <1>3, <1>4 DEF TunnelStep

LEMMA EntriesStep ==
    ASSUME TypeOK, SessionInv, LatestAttached, UpFramesInv, EntriesInv, [Next]_vars
    PROVE  EntriesInv'
<1> USE DEF EntriesInv, HandlerInv, ConnsOfLatest, EntryHasHandler, Asked
<1>1. ASSUME NEW s \in Hosts, Attach(s) PROVE EntriesInv'
  <2>1. conns' = {} /\ UNCHANGED <<asked, fetchPc, pumpPc>> BY <1>1 DEF Attach, ConnsAfterAttach
  <2>2. \A c \in Wss : browserWs'[c] = browserWs[c] \/ (c \in conns /\ browserWs'[c] = "closing")
    BY <1>1 DEF Attach, ConnsAfterAttach
  <2> QED BY <2>1, <2>2, WorkerAssumption DEF Conns
<1>2. ASSUME NEW s \in Hosts, HostMsg(s) PROVE EntriesInv'
  <2>1. UNCHANGED <<asked, fetchPc, pumpPc, latest>> BY <1>2 DEF HostMsg
  <2>2. CASE UNCHANGED <<browserWs, conns>> BY <2>1, <2>2
  <2>3. CASE \E c \in conns \cap Wss : browserWs' = [browserWs EXCEPT ![c] = "closing"] /\ Forget(c)
    BY <2>1, <2>3, WorkerAssumption DEF Forget, TypeOK, WorkerTypeOK, Conns
  <2> QED BY <1>2, <2>2, <2>3 DEF HostMsg, OnHostMsg
<1>3. ASSUME UNCHANGED <<conns, asked, fetchPc, pumpPc, browserWs, latest>> PROVE EntriesInv' BY <1>3
<1>4. ASSUME NEW s \in Hosts, SessionCloses(s) \/ HostDials(s) \/ HostConnects(s) \/ HostEnds(s) \/ ReadLoop(s)
      PROVE  EntriesInv'
  BY <1>3, <1>4 DEF SessionCloses, HostDials, HostConnects, HostEnds, HostOnly, ReadLoop, InboundDialled,
              InboundRefused, ReadsData, ReadsDataEnd, ReadsClose, Reads
<1>5. ASSUME NEW c \in Conns,
             \/ ResponseHead(c) \/ ResponseHeadFails(c) \/ ResponseChunk(c) \/ ResponseEnd(c)
             \/ LocalMessage(c) \/ TunnelEnd(c)
      PROVE  EntriesInv'
  BY <1>3, <1>5 DEF ResponseHead, ResponseHeadFails, ResponseChunk, ResponseEnd, LocalMessage, TunnelEnd,
              ReaderOnly, HostOnly
<1>6. CASE UNCHANGED vars BY <1>3, <1>6 DEF vars, workerVars, linkVars
<1> HIDE DEF EntriesInv
<1> QED BY <1>1, <1>2, <1>4, <1>5, <1>6, FetchEntries, TunnelEntries DEF Next, Conns

-----------------------------------------------------------------------------
\* The read loop of the host.
ReadsFrame(s, m) ==
    /\ Serving(s) /\ toHost[s] # <<>>
    /\ m = toHost[s][1] /\ m \in UpFrames /\ m.t # "hello.ok"
    /\ m.conn \in Conns /\ Asked(m.conn) /\ FrameAt(toHost[s], m.conn, m.t, 1)
    /\ toHost' = [toHost EXCEPT ![s] = Tail(@)]
    /\ HostOnly /\ UNCHANGED hostPc

LEMMA ReadsOne ==
    ASSUME TypeOK, UpFramesInv, NEW s \in Hosts, NEW t \in {"inbound", "data", "data.end", "close"}, Reads(s, t)
    PROVE  \E m : ReadsFrame(s, m) /\ m = Head(toHost[s]) /\ m.t = t
<1>1. toHost[s] # <<>> BY DEF Reads
<1>2. PICK m \in UpFrames : m = Head(toHost[s]) /\ m = toHost[s][1] BY <1>1, ReadsHead
<1>3. m.t = t BY <1>2 DEF Reads
<1>4. m.conn \in Conns /\ Asked(m.conn) BY <1>3, FrameTypes
<1>5. FrameAt(toHost[s], m.conn, m.t, 1) BY <1>1, <1>2, ReadsHead DEF FrameAt
<1> QED BY <1>1, <1>2, <1>3, <1>4, <1>5 DEF Reads, ReadsFrame

\* What a step of the loop does to a connection: nothing, if the frame is about
\* another one.
LEMMA ReadsLocal ==
    ASSUME TypeOK, UpFramesInv, NEW s \in Hosts, ReadLoop(s)
    PROVE  \E m : /\ ReadsFrame(s, m) /\ m.t \in AboutIt
                  /\ \A c \in Conns : c # m.conn =>
                        /\ local'[c] = local[c] /\ rdPc'[c] = rdPc[c] /\ upGot'[c] = upGot[c]
                        /\ c \in hconns' <=> c \in hconns
                  /\ m.t = "inbound" => (InboundDialled(s) \/ InboundRefused(s)) /\ UNCHANGED upGot
                  /\ m.t = "data" => ReadsData(s) /\ UNCHANGED <<local, hconns, rdPc>>
                  /\ m.t = "data.end" => ReadsDataEnd(s) /\ UNCHANGED <<local, hconns, upGot>>
                  /\ m.t = "close" => ReadsClose(s) /\ UNCHANGED <<upGot, rdPc>>
<1> USE DEF AboutIt
<1>1. CASE InboundDialled(s)
  <2>1. PICK m : ReadsFrame(s, m) /\ m = Head(toHost[s]) /\ m.t = "inbound"
    BY <1>1, ReadsOne DEF InboundDialled
  <2> QED BY <1>1, <2>1 DEF InboundDialled, TunnelDialled, TypeOK
<1>2. CASE InboundRefused(s)
  <2>1. PICK m : ReadsFrame(s, m) /\ m = Head(toHost[s]) /\ m.t = "inbound"
    BY <1>2, ReadsOne DEF InboundRefused
  <2> QED BY <1>2, <2>1 DEF InboundRefused, DialFails, TypeOK
<1>3. CASE ReadsData(s)
  <2>1. PICK m : ReadsFrame(s, m) /\ m = Head(toHost[s]) /\ m.t = "data" BY <1>3, ReadsOne DEF ReadsData
  <2> QED BY <1>3, <2>1 DEF ReadsData, WriteLocal, TypeOK
<1>4. CASE ReadsDataEnd(s)
  <2>1. PICK m : ReadsFrame(s, m) /\ m = Head(toHost[s]) /\ m.t = "data.end"
    BY <1>4, ReadsOne DEF ReadsDataEnd
  <2> QED BY <1>4, <2>1 DEF ReadsDataEnd, TypeOK
<1>5. CASE ReadsClose(s)
  <2>1. PICK m : ReadsFrame(s, m) /\ m = Head(toHost[s]) /\ m.t = "close" BY <1>5, ReadsOne DEF ReadsClose
  <2>2. CASE m.conn \in hconns
    <3>1. Finish(m.conn) BY <1>5, <2>1, <2>2 DEF ReadsClose
    <3>2. m.conn \in Conns BY <2>1 DEF ReadsFrame
    <3> QED BY <1>5, <2>1, <3>1, <3>2, FinishQuiet DEF ReadsClose
  <2>3. CASE m.conn \notin hconns BY <1>5, <2>1, <2>3 DEF ReadsClose
  <2> QED BY <2>2, <2>3
<1> QED BY <1>1, <1>2, <1>3, <1>4, <1>5 DEF ReadLoop

LEMMA NewStep ==
    ASSUME TypeOK, SessionInv, LatestAttached, UpFramesInv, NewInv, ConnsOfLatest, EntryHasHandler, [Next]_vars
    PROVE  NewInv' /\ ConnsOfLatest' /\ EntryHasHandler'
<1>1. HandlerInv' /\ ConnsOfLatest' /\ EntryHasHandler' BY EntriesStep DEF EntriesInv, NewInv
<1>2. ASSUME NEW c \in Conns, ~Asked(c)' PROVE local'[c] = "none" /\ upSent'[c] = 0
  <2>1. ~Asked(c) /\ local[c] = "none" /\ upSent[c] = 0
    <3>1. ~Asked(c) BY <1>2, UpHistory DEF Asked
    <3> QED BY <3>1 DEF NewInv
  <2>2. CASE UpQuiet BY <2>1, <2>2 DEF UpQuiet
  <2>3. ASSUME NEW d \in Conns, Announces(d) \/ SendsData(d) \/ SkipsEmpty(d) \/ SendsEnd(d) \/ SendsClose(d)
        PROVE  local'[c] = "none" /\ upSent'[c] = 0
    BY <2>1, <2>3 DEF Announces, SendsData, SkipsEmpty, SendsEnd, SendsClose, Sends, hostVars,
                      TypeOK, WorkerTypeOK
  <2>4. ASSUME NEW s \in Hosts, (Attach(s) /\ UNCHANGED hostVars) \/ HostConnects(s) \/ HostEnds(s)
        PROVE  local'[c] = "none" /\ upSent'[c] = 0
    BY <2>1, <2>4 DEF Attach, hostVars, HostConnects, HostEnds, HostOnly
  <2>5. ASSUME NEW s \in Hosts, ReadLoop(s) PROVE local'[c] = "none" /\ upSent'[c] = 0
    <3>1. PICK m : ReadsFrame(s, m) /\ (c # m.conn => local'[c] = local[c]) BY <2>5, ReadsLocal
    <3> QED BY <2>1, <3>1 DEF ReadsFrame, HostOnly
  <2> QED BY <2>2, <2>3, <2>4, <2>5, UpKinds
<1> QED BY <1>1, <1>2 DEF NewInv

-----------------------------------------------------------------------------
\* The announcement, and the end of a body.
LEMMA QueueType ==
    ASSUME TypeOK, NEW s \in Hosts
    PROVE  toHost[s] \in Seq(ToHostFrames)
BY DEF TypeOK, WorkerTypeOK

LEMMA HasAsked ==
    ASSUME UpFramesInv, NEW s \in Hosts, NEW c \in Conns, NEW u \in AboutIt, Has(toHost[s], c, u)
    PROVE  Asked(c) /\ (u = "data.end" => c \in Http /\ pumpPc[c] = "sent")
<1>1. PICK i \in 1..Len(toHost[s]) : FrameAt(toHost[s], c, u, i) BY DEF Has
<1>2. toHost[s] \in Seq(UpFrames) BY DEF UpFramesInv
<1>3. PICK m \in UpFrames : m = toHost[s][i] BY <1>2, ElementOfSeq
<1>4. m.t = u /\ m.conn = c /\ m.t # "hello.ok" BY <1>1, <1>3 DEF FrameAt, AboutIt
<1> QED BY <1>4 DEF UpFrames

\* The frames with which the object sends, and what else changes.
LEMMA SendKinds ==
    ASSUME TypeOK, NEW d \in Conns,
           Announces(d) \/ SendsData(d) \/ SkipsEmpty(d) \/ SendsEnd(d) \/ SendsClose(d)
    PROVE  /\ UNCHANGED <<hconns, local, rdPc, upGot>>
           /\ \/ UNCHANGED toHost
              \/ \E m \in ToHostFrames :
                    /\ SendHost(m) /\ m.conn = d
                    /\ m.t = "inbound" => Announces(d)
                    /\ m.t = "data" => SendsData(d)
                    /\ m.t = "data.end" => SendsEnd(d)
<1> USE DEF Sends, Msg, hostVars
<1>0. upSent[d] + 1 \in Nat BY DEF TypeOK, WorkerTypeOK
<1>1. CASE Announces(d) BY <1>1, FrameTypes DEF Announces
<1>2. CASE SendsData(d) BY <1>0, <1>2, FrameTypes DEF SendsData
<1>3. CASE SkipsEmpty(d) BY <1>3 DEF SkipsEmpty
<1>4. CASE SendsEnd(d) BY <1>4, FrameTypes DEF SendsEnd
<1>5. CASE SendsClose(d) BY <1>5, FrameTypes DEF SendsClose
<1> QED BY <1>1, <1>2, <1>3, <1>4, <1>5

LEMMA AnnouncedStep ==
    ASSUME TypeOK, SessionInv, LatestAttached, UpFramesInv, NewInv, AnnouncedInv, [Next]_vars
    PROVE  AnnouncedInv'
<1> SUFFICES ASSUME NEW c \in Conns, NEW s \in Hosts
             PROVE  /\ First(toHost'[s], c, "inbound", AboutIt)
                    /\ Has(toHost'[s], c, "inbound") => asked'[c] = s /\ local'[c] = "none"
  BY DEF AnnouncedInv
<1> DEFINE q == toHost[s]
           Goal == /\ First(toHost'[s], c, "inbound", AboutIt)
                   /\ Has(toHost'[s], c, "inbound") => asked'[c] = s /\ local'[c] = "none"
<1>1. First(q, c, "inbound", AboutIt) /\ (Has(q, c, "inbound") => asked[c] = s /\ local[c] = "none")
  BY DEF AnnouncedInv
<1>2. Has(q, c, "inbound") => asked'[c] = s
  BY <1>1, UpHistory, WorkerAssumption DEF Asked
<1>3. q \in Seq(ToHostFrames) BY QueueType
<1>4. ASSUME UNCHANGED toHost, local[c] = "none" => local'[c] = "none" PROVE Goal
  BY <1>1, <1>2, <1>4
<1>5. ASSUME NEW d \in Conns, Announces(d) \/ SendsData(d) \/ SkipsEmpty(d) \/ SendsEnd(d) \/ SendsClose(d)
      PROVE  Goal
  <2>1. UNCHANGED local BY <1>5, SendKinds
  <2>2. ASSUME NEW m \in ToHostFrames, SendHost(m), m.t # "inbound" \/ m.conn # c PROVE Goal
    <3>1. CASE toHost'[s] = q BY <1>1, <1>2, <2>1, <3>1
    <3>2. CASE toHost'[s] = Append(q, m)
      <4>1. First(Append(q, m), c, "inbound", AboutIt) BY <1>1, <1>3, <2>2, FirstAppend
      <4>2. Has(Append(q, m), c, "inbound") => Has(q, c, "inbound") BY <1>3, <2>2, HasAppend
      <4> QED BY <1>1, <1>2, <2>1, <3>2, <4>1, <4>2
    <3> QED BY <2>2, <3>1, <3>2, SendHostQueue
  <2>3. ASSUME NEW m \in ToHostFrames, SendHost(m), Announces(d), d = c, m.conn = c PROVE Goal
    <3>1. ~Asked(c) /\ asked'[c] = hostWs BY <2>3 DEF Announces, TypeOK, WorkerTypeOK
    <3>2. \A u \in AboutIt : ~Has(q, c, u) BY <3>1, HasAsked
    <3>3. local[c] = "none" BY <3>1 DEF NewInv
    <3>4. CASE toHost'[s] = q BY <1>1, <3>2, <3>4 DEF AboutIt
    <3>5. CASE toHost'[s] = Append(q, m) /\ s = hostWs
      <4>1. First(Append(q, m), c, "inbound", AboutIt) BY <1>1, <1>3, <3>2, FirstAppend
      <4> QED BY <2>1, <3>1, <3>3, <3>5, <4>1
    <3> QED BY <2>3, <3>4, <3>5, SendHostQueue
  <2> QED BY <1>4, <1>5, <2>1, <2>2, <2>3, SendKinds
<1>6. ASSUME toHost'[s] \in {<<>>, <<HelloOk>>} PROVE Goal
  <2>1. \A u \in AboutIt : ~Has(toHost'[s], c, u) BY <1>6 DEF Has, FrameAt, HelloOk, AboutIt
  <2> QED BY <2>1 DEF First, Has, AboutIt
<1>7. ASSUME NEW x \in Hosts, Attach(x), UNCHANGED hostVars PROVE Goal
  <2>1. toHost'[s] = q \/ toHost'[s] = <<HelloOk>> BY <1>7 DEF Attach, TypeOK, WorkerTypeOK
  <2>2. local' = local BY <1>7 DEF hostVars
  <2> QED BY <1>1, <1>2, <1>6, <2>1, <2>2
<1>8. ASSUME NEW x \in Hosts, HostEnds(x) PROVE Goal
  <2>1. toHost'[s] = q \/ toHost'[s] = <<>> BY <1>8 DEF HostEnds, TypeOK, WorkerTypeOK
  <2>2. local' = local BY <1>8 DEF HostEnds
  <2> QED BY <1>1, <1>2, <1>6, <2>1, <2>2
<1>9. ASSUME q # <<>>, toHost'[s] = Tail(q), local[c] = "none" => local'[c] = "none" PROVE Goal
  <2>1. Has(Tail(q), c, "inbound") => Has(q, c, "inbound") BY <1>3, <1>9, HasTail
  <2>2. First(Tail(q), c, "inbound", AboutIt) BY <1>1, <1>3, <1>9, FirstTail
  <2> QED BY <1>1, <1>2, <1>9, <2>1, <2>2
<1>10. ASSUME NEW x \in Hosts, HostConnects(x) PROVE Goal
  <2>1. \/ toHost'[s] = q
        \/ q # <<>> /\ toHost'[s] = Tail(q)
    BY <1>10 DEF HostConnects, TypeOK, WorkerTypeOK
  <2>2. local' = local BY <1>10 DEF HostConnects
  <2> QED BY <1>1, <1>2, <1>9, <2>1, <2>2
<1>11. ASSUME NEW x \in Hosts, ReadLoop(x) PROVE Goal
  <2>1. PICK m : /\ ReadsFrame(x, m) /\ m.t \in AboutIt
                 /\ c # m.conn => local'[c] = local[c]
                 /\ m.t = "data" => UNCHANGED local
                 /\ m.t = "data.end" => UNCHANGED local
                 /\ m.t = "close" => ReadsClose(x)
    BY <1>11, ReadsLocal
  <2>2. /\ x = s => q # <<>> /\ toHost'[s] = Tail(q)
        /\ x # s => toHost'[s] = q
    BY <2>1 DEF ReadsFrame, TypeOK, WorkerTypeOK
  <2>3. CASE local[c] = "none" => local'[c] = "none" BY <1>1, <1>2, <1>9, <2>2, <2>3
  <2>4. CASE m.t = "inbound" /\ m.conn = c
    <3>1. Has(toHost[x], c, "inbound") BY <2>1, <2>4 DEF ReadsFrame, Has, FrameAt
    <3>2. asked[c] = x BY <3>1 DEF AnnouncedInv
    <3>3. CASE x # s
      <4>1. ~Has(q, c, "inbound") BY <1>1, <3>2, <3>3
      <4> QED BY <1>1, <2>2, <3>3, <4>1
    <3>4. CASE x = s
      <4>1. FrameAt(q, c, "inbound", 1) BY <2>1, <2>4, <3>4 DEF ReadsFrame
      <4>2. First(Tail(q), c, "inbound", AboutIt) /\ ~Has(Tail(q), c, "inbound")
        BY <1>1, <1>3, <2>2, <3>4, <4>1, FirstTail DEF AboutIt
      <4> QED BY <2>2, <3>4, <4>2
    <3> QED BY <3>3, <3>4
  <2>5. CASE m.t = "close" /\ m.conn = c /\ local[c] = "none"
    <3>1. c \in hconns => local'[c] = "none"
      BY <2>1, <2>5, FinishQuiet DEF ReadsClose, Reads, ReadsFrame, TypeOK, WorkerTypeOK
    <3>2. c \notin hconns => local'[c] = "none" BY <2>1, <2>5 DEF ReadsClose, Reads, ReadsFrame, TypeOK, WorkerTypeOK
    <3> QED BY <2>3, <3>1, <3>2
  <2> QED BY <2>1, <2>3, <2>4, <2>5 DEF AboutIt
<1> HIDE DEF Goal
<1>12. ASSUME UpQuiet PROVE Goal
  BY <1>4, <1>12 DEF UpQuiet
<1> QED BY <1>5, <1>7, <1>8, <1>10, <1>11, <1>12, UpKinds DEF Goal

-----------------------------------------------------------------------------
\* The connections to the local service.
localVars == <<local, hconns, rdPc, downRead, upGot>>

ReaderStep(c) ==
    \/ c \in Http /\ (ResponseHead(c) \/ ResponseHeadFails(c) \/ ResponseChunk(c) \/ ResponseEnd(c))
    \/ c \in Wss /\ (LocalMessage(c) \/ TunnelEnd(c))

LEMMA LocalKinds ==
    ASSUME [Next]_vars
    PROVE  \/ UNCHANGED localVars
           \/ \E s \in Hosts : HostConnects(s) \/ ReadLoop(s)
           \/ \E c \in Conns : ReaderStep(c)
<1>1. UNCHANGED hostVars => UNCHANGED localVars BY DEF hostVars, localVars
<1>2. ASSUME NEW s \in Hosts, HostDials(s) \/ HostEnds(s) PROVE UNCHANGED localVars
  BY <1>2 DEF HostDials, HostEnds, localVars
<1>3. CASE UNCHANGED vars BY <1>1, <1>3 DEF vars
<1> QED BY <1>1, <1>2, <1>3 DEF Next, ReaderStep, Conns

\* A step of a reader: where it was, where it is, and what it changes besides.
LEMMA ReaderEffect ==
    ASSUME TypeOK, NEW c \in Conns, ReaderStep(c)
    PROVE  /\ rdPc[c] \notin {"none", "done"} /\ rdPc'[c] # "none"
           /\ rdPc'[c] = "head" => FALSE
           /\ \A d \in Conns : d # c => rdPc'[d] = rdPc[d] /\ downRead'[d] = downRead[d]
           /\ \A d \in Conns : /\ local[d] # "open" => local'[d] = local[d]
                               /\ local[d] = "open" => local'[d] \in {"open", "closed"}
           /\ hconns' \subseteq hconns
           /\ HostOnly /\ UNCHANGED <<toHost, hostPc, upGot>>
<1>1. HostOnly /\ UNCHANGED <<toHost, hostPc, upGot>>
  BY DEF ReaderStep, ResponseHead, ResponseHeadFails, ResponseChunk, ResponseEnd, LocalMessage, TunnelEnd,
         ReaderOnly
<1>2. UNCHANGED <<local, hconns>> \/ Finish(c)
  BY DEF ReaderStep, ResponseHead, ResponseHeadFails, ResponseChunk, ResponseEnd, LocalMessage, TunnelEnd
<1>3. /\ \E to \in {"body", "done", "pump"} : rdPc' = [rdPc EXCEPT ![c] = to]
      /\ rdPc[c] \in {"head", "body", "pump"}
  BY DEF ReaderStep, ResponseHead, ResponseHeadFails, ResponseChunk, ResponseEnd, LocalMessage, TunnelEnd,
         ReaderAt
<1>4. downRead' = downRead \/ downRead' = [downRead EXCEPT ![c] = @ + 1]
  BY DEF ReaderStep, ResponseHead, ResponseHeadFails, ResponseChunk, ResponseEnd, LocalMessage, TunnelEnd,
         ReadOne
<1>5. /\ rdPc'[c] \in {"body", "done", "pump"}
      /\ \A d \in Conns : d # c => rdPc'[d] = rdPc[d] /\ downRead'[d] = downRead[d]
  BY <1>3, <1>4 DEF TypeOK
<1>6. /\ hconns' \subseteq hconns
      /\ \A d \in Conns : /\ local[d] # "open" => local'[d] = local[d]
                          /\ local[d] = "open" => local'[d] \in {"open", "closed"}
  BY <1>2, FinishQuiet
<1> QED BY <1>1, <1>3, <1>5, <1>6

\* The end of a body reaches a request that is there once, from its own session.
LEMMA BodyEnds ==
    ASSUME TypeOK, UpFramesInv, LocalInv, EndInv, NEW s \in Hosts, NEW m, ReadsFrame(s, m), m.t = "data.end",
           Taking(m.conn)
    PROVE  /\ m.conn \in Http /\ asked[m.conn] = s /\ rdPc[m.conn] = "none"
           /\ pumpPc[m.conn] = "sent"
           /\ ~Has(Tail(toHost[s]), m.conn, "data.end")
<1> DEFINE c == m.conn
<1>1. c \in Conns /\ Asked(c) /\ FrameAt(toHost[s], c, "data.end", 1) /\ toHost[s] # <<>>
  BY DEF ReadsFrame
<1>2. Has(toHost[s], c, "data.end") BY <1>1 DEF Has, FrameAt
<1>3. c \in Http /\ pumpPc[c] = "sent" BY <1>1, <1>2, HasAsked DEF AboutIt
<1>4. asked[c] = s BY <1>1 DEF LocalInv, Taking, ReadsFrame
<1>5. Once(toHost[s], c, "data.end") /\ rdPc[c] = "none" BY <1>1, <1>2, <1>3, <1>4 DEF EndInv
<1>6. ~Has(Tail(toHost[s]), c, "data.end") BY <1>1, <1>5, OnceTail, QueueType
<1> QED BY <1>3, <1>4, <1>5, <1>6

LEMMA LocalStep ==
    ASSUME TypeOK, SessionInv, LatestAttached, UpFramesInv, NewInv, AnnouncedInv, EndInv, LocalInv, [Next]_vars
    PROVE  LocalInv'
<1>a. \A c \in hconns : c \in Conns /\ Asked(c) /\ asked'[c] = asked[c]
  BY UpHistory DEF LocalInv, NewInv, TypeOK
<1>1. CASE UNCHANGED localVars /\ \A s \in Hosts : Serving(s)' => Serving(s)
  BY <1>a, <1>1 DEF LocalInv, localVars
<1>2. ASSUME NEW s \in Hosts, HostConnects(s) PROVE LocalInv'
  BY <1>2 DEF HostConnects, LocalInv
<1>3. ASSUME NEW s \in Hosts, ReadLoop(s) PROVE LocalInv'
  <2>1. PICK m : /\ ReadsFrame(s, m) /\ m.t \in AboutIt
                 /\ \A c \in Conns : c # m.conn =>
                        /\ local'[c] = local[c] /\ rdPc'[c] = rdPc[c] /\ upGot'[c] = upGot[c]
                        /\ c \in hconns' <=> c \in hconns
                 /\ m.t = "inbound" => (InboundDialled(s) \/ InboundRefused(s)) /\ UNCHANGED upGot
                 /\ m.t = "data" => ReadsData(s) /\ UNCHANGED <<local, hconns, rdPc>>
                 /\ m.t = "data.end" => ReadsDataEnd(s) /\ UNCHANGED <<local, hconns, upGot>>
                 /\ m.t = "close" => ReadsClose(s) /\ UNCHANGED <<upGot, rdPc>>
    BY <1>3, ReadsLocal
  <2>2. /\ downRead' = downRead /\ asked' = asked /\ hostPc' = hostPc
        /\ m.conn \in Conns /\ m = Head(toHost[s]) /\ hconns' \subseteq Conns
    <3>1. downRead' = downRead
      BY <1>3 DEF ReadLoop, InboundDialled, InboundRefused, ReadsData, ReadsDataEnd, ReadsClose
    <3>2. hconns' \subseteq Conns BY TypeStep DEF TypeOK
    <3>3. m = Head(toHost[s]) BY <2>1, ReadsHead DEF ReadsFrame
    <3> QED BY <2>1, <3>1, <3>2, <3>3 DEF ReadsFrame, HostOnly
  <2>3. CASE m.t = "inbound"
    <3>1. asked[m.conn] = s /\ local[m.conn] = "none"
      BY <2>1, <2>3 DEF AnnouncedInv, ReadsFrame, Has, FrameAt
    <3>2. \A x \in Hosts : Serving(x) => x = s BY <2>1 DEF SessionInv, ReadsFrame, Serving
    <3>3. CASE InboundDialled(s)
      <4>1. local'[m.conn] = "open" /\ hconns' = hconns \cup {m.conn}
        BY <2>2, <3>3 DEF InboundDialled, TypeOK
      <4>2. m.conn \in Http => rdPc'[m.conn] = rdPc[m.conn]
        BY <2>2, <3>3, WorkerAssumption DEF InboundDialled, TunnelDialled
      <4> QED BY <2>1, <2>2, <3>1, <3>2, <4>1, <4>2 DEF LocalInv, Serving, Conns
    <3>4. CASE InboundRefused(s)
      <4>1. local'[m.conn] = "refused" /\ UNCHANGED <<hconns, rdPc>>
        BY <2>2, <3>4 DEF InboundRefused, DialFails, TypeOK
      <4> QED BY <2>1, <2>2, <3>1, <4>1 DEF LocalInv, Serving, Conns
    <3> QED BY <2>1, <2>3, <3>3, <3>4
  <2>4. CASE m.t = "data"
    <3>1. local[m.conn] = "none" => upGot'[m.conn] = upGot[m.conn]
      BY <2>1, <2>2, <2>4 DEF ReadsData, WriteLocal
    <3> QED BY <2>1, <2>2, <2>4, <3>1 DEF LocalInv, Serving, Conns
  <2>5. CASE m.t = "data.end"
    <3>1. CASE Taking(m.conn)
      <4>1. m.conn \in Http /\ rdPc[m.conn] = "none" BY <2>1, <2>5, <3>1, BodyEnds
      <4>2. rdPc'[m.conn] = "head" BY <2>1, <2>2, <2>5, <3>1 DEF ReadsDataEnd, Taking, TypeOK
      <4> QED BY <2>1, <2>2, <2>5, <3>1, <4>1, <4>2 DEF LocalInv, Serving, Taking, Conns
    <3>2. CASE ~Taking(m.conn)
      <4>1. rdPc' = rdPc BY <2>1, <2>2, <2>5, <3>2 DEF ReadsDataEnd, Taking
      <4> QED BY <2>1, <2>2, <2>5, <4>1 DEF LocalInv, Serving
    <3> QED BY <3>1, <3>2
  <2>6. CASE m.t = "close"
    <3>1. /\ local'[m.conn] \in {"none", "refused"} => local'[m.conn] = local[m.conn]
          /\ hconns' \subseteq hconns
      BY <2>1, <2>2, <2>6, FinishQuiet DEF ReadsClose
    <3> QED BY <2>1, <2>2, <2>6, <3>1 DEF LocalInv, Serving, Conns
  <2> QED BY <2>1, <2>3, <2>4, <2>5, <2>6 DEF AboutIt
<1>4. ASSUME NEW c \in Conns, ReaderStep(c) PROVE LocalInv'
  <2>1. local[c] \notin {"none", "refused"} BY <1>4, ReaderEffect DEF LocalInv
  <2>2. asked' = asked /\ hostPc' = hostPc BY <1>4, ReaderEffect DEF HostOnly
  <2>3. c \in Http => rdPc'[c] \notin {"none", "head"} BY <1>4, ReaderEffect
  <2> QED BY <1>4, <2>1, <2>2, <2>3, ReaderEffect DEF LocalInv, Serving, Conns
<1>5. UNCHANGED localVars =>
         \/ \A s \in Hosts : Serving(s)' => Serving(s)
         \/ \E s \in Hosts : HostConnects(s)
  <2>1. ASSUME NEW s \in Hosts, SessionMoves(s), ~HostConnects(s), NEW x \in Hosts
        PROVE  Serving(x)' => Serving(x)
    BY <2>1 DEF SessionMoves, hostVars, HostDials, HostEnds, HostAt, Serving, TypeOK
  <2> QED BY <2>1, SessionKinds DEF sessionVars, Serving
<1> QED BY <1>1, <1>2, <1>3, <1>4, <1>5, LocalKinds

LEMMA EndStep ==
    ASSUME TypeOK, SessionInv, LatestAttached, UpFramesInv, NewInv, AnnouncedInv, EndInv, LocalInv, RequestWhole,
           [Next]_vars
    PROVE  EndInv'
<1> SUFFICES ASSUME NEW c \in Http, asked'[c] # NoHost
             PROVE  /\ Once(toHost'[asked'[c]], c, "data.end")
                    /\ Has(toHost'[asked'[c]], c, "data.end") => rdPc'[c] = "none"
  BY DEF EndInv, Asked
<1> DEFINE s == asked'[c]
           q == toHost[s]
           r == toHost'[s]
           Goal == Once(r, c, "data.end") /\ (Has(r, c, "data.end") => rdPc'[c] = "none")
<1>0. c \in Conns /\ c \notin Wss /\ s \in Hosts /\ "data.end" \in AboutIt
  <2>1. TypeOK' BY TypeStep
  <2> QED BY <2>1, WorkerAssumption DEF TypeOK, WorkerTypeOK, Conns, AboutIt
<1>1. q \in Seq(ToHostFrames) BY <1>0, QueueType
<1>2. Once(q, c, "data.end") /\ (Has(q, c, "data.end") => Asked(c) /\ pumpPc[c] = "sent" /\ rdPc[c] = "none")
  <2>1. CASE Asked(c)
    <3>1. asked[c] = s BY <1>0, <2>1, UpHistory
    <3> QED BY <1>0, <2>1, <3>1, HasAsked DEF EndInv
  <2>2. CASE ~Asked(c)
    <3>1. ~Has(q, c, "data.end") BY <1>0, <2>2, HasAsked
    <3> QED BY <3>1 DEF Has, Once
  <2> QED BY <2>1, <2>2
<1> HIDE DEF s
<1>3. ASSUME r \in {<<>>, <<HelloOk>>} PROVE Goal
  <2>1. ~Has(r, c, "data.end") BY <1>3 DEF Has, FrameAt, HelloOk
  <2> QED BY <2>1 DEF Has, Once
<1>4. ASSUME r = q, rdPc[c] = "none" => rdPc'[c] = "none" PROVE Goal BY <1>2, <1>4
<1>5. ASSUME q # <<>>, r = Tail(q), rdPc[c] = "none" => rdPc'[c] = "none" PROVE Goal
  BY <1>1, <1>2, <1>5, OnceTail, HasTail
<1> HIDE DEF Goal
<1>6. ASSUME NEW d \in Conns, Announces(d) \/ SendsData(d) \/ SkipsEmpty(d) \/ SendsEnd(d) \/ SendsClose(d)
      PROVE  Goal
  <2>1. rdPc' = rdPc BY <1>6, SendKinds
  <2>2. ASSUME NEW m \in ToHostFrames, SendHost(m), m.t # "data.end" \/ m.conn # c PROVE Goal
    <3>1. CASE r = q BY <1>4, <2>1, <3>1
    <3>2. CASE r = Append(q, m)
      <4>1. Once(Append(q, m), c, "data.end") BY <1>1, <1>2, <2>2, OnceAppend
      <4>2. Has(Append(q, m), c, "data.end") => Has(q, c, "data.end") BY <1>1, <2>2, HasAppend
      <4> QED BY <1>2, <2>1, <3>2, <4>1, <4>2 DEF Goal
    <3> QED BY <1>0, <2>2, <3>1, <3>2, SendHostQueue
  <2>3. ASSUME NEW m \in ToHostFrames, SendHost(m), SendsEnd(c) PROVE Goal
    <3>1. pumpPc[c] = "pumping" BY <2>3 DEF SendsEnd
    <3>2. ~Has(q, c, "data.end") /\ rdPc[c] = "none" BY <1>2, <3>1 DEF RequestWhole
    <3>3. CASE r = q BY <1>4, <2>1, <3>3
    <3>4. CASE r = Append(q, m)
      <4>1. Once(Append(q, m), c, "data.end") BY <1>1, <1>2, <3>2, OnceAppend
      <4> QED BY <2>1, <3>2, <3>4, <4>1 DEF Goal
    <3> QED BY <1>0, <2>3, <3>3, <3>4, SendHostQueue
  <2> QED BY <1>4, <1>6, <2>1, <2>2, <2>3, SendKinds
<1>7. ASSUME NEW x \in Hosts, (Attach(x) /\ UNCHANGED hostVars) \/ HostEnds(x) \/ HostConnects(x) PROVE Goal
  <2>1. rdPc' = rdPc BY <1>7 DEF HostEnds, HostConnects, hostVars
  <2>2. r = q \/ r \in {<<>>, <<HelloOk>>} \/ (q # <<>> /\ r = Tail(q))
    BY <1>0, <1>7 DEF Attach, HostEnds, HostConnects, TypeOK, WorkerTypeOK
  <2> QED BY <1>3, <1>4, <1>5, <2>1, <2>2
<1>8. ASSUME NEW x \in Hosts, ReadLoop(x) PROVE Goal
  <2>1. PICK m : /\ ReadsFrame(x, m) /\ m.t \in AboutIt
                 /\ c # m.conn => rdPc'[c] = rdPc[c]
                 /\ m.t = "inbound" => InboundDialled(x) \/ InboundRefused(x)
                 /\ m.t = "data" => UNCHANGED rdPc
                 /\ m.t = "data.end" => ReadsDataEnd(x)
                 /\ m.t = "close" => UNCHANGED rdPc
    BY <1>0, <1>8, ReadsLocal
  <2>2. r = q \/ (q # <<>> /\ r = Tail(q))
    BY <1>0, <2>1 DEF ReadsFrame, TypeOK, WorkerTypeOK
  <2>3. m = Head(toHost[x]) BY <2>1, ReadsHead DEF ReadsFrame
  <2>4. CASE rdPc'[c] = rdPc[c] BY <1>4, <1>5, <2>2, <2>4
  <2>5. CASE m.t = "inbound" /\ m.conn = c
    <3>1. rdPc' = rdPc
      BY <1>0, <2>1, <2>3, <2>5 DEF InboundDialled, TunnelDialled, InboundRefused, DialFails
    <3> QED BY <2>4, <3>1
  <2>6. CASE m.t = "data.end" /\ m.conn = c /\ ~Taking(c)
    <3>1. rdPc' = rdPc BY <2>1, <2>3, <2>6 DEF ReadsDataEnd, Taking
    <3> QED BY <2>4, <3>1
  <2>7. CASE m.t = "data.end" /\ m.conn = c /\ Taking(c)
    <3>1. asked[c] = x /\ ~Has(Tail(toHost[x]), c, "data.end") BY <2>1, <2>7, BodyEnds
    <3>2. s = x
      <4>1. Asked(c) BY <2>1, <2>7 DEF ReadsFrame
      <4> QED BY <1>0, <3>1, <4>1, UpHistory DEF s
    <3>3. r = Tail(q) BY <2>1, <3>2 DEF ReadsFrame, TypeOK, WorkerTypeOK
    <3>4. ~Has(r, c, "data.end") BY <3>1, <3>2, <3>3
    <3> QED BY <3>4 DEF Goal, Has, Once
  <2> QED BY <2>1, <2>4, <2>5, <2>6, <2>7 DEF AboutIt
<1>9. ASSUME UpQuiet PROVE Goal
  <2>1. r = q /\ (rdPc'[c] = "none" <=> rdPc[c] = "none") BY <1>9 DEF UpQuiet
  <2> QED BY <1>4, <2>1
<1> QED BY <1>6, <1>7, <1>8, <1>9, UpKinds DEF Goal, s

-----------------------------------------------------------------------------
\* Sequences in order.
LEMMA InOrderEmpty == \A ns : InOrder(<<>>, ns) /\ Had(<<>>) = {}
<1>1. Len(<<>>) = 0 OBVIOUS
<1>2. 1..Len(<<>>) = {} BY <1>1
<1> QED BY <1>2 DEF InOrder, Had

LEMMA InOrderHad ==
    ASSUME NEW s, NEW ns, InOrder(s, ns)
    PROVE  Had(s) \subseteq ns
BY DEF InOrder, Had

LEMMA HadAppend ==
    ASSUME NEW s \in Seq(Nat), NEW n \in Nat
    PROVE  Had(Append(s, n)) = Had(s) \cup {n}
<1> DEFINE r == Append(s, n)
<1>1. /\ Len(r) = Len(s) + 1 /\ Len(s) \in Nat
      /\ \A j \in 1..Len(s) : r[j] = s[j]
      /\ r[Len(s) + 1] = n
  BY AppendProperties
<1> HIDE DEF r
<1>2. \A j \in 1..Len(s) : s[j] \in Had(r) BY <1>1 DEF Had
<1>3. n \in Had(r)
  <2>1. Len(s) + 1 \in 1..Len(r) BY <1>1
  <2> QED BY <1>1, <2>1 DEF Had
<1>4. \A j \in 1..Len(r) : r[j] \in Had(s) \cup {n}
  <2> TAKE j \in 1..Len(r)
  <2>1. j \in 1..Len(s) \/ j = Len(s) + 1 BY <1>1
  <2> QED BY <1>1, <2>1 DEF Had
<1> QED BY <1>2, <1>3, <1>4 DEF Had, r

LEMMA InOrderAppend ==
    ASSUME NEW s \in Seq(Nat), NEW ns \in SUBSET Nat, NEW n \in ns, InOrder(s, ns),
           \A k \in Had(s) : k < n, \A k \in ns : k < n => k \in Had(s)
    PROVE  InOrder(Append(s, n), ns)
<1> DEFINE r == Append(s, n)
<1>1. /\ Len(r) = Len(s) + 1 /\ Len(s) \in Nat
      /\ \A j \in 1..Len(s) : r[j] = s[j]
      /\ r[Len(s) + 1] = n
  BY AppendProperties
<1> HIDE DEF r
<1> SUFFICES ASSUME NEW i \in 1..Len(r)
             PROVE  /\ r[i] \in ns
                    /\ \A j \in 1..(i - 1) : r[j] < r[i]
                    /\ \A k \in ns : k < r[i] => \E j \in 1..(i - 1) : r[j] = k
  BY DEF InOrder, r
<1>2. CASE i = Len(s) + 1
  <2>1. 1..(i - 1) = 1..Len(s) BY <1>1, <1>2
  <2> QED BY <1>1, <1>2, <2>1 DEF Had
<1>3. CASE i # Len(s) + 1
  <2>1. i \in 1..Len(s) /\ r[i] = s[i] BY <1>1, <1>3
  <2>2. \A j \in 1..(i - 1) : j \in 1..Len(s) /\ r[j] = s[j] BY <1>1, <2>1
  <2>3. /\ s[i] \in ns
        /\ \A j \in 1..(i - 1) : s[j] < s[i]
        /\ \A k \in ns : k < s[i] => \E j \in 1..(i - 1) : s[j] = k
    BY <2>1 DEF InOrder
  <2> QED BY <2>1, <2>2, <2>3
<1> QED BY <1>2, <1>3

LEMMA InOrderMore ==
    ASSUME NEW s, NEW ns \in SUBSET Nat, NEW n \in Nat, \A k \in ns : k < n, InOrder(s, ns)
    PROVE  InOrder(s, ns \cup {n})
<1> SUFFICES ASSUME NEW i \in 1..Len(s)
             PROVE  /\ s[i] \in ns \cup {n}
                    /\ \A k \in ns \cup {n} : k < s[i] => \E j \in 1..(i - 1) : s[j] = k
  BY DEF InOrder
<1>1. s[i] \in ns /\ \A k \in ns : k < s[i] => \E j \in 1..(i - 1) : s[j] = k BY DEF InOrder
<1>2. ~(n < s[i])
  <2>1. s[i] \in Nat /\ s[i] < n BY <1>1
  <2> QED BY <2>1
<1> QED BY <1>1, <1>2

\* Numbers in order from a set without gaps count from one.
LEMMA CountsOn ==
    ASSUME NEW s \in Seq(Nat), NEW l \in Nat, NEW n \in 1..l, \A i \in 1..Len(s) : s[i] = i,
           \A k \in Had(s) : k < n, \A k \in 1..l : k < n => k \in Had(s)
    PROVE  \A i \in 1..Len(Append(s, n)) : Append(s, n)[i] = i
<1> DEFINE r == Append(s, n)
<1>1. /\ Len(r) = Len(s) + 1 /\ Len(s) \in Nat
      /\ \A j \in 1..Len(s) : r[j] = s[j]
      /\ r[Len(s) + 1] = n
  BY AppendProperties
<1> HIDE DEF r
<1>2. n > Len(s)
  <2>1. CASE Len(s) = 0 BY <2>1
  <2>2. CASE Len(s) # 0
    <3>1. Len(s) \in 1..Len(s) BY <1>1, <2>2
    <3>2. Len(s) \in Had(s) BY <3>1 DEF Had
    <3> QED BY <1>1, <3>2
  <2> QED BY <2>1, <2>2
<1>3. ~(Len(s) + 1 < n)
  <2> SUFFICES ASSUME Len(s) + 1 < n PROVE FALSE OBVIOUS
  <2>1. Len(s) + 1 \in 1..l BY <1>1
  <2>2. Len(s) + 1 \in Had(s) BY <2>1
  <2>3. \A k \in Had(s) : k \in 1..Len(s) BY DEF Had
  <2> QED BY <1>1, <2>2, <2>3
<1>4. n = Len(s) + 1 BY <1>1, <1>2, <1>3
<1> QED BY <1>1, <1>4 DEF r

LEMMA CountsAll ==
    ASSUME NEW s \in Seq(Nat), NEW l \in Nat, \A i \in 1..Len(s) : s[i] = i,
           Had(s) \subseteq 1..l, 1..l \subseteq Had(s)
    PROVE  Len(s) = l /\ s = [i \in 1..l |-> i]
<1>1. Len(s) \in Nat /\ DOMAIN s = 1..Len(s) /\ s = [i \in 1..Len(s) |-> s[i]] BY LenProperties
<1>2. \A k \in Had(s) : k \in 1..Len(s) BY DEF Had
<1>3. \A k \in 1..Len(s) : k \in Had(s) BY DEF Had
<1>4. Len(s) = l BY <1>1, <1>2, <1>3
<1> QED BY <1>1, <1>4

-----------------------------------------------------------------------------
\* The way to the local service.
LEMMA UpTypes ==
    ASSUME TypeOK, NEW c \in Conns
    PROVE  /\ Sent(c) \in SUBSET Nat /\ upSent[c] \in Nat /\ upGot[c] \in Seq(Nat)
           /\ \A k \in Sent(c) : k \in 1..upSent[c]
           /\ c \in Http => Sent(c) = 1..upSent[c]
<1>1. upSent[c] \in Nat BY DEF TypeOK, WorkerTypeOK
<1>2. upGot[c] \in Seq(Nat)
  <2>1. upGot[c] \in Seq(Nat \ {0}) BY DEF TypeOK
  <2> QED BY <2>1, SeqMonotonic
<1>3. c \in Http => EmptyOf(c) = {} BY WorkerAssumption DEF EmptyOf
<1> QED BY <1>1, <1>2, <1>3 DEF Sent

\* A connection that was just announced, or nobody was asked about.
LEMMA UpNew ==
    ASSUME TypeOK, UpFramesInv, NewInv, LocalInv, LocalInv', NEW c \in Conns, ~Asked(c),
           asked'[c] # NoHost =>
               /\ Announces(c)
               /\ asked'[c] \in Hosts,
           local'[c] = "none"
    PROVE  UpPart(c)'
<1>1. upGot'[c] = <<>> BY DEF LocalInv
<1>2. ASSUME asked'[c] # NoHost
      PROVE  Link(toHost'[asked'[c]], c, Had(upGot'[c]), Sent(c)', Attached(c)')
  <2> DEFINE s == asked'[c]
             q == toHost[s]
             r == toHost'[s]
  <2>1. s \in Hosts /\ q \in Seq(ToHostFrames) BY <1>2, QueueType
  <2>2. ~Has(q, c, "data") /\ ~Has(q, c, "data.end") BY <2>1, HasAsked DEF AboutIt
  <2>3. PICK m \in ToHostFrames : m.t = "inbound" /\ (r = q \/ r = Append(q, m))
    <3>1. Sends(Msg("inbound", c, 0)) BY <1>2 DEF Announces
    <3>2. Msg("inbound", c, 0) \in ToHostFrames /\ Msg("inbound", c, 0).t = "inbound"
      BY FrameTypes DEF Msg
    <3> QED BY <2>1, <3>1, <3>2, SendHostQueue DEF Sends
  <2> HIDE DEF s, q, r
  <2>4. ~Has(r, c, "data") /\ ~Has(r, c, "data.end")
    <3>1. /\ ~Has(Append(q, m), c, "data")
          /\ ~Has(Append(q, m), c, "data.end")
      BY <2>1, <2>2, <2>3, HasAppend
    <3> QED BY <2>2, <2>3, <3>1
  <2>5. Sent(c)' = {}
    <3>1. upSent'[c] = 0 BY <1>2 DEF Announces, NewInv
    <3> QED BY <3>1 DEF Sent
  <2>6. Attached(c)' \in BOOLEAN BY DEF Attached
  <2>7. \A i \in 1..Len(r) : ~FrameAt(r, c, "data", i) BY <2>4 DEF Has
  <2> QED BY <2>4, <2>5, <2>6, <2>7, LinkFresh DEF r, s
<1>3. UpLinked(c)' BY <1>2 DEF UpLinked, Asked
<1>4. InOrder(upGot'[c], Sent(c)') BY <1>1, InOrderEmpty
<1>5. Len(upGot'[c]) = 0 BY <1>1
<1> QED BY <1>3, <1>4, <1>5 DEF UpPart

\* Nothing moves for a connection, though its session or its host may give it up.
LEMMA UpSame ==
    ASSUME NEW c \in Conns, Asked(c), UpPart(c), asked'[c] = asked[c],
           toHost'[asked[c]] = toHost[asked[c]], upGot'[c] = upGot[c], upSent'[c] = upSent[c],
           Ready(c)' => Ready(c), Attached(c)' => Attached(c)
    PROVE  UpPart(c)'
<1>1. Sent(c)' = Sent(c) BY DEF Sent, EmptyOf
<1>2. UpLinked(c)'
  <2> SUFFICES ASSUME Ready(c)'
               PROVE  Link(toHost[asked[c]], c, Had(upGot[c]), Sent(c), Attached(c)')
    BY <1>1 DEF UpLinked
  <2>1. Link(toHost[asked[c]], c, Had(upGot[c]), Sent(c), Attached(c)) BY DEF UpPart, UpLinked
  <2> QED BY <2>1, LinkWeaker
<1> QED BY <1>1, <1>2 DEF UpPart

\* A frame is appended to a queue, or lost.
LEMMA UpSends ==
    ASSUME TypeOK, SessionInv, UpFramesInv, NewInv, NEW c \in Conns, Asked(c), UpPart(c),
           NEW d \in Conns, SendsData(d) \/ SkipsEmpty(d) \/ SendsEnd(d) \/ SendsClose(d) \/ Announces(d)
    PROVE  UpPart(c)'
<1> DEFINE s == asked[c]
           q == toHost[s]
           r == toHost'[s]
           done == Had(upGot[c])
<1>1. s \in Hosts /\ q \in Seq(ToHostFrames)
  <2>1. s \in Hosts BY DEF Asked, TypeOK, WorkerTypeOK
  <2> QED BY <2>1, QueueType
<1>2. asked'[c] = s /\ upGot' = upGot /\ UNCHANGED <<linkVars, hostVars>>
  BY DEF SendsData, SkipsEmpty, SendsEnd, SendsClose, Announces, Sends, hostVars, TypeOK, WorkerTypeOK
<1>3. Attached(c)' = Attached(c) /\ Taking(c)' = Taking(c)
  BY <1>2 DEF Attached, Taking, linkVars, hostVars
<1>4. upSent'[c] = IF d = c /\ (SendsData(d) \/ SkipsEmpty(d)) THEN upSent[c] + 1 ELSE upSent[c]
  BY DEF SendsData, SkipsEmpty, SendsEnd, SendsClose, Announces, TypeOK, WorkerTypeOK
<1>5. /\ Sent(c) \in SUBSET Nat /\ upSent[c] \in Nat
      /\ \A k \in Sent(c) : k \in 1..upSent[c]
  BY UpTypes
<1>6. done \subseteq Sent(c) BY InOrderHad DEF UpPart
<1>7. PICK m \in ToHostFrames :
         /\ r = q \/ (Attached(c) /\ r = Append(q, m))
         /\ r = q => ~Attached(c) \/ SkipsEmpty(d)
         /\ m.conn = d
         /\ m.t = "inbound" => Announces(d)
         /\ m.t = "data" <=> SendsData(d)
         /\ SendsData(d) => m.n = upSent[d] + 1
         /\ m.t = "data.end" => SendsEnd(d)
  <2>1. ASSUME NEW m \in ToHostFrames, SendHost(m)
        PROVE  /\ r = q \/ (Attached(c) /\ r = Append(q, m))
               /\ r = q => ~Attached(c)
    <3>1. r = IF s = hostWs /\ hostUp[s] THEN Append(q, m) ELSE q BY <1>1, <2>1, SendHostQueue
    <3>2. Append(q, m) # q BY <1>1, AppendProperties
    <3> QED BY <3>1, <3>2 DEF Attached
  <2> USE DEF Sends, Msg
  <2>2. upSent[d] + 1 \in Nat BY DEF TypeOK, WorkerTypeOK
  <2>a. ~SendsData(d) \/ ~(SendsEnd(d) \/ SendsClose(d) \/ Announces(d) \/ SkipsEmpty(d))
    BY UpTypes DEF SendsData, SendsEnd, SendsClose, Announces, SkipsEmpty, TypeOK, WorkerTypeOK, EmptyOf
  <2>3. CASE Announces(d)
    <3>1. Msg("inbound", d, 0) \in ToHostFrames BY FrameTypes
    <3> QED BY <2>a, <2>1, <2>3, <3>1 DEF Announces
  <2>4. CASE SendsData(d)
    <3>1. Msg("data", d, upSent[d] + 1) \in ToHostFrames BY <2>2, FrameTypes
    <3> QED BY <2>1, <2>4, <3>1 DEF SendsData
  <2>5. CASE SkipsEmpty(d)
    <3>1. Msg("close", d, 0) \in ToHostFrames /\ r = q BY <2>5, FrameTypes DEF SkipsEmpty
    <3> QED BY <2>a, <2>5, <3>1
  <2>6. CASE SendsEnd(d)
    <3>1. Msg("data.end", d, 0) \in ToHostFrames BY FrameTypes
    <3> QED BY <2>a, <2>1, <2>6, <3>1 DEF SendsEnd
  <2>7. CASE SendsClose(d)
    <3>1. Msg("close", d, 0) \in ToHostFrames BY FrameTypes
    <3> QED BY <2>a, <2>1, <2>7, <3>1 DEF SendsClose
  <2> QED BY <2>3, <2>4, <2>5, <2>6, <2>7
<1>8. Ready(c)' => Ready(c)
  <2>1. ~(d = c /\ Announces(d)) BY DEF Announces
  <2>2. Has(r, c, "inbound") => Has(q, c, "inbound")
    <3>1. Has(Append(q, m), c, "inbound") => Has(q, c, "inbound") BY <1>1, <1>7, <2>1, HasAppend
    <3> QED BY <1>7, <3>1
  <2> QED BY <1>2, <1>3, <2>2 DEF Ready
<1> HIDE DEF s, q, r, done
<1>9. CASE d = c /\ SendsData(d)
  <2> DEFINE n == upSent[c] + 1
  <2>1. n \in Nat /\ \A k \in Sent(c) : k < n BY <1>5
  <2>2. Sent(c)' = Sent(c) \cup {n}
    <3>1. n \notin EmptyOf(c) BY <1>9 DEF SendsData
    <3>2. upSent'[c] = n BY <1>4, <1>9
    <3>3. 1..n = (1..upSent[c]) \cup {n} BY <1>5
    <3> QED BY <3>1, <3>2, <3>3 DEF Sent, EmptyOf
  <2> HIDE DEF n
  <2>3. ASSUME Ready(c)' PROVE Link(r, c, done, Sent(c) \cup {n}, Attached(c))
    <3>1. Link(q, c, done, Sent(c), Attached(c)) BY <1>8, <2>3 DEF UpPart, UpLinked, q, s, done
    <3>2. ~Has(q, c, "data.end")
      <4>1. c \in Http => pumpPc[c] = "pumping" BY <1>9 DEF SendsData
      <4> QED BY <1>1, <4>1, HasAsked DEF q, AboutIt
    <3>3. CASE r = q
      <4>1. ~Attached(c)
        <5>1. ~SkipsEmpty(d) BY <1>9 DEF SendsData, SkipsEmpty, EmptyOf
        <5> QED BY <1>7, <3>3, <5>1
      <4>2. Link(q, c, done, Sent(c) \cup {n}, FALSE) BY <1>5, <2>1, <3>1, <3>2, LinkHigher
      <4> QED BY <3>3, <4>1, <4>2, LinkWeaker
    <3>4. CASE Attached(c) /\ r = Append(q, m)
      <4>1. m.t = "data" /\ m.conn = c /\ m.n = n BY <1>7, <1>9 DEF n
      <4> QED BY <1>1, <1>5, <1>6, <2>1, <3>1, <3>2, <3>4, <4>1, LinkAppendNext
    <3> QED BY <1>7, <3>3, <3>4
  <2>4. UpLinked(c)' BY <1>2, <1>3, <2>2, <2>3 DEF UpLinked, r, s, done
  <2>5. InOrder(upGot'[c], Sent(c)') BY <1>2, <1>5, <2>1, <2>2, InOrderMore DEF UpPart
  <2> QED BY <1>2, <2>4, <2>5 DEF UpPart
<1>10. CASE ~(d = c /\ SendsData(d))
  <2>1. Sent(c)' = Sent(c)
    <3>1. CASE d = c /\ SkipsEmpty(d)
      <4>1. EmptyOf(c) = Empty /\ upSent[c] + 1 \in Empty BY <3>1 DEF SkipsEmpty, EmptyOf
      <4>2. upSent'[c] = upSent[c] + 1 BY <1>4, <3>1
      <4>3. 1..(upSent[c] + 1) = (1..upSent[c]) \cup {upSent[c] + 1} BY <1>5
      <4> QED BY <4>1, <4>2, <4>3 DEF Sent, EmptyOf
    <3>2. CASE ~(d = c /\ SkipsEmpty(d)) BY <1>4, <1>10, <3>2 DEF Sent, EmptyOf
    <3> QED BY <3>1, <3>2
  <2>2. ASSUME Ready(c)' PROVE Link(r, c, done, Sent(c), Attached(c))
    <3>1. Link(q, c, done, Sent(c), Attached(c)) BY <1>8, <2>2 DEF UpPart, UpLinked, q, s, done
    <3>2. CASE r = q BY <3>1, <3>2
    <3>3. CASE Attached(c) /\ r = Append(q, m)
      <4>1. CASE m.conn # c \/ m.t \notin {"data", "data.end"}
        BY <1>1, <1>5, <3>1, <3>3, <4>1, LinkAppendOther
      <4>2. CASE m.t = "data.end" BY <1>1, <1>5, <3>1, <3>3, <4>2, LinkAppendEnd
      <4> QED BY <1>7, <1>10, <4>1, <4>2
    <3> QED BY <1>7, <3>2, <3>3
  <2>3. UpLinked(c)' BY <1>2, <1>3, <2>1, <2>2 DEF UpLinked, r, s, done
  <2> QED BY <1>2, <2>1, <2>3 DEF UpPart
<1> QED BY <1>9, <1>10

\* A session is attached, or the host of one connects or leaves.
LEMMA UpSessions ==
    ASSUME TypeOK, SessionInv, NEW c \in Conns, Asked(c), UpPart(c), NEW x \in Hosts,
           (Attach(x) /\ UNCHANGED hostVars) \/ HostEnds(x) \/ HostConnects(x)
    PROVE  UpPart(c)'
<1> DEFINE s == asked[c]
           q == toHost[s]
           r == toHost'[s]
<1>1. s \in Hosts /\ q \in Seq(ToHostFrames) /\ sesPc[s] \in {"open", "closed"}
  <2>1. s \in Hosts BY DEF Asked, TypeOK, WorkerTypeOK
  <2> QED BY <2>1, QueueType DEF SessionInv
<1>2. asked'[c] = s /\ upGot' = upGot /\ upSent' = upSent /\ local' = local /\ hconns' \subseteq hconns
  BY DEF Attach, HostEnds, HostConnects, HostOnly, hostVars
<1>3. Taking(c)' => Taking(c) BY <1>2 DEF Taking
<1>4. CASE Attach(x)
  <2>1. x # s BY <1>1, <1>4 DEF Attach
  <2>2. r = q /\ hostWs' = x BY <1>1, <1>4, <2>1 DEF Attach, TypeOK, WorkerTypeOK
  <2>3. ~Attached(c)' BY <1>2, <2>1, <2>2 DEF Attached
  <2>4. Ready(c)' => Ready(c) BY <1>2, <1>3, <2>2 DEF Ready
  <2> QED BY <1>2, <2>2, <2>3, <2>4, UpSame
<1>5. CASE HostEnds(x) /\ x = s
  <2>1. r = <<>> /\ ~hostUp'[s] BY <1>1, <1>5 DEF HostEnds, TypeOK, WorkerTypeOK
  <2>2. ~Attached(c)' BY <1>2, <2>1 DEF Attached
  <2>3. Sent(c)' = Sent(c) BY <1>2 DEF Sent, EmptyOf
  <2>4. Link(<<>>, c, Had(upGot[c]), Sent(c), Attached(c)')
    <3>1. Attached(c)' \in BOOLEAN BY DEF Attached
    <3>2. \A i \in 1..Len(<<>>) : ~FrameAt(<<>>, c, "data", i) BY DEF FrameAt
    <3>3. ~Has(<<>>, c, "data.end") BY HasNone
    <3> QED BY <2>2, <3>1, <3>2, <3>3, LinkFresh
  <2>5. UpLinked(c)' BY <1>2, <2>1, <2>3, <2>4 DEF UpLinked
  <2> QED BY <1>2, <2>3, <2>5 DEF UpPart
<1>6. CASE HostEnds(x) /\ x # s
  <2>1. r = q /\ hostUp'[s] = hostUp[s] /\ hostWs' = hostWs
    <3>1. toHost'[s] = toHost[s] BY <1>1, <1>6 DEF HostEnds, TypeOK, WorkerTypeOK
    <3>2. hostUp'[s] = hostUp[s] /\ hostWs' = hostWs BY <1>1, <1>6 DEF HostEnds, TypeOK, WorkerTypeOK
    <3> QED BY <3>1, <3>2
  <2>2. Attached(c)' => Attached(c) BY <1>2, <2>1 DEF Attached
  <2>3. Ready(c)' => Ready(c) BY <1>2, <1>3, <2>1 DEF Ready
  <2> QED BY <1>2, <2>1, <2>2, <2>3, UpSame
<1>7. CASE HostConnects(x)
  <2>1. Attached(c)' = Attached(c) BY <1>2, <1>7 DEF Attached, HostConnects, HostOnly
  <2>2. CASE x = s
    <3>1. q # <<>> /\ r = Tail(q) /\ q[1] = HelloOk BY <1>1, <1>7, <2>2 DEF HostConnects, TypeOK, WorkerTypeOK
    <3>2. Sent(c)' = Sent(c) BY <1>2 DEF Sent, EmptyOf
    <3>3. Ready(c)' => Ready(c)
      <4>1. Has(r, c, "inbound") => Has(q, c, "inbound") BY <1>1, <3>1, HasTail
      <4> QED BY <1>2, <1>3, <4>1 DEF Ready
    <3>4. ASSUME Ready(c)' PROVE Link(r, c, Had(upGot[c]), Sent(c), Attached(c))
      <4>1. Link(q, c, Had(upGot[c]), Sent(c), Attached(c)) BY <3>3, <3>4 DEF UpPart, UpLinked
      <4>2. q[1].t # "data" BY <3>1 DEF HelloOk
      <4>3. Sent(c) \in SUBSET Nat BY UpTypes
      <4> QED BY <1>1, <3>1, <4>1, <4>2, <4>3, LinkTailOther
    <3>5. UpLinked(c)' BY <1>2, <2>1, <3>2, <3>4 DEF UpLinked
    <3> QED BY <1>2, <3>2, <3>5 DEF UpPart
  <2>3. CASE x # s
    <3>1. r = q BY <1>1, <1>7, <2>3 DEF HostConnects, TypeOK, WorkerTypeOK
    <3>2. Ready(c)' => Ready(c) BY <1>2, <1>3, <3>1 DEF Ready
    <3> QED BY <1>2, <2>1, <3>1, <3>2, UpSame
  <2> QED BY <2>2, <2>3
<1> QED BY <1>4, <1>5, <1>6, <1>7

\* Data are written when the connection takes them.
LEMMA DataWritten ==
    ASSUME TypeOK, UpFramesInv, NEW s \in Hosts, NEW m, ReadsFrame(s, m), m.t = "data", ReadsData(s), NEW c \in Conns
    PROVE  upGot'[c] = IF c = m.conn /\ Taking(c) THEN Append(upGot[c], m.n) ELSE upGot[c]
<1>1. m = Head(toHost[s]) BY ReadsHead DEF ReadsFrame
<1> QED BY <1>1 DEF ReadsData, WriteLocal, Taking, TypeOK

\* What becomes ready was announced.
LEMMA ReadyBefore ==
    ASSUME TypeOK, UpFramesInv, NEW x \in Hosts, ReadLoop(x), NEW c \in Conns,
           Taking(c)'
    PROVE  Taking(c) \/ FrameAt(toHost[x], c, "inbound", 1)
<1>1. PICK m : /\ ReadsFrame(x, m) /\ m.t \in AboutIt
               /\ c # m.conn => local'[c] = local[c] /\ (c \in hconns' <=> c \in hconns)
               /\ m.t = "data" => UNCHANGED <<local, hconns>>
               /\ m.t = "data.end" => UNCHANGED <<local, hconns>>
               /\ m.t = "close" => ReadsClose(x)
  BY ReadsLocal
<1>2. m = Head(toHost[x]) BY <1>1, ReadsHead DEF ReadsFrame
<1>3. CASE m.t = "inbound" /\ m.conn = c BY <1>1, <1>3 DEF ReadsFrame
<1>4. CASE m.t = "close" /\ m.conn = c
  <2>1. c \in hconns => c \notin hconns' BY <1>1, <1>2, <1>4, FinishQuiet DEF ReadsClose
  <2>2. c \notin hconns => c \notin hconns' BY <1>1, <1>2, <1>4 DEF ReadsClose
  <2> QED BY <2>1, <2>2 DEF Taking
<1> QED BY <1>1, <1>3, <1>4 DEF Taking, AboutIt

\* The host reads a frame.
LEMMA UpReads ==
    ASSUME TypeOK, UpFramesInv, SessionInv, AnnouncedInv, LocalInv, NEW c \in Conns, Asked(c), UpPart(c),
           NEW x \in Hosts, ReadLoop(x)
    PROVE  UpPart(c)'
<1> DEFINE s == asked[c]
           q == toHost[s]
           r == toHost'[s]
           done == Had(upGot[c])
<1>1. s \in Hosts /\ q \in Seq(ToHostFrames)
  <2>1. s \in Hosts BY DEF Asked, TypeOK, WorkerTypeOK
  <2> QED BY <2>1, QueueType
<1>2. PICK m : /\ ReadsFrame(x, m) /\ m.t \in AboutIt
               /\ m.t = "inbound" => UNCHANGED upGot
               /\ m.t = "data" => ReadsData(x) /\ UNCHANGED <<local, hconns>>
               /\ m.t = "data.end" => UNCHANGED upGot
               /\ m.t = "close" => UNCHANGED upGot
  BY ReadsLocal
<1>3. UNCHANGED <<asked, upSent, hostWs, hostUp>> BY <1>2 DEF ReadsFrame, HostOnly
<1>4. Sent(c)' = Sent(c) /\ Attached(c)' = Attached(c) BY <1>3 DEF Sent, EmptyOf, Attached
<1>5. /\ x = s => q # <<>> /\ r = Tail(q) /\ q[1] = m /\ FrameAt(q, m.conn, m.t, 1)
      /\ x # s => r = q
  BY <1>1, <1>2 DEF ReadsFrame, TypeOK, WorkerTypeOK
<1>6. Ready(c)' => Ready(c)
  <2>1. Has(r, c, "inbound") => Has(q, c, "inbound") BY <1>1, <1>5, HasTail
  <2>2. FrameAt(toHost[x], c, "inbound", 1) => Has(q, c, "inbound")
    <3> SUFFICES ASSUME FrameAt(toHost[x], c, "inbound", 1) PROVE Has(q, c, "inbound") OBVIOUS
    <3>1. Has(toHost[x], c, "inbound") BY DEF Has, FrameAt
    <3>2. x = s BY <3>1 DEF AnnouncedInv
    <3> QED BY <3>1, <3>2
  <2> QED BY <1>3, <2>1, <2>2, ReadyBefore DEF Ready
<1>7. IF m.t = "data" /\ m.conn = c /\ Taking(c)
      THEN x = s /\ upGot'[c] = Append(upGot[c], m.n)
      ELSE upGot'[c] = upGot[c]
  <2>1. CASE m.t = "data" /\ m.conn = c /\ Taking(c)
    <3>1. x = s BY <1>2, <2>1 DEF ReadsFrame, LocalInv, Taking
    <3> QED BY <1>2, <2>1, <3>1, DataWritten
  <2>2. CASE m.t = "data" /\ ~(m.conn = c /\ Taking(c)) BY <1>2, <2>2, DataWritten
  <2> QED BY <1>2, <2>1, <2>2 DEF AboutIt
<1>8. /\ Sent(c) \in SUBSET Nat /\ upSent[c] \in Nat /\ upGot[c] \in Seq(Nat)
      /\ c \in Http => Sent(c) = 1..upSent[c]
  BY UpTypes
<1>9. Ready(c) => Link(q, c, done, Sent(c), Attached(c)) BY DEF UpPart, UpLinked
<1> HIDE DEF q, r, done
<1>10. CASE x # s
  <2>1. r = q /\ upGot'[c] = upGot[c] BY <1>5, <1>7, <1>10
  <2> QED BY <1>3, <1>4, <1>6, <2>1, UpSame DEF q, r
<1>11. CASE x = s /\ ~(m.t = "data" /\ m.conn = c)
  <2>1. upGot'[c] = upGot[c] BY <1>7, <1>11
  <2>2. Ready(c)' => Link(r, c, done, Sent(c), Attached(c))
    BY <1>1, <1>5, <1>6, <1>8, <1>9, <1>11, LinkTailOther
  <2>3. UpLinked(c)' BY <1>3, <1>4, <2>1, <2>2 DEF UpLinked, r, done
  <2> QED BY <1>4, <2>1, <2>3 DEF UpPart
<1>12. CASE x = s /\ m.t = "data" /\ m.conn = c /\ ~Taking(c)
  <2>1. upGot'[c] = upGot[c] BY <1>7, <1>12
  <2>2. ~Taking(c)' BY <1>2, <1>12 DEF Taking
  <2>3. First(q, c, "inbound", AboutIt) /\ "data" \in AboutIt BY <1>1 DEF AnnouncedInv, AboutIt, q
  <2>4. ~Has(Tail(q), c, "inbound") BY <1>1, <1>5, <1>12, <2>3, FirstTail
  <2>5. ~Ready(c)' BY <1>3, <1>5, <1>12, <2>2, <2>4 DEF Ready, r
  <2> QED BY <1>4, <2>1, <2>5 DEF UpPart, UpLinked
<1>13. CASE x = s /\ m.t = "data" /\ m.conn = c /\ Taking(c)
  <2> DEFINE n == m.n
  <2>1. n \in Nat /\ DataAt(q, c, n, 1)
    <3>1. n \in Nat BY <1>2, <1>13, FrameTypes DEF ReadsFrame
    <3> QED BY <1>5, <1>13, <3>1 DEF DataAt
  <2> HIDE DEF n
  <2>2. Link(q, c, done, Sent(c), Attached(c)) BY <1>9, <1>13 DEF Ready
  <2>3. /\ n \in Sent(c)
        /\ \A k \in done : k < n
        /\ \A k \in Sent(c) : k < n => k \in done
        /\ Link(Tail(q), c, done \cup {n}, Sent(c), Attached(c))
    <3>1. q \in Seq(ToHostFrames) /\ q # <<>> /\ Sent(c) \in SUBSET Nat BY <1>1, <1>5, <1>8, <1>13
    <3> QED BY <2>1, <2>2, <3>1, LinkTailNext
  <2>4. upGot'[c] = Append(upGot[c], n) BY <1>7, <1>13 DEF n
  <2>5. Had(upGot'[c]) = done \cup {n} BY <1>8, <2>1, <2>4, HadAppend DEF done
  <2>6. UpLinked(c)' BY <1>3, <1>4, <1>5, <1>13, <2>3, <2>5 DEF UpLinked, r
  <2>7. InOrder(upGot'[c], Sent(c)')
    <3>1. InOrder(upGot[c], Sent(c)) BY DEF UpPart
    <3> QED BY <1>4, <1>8, <2>3, <2>4, <3>1, InOrderAppend DEF done
  <2>8. ASSUME c \in Http PROVE \A i \in 1..Len(upGot'[c]) : upGot'[c][i] = i
    <3>1. \A i \in 1..Len(upGot[c]) : upGot[c][i] = i BY <2>8 DEF UpPart
    <3>2. n \in 1..upSent[c] /\ \A k \in 1..upSent[c] : k < n => k \in done BY <1>8, <2>3, <2>8
    <3> QED BY <1>8, <2>3, <2>4, <3>1, <3>2, CountsOn DEF done
  <2> QED BY <2>6, <2>7, <2>8 DEF UpPart
<1> QED BY <1>7, <1>10, <1>11, <1>12, <1>13

LEMMA UpStep ==
    ASSUME TypeOK, SessionInv, LatestAttached, UpFramesInv, NewInv, ConnsOfLatest, EntryHasHandler, AnnouncedInv,
           EndInv, LocalInv, UpInv, [Next]_vars
    PROVE  UpInv'
<1> SUFFICES ASSUME NEW c \in Conns PROVE UpPart(c)' BY DEF UpInv
<1>0. /\ UpPart(c)
      /\ TypeOK' /\ NewInv' /\ LocalInv'
  BY TypeStep, NewStep, LocalStep DEF UpInv
<1>1. CASE Asked(c)
  <2>1. asked'[c] = asked[c] BY <1>1, UpHistory
  <2>2. CASE UpQuiet
    <3>1. asked[c] \in Hosts /\ sesPc[asked[c]] \in {"open", "closed"}
      BY <1>1 DEF SessionInv, Asked, TypeOK, WorkerTypeOK
    <3>2. Attached(c)' => Attached(c) BY <2>1, <2>2, <3>1 DEF UpQuiet, Attached
    <3>3. Taking(c)' => Taking(c) BY <2>2 DEF UpQuiet, Taking
    <3>4. Ready(c)' => Ready(c) BY <2>1, <2>2, <3>3 DEF UpQuiet, Ready
    <3> QED BY <1>0, <1>1, <2>1, <2>2, <3>2, <3>4, UpSame DEF UpQuiet
  <2> QED BY <1>0, <1>1, <2>2, UpKinds, UpSends, UpSessions, UpReads
<1>2. CASE ~Asked(c)
  <2>1. local[c] = "none" BY <1>2 DEF NewInv
  <2>2. ASSUME Announces(c) PROVE UpPart(c)'
    <3>1. asked'[c] \in Hosts BY <1>0, <2>2 DEF Announces, TypeOK, WorkerTypeOK
    <3>2. local'[c] = "none" BY <2>1, <2>2 DEF Announces, Sends, hostVars
    <3> QED BY <1>0, <1>2, <2>2, <3>1, <3>2, UpNew
  <2>3. ASSUME asked'[c] = NoHost PROVE UpPart(c)'
    <3>1. local'[c] = "none" BY <1>0, <2>3 DEF NewInv, Asked
    <3> QED BY <1>0, <1>2, <2>3, <3>1, UpNew
  <2>4. asked'[c] = NoHost \/ Announces(c)
    <3>1. ASSUME NEW d \in Conns, \/ Announces(d) \/ SendsData(d) \/ SkipsEmpty(d) \/ SendsEnd(d) \/ SendsClose(d)
          PROVE  asked'[c] = NoHost \/ Announces(c)
      BY <1>2, <3>1 DEF Announces, SendsData, SkipsEmpty, SendsEnd, SendsClose, Asked, TypeOK, WorkerTypeOK
    <3>2. ASSUME NEW x \in Hosts, Attach(x) \/ HostConnects(x) \/ HostEnds(x) PROVE asked'[c] = NoHost
      BY <1>2, <3>2 DEF Attach, HostConnects, HostEnds, HostOnly, Asked
    <3>3. ASSUME NEW x \in Hosts, ReadLoop(x) PROVE asked'[c] = NoHost
      <4>1. \E m : ReadsFrame(x, m) BY <3>3, ReadsLocal
      <4> QED BY <1>2, <4>1 DEF ReadsFrame, HostOnly, Asked
    <3>4. CASE UpQuiet BY <1>2, <3>4 DEF UpQuiet, Asked
    <3> QED BY <3>1, <3>2, <3>3, <3>4, UpKinds
  <2> QED BY <2>2, <2>3, <2>4
<1> QED BY <1>1, <1>2

\* No chunk follows the end of a body.
LEMMA BodySent ==
    ASSUME TypeOK, NewInv, SessionInv, UpFramesInv, [Next]_vars, NEW c \in Http, pumpPc[c] = "sent"
    PROVE  upSent'[c] = upSent[c]
<1>0. c \in Conns /\ c \notin Wss BY WorkerAssumption DEF Conns
<1>1. ASSUME NEW d \in Conns, Announces(d) \/ SendsData(d) \/ SkipsEmpty(d) \/ SendsEnd(d) \/ SendsClose(d)
      PROVE  upSent'[c] = upSent[c]
  BY <1>0, <1>1 DEF Announces, SendsData, SkipsEmpty, SendsEnd, SendsClose, TypeOK, WorkerTypeOK
<1>2. ASSUME NEW x \in Hosts, Attach(x) \/ HostConnects(x) \/ HostEnds(x) PROVE upSent' = upSent
  BY <1>2 DEF Attach, HostConnects, HostEnds, HostOnly
<1>3. ASSUME NEW x \in Hosts, ReadLoop(x) PROVE upSent' = upSent
  <2>1. \E m : ReadsFrame(x, m) BY <1>3, ReadsLocal
  <2> QED BY <2>1 DEF ReadsFrame, HostOnly
<1> QED BY <1>1, <1>2, <1>3, UpKinds DEF UpQuiet

\* What was completed stays as it was.
LEMMA RequestStep ==
    ASSUME TypeOK, SessionInv, LatestAttached, UpFramesInv, NewInv, AnnouncedInv, EndInv, LocalInv, UpInv,
           RequestWhole, [Next]_vars
    PROVE  RequestWhole'
<1> SUFFICES ASSUME NEW c \in Http, rdPc'[c] # "none"
             PROVE  pumpPc'[c] = "sent" /\ upGot'[c] = [i \in 1..upSent'[c] |-> i]
  BY DEF RequestWhole
<1>0. c \in Conns /\ c \notin Wss BY WorkerAssumption DEF Conns
<1>1. /\ Sent(c) \in SUBSET Nat /\ upSent[c] \in Nat /\ upGot[c] \in Seq(Nat) /\ Sent(c) = 1..upSent[c]
  BY <1>0, UpTypes
<1>2. /\ UpLinked(c) /\ Had(upGot[c]) \subseteq Sent(c)
      /\ \A i \in 1..Len(upGot[c]) : upGot[c][i] = i
  BY <1>0, InOrderHad DEF UpInv, UpPart
<1>3. ASSUME pumpPc[c] = "sent", upGot[c] = [i \in 1..upSent[c] |-> i] PROVE upGot'[c] = upGot[c]
  <2>1. CASE UNCHANGED upGot BY <2>1
  <2>2. ASSUME NEW x \in Hosts, ReadLoop(x) PROVE upGot'[c] = upGot[c]
    <3>1. PICK m : /\ ReadsFrame(x, m) /\ m.t \in AboutIt
                   /\ m.t = "data" => ReadsData(x)
                   /\ m.t # "data" => UNCHANGED upGot
      BY <2>2, ReadsLocal DEF AboutIt
    <3>2. CASE m.t = "data" /\ m.conn = c /\ Taking(c)
      <4> DEFINE q == toHost[x]
      <4>1. q \in Seq(ToHostFrames) /\ q # <<>> /\ FrameAt(q, c, "data", 1) /\ m = q[1] /\ asked[c] = x /\ Asked(c)
        BY <3>1, <3>2, QueueType DEF ReadsFrame, LocalInv, Taking
      <4>2. Link(q, c, Had(upGot[c]), Sent(c), Attached(c)) BY <3>2, <4>1, <1>2 DEF UpLinked, Ready
      <4>3. m.n \in Nat /\ DataAt(q, c, m.n, 1)
        BY <3>1, <3>2, <4>1, FrameTypes DEF DataAt, ReadsFrame
      <4> HIDE DEF q
      <4>4. m.n \in Sent(c) /\ \A k \in Had(upGot[c]) : k < m.n
        BY <1>1, <4>1, <4>2, <4>3, LinkTailNext
      <4>5. m.n \in Had(upGot[c])
        <5>1. Len(upGot[c]) = upSent[c] BY <1>1, <1>3
        <5> QED BY <1>1, <1>2, <4>4, <5>1 DEF Had
      <4> QED BY <4>3, <4>4, <4>5
    <3>3. CASE m.t = "data" /\ ~(m.conn = c /\ Taking(c)) BY <1>0, <3>1, <3>3, DataWritten
    <3> QED BY <3>1, <3>2, <3>3
  <2>3. ASSUME NEW x \in Hosts, HostConnects(x) PROVE UNCHANGED upGot BY <2>3 DEF HostConnects
  <2>4. ASSUME NEW d \in Conns, ReaderStep(d) PROVE UNCHANGED upGot BY <2>4, ReaderEffect
  <2> QED BY <2>1, <2>2, <2>3, <2>4, LocalKinds DEF localVars
<1>4. CASE rdPc[c] # "none"
  <2>1. pumpPc[c] = "sent" /\ upGot[c] = [i \in 1..upSent[c] |-> i] BY <1>4 DEF RequestWhole
  <2>2. pumpPc'[c] = "sent" BY <2>1, UpHistory
  <2>3. upSent'[c] = upSent[c] BY <2>1, BodySent
  <2> QED BY <1>3, <2>1, <2>2, <2>3
<1>5. CASE rdPc[c] = "none"
  <2>1. PICK x \in Hosts : ReadLoop(x)
    <3>1. ASSUME NEW x \in Hosts, HostConnects(x) PROVE UNCHANGED rdPc BY <3>1 DEF HostConnects
    <3>2. ASSUME NEW d \in Conns, ReaderStep(d) PROVE rdPc'[c] = rdPc[c]
      BY <1>0, <1>5, <3>2, ReaderEffect
    <3> QED BY <1>5, <3>1, <3>2, LocalKinds DEF localVars
  <2>2. PICK m : /\ ReadsFrame(x, m) /\ m.t \in AboutIt
                 /\ c # m.conn => rdPc'[c] = rdPc[c]
                 /\ m.t = "inbound" => InboundDialled(x) \/ InboundRefused(x)
                 /\ m.t = "data" => UNCHANGED rdPc
                 /\ m.t = "data.end" => ReadsDataEnd(x) /\ UNCHANGED upGot
                 /\ m.t = "close" => UNCHANGED rdPc
    BY <1>0, <2>1, ReadsLocal
  <2>3. m = Head(toHost[x]) BY <2>2, ReadsHead DEF ReadsFrame
  <2>4. m.conn = c BY <1>5, <2>2
  <2>5. m.t # "inbound"
    <3>1. m.t = "inbound" => rdPc' = rdPc
      BY <1>0, <2>2, <2>3, <2>4 DEF InboundDialled, TunnelDialled, InboundRefused, DialFails
    <3> QED BY <1>5, <3>1
  <2>6. m.t = "data.end" /\ Taking(c)
    <3>1. m.t = "data.end" BY <1>5, <2>2, <2>5 DEF AboutIt
    <3>2. ~Taking(c) => rdPc' = rdPc BY <2>2, <2>3, <2>4, <3>1 DEF ReadsDataEnd, Taking
    <3> QED BY <1>5, <3>1, <3>2
  <2>7. asked[c] = x /\ pumpPc[c] = "sent" /\ Asked(c)
    BY <2>2, <2>4, <2>6, BodyEnds DEF ReadsFrame
  <2>8. Sent(c) \subseteq Had(upGot[c])
    <3>1. Link(toHost[x], c, Had(upGot[c]), Sent(c), Attached(c)) BY <1>2, <2>6, <2>7 DEF UpLinked, Ready
    <3>2. toHost[x] # <<>> /\ FrameAt(toHost[x], c, "data.end", 1) BY <2>2, <2>4, <2>6 DEF ReadsFrame
    <3>3. toHost[x] \in Seq(ToHostFrames) BY QueueType
    <3> QED BY <3>1, <3>2, <3>3, LinkEnd
  <2>9. upGot[c] = [i \in 1..upSent[c] |-> i] BY <1>1, <1>2, <2>8, CountsAll
  <2>10. upGot' = upGot /\ upSent' = upSent /\ pumpPc' = pumpPc
    BY <2>2, <2>6 DEF ReadsFrame, HostOnly
  <2> QED BY <2>7, <2>9, <2>10
<1> QED BY <1>4, <1>5

-----------------------------------------------------------------------------
\* What stays on the way back.

\* A connection that has left the map, or the reader of which is done, stays so.
LEMMA ConnsHistory ==
    ASSUME NewInv, [Next]_vars, NEW c \in Conns, Asked(c), c \in conns'
    PROVE  c \in conns
<1>1. ASSUME NEW d \in Http, FetchStep(d) PROVE c \in conns
  <2>1. CASE HttpRequest(d) BY <2>1 DEF HttpRequest, Announce, FetchAt, NewInv, HandlerInv
  <2>2. CASE ~HttpRequest(d)
    BY <1>1, <2>2 DEF FetchStep, RefuseHttp, HeadSeen, HeadFails, PullChunk, PullEnd, PullError, Demand, Cancel,
                      CancelledPull, Forget
  <2> QED BY <2>1, <2>2
<1>2. ASSUME NEW d \in Http, PumpStep(d) PROVE c \in conns
  BY <1>2 DEF PumpStep, PumpChunk, PumpEnds, PumpFails
<1>3. ASSUME NEW d \in Wss, TunnelStep(d) PROVE c \in conns
  <2>1. CASE WsOpens(d) BY <2>1 DEF WsOpens, Announce, WsAt, NewInv, HandlerInv
  <2>2. CASE ~WsOpens(d)
    BY <1>3, <2>2 DEF TunnelStep, RefuseWs, BrowserMessage, BrowserWsCloses, Forget
  <2> QED BY <2>1, <2>2
<1>4. ASSUME NEW x \in Hosts, Attach(x) \/ SessionCloses(x) \/ HostMsg(x) PROVE c \in conns
  BY <1>4 DEF Attach, ConnsAfterAttach, SessionCloses, HostMsg, OnHostMsg, Forget
<1>5. ASSUME NEW x \in Hosts, HostDials(x) \/ HostConnects(x) \/ HostEnds(x) \/ ReadLoop(x) PROVE c \in conns
  BY <1>5 DEF HostDials, HostConnects, HostEnds, HostOnly, ReadLoop, InboundDialled, InboundRefused,
              ReadsData, ReadsDataEnd, ReadsClose, Reads
<1>6. ASSUME NEW d \in Conns, ReaderStep(d) PROVE c \in conns
  BY <1>6 DEF ReaderStep, ResponseHead, ResponseHeadFails, ResponseChunk, ResponseEnd, LocalMessage, TunnelEnd,
              ReaderOnly, HostOnly
<1>7. CASE UNCHANGED vars BY <1>7 DEF vars, workerVars
<1> QED BY <1>1, <1>2, <1>3, <1>4, <1>5, <1>6, <1>7 DEF Next, ReaderStep, Conns

LEMMA LocalHistory ==
    ASSUME TypeOK, UpFramesInv, AnnouncedInv, EndInv, LocalInv, [Next]_vars, NEW c \in Conns
    PROVE  /\ local[c] = "refused" => local'[c] = "refused"
           /\ local[c] \in {"open", "closed"} => local'[c] \in {"open", "closed"}
           /\ rdPc[c] = "done" => rdPc'[c] = "done" /\ downRead'[c] = downRead[c]
           /\ local[c] = "refused" => downRead'[c] = downRead[c]
           /\ local[c] = "none" /\ local'[c] # "none" =>
                 \E x \in Hosts : Serving(x) /\ asked[c] = x /\ ReadLoop(x)
<1>1. CASE UNCHANGED localVars BY <1>1 DEF localVars
<1>2. ASSUME NEW x \in Hosts, HostConnects(x)
      PROVE  UNCHANGED <<local, rdPc, downRead>>
  BY <1>2 DEF HostConnects
<1>3. ASSUME NEW d \in Conns, ReaderStep(d)
      PROVE  /\ local[c] = "refused" => local'[c] = "refused" /\ downRead'[c] = downRead[c]
             /\ local[c] \in {"open", "closed"} => local'[c] \in {"open", "closed"}
             /\ local[c] = "none" => local'[c] = "none"
             /\ rdPc[c] = "done" => rdPc'[c] = "done" /\ downRead'[c] = downRead[c]
  <2>1. local[d] \notin {"none", "refused"} BY <1>3, ReaderEffect DEF LocalInv
  <2> QED BY <1>3, <2>1, ReaderEffect
<1>4. ASSUME NEW x \in Hosts, ReadLoop(x)
      PROVE  /\ local[c] = "refused" => local'[c] = "refused"
             /\ local[c] \in {"open", "closed"} => local'[c] \in {"open", "closed"}
             /\ rdPc[c] = "done" => rdPc'[c] = "done"
             /\ local[c] = "none" /\ local'[c] # "none" => Serving(x) /\ asked[c] = x
             /\ downRead' = downRead
  <2>1. PICK m : /\ ReadsFrame(x, m) /\ m.t \in AboutIt
                 /\ c # m.conn => local'[c] = local[c] /\ rdPc'[c] = rdPc[c]
                 /\ m.t = "inbound" => InboundDialled(x) \/ InboundRefused(x)
                 /\ m.t = "data" => UNCHANGED <<local, rdPc>>
                 /\ m.t = "data.end" => ReadsDataEnd(x) /\ UNCHANGED local
                 /\ m.t = "close" => ReadsClose(x) /\ UNCHANGED rdPc
    BY <1>4, ReadsLocal
  <2>2. m = Head(toHost[x]) /\ m.conn \in Conns BY <2>1, ReadsHead DEF ReadsFrame
  <2>3. downRead' = downRead
    BY <1>4 DEF ReadLoop, InboundDialled, InboundRefused, ReadsData, ReadsDataEnd, ReadsClose
  <2>4. CASE c # m.conn BY <2>1, <2>3, <2>4
  <2>5. CASE m.t = "inbound" /\ c = m.conn
    <3>1. Has(toHost[x], c, "inbound") BY <2>1, <2>5 DEF ReadsFrame, Has, FrameAt
    <3>2. asked[c] = x /\ local[c] = "none" /\ rdPc[c] = "none" BY <3>1 DEF AnnouncedInv, LocalInv
    <3> QED BY <2>1, <2>3, <3>2 DEF ReadsFrame
  <2>6. CASE m.t = "data.end" /\ c = m.conn
    <3>1. rdPc[c] = "done" => rdPc'[c] = "done"
      <4>1. CASE Taking(c) BY <2>1, <2>6, <4>1, BodyEnds
      <4>2. CASE ~Taking(c)
        <5>1. rdPc' = rdPc BY <2>1, <2>2, <2>6, <4>2 DEF ReadsDataEnd, Taking
        <5> QED BY <5>1
      <4> QED BY <4>1, <4>2
    <3> QED BY <2>1, <2>3, <2>6, <3>1
  <2>7. CASE m.t = "close" /\ c = m.conn
    <3>1. CASE c \in hconns
      <4>1. local'[c] = IF local[c] = "open" THEN "closed" ELSE local[c]
        BY <2>1, <2>2, <2>7, <3>1, FinishQuiet DEF ReadsClose
      <4> QED BY <2>1, <2>3, <2>7, <4>1
    <3>2. CASE c \notin hconns
      <4>1. local' = local BY <2>1, <2>2, <2>7, <3>2 DEF ReadsClose
      <4> QED BY <2>1, <2>3, <2>7, <4>1
    <3> QED BY <3>1, <3>2
  <2>8. CASE m.t = "data" BY <2>1, <2>3, <2>8
  <2> QED BY <2>1, <2>4, <2>5, <2>6, <2>7, <2>8 DEF AboutIt
<1> QED BY <1>1, <1>2, <1>3, <1>4, LocalKinds

LEMMA StartedStep ==
    ASSUME TypeOK, SessionInv, UpFramesInv, NewInv, AnnouncedInv, EndInv, LocalInv, StartedInv, [Next]_vars
    PROVE  StartedInv'
<1> SUFFICES ASSUME NEW s \in Hosts, hostUp'[s], sesPc'[s] \in {"open", "closed"},
                    NEW c \in Conns, local'[c] # "none", asked'[c] # s
             PROVE  c \notin conns'
  BY DEF StartedInv
<1>1. \/ hostUp[s] /\ sesPc[s] \in {"open", "closed"}
      \/ Attach(s)
  <2>1. ASSUME NEW x \in Hosts, SessionMoves(x)
        PROVE  (hostUp[s] /\ sesPc[s] \in {"open", "closed"}) \/ Attach(s)
    BY <2>1 DEF SessionMoves, Attach, SessionCloses, HostDials, HostConnects, HostEnds, HostOnly, hostVars,
                TypeOK, WorkerTypeOK
  <2> QED BY <2>1, SessionKinds DEF sessionVars
<1>2. CASE Attach(s) BY <1>2 DEF Attach, ConnsAfterAttach
<1>3. CASE hostUp[s] /\ sesPc[s] \in {"open", "closed"}
  <2>1. CASE local[c] = "none"
    <3>1. PICK x \in Hosts : Serving(x) /\ asked[c] = x /\ ReadLoop(x) BY <2>1, LocalHistory
    <3>2. asked' = asked
      BY <3>1 DEF HostOnly, ReadLoop, InboundDialled, InboundRefused, ReadsData, ReadsDataEnd, ReadsClose, Reads
    <3>3. x = s BY <1>3, <3>1 DEF SessionInv, Serving
    <3> QED BY <3>1, <3>2, <3>3
  <2>2. CASE local[c] # "none"
    <3>1. Asked(c) BY <2>2 DEF NewInv
    <3>2. asked[c] # s BY <3>1, UpHistory
    <3>3. c \notin conns BY <1>3, <2>2, <3>2 DEF StartedInv
    <3> QED BY <3>1, <3>3, ConnsHistory
  <2> QED BY <2>1, <2>2
<1> QED BY <1>1, <1>2, <1>3

LEMMA DiallingStep ==
    ASSUME TypeOK, SessionInv, LatestAttached, UpFramesInv, NewInv, AnnouncedInv, EndInv, LocalInv, DiallingInv,
           ConnsOfLatest, EntryHasHandler, [Next]_vars
    PROVE  DiallingInv'
<1> SUFFICES ASSUME NEW c \in Conns, asked'[c] # NoHost, hostPc'[asked'[c]] = "dialling"
             PROVE  local'[c] = "none"
  BY DEF DiallingInv, Asked
<1>1. SessionInv' /\ NewInv' /\ TypeOK' BY SessionStep, NewStep, TypeStep
<1>2. CASE ~Asked(c)
  <2>1. local[c] = "none" BY <1>2 DEF NewInv
  <2>2. ~\E x \in Hosts : asked[c] = x BY <1>2, WorkerAssumption DEF Asked
  <2> QED BY <2>1, <2>2, LocalHistory
<1>3. CASE Asked(c)
  <2> DEFINE s == asked[c]
  <2>1. asked'[c] = s /\ s \in Hosts /\ sesPc[s] \in {"open", "closed"}
    BY <1>3, UpHistory DEF SessionInv, Asked, TypeOK, WorkerTypeOK
  <2>2. hostPc[s] = "dialling"
    <3>1. CASE UNCHANGED sessionVars BY <2>1, <3>1 DEF sessionVars
    <3>2. ASSUME NEW x \in Hosts, SessionMoves(x) PROVE hostPc[s] = "dialling"
      <4>1. HostDials(x) => x # s BY <2>1 DEF HostDials, HostAt, SessionInv
      <4> QED BY <2>1, <3>2, <4>1 DEF SessionMoves, hostVars, HostDials, HostConnects, HostEnds, HostAt, TypeOK
    <3> QED BY <3>1, <3>2, SessionKinds
  <2>3. local[c] = "none" /\ ~Serving(s) BY <1>3, <2>2 DEF DiallingInv, Serving
  <2> QED BY <2>3, LocalHistory
<1> QED BY <1>2, <1>3

-----------------------------------------------------------------------------
\* The queues to the object.
LEMMA SendWorkerQueue ==
    ASSUME NEW ms, SendWorker(ms), NEW s \in Hosts
    PROVE  fromHost'[s] = IF Serving(s) /\ sesPc[s] = "open" THEN fromHost[s] \o ms ELSE fromHost[s]
BY DEF SendWorker

\* What a reader writes.
LEMMA ReaderKinds ==
    ASSUME TypeOK, NEW c \in Conns, ReaderStep(c)
    PROVE  \/ fromHost' = fromHost /\ downRead' = downRead
           \/ SendWorker(<<Msg("resp", c, 0)>>) /\ downRead' = downRead
           \/ /\ SendWorker(<<Msg("data", c, downRead[c] + 1)>>)
              /\ downRead'[c] = downRead[c] + 1 /\ downRead[c] + 1 \notin EmptyOf(c)
           \/ /\ SendWorker(<<>>) /\ downRead'[c] = downRead[c] + 1 /\ downRead[c] + 1 \in EmptyOf(c)
           \/ SendWorker(<<Msg("data.end", c, 0)>>) /\ downRead' = downRead /\ rdPc'[c] = "done"
<1> USE WorkerAssumption DEF ReadOne, ReaderAt, TypeOK, EmptyOf
<1>1. CASE c \in Http /\ ResponseHead(c) BY <1>1 DEF ResponseHead
<1>2. CASE c \in Http /\ ResponseHeadFails(c) BY <1>2 DEF ResponseHeadFails, ReaderOnly
<1>3. CASE c \in Http /\ ResponseChunk(c) BY <1>3 DEF ResponseChunk
<1>4. CASE c \in Http /\ ResponseEnd(c) BY <1>4 DEF ResponseEnd
<1>5. CASE c \in Wss /\ LocalMessage(c)
  <2>1. CASE downRead[c] + 1 \in Empty BY <1>5, <2>1 DEF LocalMessage
  <2>2. CASE downRead[c] + 1 \notin Empty BY <1>5, <2>2 DEF LocalMessage
  <2> QED BY <2>1, <2>2
<1>6. CASE c \in Wss /\ TunnelEnd(c) BY <1>6 DEF TunnelEnd
<1> QED BY <1>1, <1>2, <1>3, <1>4, <1>5, <1>6 DEF ReaderStep

\* What the read loop writes: the frames are about a connection that was announced to
\* the session.
LEMMA LoopKinds ==
    ASSUME TypeOK, UpFramesInv, AnnouncedInv, NEW x \in Hosts, ReadLoop(x)
    PROVE  /\ HostOnly /\ hostPc' = hostPc /\ downRead' = downRead /\ Serving(x)
           /\ \/ /\ fromHost' = fromHost
                 /\ \A c \in Conns : local[c] = "none" => local'[c] = "none"
              \/ \E c \in Conns :
                    /\ asked[c] = x /\ local[c] = "none"
                    /\ \A d \in Conns : d # c => local'[d] = local[d]
                    /\ \/ SendWorker(<<>>) /\ local'[c] = "open"
                       \/ SendWorker(<<Msg("resp", c, 0)>>) /\ local'[c] = "open"
                       \/ SendWorker(Response502(c)) /\ local'[c] = "refused"
<1>1. PICK m : /\ ReadsFrame(x, m) /\ m.t \in AboutIt
               /\ \A d \in Conns : d # m.conn => local'[d] = local[d]
               /\ m.t = "inbound" => InboundDialled(x) \/ InboundRefused(x)
               /\ m.t = "data" => ReadsData(x)
               /\ m.t = "data.end" => ReadsDataEnd(x)
               /\ m.t = "close" => ReadsClose(x)
  BY ReadsLocal
<1>2. m = Head(toHost[x]) /\ m.conn \in Conns BY <1>1, ReadsHead DEF ReadsFrame
<1>3. downRead' = downRead
  BY DEF ReadLoop, InboundDialled, InboundRefused, ReadsData, ReadsDataEnd, ReadsClose
<1>4. CASE m.t = "inbound"
  <2>1. Has(toHost[x], m.conn, "inbound") BY <1>1, <1>4 DEF ReadsFrame, Has, FrameAt
  <2>2. asked[m.conn] = x /\ local[m.conn] = "none" BY <1>2, <2>1 DEF AnnouncedInv
  <2>3. CASE InboundDialled(x)
    <3>1. /\ local'[m.conn] = "open"
          /\ SendWorker(<<>>) \/ SendWorker(<<Msg("resp", m.conn, 0)>>)
      BY <1>2, <2>3 DEF InboundDialled, TunnelDialled, TypeOK
    <3> QED BY <1>1, <1>2, <1>3, <2>2, <3>1 DEF ReadsFrame
  <2>4. CASE InboundRefused(x)
    <3>1. local'[m.conn] = "refused" /\ SendWorker(Response502(m.conn))
      BY <1>2, <2>4 DEF InboundRefused, DialFails, TypeOK
    <3> QED BY <1>1, <1>2, <1>3, <2>2, <3>1 DEF ReadsFrame
  <2> QED BY <1>1, <1>4, <2>3, <2>4
<1>5. CASE m.t # "inbound"
  <2>1. fromHost' = fromHost BY <1>1, <1>5 DEF AboutIt, ReadsData, ReadsDataEnd, ReadsClose
  <2>2. ASSUME NEW c \in Conns, local[c] = "none" PROVE local'[c] = "none"
    <3>1. local' = local \/ Finish(m.conn)
      BY <1>1, <1>2, <1>5 DEF AboutIt, ReadsData, ReadsDataEnd, ReadsClose
    <3> QED BY <1>2, <2>2, <3>1, FinishQuiet
  <2> QED BY <1>1, <1>3, <2>1, <2>2 DEF ReadsFrame
<1> QED BY <1>4, <1>5

\* What the other steps do to the queues.
LEMMA FromKinds ==
    ASSUME [Next]_vars
    PROVE  \/ fromHost' = fromHost
           \/ \E x \in Hosts : \/ SessionCloses(x) /\ UNCHANGED hostVars
                               \/ HostMsg(x) /\ UNCHANGED hostVars
                               \/ ReadLoop(x)
           \/ \E d \in Conns : ReaderStep(d)
<1>1. ASSUME NEW d \in Http, FetchStep(d) PROVE fromHost' = fromHost
  BY <1>1 DEF FetchStep, RefuseHttp, HttpRequest, HeadSeen, HeadFails, PullChunk, PullEnd, PullError, Demand, Cancel,
              CancelledPull, linkVars
<1>2. ASSUME NEW d \in Http, PumpStep(d) PROVE fromHost' = fromHost
  BY <1>2 DEF PumpStep, PumpChunk, PumpEnds, PumpFails, linkVars
<1>3. ASSUME NEW d \in Wss, TunnelStep(d) PROVE fromHost' = fromHost
  BY <1>3 DEF TunnelStep, RefuseWs, WsOpens, BrowserMessage, BrowserWsCloses, linkVars
<1>4. ASSUME NEW x \in Hosts, Attach(x) \/ HostDials(x) \/ HostConnects(x) \/ HostEnds(x) PROVE fromHost' = fromHost
  BY <1>4 DEF Attach, HostDials, HostConnects, HostEnds
<1>5. CASE UNCHANGED vars BY <1>5 DEF vars, workerVars, linkVars
<1> QED BY <1>1, <1>2, <1>3, <1>4, <1>5 DEF Next, ReaderStep, Conns

LEMMA DownFramesStep ==
    ASSUME TypeOK, SessionInv, UpFramesInv, NewInv, AnnouncedInv, EndInv, LocalInv, StartedInv, DownFramesInv,
           [Next]_vars
    PROVE  DownFramesInv'
<1> SUFFICES ASSUME NEW s \in Hosts PROVE fromHost'[s] \in Seq(DownFrames(s)') BY DEF DownFramesInv
<1> DEFINE F == DownFrames(s)'
<1>1. DownFrames(s) \subseteq F
  <2> SUFFICES ASSUME NEW m \in DownFrames(s) PROVE m \in F OBVIOUS
  <2>1. /\ m \in FromHostFrames /\ m.conn \in Conns /\ local[m.conn] # "none" /\ Asked(m.conn)
        /\ asked[m.conn] # s => m.conn \notin conns
        /\ m.t = "data.end" => Over(m.conn)
    BY FrameTypes DEF DownFrames, NewInv
  <2>2. local'[m.conn] # "none" /\ (Over(m.conn) => Over(m.conn)')
    BY <2>1, LocalHistory DEF Over, TypeOK
  <2>3. asked'[m.conn] # s => m.conn \notin conns' BY <2>1, UpHistory, ConnsHistory
  <2> QED BY <2>1, <2>2, <2>3 DEF DownFrames, Over
<1>2. fromHost[s] \in Seq(F)
  <2>1. fromHost[s] \in Seq(DownFrames(s)) BY DEF DownFramesInv
  <2> QED BY <1>1, <2>1, SeqMonotonic
<1>3. ASSUME NEW c \in Conns, local'[c] # "none", asked'[c] # s => c \notin conns',
             NEW t \in {"resp", "data", "data.end"}, NEW n \in Nat, t = "data.end" => Over(c)'
      PROVE  Msg(t, c, n) \in F
  <2>1. Msg(t, c, n) \in FromHostFrames BY DEF Msg, FromHostFrames
  <2> QED BY <1>3, <2>1 DEF DownFrames, Msg, Over
<1> HIDE DEF F
<1>4. ASSUME NEW ms \in Seq(F), SendWorker(ms) PROVE fromHost'[s] \in Seq(F)
  <2>1. fromHost[s] \o ms \in Seq(F) BY <1>2, <1>4, ConcatProperties
  <2>2. fromHost'[s] = fromHost[s] \o ms \/ fromHost'[s] = fromHost[s] BY <1>4, SendWorkerQueue
  <2> QED BY <1>2, <2>1, <2>2
<1>5. ASSUME fromHost' = fromHost PROVE fromHost'[s] \in Seq(F) BY <1>2, <1>5
<1>6. ASSUME NEW x \in Hosts, SessionCloses(x) \/ HostMsg(x) PROVE fromHost'[s] \in Seq(F)
  <2>1. \/ fromHost'[s] = fromHost[s] \/ fromHost'[s] = <<>>
        \/ fromHost[s] # <<>> /\ fromHost'[s] = Tail(fromHost[s])
    BY <1>6 DEF SessionCloses, HostMsg, TypeOK, WorkerTypeOK
  <2>2. <<>> \in Seq(F) OBVIOUS
  <2> QED BY <1>2, <2>1, <2>2, HeadTailProperties
<1>7. ASSUME NEW x \in Hosts, ReadLoop(x) PROVE fromHost'[s] \in Seq(F)
  <2>0. \/ fromHost' = fromHost
        \/ \E c \in Conns :
              /\ asked[c] = x
              /\ \/ SendWorker(<<>>) /\ local'[c] = "open"
                 \/ SendWorker(<<Msg("resp", c, 0)>>) /\ local'[c] = "open"
                 \/ SendWorker(Response502(c)) /\ local'[c] = "refused"
    BY <1>7, LoopKinds
  <2>1. CASE Serving(s)
    <3>1. x = s BY <1>7, <2>1, LoopKinds DEF SessionInv, Serving
    <3>2. asked' = asked BY <1>7, LoopKinds DEF HostOnly
    <3>3. ASSUME NEW c \in Conns, asked[c] = x, local'[c] \in {"open", "refused"}
          PROVE  /\ <<Msg("resp", c, 0)>> \in Seq(F)
                 /\ local'[c] = "refused" => Response502(c) \in Seq(F)
      <4>1. Msg("resp", c, 0) \in F /\ Msg("data", c, 0) \in F BY <1>3, <3>1, <3>2, <3>3
      <4>2. local'[c] = "refused" => Msg("data.end", c, 0) \in F BY <1>3, <3>1, <3>2, <3>3 DEF Over
      <4> QED BY <4>1, <4>2 DEF Response502
    <3>4. <<>> \in Seq(F) OBVIOUS
    <3>5. ASSUME NEW c \in Conns, asked[c] = x,
                 \/ SendWorker(<<>>) /\ local'[c] = "open"
                 \/ SendWorker(<<Msg("resp", c, 0)>>) /\ local'[c] = "open"
                 \/ SendWorker(Response502(c)) /\ local'[c] = "refused"
          PROVE  fromHost'[s] \in Seq(F)
      <4>1. CASE SendWorker(<<>>) BY <1>4, <3>4, <4>1
      <4>2. CASE SendWorker(<<Msg("resp", c, 0)>>) /\ local'[c] = "open" BY <1>4, <3>3, <3>5, <4>2
      <4>3. CASE SendWorker(Response502(c)) /\ local'[c] = "refused" BY <1>4, <3>3, <3>5, <4>3
      <4> QED BY <3>5, <4>1, <4>2, <4>3
    <3> QED BY <1>5, <2>0, <3>5
  <2>2. CASE ~Serving(s)
    <3>1. \A ms : SendWorker(ms) => fromHost'[s] = fromHost[s] BY <2>2, SendWorkerQueue
    <3>2. fromHost'[s] = fromHost[s] BY <2>0, <3>1
    <3> QED BY <1>2, <3>2
  <2> QED BY <2>1, <2>2
<1>8. ASSUME NEW d \in Conns, ReaderStep(d) PROVE fromHost'[s] \in Seq(F)
  <2>1. CASE Serving(s) /\ sesPc[s] = "open"
    <3>1. local[d] \notin {"none", "refused"} BY <1>8, ReaderEffect DEF LocalInv
    <3>2. UNCHANGED <<asked, conns>> /\ local'[d] # "none" BY <1>8, <3>1, ReaderEffect DEF HostOnly, TypeOK
    <3>3. asked'[d] # s => d \notin conns' BY <2>1, <3>1, <3>2 DEF StartedInv, SessionInv, Serving
    <3>4. downRead[d] + 1 \in Nat BY DEF TypeOK
    <3>5. /\ <<Msg("resp", d, 0)>> \in Seq(F) /\ <<Msg("data", d, downRead[d] + 1)>> \in Seq(F)
          /\ rdPc'[d] = "done" => <<Msg("data.end", d, 0)>> \in Seq(F)
      <4>1. Msg("resp", d, 0) \in F /\ Msg("data", d, downRead[d] + 1) \in F BY <1>3, <3>2, <3>3, <3>4
      <4>2. rdPc'[d] = "done" => Msg("data.end", d, 0) \in F BY <1>3, <3>2, <3>3 DEF Over
      <4> QED BY <4>1, <4>2
    <3>6. <<>> \in Seq(F) OBVIOUS
    <3> QED BY <1>4, <1>5, <1>8, <3>5, <3>6, ReaderKinds
  <2>2. CASE ~(Serving(s) /\ sesPc[s] = "open") BY <1>2, <1>8, <2>2, ReaderKinds, SendWorkerQueue
  <2> QED BY <2>1, <2>2
<1> QED BY <1>5, <1>6, <1>7, <1>8, FromKinds DEF F

-----------------------------------------------------------------------------
\* What the browser has, and what waits for it.
LEMMA DownTypes ==
    ASSUME TypeOK, NEW c \in Conns
    PROVE  /\ Read(c) \in SUBSET Nat /\ downRead[c] \in Nat /\ delivered[c] \in Seq(Nat)
           /\ Received(c) \in Seq(Nat) /\ (c \in Http => chunks[c] \in Seq(Nat))
           /\ local[c] # "refused" => \A k \in Read(c) : k \in 1..downRead[c]
           /\ (local[c] # "refused" /\ c \in Http) => Read(c) = 1..downRead[c]
           /\ Connected(c) \in BOOLEAN
           /\ Asked(c) => asked[c] \in Hosts
           /\ \A s \in Hosts : fromHost[s] \in Seq(FromHostFrames)
<1>1. /\ downRead[c] \in Nat /\ delivered[c] \in Seq(Nat) /\ (c \in Http => chunks[c] \in Seq(Nat))
      /\ \A s \in Hosts : fromHost[s] \in Seq(FromHostFrames)
  BY DEF TypeOK, WorkerTypeOK
<1>2. c \in Http => EmptyOf(c) = {} BY WorkerAssumption DEF EmptyOf
<1>3. Read(c) \in SUBSET Nat BY <1>1 DEF Read
<1>4. Received(c) \in Seq(Nat) BY <1>1, ConcatProperties DEF Received
<1>5. Asked(c) => asked[c] \in Hosts BY DEF Asked, TypeOK, WorkerTypeOK
<1>6. Connected(c) \in BOOLEAN BY DEF Connected, Serving
<1>7. local[c] # "refused" => Read(c) = (1..downRead[c]) \ EmptyOf(c) BY DEF Read
<1>8. local[c] # "refused" => \A k \in Read(c) : k \in 1..downRead[c] BY <1>7
<1>9. (local[c] # "refused" /\ c \in Http) => Read(c) = 1..downRead[c] BY <1>2, <1>7
<1> QED BY <1>1, <1>3, <1>4, <1>5, <1>6, <1>8, <1>9, Zenon

LEMMA Associates == \A u, v, w \in Seq(Nat) : (u \o v) \o w = u \o (v \o w)
BY ConcatAssociative

LEMMA ReceivedPush ==
    ASSUME NEW a \in Seq(Nat), NEW b \in Seq(Nat), NEW n \in Nat
    PROVE  a \o Append(b, n) = Append(a \o b, n)
<1>1. Append(b, n) = b \o <<n>> BY AppendIsConcat
<1>2. a \o b \in Seq(Nat) /\ <<n>> \in Seq(Nat) BY ConcatProperties
<1>3. Append(a \o b, n) = (a \o b) \o <<n>> BY <1>2, AppendIsConcat
<1> QED BY <1>1, <1>2, <1>3, Associates

LEMMA ReceivedPull ==
    ASSUME NEW a \in Seq(Nat), NEW b \in Seq(Nat), b # <<>>
    PROVE  Append(a, Head(b)) \o Tail(b) = a \o b
<1>1. Head(b) \in Nat /\ Tail(b) \in Seq(Nat) BY HeadTailProperties
<1>2. <<Head(b)>> \in Seq(Nat) BY <1>1
<1>3. Append(a, Head(b)) = a \o <<Head(b)>> BY <1>1, AppendIsConcat
<1>4. <<Head(b)>> \o Tail(b) = b
  <2>1. Len(b) \in Nat \ {0} /\ Len(Tail(b)) = Len(b) - 1 /\ Len(<<Head(b)>>) = 1
    BY EmptySeq, HeadTailProperties
  <2>2. <<Head(b)>> \o Tail(b) \in Seq(Nat) /\ Len(<<Head(b)>> \o Tail(b)) = Len(b)
    BY <1>1, <1>2, <2>1, ConcatProperties
  <2>3. ASSUME NEW i \in 1..Len(b) PROVE (<<Head(b)>> \o Tail(b))[i] = b[i]
    <3>1. (<<Head(b)>> \o Tail(b))[i] = IF i <= 1 THEN <<Head(b)>>[i] ELSE Tail(b)[i - 1]
      BY <1>1, <1>2, <2>1, ConcatProperties
    <3>2. CASE i = 1
      <4>1. Head(b) = b[1] OBVIOUS
      <4> QED BY <3>1, <3>2, <4>1
    <3>3. CASE i # 1
      <4>1. i - 1 \in 1..Len(Tail(b)) /\ (i - 1) + 1 = i BY <2>1, <3>3
      <4>2. Tail(b)[i - 1] = b[i] BY <4>1, HeadTailProperties
      <4> QED BY <2>1, <3>1, <3>3, <4>2
    <3> QED BY <3>2, <3>3
  <2> QED BY <2>2, <2>3, SeqEqual
<1>5. (a \o <<Head(b)>>) \o Tail(b) = a \o (<<Head(b)>> \o Tail(b)) BY <1>1, <1>2, Associates
<1> QED BY <1>3, <1>4, <1>5

LEMMA InOrderPrefix ==
    ASSUME NEW a \in Seq(Nat), NEW b \in Seq(Nat)
    PROVE  /\ \A ns : InOrder(a \o b, ns) => InOrder(a, ns)
           /\ (\A i \in 1..Len(a \o b) : (a \o b)[i] = i) => \A i \in 1..Len(a) : a[i] = i
<1> DEFINE r == a \o b
<1>1. Len(r) = Len(a) + Len(b) /\ Len(a) \in Nat /\ Len(b) \in Nat BY ConcatProperties
<1>2. \A i \in 1..Len(a) : i \in 1..Len(r) /\ r[i] = a[i] BY ConcatProperties
<1> HIDE DEF r
<1>3. ASSUME NEW ns, InOrder(r, ns), NEW i \in 1..Len(a)
      PROVE  /\ a[i] \in ns
             /\ \A j \in 1..(i - 1) : a[j] < a[i]
             /\ \A k \in ns : k < a[i] => \E j \in 1..(i - 1) : a[j] = k
  <2>a. \A j \in 1..(i - 1) : j \in 1..Len(a) BY <1>1
  <2>1. i \in 1..Len(r) /\ r[i] = a[i] /\ \A j \in 1..(i - 1) : r[j] = a[j] BY <1>2, <2>a
  <2>2. /\ r[i] \in ns
        /\ \A j \in 1..(i - 1) : r[j] < r[i]
        /\ \A k \in ns : k < r[i] => \E j \in 1..(i - 1) : r[j] = k
    BY <1>3, <2>1 DEF InOrder
  <2> QED BY <2>1, <2>2
<1> QED BY <1>2, <1>3 DEF InOrder, r

\* What a step does to the buffers of a connection, but for a message of the host.
BrowserQuiet(c) ==
    /\ delivered'[c] = delivered[c]
    /\ c \in Http => /\ chunks'[c] = chunks[c] /\ ended'[c] = ended[c]
                     /\ fetchPc'[c] = "complete" => fetchPc[c] = "complete" \/ PullEnd(c)
    /\ Asked(c) => (Active(c)' => Active(c))

LEMMA BrowserKinds ==
    ASSUME TypeOK, NewInv, [Next]_vars, NEW c \in Conns
    PROVE  \/ BrowserQuiet(c)
           \/ /\ c \in Http
              /\ PullChunk(c) \/ CancelledPull(c)
              /\ UNCHANGED hostVars
           \/ \E x \in Hosts : HostMsg(x) /\ UNCHANGED hostVars
<1> DEFINE Calm == UNCHANGED <<fetchPc, chunks, ended, delivered>>
<1>1. ASSUME Calm PROVE BrowserQuiet(c) BY <1>1 DEF BrowserQuiet, Active
<1>2. ASSUME NEW d \in Http, FetchStep(d), ~PullChunk(d), ~CancelledPull(d) PROVE BrowserQuiet(c)
  <2>1. UNCHANGED <<chunks, ended, delivered>>
    BY <1>2 DEF FetchStep, RefuseHttp, HttpRequest, HeadSeen, HeadFails, PullEnd, PullError, Demand, Cancel, bufVars
  <2>2. ASSUME c = d, Asked(c), Active(c)' PROVE Active(c)
    <3>1. fetchPc[c] # "idle" BY <1>2, <2>2 DEF NewInv, HandlerInv
    <3> QED BY <1>2, <2>2, <3>1 DEF FetchStep, RefuseHttp, HttpRequest, HeadSeen, HeadFails, PullEnd, PullError,
                                   Demand, Cancel, FetchAt, Active, TypeOK, WorkerTypeOK
  <2>3. fetchPc'[d] = "complete" => fetchPc[d] = "complete" \/ PullEnd(d)
    BY <1>2 DEF FetchStep, RefuseHttp, HttpRequest, HeadSeen, HeadFails, PullError,
                Demand, Cancel, FetchAt, TypeOK, WorkerTypeOK
  <2>4. \A e \in Http : e # d => fetchPc'[e] = fetchPc[e]
    BY <1>2 DEF FetchStep, RefuseHttp, HttpRequest, HeadSeen, HeadFails, PullEnd, PullError,
                Demand, Cancel, FetchAt, TypeOK, WorkerTypeOK
  <2> QED BY <2>1, <2>2, <2>3, <2>4 DEF BrowserQuiet, Active
<1>3. ASSUME NEW d \in Http, PullChunk(d) \/ CancelledPull(d), d # c PROVE BrowserQuiet(c)
  BY <1>3 DEF PullChunk, CancelledPull, FetchAt, BrowserQuiet, Active, TypeOK, WorkerTypeOK
<1>4. ASSUME NEW d \in Http, PumpStep(d) PROVE Calm
  BY <1>4 DEF PumpStep, PumpChunk, PumpEnds, PumpFails, bufVars
<1>5. ASSUME NEW d \in Wss, TunnelStep(d) PROVE Calm
  BY <1>5 DEF TunnelStep, RefuseWs, WsOpens, BrowserMessage, BrowserWsCloses, bufVars
<1>6. ASSUME NEW x \in Hosts, \/ Attach(x) \/ SessionCloses(x) \/ HostDials(x) \/ HostConnects(x)
                              \/ HostEnds(x) \/ ReadLoop(x)
      PROVE  Calm
  BY <1>6 DEF Attach, SessionCloses, HostDials, HostConnects, HostEnds, HostOnly, ReadLoop, InboundDialled,
              InboundRefused, ReadsData, ReadsDataEnd, ReadsClose, Reads, bufVars
<1>7. ASSUME NEW d \in Conns, ReaderStep(d) PROVE Calm
  BY <1>7 DEF ReaderStep, ResponseHead, ResponseHeadFails, ResponseChunk, ResponseEnd, LocalMessage, TunnelEnd,
              ReaderOnly, HostOnly, bufVars
<1>8. CASE UNCHANGED vars BY <1>1, <1>8 DEF vars, workerVars, bufVars
<1> HIDE DEF Calm
<1> QED BY <1>1, <1>2, <1>3, <1>4, <1>5, <1>6, <1>7, <1>8 DEF Next, ReaderStep, Conns

\* A message of the host is about a connection that was dialled, and unless it comes
\* from the session that was asked, about none that is in the map.
LEMMA MessageKinds ==
    ASSUME TypeOK, NewInv, DownFramesInv, EntryHasHandler, NEW x \in Hosts, HostMsg(x)
    PROVE  \E m \in FromHostFrames :
              /\ fromHost[x] # <<>> /\ m = fromHost[x][1] /\ FrameAt(fromHost[x], m.conn, m.t, 1)
              /\ fromHost' = [fromHost EXCEPT ![x] = Tail(@)]
              /\ m.conn \in Conns /\ m.n \in Nat /\ local[m.conn] # "none" /\ Asked(m.conn)
              /\ m.conn \in conns => asked[m.conn] = x
              /\ m.t = "data.end" => Over(m.conn)
              /\ UNCHANGED <<asked, fetchPc, sesPc, hostWs, hostUp>> /\ conns' \subseteq conns
              /\ \A c \in Conns : ~(c = m.conn /\ c \in conns) =>
                    /\ delivered'[c] = delivered[c]
                    /\ c \in Http => chunks'[c] = chunks[c] /\ ended'[c] = ended[c]
              /\ m.conn \in conns =>
                    /\ m.t = "data" =>
                          IF m.conn \in Http
                          THEN /\ chunks'[m.conn] = Append(chunks[m.conn], m.n)
                               /\ UNCHANGED <<delivered, ended>>
                          ELSE delivered'[m.conn] = Append(delivered[m.conn], m.n)
                    /\ m.t # "data" => UNCHANGED <<delivered, chunks>>
                    /\ m.t # "data.end" => UNCHANGED ended
                    /\ (m.t = "data.end" /\ m.conn \in Wss) => m.conn \notin conns'
<1>1. fromHost[x] \in Seq(DownFrames(x)) /\ fromHost[x] # <<>> BY DEF DownFramesInv, HostMsg
<1>2. PICK m \in DownFrames(x) : m = Head(fromHost[x]) /\ m = fromHost[x][1]
  BY <1>1, HeadTailProperties
<1>3. /\ m \in FromHostFrames /\ m.conn \in Conns /\ m.n \in Nat /\ local[m.conn] # "none" /\ Asked(m.conn)
      /\ m.conn \in conns => asked[m.conn] = x
      /\ m.t = "data.end" => Over(m.conn)
  BY FrameTypes DEF DownFrames, NewInv
<1>4. FrameAt(fromHost[x], m.conn, m.t, 1)
  <2>1. Len(fromHost[x]) \in Nat \ {0} BY <1>1, EmptySeq
  <2> QED BY <1>2, <2>1 DEF FrameAt
<1>5. OnHostMsg(m) /\ fromHost' = [fromHost EXCEPT ![x] = Tail(@)]
      /\ UNCHANGED <<asked, fetchPc, sesPc, hostWs, hostUp>>
  BY <1>2 DEF HostMsg
<1>11. conns' \subseteq conns BY <1>5 DEF OnHostMsg, Forget
<1>6. m.conn \in conns /\ m.conn \in Wss => browserWs[m.conn] = "open" BY DEF EntryHasHandler
<1>7. m.conn \in Http <=> m.conn \notin Wss BY <1>3, WorkerAssumption DEF Conns
<1>12. delivered \in [Conns -> Seq(Nat)] /\ chunks \in [Http -> Seq(Nat)] /\ ended \in [Http -> BOOLEAN]
  BY DEF TypeOK, WorkerTypeOK
<1> USE DEF OnHostMsg
<1>8. \A c \in Conns : ~(c = m.conn /\ c \in conns) =>
         /\ delivered'[c] = delivered[c]
         /\ c \in Http => chunks'[c] = chunks[c] /\ ended'[c] = ended[c]
  BY <1>5, <1>12
<1>9. ASSUME m.conn \in conns, m.t = "data"
      PROVE  IF m.conn \in Http
             THEN chunks'[m.conn] = Append(chunks[m.conn], m.n) /\ UNCHANGED <<delivered, ended>>
             ELSE delivered'[m.conn] = Append(delivered[m.conn], m.n)
  <2>1. CASE m.conn \in Http BY <1>5, <1>7, <1>9, <1>12, <2>1
  <2>2. CASE m.conn \notin Http
    <3>1. delivered' = [delivered EXCEPT ![m.conn] = Append(@, m.n)] BY <1>5, <1>6, <1>7, <1>9, <2>2
    <3> QED BY <1>3, <1>12, <2>2, <3>1
  <2> QED BY <2>1, <2>2
<1>10. ASSUME m.conn \in conns
       PROVE  /\ m.t # "data" => UNCHANGED <<delivered, chunks>>
              /\ m.t # "data.end" => UNCHANGED ended
              /\ (m.t = "data.end" /\ m.conn \in Wss) => m.conn \notin conns'
  BY <1>5, <1>10 DEF Forget
<1> HIDE DEF OnHostMsg
<1> QED BY <1>1, <1>2, <1>3, <1>4, <1>5, <1>8, <1>9, <1>10, <1>11

-----------------------------------------------------------------------------
\* The way back.
\* Nothing is on its way about a connection that was not dialled, and no end before the
\* reader is done.
LEMMA NoneSent ==
    ASSUME DownFramesInv, NEW s \in Hosts, NEW c, NEW t, local[c] = "none" \/ (t = "data.end" /\ ~Over(c))
    PROVE  ~Has(fromHost[s], c, t) /\ \A i \in 1..Len(fromHost[s]) : ~FrameAt(fromHost[s], c, t, i)
<1>1. fromHost[s] \in Seq(DownFrames(s)) BY DEF DownFramesInv
<1>2. \A i \in 1..Len(fromHost[s]) : fromHost[s][i] \in DownFrames(s) BY <1>1, ElementOfSeq
<1> QED BY <1>2 DEF DownFrames, Has, FrameAt

LEMMA DownNone ==
    ASSUME TypeOK', NewInv', LocalInv', DownFramesInv', NEW c \in Conns, local'[c] = "none",
           delivered'[c] = <<>>, c \in Http => chunks'[c] = <<>> /\ ~ended'[c]
    PROVE  DownPart(c)'
<1>1. Read(c)' = {}
  <2>1. downRead'[c] = 0 BY DEF LocalInv
  <2> QED BY <2>1 DEF Read
<1>2. Received(c)' = <<>>
  <2>1. <<>> \o <<>> = <<>> OBVIOUS
  <2> QED BY <2>1 DEF Received
<1>3. ASSUME c \in conns'
      PROVE  Link(fromHost'[asked'[c]], c, {}, {}, Connected(c)')
  <2>1. PICK s \in Hosts : s = asked'[c] BY <1>3 DEF NewInv, HandlerInv, Asked, TypeOK, WorkerTypeOK
  <2> DEFINE q == fromHost'[s]
  <2>2. q \in Seq(DownFrames(s)') BY DEF DownFramesInv
  <2>3. \A i \in 1..Len(q) : q[i] \in DownFrames(s)' BY <2>2, ElementOfSeq
  <2>4. \A t : \A i \in 1..Len(q) : ~FrameAt(q, c, t, i) BY <2>3 DEF DownFrames, FrameAt
  <2>5. ~Has(q, c, "data.end") BY <2>4 DEF Has
  <2>6. Connected(c)' \in BOOLEAN BY DEF Connected, Serving
  <2> HIDE DEF q
  <2>7. Link(q, c, {}, {}, Connected(c)') BY <2>4, <2>5, <2>6, LinkFresh
  <2> QED BY <2>1, <2>7 DEF q
<1>4. DownLinked(c)' BY <1>1, <1>2, <1>3, InOrderEmpty DEF DownLinked
<1>5. Len(<<>>) = 0 OBVIOUS
<1> QED BY <1>1, <1>2, <1>4, <1>5, InOrderEmpty DEF DownPart

\* Frames about another connection.
LEMMA LinkConcatOther ==
    ASSUME NEW q \in Seq(FromHostFrames), NEW c \in Conns, NEW d \in Conns, d # c, NEW n \in Nat, NEW ms,
           \/ ms = <<>> \/ ms = <<Msg("resp", d, 0)>> \/ ms = <<Msg("data", d, n)>>
           \/ ms = <<Msg("data.end", d, 0)>> \/ ms = Response502(d),
           NEW done, NEW ns \in SUBSET Nat, NEW whole, Link(q, c, done, ns, whole)
    PROVE  Link(q \o ms, c, done, ns, whole)
<1>1. \A m \in FromHostFrames, r \in Seq(FromHostFrames) : r \o <<m>> = Append(r, m)
  BY AppendIsConcat
<1>2. ASSUME NEW r \in Seq(FromHostFrames), NEW m \in FromHostFrames, m.conn = d, Link(r, c, done, ns, whole)
      PROVE  Append(r, m) \in Seq(FromHostFrames) /\ Link(Append(r, m), c, done, ns, whole)
  BY <1>2, AppendProperties, LinkAppendOther
<1>3. \A t \in {"resp", "data", "data.end"}, k \in Nat : Msg(t, d, k) \in FromHostFrames /\ Msg(t, d, k).conn = d
  BY DEF Msg, FromHostFrames
<1>4. CASE ms = <<>> BY <1>4
<1>5. ASSUME NEW t \in {"resp", "data", "data.end"}, NEW k \in Nat, ms = <<Msg(t, d, k)>>
      PROVE  Link(q \o ms, c, done, ns, whole)
  <2>1. PICK m \in FromHostFrames : m = Msg(t, d, k) /\ m.conn = d BY <1>3
  <2>2. q \o ms = Append(q, m) BY <1>1, <1>5, <2>1
  <2> QED BY <1>2, <2>1, <2>2
<1>6. CASE ms = Response502(d)
  <2> DEFINE a == Msg("resp", d, 0)
             b == Msg("data", d, 0)
             e == Msg("data.end", d, 0)
  <2>1. a \in FromHostFrames /\ b \in FromHostFrames /\ e \in FromHostFrames
        /\ a.conn = d /\ b.conn = d /\ e.conn = d
    BY <1>3
  <2> HIDE DEF a, b, e
  <2>2. q \o <<a, b, e>> = Append(Append(Append(q, a), b), e) BY <2>1
  <2>3. Link(Append(Append(Append(q, a), b), e), c, done, ns, whole) BY <1>2, <2>1
  <2> QED BY <1>6, <2>2, <2>3 DEF Response502, a, b, e
<1> QED BY <1>4, <1>5, <1>6

\* A connection is not connected again.
LEMMA ConnectedBefore ==
    ASSUME TypeOK, DiallingInv, [Next]_vars, NEW c \in Conns, Asked(c), asked'[c] = asked[c],
           local[c] # "none", c \in conns', Connected(c)'
    PROVE  Connected(c)
<1>1. PICK s \in Hosts : s = asked[c] BY DEF Asked, TypeOK, WorkerTypeOK
<1>2. CASE UNCHANGED sessionVars BY <1>1, <1>2 DEF sessionVars, Connected, Serving
<1>3. ASSUME NEW x \in Hosts, SessionMoves(x) PROVE Connected(c)
  <2>1. ~Attach(x) BY DEF Attach, ConnsAfterAttach
  <2>2. HostConnects(x) => x # s BY <1>1 DEF HostConnects, HostAt, DiallingInv
  <2>3. sesPc'[s] = "open" /\ hostPc'[s] = "serving" BY <1>1 DEF Connected, Serving
  <2> QED BY <1>1, <1>3, <2>1, <2>2, <2>3
          DEF SessionMoves, SessionCloses, HostDials, HostConnects, HostEnds, HostAt, HostOnly, hostVars,
              Connected, Serving, TypeOK, WorkerTypeOK
<1> QED BY <1>2, <1>3, SessionKinds

\* The host writes to the session that was asked, if the connection still counts.
LEMMA ServedOnly ==
    ASSUME SessionInv, StartedInv, NEW c \in Conns, c \in conns, local[c] # "none",
           NEW s \in Hosts, s = asked[c]
    PROVE  Connected(c) <=> Serving(s) /\ sesPc[s] = "open"
BY DEF Connected

\* Nothing that concerns the answer happens to a connection.
LEMMA DownOther ==
    ASSUME TypeOK, TypeOK', SessionInv, UpFramesInv, NewInv, AnnouncedInv, EndInv, LocalInv, DiallingInv,
           [Next]_vars, NEW c \in Conns, local[c] # "none", DownPart(c),
           BrowserQuiet(c) \/ (c \in Http /\ CancelledPull(c) /\ UNCHANGED hostVars),
           ~\E x \in Hosts : HostMsg(x) /\ UNCHANGED hostVars, ~ReaderStep(c)
    PROVE  DownPart(c)'
<1>1. PICK s \in Hosts : s = asked[c] /\ asked'[c] = s /\ Asked(c)
  <2>1. Asked(c) BY DEF NewInv
  <2>2. asked[c] \in Hosts BY <2>1 DEF Asked, TypeOK, WorkerTypeOK
  <2>3. asked'[c] = asked[c] BY <2>1, UpHistory
  <2> QED BY <2>1, <2>2, <2>3
<1>2. /\ local'[c] # "none" /\ (local'[c] = "refused" <=> local[c] = "refused")
      /\ downRead'[c] = downRead[c]
  <2>1. ASSUME NEW x \in Hosts, HostConnects(x) \/ ReadLoop(x) PROVE downRead' = downRead
    BY <2>1, LoopKinds DEF HostConnects
  <2>2. ASSUME NEW d \in Conns, ReaderStep(d) PROVE downRead'[c] = downRead[c] BY <2>2, ReaderEffect
  <2>3. downRead'[c] = downRead[c] BY <2>1, <2>2, LocalKinds DEF localVars
  <2> QED BY <2>3, LocalHistory DEF TypeOK
<1>3. Read(c)' = Read(c) BY <1>2 DEF Read, EmptyOf
<1>4. delivered'[c] = delivered[c] /\ (Active(c)' => Active(c) /\ Received(c)' = Received(c))
  <2>1. CASE BrowserQuiet(c) BY <1>1, <2>1 DEF BrowserQuiet, Received
  <2>2. CASE c \in Http /\ CancelledPull(c)
    <3>1. fetchPc' = [fetchPc EXCEPT ![c] = "failed"] \/ fetchPc' = [fetchPc EXCEPT ![c] = "left"]
      BY <2>2 DEF CancelledPull, FetchAt
    <3>2. fetchPc'[c] \in {"failed", "left"} BY <2>2, <3>1 DEF TypeOK, WorkerTypeOK
    <3>3. ~Active(c)' BY <2>2, <3>2 DEF Active
    <3>4. delivered'[c] = delivered[c] BY <2>2 DEF CancelledPull
    <3> QED BY <3>3, <3>4
  <2> QED BY <2>1, <2>2
<1>5. ASSUME c \in conns', Active(c)'
      PROVE  Link(fromHost'[s], c, Had(Received(c)), Read(c), Connected(c)')
  <2> DEFINE q == fromHost[s]
  <2>1. c \in conns BY <1>1, <1>5, ConnsHistory
  <2>2. Link(q, c, Had(Received(c)), Read(c), Connected(c))
    BY <1>1, <1>4, <1>5, <2>1 DEF DownPart, DownLinked
  <2>3. Connected(c)' => Connected(c) BY <1>1, <1>5, ConnectedBefore
  <2>4. ASSUME fromHost'[s] = q PROVE Link(fromHost'[s], c, Had(Received(c)), Read(c), Connected(c)')
    BY <2>2, <2>3, <2>4, LinkWeaker
  <2>5. Read(c) \in SUBSET Nat /\ q \in Seq(FromHostFrames) BY DownTypes
  <2> HIDE DEF q
  <2>6. ASSUME NEW d \in Conns, d # c, NEW n \in Nat, NEW ms, SendWorker(ms),
               \/ ms = <<>> \/ ms = <<Msg("resp", d, 0)>> \/ ms = <<Msg("data", d, n)>>
               \/ ms = <<Msg("data.end", d, 0)>> \/ ms = Response502(d)
        PROVE  Link(fromHost'[s], c, Had(Received(c)), Read(c), Connected(c)')
    <3>1. fromHost'[s] = q \/ fromHost'[s] = q \o ms BY <2>6, SendWorkerQueue DEF q
    <3>2. Link(q \o ms, c, Had(Received(c)), Read(c), Connected(c)) BY <2>2, <2>5, <2>6, LinkConcatOther
    <3> QED BY <2>2, <2>3, <3>1, <3>2, LinkWeaker
  <2>7. ASSUME NEW x \in Hosts, SessionCloses(x)
        PROVE  Link(fromHost'[s], c, Had(Received(c)), Read(c), Connected(c)')
    <3>1. CASE x = s
      <4>1. fromHost'[s] = <<>> /\ sesPc'[s] = "closed" BY <2>7, <3>1 DEF SessionCloses, TypeOK, WorkerTypeOK
      <4>2. ~Connected(c)' /\ Connected(c)' \in BOOLEAN BY <1>1, <4>1 DEF Connected, Serving
      <4>3. \A i \in 1..Len(<<>>) : ~FrameAt(<<>>, c, "data", i) BY DEF FrameAt
      <4>4. ~Has(<<>>, c, "data.end") BY HasNone
      <4>5. Link(<<>>, c, Had(Received(c)), Read(c), Connected(c)') BY <4>2, <4>3, <4>4, LinkFresh
      <4> QED BY <4>1, <4>5
    <3>2. CASE x # s
      <4>1. fromHost'[s] = q BY <2>7, <3>2 DEF SessionCloses, TypeOK, WorkerTypeOK, q
      <4> QED BY <2>4, <4>1 DEF q
    <3> QED BY <3>1, <3>2
  <2>8. ASSUME NEW x \in Hosts, ReadLoop(x)
        PROVE  Link(fromHost'[s], c, Had(Received(c)), Read(c), Connected(c)')
    <3>1. CASE fromHost' = fromHost BY <2>4, <3>1 DEF q
    <3>2. ASSUME NEW d \in Conns, local[d] = "none",
                 SendWorker(<<>>) \/ SendWorker(<<Msg("resp", d, 0)>>) \/ SendWorker(Response502(d))
          PROVE  Link(fromHost'[s], c, Had(Received(c)), Read(c), Connected(c)')
      <4>1. d # c /\ 0 \in Nat BY <3>2
      <4> QED BY <2>6, <3>2, <4>1
    <3> QED BY <2>8, <3>1, <3>2, LoopKinds
  <2>9. ASSUME NEW d \in Conns, ReaderStep(d)
        PROVE  Link(fromHost'[s], c, Had(Received(c)), Read(c), Connected(c)')
    <3>1. d # c /\ downRead[d] + 1 \in Nat BY <2>9 DEF TypeOK
    <3> QED BY <2>4, <2>6, <2>9, <3>1, ReaderKinds DEF q
  <2> QED BY <2>4, <2>7, <2>8, <2>9, FromKinds DEF q
<1>6. DownLinked(c)' BY <1>1, <1>3, <1>4, <1>5 DEF DownLinked
<1> QED BY <1>2, <1>3, <1>4, <1>6 DEF DownPart

\* The dial of the local service succeeds or fails.
LEMMA LinkRefused ==
    ASSUME NEW q \in Seq(FromHostFrames), NEW c \in Conns, \A t, i : ~FrameAt(q, c, t, i)
    PROVE  Link(q \o Response502(c), c, {}, {0}, TRUE)
<1> DEFINE a == Msg("resp", c, 0)
           b == Msg("data", c, 0)
           e == Msg("data.end", c, 0)
           r == Append(q, a)
           z == Append(r, b)
<1> HIDE DEF z
<1>1. /\ a \in FromHostFrames /\ a.t = "resp"
      /\ b \in FromHostFrames /\ b.conn = c /\ b.t = "data" /\ b.n = 0
      /\ e \in FromHostFrames /\ e.t = "data.end"
  BY DEF Msg, FromHostFrames
<1> HIDE DEF a, b, e
<1>2. q \o <<a, b, e>> = Append(z, e) BY <1>1 DEF z
<1>3. ~Has(q, c, "data.end") BY DEF Has
<1>4. Link(q, c, {}, {}, TRUE) BY <1>3, LinkFresh
<1>5. r \in Seq(FromHostFrames) BY <1>1, AppendProperties
<1>6. Link(r, c, {}, {}, TRUE)
  <2>1. a.conn # c \/ a.t \notin {"data", "data.end"} BY <1>1
  <2> QED BY <1>1, <1>4, <2>1, LinkAppendOther
<1>7. ~Has(r, c, "data.end")
  <2>1. Has(r, c, "data.end") <=> Has(q, c, "data.end") \/ (a.t = "data.end" /\ a.conn = c)
    BY <1>1, HasAppend
  <2> QED BY <1>1, <1>3, <2>1
<1> HIDE DEF r
<1>8. z \in Seq(FromHostFrames) BY <1>1, <1>5, AppendProperties DEF z
<1>9. Link(z, c, {}, {} \cup {0}, TRUE)
  <2>1. {} \in SUBSET Nat /\ 0 \in Nat /\ (\A k \in {} : k < 0) /\ {} \subseteq {} /\ TRUE OBVIOUS
  <2> QED BY <1>1, <1>5, <1>6, <1>7, <2>1, LinkAppendNext DEF z
<1>10. {} \cup {0} = {0} OBVIOUS
<1>11. Link(z, c, {}, {0}, TRUE) BY <1>9, <1>10
<1>12. Link(Append(z, e), c, {}, {0}, TRUE)
  <2>1. {0} \in SUBSET Nat /\ TRUE OBVIOUS
  <2> QED BY <1>1, <1>8, <1>11, <2>1, LinkAppendEnd
<1> QED BY <1>2, <1>12 DEF Response502, a, b, e

LEMMA DownStarts ==
    ASSUME TypeOK, UpFramesInv, AnnouncedInv, EndInv, LocalInv, DownFramesInv,
           [Next]_vars, NEW c \in Conns, DownPart(c), local[c] = "none", local'[c] # "none"
    PROVE  DownPart(c)'
<1>1. PICK x \in Hosts : Serving(x) /\ asked[c] = x /\ ReadLoop(x) BY LocalHistory
<1>2. /\ UNCHANGED <<conns, asked, fetchPc, chunks, delivered, sesPc, hostPc>>
      /\ downRead' = downRead
  BY <1>1, LoopKinds DEF HostOnly, bufVars
<1>3. \/ SendWorker(<<>>) /\ local'[c] = "open"
      \/ SendWorker(<<Msg("resp", c, 0)>>) /\ local'[c] = "open"
      \/ SendWorker(Response502(c)) /\ local'[c] = "refused"
  <2>1. PICK d \in Conns : /\ \A e \in Conns : e # d => local'[e] = local[e]
                           /\ \/ SendWorker(<<>>) /\ local'[d] = "open"
                              \/ SendWorker(<<Msg("resp", d, 0)>>) /\ local'[d] = "open"
                              \/ SendWorker(Response502(d)) /\ local'[d] = "refused"
    BY <1>1, LoopKinds
  <2>2. d = c BY <2>1
  <2> QED BY <2>1, <2>2
<1>4. Read(c)' = IF local'[c] = "refused" THEN {0} ELSE {}
  <2>1. downRead'[c] = 0 BY <1>2 DEF LocalInv
  <2> QED BY <2>1 DEF Read
<1>5. delivered'[c] = <<>> /\ Received(c)' = <<>>
  <2>1. <<>> \o <<>> = <<>> OBVIOUS
  <2> QED BY <1>2, <2>1 DEF DownPart, Received
<1>6. Connected(c)' <=> sesPc[x] = "open" BY <1>1, <1>2 DEF Connected, Serving
<1>7. ASSUME TRUE PROVE Link(fromHost'[x], c, {}, Read(c)', Connected(c)')
  <2> DEFINE q == fromHost[x]
             w == Connected(c)'
  <2>1. q \in Seq(FromHostFrames) BY DownTypes
  <2>2. \A t, i : ~FrameAt(q, c, t, i)
    <3>1. \A t : \A i \in 1..Len(q) : ~FrameAt(q, c, t, i) BY NoneSent
    <3> QED BY <3>1 DEF FrameAt
  <2>3. w \in BOOLEAN BY DEF Connected, Serving
  <2>a. \A ms : SendWorker(ms) => fromHost'[x] = IF w THEN q \o ms ELSE q
    BY <1>1, <1>6, SendWorkerQueue
  <2> HIDE DEF q, w
  <2>4. ~Has(q, c, "data.end") BY <2>2 DEF Has
  <2>5. \A ns : Link(q, c, {}, ns, FALSE) BY <2>2, <2>4, LinkFresh
  <2>6. Link(q, c, {}, {}, w) BY <2>2, <2>3, <2>4, LinkFresh
  <2>7. CASE ~w
    <3>1. fromHost'[x] = q BY <1>3, <2>7, <2>a
    <3>2. w = FALSE BY <2>3, <2>7
    <3>3. Link(q, c, {}, Read(c)', w) BY <2>5, <3>2
    <3> QED BY <3>1, <3>3 DEF w
  <2>8. CASE w /\ SendWorker(<<>>) /\ local'[c] = "open"
    <3>1. fromHost'[x] = q BY <2>1, <2>8, <2>a
    <3>2. Read(c)' = {} BY <1>4, <2>8
    <3> QED BY <2>6, <3>1, <3>2 DEF w
  <2>9. CASE w /\ SendWorker(<<Msg("resp", c, 0)>>) /\ local'[c] = "open"
    <3>0. Msg("resp", c, 0) \in FromHostFrames /\ Msg("resp", c, 0).t = "resp" BY DEF Msg, FromHostFrames
    <3>1. PICK m \in FromHostFrames : m = Msg("resp", c, 0) /\ m.t = "resp" BY <3>0
    <3>2. fromHost'[x] = Append(q, m)
      <4>1. fromHost'[x] = q \o <<m>> BY <2>9, <2>a, <3>1
      <4> QED BY <2>1, <4>1, AppendIsConcat
    <3>3. Read(c)' = {} BY <1>4, <2>9
    <3>4. Link(Append(q, m), c, {}, {}, w) BY <2>1, <2>6, <3>1, LinkAppendOther
    <3> QED BY <3>2, <3>3, <3>4 DEF w
  <2>10. CASE w /\ SendWorker(Response502(c)) /\ local'[c] = "refused"
    <3>1. fromHost'[x] = q \o Response502(c) BY <2>10, <2>a
    <3>2. Link(q \o Response502(c), c, {}, {0}, TRUE) BY <2>1, <2>2, LinkRefused
    <3>3. w = TRUE BY <2>3, <2>10
    <3>4. Read(c)' = {0} BY <1>4, <2>10
    <3>5. Link(fromHost'[x], c, {}, Read(c)', w) BY <3>1, <3>2, <3>3, <3>4
    <3> QED BY <3>5 DEF w
  <2> QED BY <1>3, <2>7, <2>8, <2>9, <2>10
<1>8. Had(<<>>) = {} /\ Len(<<>>) = 0 /\ \A ns : InOrder(<<>>, ns) BY InOrderEmpty
<1>9. DownLinked(c)' BY <1>1, <1>2, <1>5, <1>7, <1>8 DEF DownLinked
<1> QED BY <1>5, <1>8, <1>9 DEF DownPart

\* The object takes a frame of the host.
LEMMA DownMessage ==
    ASSUME TypeOK, NewInv, DownFramesInv, EntryHasHandler, NEW x \in Hosts, HostMsg(x), UNCHANGED hostVars,
           NEW c \in Conns, DownPart(c)
    PROVE  DownPart(c)'
<1>1. PICK m \in FromHostFrames :
         /\ fromHost[x] # <<>> /\ m = fromHost[x][1] /\ FrameAt(fromHost[x], m.conn, m.t, 1)
         /\ fromHost' = [fromHost EXCEPT ![x] = Tail(@)]
         /\ m.conn \in Conns /\ m.n \in Nat /\ local[m.conn] # "none" /\ Asked(m.conn)
         /\ m.conn \in conns => asked[m.conn] = x
         /\ UNCHANGED <<asked, fetchPc, sesPc>> /\ conns' \subseteq conns
         /\ \A e \in Conns : ~(e = m.conn /\ e \in conns) =>
               /\ delivered'[e] = delivered[e]
               /\ e \in Http => chunks'[e] = chunks[e] /\ ended'[e] = ended[e]
         /\ m.conn \in conns =>
               /\ m.t = "data" =>
                     IF m.conn \in Http
                     THEN /\ chunks'[m.conn] = Append(chunks[m.conn], m.n)
                          /\ UNCHANGED <<delivered, ended>>
                     ELSE delivered'[m.conn] = Append(delivered[m.conn], m.n)
               /\ m.t # "data" => UNCHANGED <<delivered, chunks>>
  BY MessageKinds
<1>2. UNCHANGED <<local, downRead, hostPc>> BY DEF hostVars
<1>3. Read(c)' = Read(c) /\ Connected(c)' = Connected(c) /\ (Active(c)' <=> Active(c))
  BY <1>1, <1>2 DEF Read, Connected, Serving, Active
<1> DEFINE q == fromHost[x]
<1>4. /\ Read(c) \in SUBSET Nat /\ q \in Seq(FromHostFrames) /\ Received(c) \in Seq(Nat)
      /\ delivered[c] \in Seq(Nat) /\ (c \in Http => chunks[c] \in Seq(Nat))
      /\ local[c] # "refused" => \A k \in Read(c) : k \in 1..downRead[c]
      /\ (local[c] # "refused" /\ c \in Http) => Read(c) = 1..downRead[c]
      /\ downRead[c] \in Nat
      /\ Asked(c) => asked[c] \in Hosts
  BY DownTypes
<1>5. c \in conns => Asked(c) BY DEF NewInv, HandlerInv
<1>6. fromHost'[x] = Tail(q) /\ \A s \in Hosts : s # x => fromHost'[s] = fromHost[s]
  BY <1>1 DEF TypeOK, WorkerTypeOK
<1> HIDE DEF q
<1>7. ASSUME c \in conns', Active(c), m.conn # c \/ m.t # "data"
      PROVE  Link(fromHost'[asked[c]], c, Had(Received(c)), Read(c), Connected(c))
  <2>1. Link(fromHost[asked[c]], c, Had(Received(c)), Read(c), Connected(c))
    BY <1>1, <1>7 DEF DownPart, DownLinked
  <2>2. CASE asked[c] = x
    <3>1. Link(q, c, Had(Received(c)), Read(c), Connected(c)) BY <2>1, <2>2 DEF q
    <3>2. q # <<>> /\ (q[1].t # "data" \/ q[1].conn # c) BY <1>1, <1>7 DEF q
    <3>3. Link(Tail(q), c, Had(Received(c)), Read(c), Connected(c)) BY <1>4, <3>1, <3>2, LinkTailOther
    <3> QED BY <1>6, <2>2, <3>3
  <2>3. CASE asked[c] # x
    <3>1. asked[c] \in Hosts BY <1>1, <1>4, <1>5, <1>7
    <3> QED BY <1>6, <2>1, <2>3, <3>1
  <2> QED BY <2>2, <2>3
<1>8. CASE ~(c = m.conn /\ c \in conns /\ m.t = "data")
  <2>1. delivered'[c] = delivered[c] /\ (c \in Http => chunks'[c] = chunks[c]) BY <1>1, <1>8
  <2>2. Received(c)' = Received(c) BY <2>1 DEF Received
  <2>3. DownLinked(c)'
    <3>1. c \in conns' => c \in conns /\ (m.conn # c \/ m.t # "data") BY <1>1, <1>8
    <3>2. asked'[c] = asked[c] BY <1>1
    <3> QED BY <1>3, <1>7, <2>2, <3>1, <3>2 DEF DownLinked
  <2>4. local'[c] = "none" => (c \in Http => ended'[c] = ended[c]) BY <1>1, <1>2
  <2> QED BY <1>2, <1>3, <2>1, <2>2, <2>3, <2>4 DEF DownPart
<1>9. CASE c = m.conn /\ c \in conns /\ m.t = "data"
  <2> DEFINE r == Received(c)
             n == m.n
             w == Connected(c)
  <2>1. /\ asked[c] = x /\ local[c] # "none" /\ n \in Nat
        /\ IF c \in Http THEN chunks'[c] = Append(chunks[c], n) /\ delivered'[c] = delivered[c]
                         ELSE delivered'[c] = Append(delivered[c], n)
    BY <1>1, <1>9
  <2>2. DataAt(q, c, n, 1) /\ q # <<>> BY <1>1, <1>9 DEF DataAt, FrameAt, q
  <2>3. Received(c)' = Append(r, n)
    <3>1. CASE c \in Http
      <4>1. delivered[c] \o Append(chunks[c], n) = Append(delivered[c] \o chunks[c], n)
        BY <1>4, <2>1, <3>1, ReceivedPush
      <4> QED BY <2>1, <3>1, <4>1 DEF Received
    <3>2. CASE c \notin Http BY <2>1, <3>2 DEF Received
    <3> QED BY <3>1, <3>2
  <2>4. CASE ~Active(c)
    <3>1. c \in Http BY <2>4 DEF Active
    <3>2. ~Active(c)' BY <1>3, <2>4
    <3>3. delivered'[c] = delivered[c] BY <2>1, <3>1
    <3> QED BY <1>2, <1>3, <2>1, <3>2, <3>3 DEF DownPart, DownLinked
  <2>5. CASE Active(c)
    <3>1. Link(q, c, Had(r), Read(c), w) BY <1>9, <2>1, <2>5 DEF DownPart, DownLinked, q
    <3>2. InOrder(r, Read(c)) BY <2>5 DEF DownPart
    <3>3. (c \in Http /\ local[c] # "refused") => \A i \in 1..Len(r) : r[i] = i BY <2>5 DEF DownPart
    <3> HIDE DEF r, n, w
    <3>4. /\ n \in Read(c) /\ (\A k \in Had(r) : k < n) /\ (\A k \in Read(c) : k < n => k \in Had(r))
          /\ Link(Tail(q), c, Had(r) \cup {n}, Read(c), w)
      BY <1>4, <2>1, <2>2, <3>1, LinkTailNext
    <3>5. r \in Seq(Nat) BY <1>4 DEF r
    <3>6. InOrder(Append(r, n), Read(c)) BY <1>4, <3>2, <3>4, <3>5, InOrderAppend
    <3>7. (c \in Http /\ local[c] # "refused") => \A i \in 1..Len(Append(r, n)) : Append(r, n)[i] = i
      <4>1. SUFFICES ASSUME c \in Http, local[c] # "refused"
                     PROVE  \A i \in 1..Len(Append(r, n)) : Append(r, n)[i] = i
        OBVIOUS
      <4>2. /\ n \in 1..downRead[c] /\ downRead[c] \in Nat /\ (\A i \in 1..Len(r) : r[i] = i)
            /\ \A k \in 1..downRead[c] : k < n => k \in Had(r)
        BY <1>4, <3>3, <3>4, <4>1
      <4> QED BY <3>4, <3>5, <4>2, CountsOn
    <3>8. Had(Append(r, n)) = Had(r) \cup {n} BY <2>1, <3>5, HadAppend DEF n
    <3>9. DownLinked(c)'
      <4>1. Link(Tail(q), c, Had(Append(r, n)), Read(c), w) BY <3>4, <3>8
      <4>2. asked'[c] = x BY <1>1, <2>1
      <4>3. Link(fromHost'[x], c, Had(Received(c)'), Read(c)', Connected(c)')
        <5>1. fromHost'[x] = Tail(q) BY <1>6
        <5>2. Received(c)' = Append(r, n) BY <2>3 DEF r, n
        <5>3. Connected(c)' = w BY <1>3 DEF w
        <5> QED BY <1>3, <4>1, <5>1, <5>2, <5>3
      <4> QED BY <4>2, <4>3 DEF DownLinked, Had
    <3>10. InOrder(delivered'[c], Read(c))
      <4>1. CASE c \in Http BY <2>1, <4>1 DEF DownPart
      <4>2. CASE c \notin Http
        <5>1. delivered'[c] = Received(c)' BY <4>2 DEF Received
        <5> QED BY <2>3, <3>6, <5>1 DEF r, n
      <4> QED BY <4>1, <4>2
    <3>11. (c \in Http /\ local[c] # "refused") => \A i \in 1..Len(delivered'[c]) : delivered'[c][i] = i
      BY <2>1 DEF DownPart
    <3>12. InOrder(Received(c)', Read(c)')
           /\ ((c \in Http /\ local[c] # "refused") => \A i \in 1..Len(Received(c)') : Received(c)'[i] = i)
      BY <1>3, <2>3, <3>6, <3>7 DEF r, n
    <3> QED BY <1>2, <1>3, <2>1, <3>9, <3>10, <3>11, <3>12 DEF DownPart
  <2> QED BY <2>4, <2>5
<1> QED BY <1>8, <1>9

\* The host reads the local service.
LEMMA DownReads ==
    ASSUME TypeOK, TypeOK', SessionInv, StartedInv, NewInv, LocalInv, DownFramesInv,
           NEW c \in Conns, ReaderStep(c), DownPart(c)
    PROVE  DownPart(c)'
<1> DEFINE n == downRead[c] + 1
           w == Connected(c)
           done == Had(Received(c))
           ns == Read(c)
<1>1. /\ UNCHANGED <<conns, asked, fetchPc, chunks, ended, delivered, sesPc, hostPc>>
      /\ rdPc[c] \notin {"none", "done"} /\ (local[c] # "open" => local'[c] = local[c])
      /\ (local[c] = "open" => local'[c] \in {"open", "closed"})
  BY ReaderEffect DEF HostOnly, bufVars
<1>2. local[c] \notin {"none", "refused"} /\ local'[c] \notin {"none", "refused"}
  BY <1>1 DEF LocalInv
<1>3. Received(c)' = Received(c) /\ Connected(c)' = w /\ (Active(c)' <=> Active(c))
  BY <1>1 DEF Received, Connected, Serving, Active
<1>4. /\ ns \in SUBSET Nat /\ downRead[c] \in Nat /\ n \in Nat /\ (\A k \in ns : k < n)
      /\ w \in BOOLEAN
  BY <1>2, DownTypes
<1>5. /\ downRead'[c] = downRead[c] => Read(c)' = ns
      /\ downRead'[c] = n /\ n \in EmptyOf(c) => Read(c)' = ns
      /\ downRead'[c] = n /\ n \notin EmptyOf(c) => Read(c)' = ns \cup {n}
  <2>1. Read(c) = (1..downRead[c]) \ EmptyOf(c) /\ Read(c)' = (1..downRead'[c]) \ EmptyOf(c)
    BY <1>2 DEF Read, EmptyOf
  <2>2. 1..(downRead[c] + 1) = (1..downRead[c]) \cup {downRead[c] + 1} BY <1>4
  <2> QED BY <2>1, <2>2
<1> HIDE DEF n, w, ns
<1>6. Read(c)' = ns \/ Read(c)' = ns \cup {n}
  BY <1>4, <1>5, ReaderKinds DEF n
<1>7. ASSUME NEW s, InOrder(s, ns) PROVE InOrder(s, Read(c)')
  <2>1. InOrder(s, ns \cup {n}) BY <1>4, <1>7, InOrderMore
  <2> QED BY <1>6, <1>7, <2>1
<1>8. ASSUME c \in conns, Active(c) PROVE Link(fromHost'[asked[c]], c, done, Read(c)', w)
  <2>1. PICK s \in Hosts : s = asked[c] BY <1>8 DEF NewInv, HandlerInv, Asked, TypeOK, WorkerTypeOK
  <2> DEFINE q == fromHost[s]
  <2>2. w <=> Serving(s) /\ sesPc[s] = "open" BY <1>2, <1>8, <2>1, ServedOnly DEF w
  <2>3. \A ms : SendWorker(ms) => fromHost'[s] = IF w THEN q \o ms ELSE q BY <2>2, SendWorkerQueue
  <2>4. Link(q, c, done, ns, w) BY <1>8, <2>1 DEF DownPart, DownLinked, w, ns
  <2>5. q \in Seq(FromHostFrames) BY DownTypes
  <2>6. ~Has(q, c, "data.end")
    <3>1. ~Over(c) BY <1>1, <1>2 DEF Over
    <3> QED BY <3>1, NoneSent
  <2>7. done \subseteq ns BY <1>8, InOrderHad DEF DownPart, ns
  <2> HIDE DEF q, done
  <2>8. ASSUME NEW m \in FromHostFrames, SendWorker(<<m>>)
        PROVE  fromHost'[s] = IF w THEN Append(q, m) ELSE q
    <3>1. Append(q, m) = q \o <<m>> BY <2>5, AppendIsConcat
    <3> QED BY <2>3, <2>8, <3>1
  <2>9. /\ Msg("resp", c, 0) \in FromHostFrames /\ Msg("resp", c, 0).t = "resp"
        /\ Msg("data", c, n) \in FromHostFrames /\ Msg("data", c, n).t = "data"
        /\ Msg("data", c, n).conn = c /\ Msg("data", c, n).n = n
        /\ Msg("data.end", c, 0) \in FromHostFrames /\ Msg("data.end", c, 0).t = "data.end"
    BY <1>4 DEF Msg, FromHostFrames
  <2>10. CASE fromHost'[s] = q /\ Read(c)' = ns BY <2>1, <2>4, <2>10
  <2>11. CASE SendWorker(<<Msg("resp", c, 0)>>) /\ Read(c)' = ns
    <3>1. PICK m \in FromHostFrames : m = Msg("resp", c, 0) /\ m.t = "resp" BY <2>9
    <3>2. Link(Append(q, m), c, done, ns, w) BY <1>4, <2>4, <2>5, <3>1, LinkAppendOther
    <3>3. fromHost'[s] = Append(q, m) \/ fromHost'[s] = q BY <2>8, <2>11, <3>1
    <3> QED BY <2>1, <2>4, <2>11, <3>2, <3>3
  <2>12. CASE SendWorker(<<Msg("data", c, n)>>) /\ Read(c)' = ns \cup {n}
    <3>1. PICK m \in FromHostFrames : m = Msg("data", c, n) /\ m.t = "data" /\ m.conn = c /\ m.n = n BY <2>9
    <3>2. fromHost'[s] = IF w THEN Append(q, m) ELSE q BY <2>8, <2>12, <3>1
    <3>3. CASE w
      <4>1. Link(Append(q, m), c, done, ns \cup {n}, w)
        BY <1>4, <2>4, <2>5, <2>6, <2>7, <3>1, <3>3, LinkAppendNext
      <4> QED BY <2>1, <2>12, <3>2, <3>3, <4>1
    <3>4. CASE ~w
      <4>1. Link(q, c, done, ns \cup {n}, FALSE) BY <1>4, <2>4, <2>6, LinkHigher
      <4>2. w = FALSE BY <1>4, <3>4
      <4> QED BY <2>1, <2>12, <3>2, <3>4, <4>1, <4>2
    <3> QED BY <3>3, <3>4
  <2>13. CASE SendWorker(<<>>) /\ Read(c)' = ns
    <3>1. q \o <<>> = q BY <2>5, ConcatEmptySeq
    <3>2. fromHost'[s] = q BY <2>3, <2>13, <3>1
    <3> QED BY <2>10, <2>13, <3>2
  <2>14. CASE SendWorker(<<Msg("data.end", c, 0)>>) /\ Read(c)' = ns
    <3>1. PICK m \in FromHostFrames : m = Msg("data.end", c, 0) /\ m.t = "data.end" BY <2>9
    <3>2. w => Link(Append(q, m), c, done, ns, w) BY <1>4, <2>4, <2>5, <3>1, LinkAppendEnd
    <3>3. fromHost'[s] = IF w THEN Append(q, m) ELSE q BY <2>8, <2>14, <3>1
    <3> QED BY <2>1, <2>4, <2>14, <3>2, <3>3
  <2> QED BY <1>5, <2>10, <2>11, <2>12, <2>13, <2>14, ReaderKinds DEF n, q
<1>9. DownLinked(c)'
  <2>1. c \in conns' <=> c \in conns BY <1>1
  <2>2. asked'[c] = asked[c] BY <1>1
  <2> QED BY <1>3, <1>8, <2>1, <2>2 DEF DownLinked, done
<1>10. delivered'[c] = delivered[c] /\ (c \in Http => chunks'[c] = chunks[c] /\ ended'[c] = ended[c])
  BY <1>1
<1>11. InOrder(delivered'[c], Read(c)') BY <1>7, <1>10 DEF DownPart, ns
<1>12. Active(c)' => InOrder(Received(c)', Read(c)') BY <1>3, <1>7 DEF DownPart, ns
<1> QED BY <1>2, <1>3, <1>9, <1>10, <1>11, <1>12 DEF DownPart

\* The browser takes a chunk out of the buffer.
LEMMA DownPull ==
    ASSUME TypeOK, TypeOK', NEW c \in Http, PullChunk(c), UNCHANGED hostVars, DownPart(c)
    PROVE  DownPart(c)'
<1>0. c \in Conns BY DEF Conns
<1>1. UNCHANGED <<local, downRead, rdPc, hostPc, fromHost, sesPc, conns, asked, ended>>
  BY DEF PullChunk, linkVars, hostVars
<1>2. chunks[c] # <<>> /\ delivered[c] \in Seq(Nat) /\ chunks[c] \in Seq(Nat)
      /\ delivered'[c] = Append(delivered[c], Head(chunks[c])) /\ chunks'[c] = Tail(chunks[c])
  BY <1>0 DEF PullChunk, TypeOK, WorkerTypeOK
<1>3. Received(c)' = Received(c)
  <2>1. Append(delivered[c], Head(chunks[c])) \o Tail(chunks[c]) = delivered[c] \o chunks[c]
    BY <1>2, ReceivedPull
  <2> QED BY <1>2, <2>1 DEF Received
<1>4. Active(c) BY DEF PullChunk, FetchAt, Active
<1>5. Read(c)' = Read(c) /\ Connected(c)' = Connected(c) BY <1>1 DEF Read, Connected, Serving
<1>6. DownLinked(c)' BY <1>1, <1>3, <1>4, <1>5 DEF DownPart, DownLinked
<1>7. InOrder(Received(c), Read(c)) BY <1>4 DEF DownPart
<1>8. local[c] # "refused" => \A i \in 1..Len(Received(c)) : Received(c)[i] = i BY <1>4 DEF DownPart
<1>9. delivered'[c] \in Seq(Nat) /\ chunks'[c] \in Seq(Nat) BY <1>0 DEF TypeOK, WorkerTypeOK
<1>10. Received(c) = delivered'[c] \o chunks'[c] BY <1>3 DEF Received
<1>11. /\ InOrder(delivered'[c], Read(c))
       /\ local[c] # "refused" => \A i \in 1..Len(delivered'[c]) : delivered'[c][i] = i
  BY <1>7, <1>8, <1>9, <1>10, InOrderPrefix
<1>12. local[c] # "none" BY <1>2 DEF DownPart
<1> QED BY <1>1, <1>3, <1>5, <1>6, <1>7, <1>8, <1>11, <1>12 DEF DownPart

LEMMA DownStep ==
    ASSUME TypeOK, TypeOK', SessionInv, UpFramesInv, NewInv, NewInv', EntryHasHandler, AnnouncedInv, EndInv,
           LocalInv, LocalInv', StartedInv, DiallingInv, DownFramesInv, DownFramesInv', DownInv, [Next]_vars
    PROVE  DownInv'
<1>1. SUFFICES ASSUME NEW c \in Conns PROVE DownPart(c)' BY DEF DownInv
<1>2. DownPart(c) BY DEF DownInv
<1>3. CASE local'[c] = "none"
  <2>1. local[c] = "none" BY <1>3, LocalHistory DEF TypeOK
  <2>2. delivered[c] = <<>> /\ (c \in Http => chunks[c] = <<>> /\ ~ended[c]) BY <1>2, <2>1 DEF DownPart
  <2>3. delivered'[c] = <<>> /\ (c \in Http => chunks'[c] = <<>> /\ ~ended'[c])
    <3>1. CASE BrowserQuiet(c) BY <2>2, <3>1 DEF BrowserQuiet
    <3>2. ASSUME c \in Http, PullChunk(c) PROVE FALSE BY <2>2, <3>2 DEF PullChunk
    <3>3. CASE c \in Http /\ CancelledPull(c)
      BY <2>2, <3>3 DEF CancelledPull, TypeOK, WorkerTypeOK
    <3>4. ASSUME NEW x \in Hosts, HostMsg(x) PROVE delivered'[c] = delivered[c]
                                                /\ (c \in Http => chunks'[c] = chunks[c] /\ ended'[c] = ended[c])
      BY <2>1, <3>4, MessageKinds
    <3> QED BY <2>2, <3>1, <3>2, <3>3, <3>4, BrowserKinds
  <2> QED BY <1>3, <2>3, DownNone
<1>4. CASE local'[c] # "none" /\ local[c] = "none" BY <1>2, <1>4, DownStarts
<1>5. CASE local[c] # "none"
  <2>1. ASSUME NEW x \in Hosts, HostMsg(x), UNCHANGED hostVars PROVE DownPart(c)'
    BY <1>2, <2>1, DownMessage
  <2>2. CASE ReaderStep(c) BY <1>2, <2>2, DownReads
  <2>3. CASE c \in Http /\ PullChunk(c) /\ UNCHANGED hostVars BY <1>2, <2>3, DownPull
  <2>4. CASE BrowserQuiet(c) \/ (c \in Http /\ CancelledPull(c) /\ UNCHANGED hostVars)
    <3>1. CASE \E x \in Hosts : HostMsg(x) /\ UNCHANGED hostVars BY <2>1, <3>1
    <3>2. CASE ReaderStep(c) BY <2>2, <3>2
    <3>3. CASE ~(\E x \in Hosts : HostMsg(x) /\ UNCHANGED hostVars) /\ ~ReaderStep(c)
      BY <1>2, <1>5, <2>4, <3>3, DownOther
    <3> QED BY <3>1, <3>2, <3>3
  <2> QED BY <2>1, <2>3, <2>4, BrowserKinds
<1> QED BY <1>3, <1>4, <1>5

-----------------------------------------------------------------------------
\* A response that is over stays as it is, and one that was ended is whole.
LEMMA OverHistory ==
    ASSUME TypeOK, UpFramesInv, AnnouncedInv, EndInv, LocalInv, [Next]_vars, NEW c \in Conns, Over(c)
    PROVE  Over(c)' /\ Read(c)' = Read(c)
<1>1. downRead'[c] = downRead[c] BY LocalHistory DEF Over
<1>2. CASE local[c] = "refused"
  <2>1. local'[c] = "refused" BY <1>2, LocalHistory
  <2> QED BY <1>2, <2>1 DEF Over, Read
<1>3. CASE local[c] # "refused"
  <2>1. rdPc[c] = "done" BY <1>3 DEF Over
  <2>2. local[c] \in {"open", "closed"} BY <1>3, <2>1 DEF LocalInv, TypeOK
  <2>3. local'[c] \in {"open", "closed"} /\ rdPc'[c] = "done" BY <2>1, <2>2, LocalHistory
  <2> QED BY <1>1, <1>3, <2>3 DEF Over, Read, EmptyOf
<1> QED BY <1>2, <1>3

\* What was received stays received.
LEMMA ReceivedHistory ==
    ASSUME TypeOK, NewInv, DownFramesInv, EntryHasHandler, [Next]_vars, NEW c \in Http, Asked(c), Active(c)'
    PROVE  Active(c) /\ Had(Received(c)) \subseteq Had(Received(c)')
<1>0. c \in Conns BY DEF Conns
<1>1. delivered[c] \in Seq(Nat) /\ chunks[c] \in Seq(Nat) /\ Received(c) \in Seq(Nat) BY <1>0, DownTypes
<1>2. ASSUME delivered'[c] = delivered[c], chunks'[c] = chunks[c] PROVE Received(c)' = Received(c)
  BY <1>2 DEF Received
<1>3. CASE BrowserQuiet(c) BY <1>2, <1>3 DEF BrowserQuiet
<1>4. CASE PullChunk(c)
  <2>1. Active(c) BY <1>4 DEF PullChunk, FetchAt, Active
  <2>2. chunks[c] # <<>> /\ delivered'[c] = Append(delivered[c], Head(chunks[c])) /\ chunks'[c] = Tail(chunks[c])
    BY <1>0, <1>4 DEF PullChunk, TypeOK, WorkerTypeOK
  <2>3. Append(delivered[c], Head(chunks[c])) \o Tail(chunks[c]) = delivered[c] \o chunks[c]
    BY <1>1, <2>2, ReceivedPull
  <2>4. Received(c)' = Received(c) BY <2>2, <2>3 DEF Received
  <2> QED BY <2>1, <2>4
<1>5. ASSUME CancelledPull(c) PROVE FALSE
  <2>1. fetchPc' = [fetchPc EXCEPT ![c] = "failed"] \/ fetchPc' = [fetchPc EXCEPT ![c] = "left"]
    BY <1>5 DEF CancelledPull, FetchAt
  <2>2. fetchPc'[c] \in {"failed", "left"} BY <2>1 DEF TypeOK, WorkerTypeOK
  <2> QED BY <2>2 DEF Active
<1>6. ASSUME NEW x \in Hosts, HostMsg(x) PROVE Active(c) /\ Had(Received(c)) \subseteq Had(Received(c)')
  <2>1. Active(c) BY <1>6 DEF HostMsg, Active
  <2>2. \/ delivered'[c] = delivered[c] /\ chunks'[c] = chunks[c]
        \/ \E n \in Nat : delivered'[c] = delivered[c] /\ chunks'[c] = Append(chunks[c], n)
    BY <1>0, <1>6, MessageKinds
  <2>3. ASSUME NEW n \in Nat, delivered'[c] = delivered[c], chunks'[c] = Append(chunks[c], n)
        PROVE  Had(Received(c)) \subseteq Had(Received(c)')
    <3>1. Received(c)' = Append(Received(c), n)
      <4>1. delivered[c] \o Append(chunks[c], n) = Append(delivered[c] \o chunks[c], n)
        BY <1>1, ReceivedPush
      <4> QED BY <2>3, <4>1 DEF Received
    <3>2. Had(Append(Received(c), n)) = Had(Received(c)) \cup {n} BY <1>1, HadAppend
    <3> QED BY <3>1, <3>2
  <2> QED BY <1>2, <2>1, <2>2, <2>3
<1> QED BY <1>0, <1>3, <1>4, <1>5, <1>6, BrowserKinds

LEMMA EndedStep ==
    ASSUME TypeOK, UpFramesInv, NewInv, EntryHasHandler, AnnouncedInv, EndInv, LocalInv, DownFramesInv, DownInv,
           EndedInv, [Next]_vars
    PROVE  EndedInv'
<1>1. SUFFICES ASSUME NEW c \in Http PROVE EndedPart(c)' BY DEF EndedInv
<1>2. c \in Conns /\ EndedPart(c) /\ DownPart(c) BY DEF Conns, EndedInv, DownInv
<1>3. Over(c) => Over(c)' /\ Read(c)' = Read(c) /\ Asked(c) BY <1>2, OverHistory DEF NewInv, Over, LocalInv
<1>4. ASSUME ended[c] PROVE Over(c)' /\ (Active(c)' => Read(c)' \subseteq Had(Received(c)'))
  <2>1. Over(c) /\ (Active(c) => Read(c) \subseteq Had(Received(c))) BY <1>2, <1>4 DEF EndedPart
  <2> QED BY <1>3, <2>1, ReceivedHistory
<1>5. ASSUME ended'[c], ~ended[c] PROVE Over(c)' /\ (Active(c)' => Read(c)' \subseteq Had(Received(c)'))
  <2>1. ~BrowserQuiet(c) BY <1>5 DEF BrowserQuiet
  <2>2. ~PullChunk(c) /\ ~CancelledPull(c) BY <1>5 DEF PullChunk, CancelledPull
  <2>3. PICK x \in Hosts : HostMsg(x) BY <1>2, <2>1, <2>2, BrowserKinds
  <2>4. PICK m \in FromHostFrames :
           /\ fromHost[x] # <<>> /\ FrameAt(fromHost[x], c, "data.end", 1)
           /\ c \in conns /\ asked[c] = x /\ Over(c)
           /\ UNCHANGED <<delivered, chunks, fetchPc>>
    BY <1>2, <1>5, <2>3, MessageKinds
  <2>5. ASSUME Active(c) PROVE Read(c) \subseteq Had(Received(c))
    <3>1. Link(fromHost[x], c, Had(Received(c)), Read(c), Connected(c))
      BY <1>2, <2>4, <2>5 DEF DownPart, DownLinked
    <3>2. fromHost[x] \in Seq(FromHostFrames) BY <1>2, DownTypes
    <3> QED BY <2>4, <3>1, <3>2, LinkEnd
  <2>6. Received(c)' = Received(c) /\ (Active(c)' <=> Active(c)) BY <2>4 DEF Received, Active
  <2> QED BY <1>3, <2>4, <2>5, <2>6
<1>6. ASSUME fetchPc'[c] = "complete" PROVE Over(c)' /\ Read(c)' \subseteq Had(delivered'[c])
  <2>1. CASE fetchPc[c] = "complete" /\ delivered'[c] = delivered[c]
    BY <1>2, <1>3, <2>1 DEF EndedPart
  <2>2. CASE PullEnd(c)
    <3>1. chunks[c] = <<>> /\ ended[c] /\ Active(c) /\ delivered'[c] = delivered[c]
      BY <2>2 DEF PullEnd, Drained, FetchAt, Active
    <3>2. delivered[c] \in Seq(Nat) BY <1>2, DownTypes
    <3>3. delivered[c] \o <<>> = delivered[c] BY <3>2, ConcatEmptySeq
    <3>4. Received(c) = delivered[c] BY <3>1, <3>3 DEF Received
    <3> QED BY <1>2, <1>3, <3>1, <3>4 DEF EndedPart
  <2>3. CASE BrowserQuiet(c) BY <1>6, <2>1, <2>2, <2>3 DEF BrowserQuiet
  <2>4. ASSUME PullChunk(c) \/ CancelledPull(c) PROVE FALSE
    <3>1. \E to \in {"stream", "full", "failed", "left"} : fetchPc' = [fetchPc EXCEPT ![c] = to]
      BY <2>4 DEF PullChunk, CancelledPull, FetchAt
    <3> QED BY <1>6, <3>1 DEF TypeOK, WorkerTypeOK
  <2>5. ASSUME NEW x \in Hosts, HostMsg(x) PROVE fetchPc[c] = "complete" /\ delivered'[c] = delivered[c]
    BY <1>2, <1>6, <2>5, MessageKinds
  <2> QED BY <1>2, <2>1, <2>3, <2>4, <2>5, BrowserKinds
<1>7. EndedPart(c)'
  <2>1. ended'[c] => Over(c)' /\ (Active(c)' => Read(c)' \subseteq Had(Received(c))') BY <1>4, <1>5 DEF Had
  <2>2. fetchPc'[c] = "complete" => Over(c)' /\ Read(c)' \subseteq Had(delivered[c])' BY <1>6 DEF Had
  <2> QED BY <2>1, <2>2 DEF EndedPart
<1> QED BY <1>7

-----------------------------------------------------------------------------
\* The invariant.
LEMMA InvInit ==
    ASSUME Init
    PROVE  IInv
<1>1. TypeOK BY TypeInit
<1>2. /\ hostWs = NoHost /\ latest = NoHost /\ conns = {} /\ hconns = {}
      /\ \A s \in Hosts : /\ sesPc[s] = "none" /\ hostPc[s] = "off" /\ hostUp[s] = FALSE
                          /\ toHost[s] = <<>> /\ fromHost[s] = <<>>
      /\ \A c \in Conns : /\ asked[c] = NoHost /\ local[c] = "none" /\ rdPc[c] = "none"
                          /\ upGot[c] = <<>> /\ downRead[c] = 0 /\ upSent[c] = 0
                          /\ delivered[c] = <<>>
      /\ \A c \in Http : /\ fetchPc[c] = "idle" /\ pumpPc[c] = "idle"
                         /\ chunks[c] = <<>> /\ ended[c] = FALSE
      /\ \A c \in Wss : browserWs[c] = "absent"
  BY DEF Init, WorkerInit, Conns
<1>3. \A c \in Http \cup Wss : c \in Conns BY DEF Conns
<1>4. Len(<<>>) = 0 /\ <<>> \o <<>> = <<>> OBVIOUS
<1>5. UpFramesInv /\ DownFramesInv
  <2>1. \A S : <<>> \in Seq(S) OBVIOUS
  <2> QED BY <1>2, <2>1 DEF UpFramesInv, DownFramesInv
<1>6. SessionInv BY <1>2 DEF SessionInv, Asked, Serving
<1>7. NewInv BY <1>2, <1>3 DEF NewInv, HandlerInv, Asked
<1>8. LatestAttached /\ ConnsOfLatest /\ EntryHasHandler
  BY <1>2 DEF LatestAttached, ConnsOfLatest, EntryHasHandler
<1>9. AnnouncedInv /\ EndInv
  <2>1. \A c, t, u : First(<<>>, c, t, u) BY <1>4 DEF First, FrameAt
  <2> QED BY <1>2, <1>3, <2>1, HasNone DEF AnnouncedInv, EndInv, Asked
<1>10. LocalInv /\ StartedInv /\ DiallingInv /\ RequestWhole
  BY <1>2, <1>3 DEF LocalInv, StartedInv, DiallingInv, RequestWhole
<1>11. UpInv
  <2>1. \A c \in Conns : ~Asked(c) BY <1>2 DEF Asked
  <2> QED BY <1>2, <1>4, <2>1, InOrderEmpty DEF UpInv, UpPart, UpLinked
<1>12. DownInv
  <2>1. \A c \in Conns : Received(c) = <<>> BY <1>2, <1>4 DEF Received
  <2> QED BY <1>2, <1>4, <2>1, InOrderEmpty DEF DownInv, DownPart, DownLinked
<1>13. EndedInv BY <1>2, <1>3 DEF EndedInv, EndedPart
<1> QED BY <1>1, <1>5, <1>6, <1>7, <1>8, <1>9, <1>10, <1>11, <1>12, <1>13 DEF IInv

LEMMA InvStep ==
    ASSUME IInv, [Next]_vars
    PROVE  IInv'
<1>1. /\ TypeOK /\ UpFramesInv /\ SessionInv /\ NewInv
      /\ LatestAttached /\ ConnsOfLatest /\ EntryHasHandler
      /\ AnnouncedInv /\ EndInv /\ LocalInv /\ UpInv /\ RequestWhole
      /\ StartedInv /\ DiallingInv /\ DownFramesInv /\ DownInv /\ EndedInv
  BY DEF IInv
<1>2. TypeOK' BY <1>1, TypeStep
<1>3. UpFramesInv' BY <1>1, UpFramesStep
<1>4. SessionInv' /\ LatestAttached' BY <1>1, SessionStep
<1>5. NewInv' /\ ConnsOfLatest' /\ EntryHasHandler' BY <1>1, NewStep
<1>6. AnnouncedInv' BY <1>1, AnnouncedStep
<1>7. EndInv' BY <1>1, EndStep
<1>8. LocalInv' BY <1>1, LocalStep
<1>9. UpInv' BY <1>1, <1>8, UpStep
<1>10. RequestWhole' BY <1>1, RequestStep
<1>11. StartedInv' BY <1>1, StartedStep
<1>12. DiallingInv' BY <1>1, DiallingStep
<1>13. DownFramesInv' BY <1>1, DownFramesStep
<1>14. DownInv' BY <1>1, <1>2, <1>5, <1>8, <1>13, DownStep
<1>15. EndedInv' BY <1>1, EndedStep
<1> QED BY <1>2, <1>3, <1>4, <1>5, <1>6, <1>7, <1>8, <1>9, <1>10, <1>11, <1>12, <1>13, <1>14, <1>15 DEF IInv

\* Every reachable state satisfies the inductive invariant: what is queued between the
\* object and the host continues what its reader has had, without a gap, and is all
\* that is missing as long as the session is attached (SendHost, SendWorker, OnHostMsg).
THEOREM IInvInvariant == SafetySpec => []IInv
<1>1. Init => IInv BY InvInit
<1>2. IInv /\ [Next]_vars => IInv' BY InvStep
<1> QED BY <1>1, <1>2, PTL DEF SafetySpec

\* The type invariant holds in every reachable state: a response is streamed only after
\* its head was received, and no counter passes its bound (handleBrowserHttp).
THEOREM TypeCorrect == SafetySpec => []TypeOK
<1>1. IInv => TypeOK BY DEF IInv
<1> QED BY <1>1, IInvInvariant, PTL

\* The host the object sends requests to is the session that attached last, until that
\* session closes; the late close event of a replaced one detaches nobody
\* (handleHostAttach).
THEOREM LatestAttachedCorrect == SafetySpec => []LatestAttached
<1>1. IInv => LatestAttached BY DEF IInv
<1> QED BY <1>1, IInvInvariant, PTL

\* Every entry of the map was announced to the session that attached last, so no frame
\* is taken for the answer to a request another session was asked (handleHostAttach,
\* onHostMsg).
THEOREM ConnsOfLatestCorrect == SafetySpec => []ConnsOfLatest
<1>1. IInv => ConnsOfLatest BY DEF IInv
<1> QED BY <1>1, IInvInvariant, PTL

\* An entry of the map has a handler that will take it out, but for a response the
\* browser cancelled (handleBrowserHttp, tearDown).
THEOREM EntryHasHandlerCorrect == SafetySpec => []EntryHasHandler
<1>1. IInv => EntryHasHandler BY DEF IInv
<1> QED BY <1>1, IInvInvariant, PTL

\* The host completes a request at the local service only after the whole body was
\* sent, and with every chunk of it in order (the body pump, onRequestEnd).
THEOREM RequestWholeCorrect == SafetySpec => []RequestWhole
<1>1. IInv => RequestWhole BY DEF IInv
<1> QED BY <1>1, IInvInvariant, PTL

\* Through a tunnel each side receives a prefix of the other side's non-empty messages,
\* whatever sessions break or are replaced (handleBrowserWsTunnel, pumpLocalToWs).
THEOREM MessagesInOrderCorrect == SafetySpec => []MessagesInOrder
<1>1. ASSUME UpInv, DownInv, NEW c \in Wss, local[c] # "refused"
      PROVE  /\ InOrder(delivered[c], (1..downRead[c]) \ Empty)
             /\ InOrder(upGot[c], (1..upSent[c]) \ Empty)
  <2>1. c \in Conns BY DEF Conns
  <2>2. EmptyOf(c) = Empty BY DEF EmptyOf
  <2>3. InOrder(delivered[c], Read(c)) /\ InOrder(upGot[c], Sent(c))
    BY <1>1, <2>1 DEF UpInv, UpPart, DownInv, DownPart
  <2> QED BY <1>1, <2>2, <2>3 DEF Read, Sent
<1>2. IInv => MessagesInOrder BY <1>1 DEF IInv, MessagesInOrder
<1> QED BY <1>2, IInvInvariant, PTL

\* The answer of a host that cannot reach the local service is one chunk, number 0.
LEMMA ErrorText ==
    ASSUME NEW d \in Seq(Nat), InOrder(d, {0})
    PROVE  /\ d = <<0>> \/ \A i \in 1..Len(d) : d[i] = i
           /\ {0} \subseteq Had(d) => d = <<0>>
<1>1. Len(d) \in Nat /\ \A i \in 1..Len(d) : d[i] = 0 BY DEF InOrder
<1>2. Len(d) <= 1
  <2>1. ASSUME Len(d) > 1 PROVE FALSE
    <3>1. 1 \in 1..Len(d) /\ 2 \in 1..Len(d) /\ 1 \in 1..(2 - 1) BY <1>1, <2>1
    <3>2. d[1] < d[2] BY <3>1 DEF InOrder
    <3> QED BY <1>1, <3>1, <3>2
  <2> QED BY <1>1, <2>1
<1>3. CASE Len(d) = 0 BY <1>3 DEF Had
<1>4. CASE Len(d) = 1
  <2>1. d[1] = 0 BY <1>1, <1>4
  <2>2. d = <<0>>
    <3>1. <<0>> \in Seq(Nat) /\ Len(<<0>>) = 1 /\ <<0>>[1] = 0 OBVIOUS
    <3> QED BY <1>4, <2>1, <3>1, SeqEqual
  <2> QED BY <2>2
<1>5. Len(d) = 0 \/ Len(d) = 1 BY <1>1, <1>2
<1> QED BY <1>3, <1>4, <1>5

\* What the browser receives is a prefix of what the local service answered, and a
\* response that ends without an error is all that the host read of it (pull,
\* readResponse, sendResp502).
THEOREM ResponseFaithfulCorrect == SafetySpec => []ResponseFaithful
<1>1. ASSUME IInv, NEW c \in Http
      PROVE  /\ delivered[c] = <<0>> \/ \A i \in 1..Len(delivered[c]) : delivered[c][i] = i
             /\ fetchPc[c] = "complete" =>
                  IF local[c] = "refused" THEN delivered[c] = <<0>>
                  ELSE rdPc[c] = "done" /\ Len(delivered[c]) = downRead[c]
  <2> DEFINE d == delivered[c]
  <2>1. c \in Conns /\ TypeOK /\ DownPart(c) /\ EndedPart(c)
    BY <1>1 DEF IInv, DownInv, EndedInv, Conns
  <2>2. /\ d \in Seq(Nat) /\ downRead[c] \in Nat
        /\ local[c] # "refused" => Read(c) = 1..downRead[c]
    BY <2>1, DownTypes
  <2>3. InOrder(d, Read(c)) BY <2>1 DEF DownPart
  <2>4. fetchPc[c] = "complete" => Over(c) /\ Read(c) \subseteq Had(d) BY <2>1 DEF EndedPart
  <2>5. CASE local[c] = "refused"
    <3>1. Read(c) = {0} BY <2>5 DEF Read
    <3>2. /\ d = <<0>> \/ \A i \in 1..Len(d) : d[i] = i
          /\ {0} \subseteq Had(d) => d = <<0>>
      BY <2>2, <2>3, <3>1, ErrorText
    <3> QED BY <2>4, <2>5, <3>1, <3>2
  <2>6. CASE local[c] # "refused"
    <3>1. \A i \in 1..Len(d) : d[i] = i BY <2>1, <2>6 DEF DownPart
    <3>2. ASSUME fetchPc[c] = "complete" PROVE rdPc[c] = "done" /\ Len(d) = downRead[c]
      <4>1. Had(d) \subseteq 1..downRead[c] BY <2>2, <2>3, <2>6, InOrderHad
      <4>2. 1..downRead[c] \subseteq Had(d) BY <2>2, <2>4, <2>6, <3>2
      <4>3. Len(d) = downRead[c] BY <2>2, <3>1, <4>1, <4>2, CountsAll
      <4>4. rdPc[c] = "done" BY <2>4, <2>6, <3>2 DEF Over
      <4> QED BY <4>3, <4>4
    <3> QED BY <2>6, <3>1, <3>2
  <2> QED BY <2>5, <2>6
<1>2. IInv => ResponseFaithful BY <1>1 DEF ResponseFaithful
<1> QED BY <1>2, IInvInvariant, PTL
=============================================================================
