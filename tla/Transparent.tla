------------------------------ MODULE Transparent ------------------------------
(***************************************************************************)
(* Transparent mode end to end: the Go Relay (module Ingress) with the     *)
(* bridge host of internal/bridge/thost.go at the other end of each        *)
(* control connection.  The frames the relay sends to a host travel in     *)
(* order; a host is a start-up sequence that reads one frame at a time,    *)
(* followed by a loop that starts a goroutine per announced browser.  An   *)
(* attacher of Ingress is here the data channel of such a goroutine.       *)
(*                                                                         *)
(* A step of the relay that reads or writes a frame is the step of Ingress *)
(* joined with the effect on the frames.  The hello was authorised (module *)
(* Enrol); a Run that ended is not started again: its successor is         *)
(* another session.  Either side may find the connection broken at any     *)
(* time.                                                                   *)
(***************************************************************************)
EXTENDS Ingress, Integers, Sequences

VARIABLES hostPc,      \* where Host.Run of a session is
          exposeSent,  \* its port.expose frame is on the way
          toHost,      \* the frames on the way to it
          chanPc,      \* where a handleInbound goroutine is
          chanConn,    \* the connId it was started for
          chanHost     \* the session that started it

hostVars == <<hostPc, exposeSent, toHost, chanPc, chanConn, chanHost>>
allVars == <<vars, hostVars>>

HelloOk == [t |-> "hello.ok", conn |-> NoConn]
PortOk == [t |-> "port.ok", conn |-> NoConn]
Inbound(b) == [t |-> "inbound", conn |-> b]
Frames == {HelloOk, PortOk} \cup {Inbound(b) : b \in Conns}

TransparentTypeOK ==
    /\ TypeOK
    /\ hostPc \in [Sessions -> {"off", "hello", "expose", "serving", "ended"}]
    /\ exposeSent \in [Sessions -> BOOLEAN]
    /\ toHost \in [Sessions -> Seq(Frames)]
    /\ chanPc \in [Attachers -> {"idle", "spawned", "failed", "attaching", "splicing", "gone"}]
    /\ chanConn \in [Attachers -> Conns \cup {NoConn}]
    /\ chanHost \in [Attachers -> Sessions \cup {NoSession}]
    /\ \A a \in Attachers : chanPc[a] # "idle" => chanConn[a] \in Conns /\ chanHost[a] \in Sessions

TransparentInit ==
    /\ IngressInit
    /\ hostPc = [s \in Sessions |-> "off"]
    /\ exposeSent = [s \in Sessions |-> FALSE]
    /\ toHost = [s \in Sessions |-> <<>>]
    /\ chanPc = [a \in Attachers |-> "idle"]
    /\ chanConn = [a \in Attachers |-> NoConn]
    /\ chanHost = [a \in Attachers |-> NoSession]

HostAt(s, from, to) == hostPc[s] = from /\ hostPc' = [hostPc EXCEPT ![s] = to]
ChanAt(a, from, to) == chanPc[a] = from /\ chanPc' = [chanPc EXCEPT ![a] = to]
Send(s, frame) == toHost' = [toHost EXCEPT ![s] = Append(@, frame)]

\* Mutant: each read starts with a fresh buffer and loses what was read ahead.
BufferLost(s) == toHost' = [toHost EXCEPT ![s] = <<>>]

Consume(s) == toHost' = [toHost EXCEPT ![s] = Tail(@)]

Receive(s, frame) == /\ toHost[s] # <<>> /\ Head(toHost[s]) = frame /\ Consume(s)
ChannelsUnchanged == UNCHANGED <<chanPc, chanConn, chanHost>>

-----------------------------------------------------------------------------
\* The relay, with the frames it reads and writes.

RelayRegisters(s) ==
    /\ hostPc[s] # "off"
    /\ \E h \in HostIds : Register(s, h)
    /\ UNCHANGED <<ingressVars, hostVars>>

\* A write to a connection the relay has closed is lost.
Reply(s, frame) == IF connOpen[s] THEN Send(s, frame) ELSE UNCHANGED toHost

RelayHelloOk(s) ==
    /\ SendHelloOk(s) /\ Reply(s, HelloOk)
    /\ UNCHANGED <<ingressVars, hostPc, exposeSent>> /\ ChannelsUnchanged

RelayReadsExpose(s) ==
    /\ exposeSent[s] /\ exposeSent' = [exposeSent EXCEPT ![s] = FALSE]
    /\ ExposePort(s, TRUE)
    /\ UNCHANGED <<ingressVars, hostPc, toHost>> /\ ChannelsUnchanged

RelayPortOk(s) ==
    /\ SendPortOk(s) /\ Reply(s, PortOk)
    /\ UNCHANGED <<ingressVars, hostPc, exposeSent>> /\ ChannelsUnchanged

RelayInbound(b) ==
    /\ SendInbound(b) /\ Send(inbHost[b], Inbound(b))
    /\ UNCHANGED <<sessionVars, hostPc, exposeSent>> /\ ChannelsUnchanged

\* What the relay does with the control connection of a host and nothing else.
RelaySession(s) ==
    \/ (ReadFails(s) \/ CloseConn(s)) /\ UNCHANGED <<ingressVars, hostVars>>
    \/ Teardown(s) /\ UNCHANGED hostVars

RelayHandler(b) ==
    /\ \/ \E s \in Sessions : PickHost(b, s)
       \/ RefuseBrowser(b) \/ ListInbound(b) \/ SendInboundFails(b)
       \/ AttachSeen(b) \/ TimerFires(b) \/ GiveUp(b)
    /\ UNCHANGED <<sessionVars, hostVars>>

\* The frame data.attach carries the token of the inbound frame.
RelayReadsAttach(a) ==
    /\ chanPc[a] \in {"attaching", "gone"}
    /\ Claim(a, chanConn[a], TRUE) \/ DropAttach(a, chanConn[a], TRUE)
    /\ UNCHANGED <<sessionVars, hostVars>>

RelayChannel(a) ==
    /\ SendDataAck(a) \/ HandOff(a) \/ SpliceEnds(a)
    /\ UNCHANGED <<sessionVars, hostVars>>

-----------------------------------------------------------------------------
\* The bridge host.

HostDials(s) ==
    /\ HostAt(s, "off", "hello")
    /\ UNCHANGED <<vars, exposeSent, toHost>> /\ ChannelsUnchanged

HostReadsHelloOk(s) ==
    /\ HostAt(s, "hello", "expose")
    /\ Receive(s, HelloOk)
    /\ exposeSent' = [exposeSent EXCEPT ![s] = TRUE]
    /\ UNCHANGED vars /\ ChannelsUnchanged

HostReadsPortOk(s) ==
    /\ HostAt(s, "expose", "serving")
    /\ Receive(s, PortOk)
    /\ UNCHANGED <<vars, exposeSent>> /\ ChannelsUnchanged

\* Any other frame than the one the start-up waits for is fatal, as is a read
\* that fails; a goroutine that was started goes on.
HostEnds(s) ==
    /\ hostPc[s] \in {"hello", "expose", "serving"}
    /\ hostPc' = [hostPc EXCEPT ![s] = "ended"]
    /\ UNCHANGED <<vars, exposeSent, toHost>> /\ ChannelsUnchanged

\* Mutant: the connId of the frame is not decoded.
ConnIdLost(frame) == NoConn

ConnId(frame) == frame.conn

\* The loop starts a goroutine for each inbound frame.
HostReadsInbound(s, a) ==
    /\ hostPc[s] = "serving" /\ chanPc[a] = "idle"
    /\ chanPc' = [chanPc EXCEPT ![a] = "spawned"]
    /\ chanHost' = [chanHost EXCEPT ![a] = s]
    /\ \E b \in Conns :
         /\ Receive(s, Inbound(b))
         /\ chanConn' = [chanConn EXCEPT ![a] = ConnId(Inbound(b))]
    /\ UNCHANGED <<vars, hostPc, exposeSent>>

\* The goroutine dials the relay and sends data.attach, or the dial fails.
ChannelAttaches(a) ==
    /\ ChanAt(a, "spawned", "attaching") \/ ChanAt(a, "spawned", "failed")
    /\ UNCHANGED <<vars, hostPc, exposeSent, toHost, chanConn, chanHost>>

\* data.ack was written once the relay's goroutine is past "claimed"; then the
\* local service is dialled, which may fail.
ChannelReadsAck(a) ==
    /\ attConn[a] # NoConn /\ attPc[a] \in {"acked", "splicing", "done"}
    /\ ChanAt(a, "attaching", "splicing") \/ ChanAt(a, "attaching", "gone")
    /\ UNCHANGED <<vars, hostPc, exposeSent, toHost, chanConn, chanHost>>

\* The relay closed the channel without an answer.
ChannelRefused(a) ==
    /\ attPc[a] = "done" /\ attConn[a] = NoConn
    /\ ChanAt(a, "attaching", "gone")
    /\ UNCHANGED <<vars, hostPc, exposeSent, toHost, chanConn, chanHost>>

\* The data connection breaks, or the splice is over.
ChannelEnds(a) ==
    /\ ChanAt(a, "attaching", "gone") \/ ChanAt(a, "splicing", "gone")
    /\ UNCHANGED <<vars, hostPc, exposeSent, toHost, chanConn, chanHost>>

TransparentNext ==
    \/ \E s \in Sessions : RelayRegisters(s) \/ RelayHelloOk(s) \/ RelayReadsExpose(s) \/ RelayPortOk(s)
    \/ \E s \in Sessions : RelaySession(s)
    \/ \E b \in Conns : RelayInbound(b)
    \/ \E b \in Conns : RelayHandler(b)
    \/ \E a \in Attachers : RelayReadsAttach(a)
    \/ \E a \in Attachers : RelayChannel(a)
    \/ \E s \in Sessions : HostDials(s) \/ HostReadsHelloOk(s) \/ HostReadsPortOk(s) \/ HostEnds(s)
    \/ \E s \in Sessions, a \in Attachers : HostReadsInbound(s, a)
    \/ \E a \in Attachers : ChannelAttaches(a) \/ ChannelReadsAck(a) \/ ChannelRefused(a) \/ ChannelEnds(a)

TransparentSafety == TransparentInit /\ [][TransparentNext]_allVars

\* Goroutines run, frame writes return, the timer of a select fires, and both
\* sides answer what they have read.  Nothing is assumed of browsers or hosts:
\* they may never connect, expose or attach, and a splice may last for ever.
\* Reading on a closed connection is strongly fair: frames that were buffered
\* can be handled first, but they run out.
TransparentFairness ==
    /\ \A s \in Sessions :
         /\ WF_allVars(RelayHelloOk(s)) /\ WF_allVars(RelayPortOk(s))
         /\ SF_allVars(~connOpen[s] /\ ReadFails(s) /\ UNCHANGED <<ingressVars, hostVars>>)
         /\ WF_allVars(sessPc[s] # "serving" /\ RelaySession(s))
    /\ \A b \in Conns : WF_allVars(RelayInbound(b) \/ (inbPc[b] # "idle" /\ RelayHandler(b)))
    /\ \A a \in Attachers :
         /\ WF_allVars(RelayReadsAttach(a))
         /\ WF_allVars((SendDataAck(a) \/ HandOff(a)) /\ UNCHANGED <<sessionVars, hostVars>>)
         /\ WF_allVars(ChannelReadsAck(a) \/ ChannelRefused(a))

TransparentSpec == TransparentSafety /\ TransparentFairness

-----------------------------------------------------------------------------
\* A session is in the map, where handlers can pick it, before hello.ok is
\* written; still the first frame a bridge host reads is hello.ok, since only
\* a session that exposed a port is picked (relay.go, serveHost; thost.go:75).
HelloOkFirst ==
    \A s \in Sessions : hostPc[s] = "hello" /\ toHost[s] # <<>> => Head(toHost[s]) = HelloOk

\* While its host runs, a browser a handler waits on is announced: the frame is on
\* its way or a goroutine of that host works on it.
InboundDelivered ==
    \A b \in Conns :
        inbPc[b] = "waiting" /\ hostPc[inbHost[b]] # "ended" =>
            \/ \E i \in 1..Len(toHost[inbHost[b]]) : toHost[inbHost[b]][i] = Inbound(b)
            \/ \E a \in Attachers : chanConn[a] = b /\ chanHost[a] = inbHost[b]

\* A data channel that asked to attach is answered or closed, also when the
\* browser timed out or was dropped in between (data.go, "drop without
\* acknowledging").
AttachAnswered == \A a \in Attachers : chanPc[a] = "attaching" ~> chanPc[a] # "attaching"

\* What docs/protocol.md:75-78 and thost.go:116-122 say of the start-up: the
\* answer to port.expose comes before the first inbound frame.
PortOkFirst ==
    \A s \in Sessions : hostPc[s] = "expose" /\ toHost[s] # <<>> => Head(toHost[s]) = PortOk

\* What docs/protocol.md:78-80 and :84 say of inbound, data.attach and data.ack: a
\* host that attaches to a browser it was told of is answered data.ack.  This is
\* asked only of a host whose session is the current one of its id, and while the
\* ingress handler "waits for the host to attach" (ingress.go:29-31).
AttachAcked ==
    [][\A a \in Attachers :
          LET b == chanConn[a] IN
          /\ RelayReadsAttach(a) /\ chanPc[a] = "attaching"
          /\ inbPc[b] = "waiting" /\ inbHost[b] = chanHost[a]
          /\ \E h \in HostIds : hosts[h] = chanHost[a]
          => attConn'[a] = b]_allVars
=============================================================================
