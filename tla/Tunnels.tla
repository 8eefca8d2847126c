--------------------------------- MODULE Tunnels ---------------------------------
(***************************************************************************)
(* The native mode of the Go Relay (internal/relay/relay.go, serveClient   *)
(* and the routing helpers): clients open tunnels to a host session, and   *)
(* frames are forwarded by tunnel id.  The sessions are those of           *)
(* HostSessions; a client is one serveClient goroutine.                    *)
(*                                                                         *)
(* A goroutine looks a tunnel up under the mutex and writes after the      *)
(* unlock, so each handler leaves the writes it has still to do in out,    *)
(* and the map can change before they are done.  Hosts and clients are     *)
(* honest: they name tunnels they were told of, but they may do so long    *)
(* after the tunnel ended.                                                 *)
(***************************************************************************)
EXTENDS HostSessions, Integers, Sequences

CONSTANTS Clients, NoClient,
          Tuns,       \* tunnel ids; newTunnelID never draws one twice
          MaxFrames   \* bound: frames delivered to one end

ASSUME TunnelAssumption == /\ Clients \cap Sessions = {}
                           /\ NoClient \notin Clients
                           /\ MaxFrames \in Nat

VARIABLES clientPc,   \* where the serveClient goroutine of a client is
          clientHost, \* the session it looked up when it connected
          tunState,   \* "open" when Relay.tunnels has the id
          tunHost, tunClient,
          out,        \* the writes a goroutine has still to do
          got         \* the frames delivered to each host and client

tunnelVars == <<clientPc, clientHost, tunState, tunHost, tunClient, out, got>>
vars == <<sessionVars, tunnelVars>>

Ends == Sessions \cup Clients
Frames == [kind : {"tun.open", "tun.ok", "data", "tun.close"}, tun : Tuns, from : Ends]
Writes == [to : Ends, frame : Frames]

TypeOK ==
    /\ SessionTypeOK
    /\ clientPc \in [Clients -> {"idle", "serving", "left"}]
    /\ clientHost \in [Clients -> Sessions \cup {NoSession}]
    /\ tunState \in [Tuns -> {"unused", "open", "closed", "dropped"}]
    /\ tunHost \in [Tuns -> Sessions \cup {NoSession}]
    /\ tunClient \in [Tuns -> Clients \cup {NoClient}]
    /\ out \in [Ends -> Seq(Writes)]
    /\ got \in [Ends -> Seq(Frames)]

TunnelsInit ==
    /\ SessionInit
    /\ clientPc = [c \in Clients |-> "idle"]
    /\ clientHost = [c \in Clients |-> NoSession]
    /\ tunState = [t \in Tuns |-> "unused"]
    /\ tunHost = [t \in Tuns |-> NoSession]
    /\ tunClient = [t \in Tuns |-> NoClient]
    /\ out = [e \in Ends |-> <<>>]
    /\ got = [e \in Ends |-> <<>>]

Has(e, kind, t) == \E i \in 1..Len(got[e]) : got[e][i].kind = kind /\ got[e][i].tun = t
Frame(kind, t, from) == [kind |-> kind, tun |-> t, from |-> from]
Write(to, frame) == [to |-> to, frame |-> frame]

\* The goroutine of an end is in its read loop.
HostReads(s) == sessPc[s] = "serving" /\ out[s] = <<>>
ClientReads(c) == clientPc[c] = "serving" /\ out[c] = <<>>

-----------------------------------------------------------------------------
\* serveClient.

\* Mutant: the result of the lookup is not checked.
LookupUnchecked(h) == TRUE

HostFound(h) == hosts[h] # NoSession

\* The session is looked up once; HOST_NOT_FOUND ends the connection.
ClientHello(c) ==
    /\ clientPc[c] = "idle"
    /\ \E h \in HostIds :
         IF HostFound(h)
         THEN /\ clientPc' = [clientPc EXCEPT ![c] = "serving"]
              /\ clientHost' = [clientHost EXCEPT ![c] = hosts[h]]
         ELSE clientPc' = [clientPc EXCEPT ![c] = "left"] /\ UNCHANGED clientHost
    /\ UNCHANGED <<tunState, tunHost, tunClient, out, got>>

\* Mutant: the id of a tunnel that ended is drawn again.
Recycled(t) == tunState[t] # "open"

Fresh(t) == tunState[t] = "unused"

\* The tunnel is in the map before the host hears of it.
TunOpen(c, t) ==
    /\ ClientReads(c)
    /\ Fresh(t)
    /\ tunState' = [tunState EXCEPT ![t] = "open"]
    /\ tunHost' = [tunHost EXCEPT ![t] = clientHost[c]]
    /\ tunClient' = [tunClient EXCEPT ![t] = c]
    /\ out' = [out EXCEPT ![c] = <<Write(clientHost[c], Frame("tun.open", t, c))>>]
    /\ UNCHANGED <<clientPc, clientHost, got>>

\* A frame of a tunnel that is not in the map is dropped.
Forward(e, t, to, kind) ==
    /\ out' = [out EXCEPT ![e] = IF tunState[t] = "open"
                                 THEN <<Write(to, Frame(kind, t, e))>> ELSE <<>>]
    /\ UNCHANGED <<clientPc, clientHost, tunState, tunHost, tunClient, got>>

\* A client learns the id of its tunnel from tun.ok.
ClientData(c, t) ==
    /\ ClientReads(c) /\ Has(c, "tun.ok", t)
    /\ Forward(c, t, tunHost[t], "data")

\* Mutant: the tunnel stays in the map.
LeaveOpen(t) == UNCHANGED tunState

Unlist(t) == tunState' = [tunState EXCEPT ![t] = "closed"]

\* closeTunnelLocked: both ends are told, the one that closes included.
CloseTunnel(e, t) ==
    /\ IF tunState[t] = "open"
       THEN /\ Unlist(t)
            /\ out' = [out EXCEPT ![e] = <<Write(tunHost[t], Frame("tun.close", t, e)),
                                           Write(tunClient[t], Frame("tun.close", t, e))>>]
       ELSE UNCHANGED <<tunState, out>>
    /\ UNCHANGED <<clientPc, clientHost, tunHost, tunClient, got>>

ClientCloses(c, t) == ClientReads(c) /\ Has(c, "tun.ok", t) /\ CloseTunnel(c, t)

\* Mutant: the tunnels of a client that left stay in the map.
NoneOfClient(c) == {}

TunnelsOfClient(c) == {t \in Tuns : tunState[t] = "open" /\ tunClient[t] = c}

Drop(T) == tunState' = [t \in Tuns |-> IF t \in T THEN "dropped" ELSE tunState[t]]

\* The read of a client fails; its tunnels are dropped and nobody is told.
ClientLeaves(c) ==
    /\ ClientReads(c)
    /\ clientPc' = [clientPc EXCEPT ![c] = "left"]
    /\ Drop(TunnelsOfClient(c))
    /\ UNCHANGED <<clientHost, tunHost, tunClient, out, got>>

-----------------------------------------------------------------------------
\* The frames of a host.  The host of internal/host puts on a frame the tunnel of
\* the frame it answers (host.go:74-113), so it names tunnels it was asked to
\* open.  The relay checks nothing: the frames of a host that named another's
\* tunnel would be routed as well.
HostForwards(s, t, kind) ==
    /\ HostReads(s) /\ Has(s, "tun.open", t)
    /\ Forward(s, t, tunClient[t], kind)

HostCloses(s, t) == HostReads(s) /\ Has(s, "tun.open", t) /\ CloseTunnel(s, t)

\* Selected by host id: the tunnels of a successor session are dropped as well.
TunnelsOfHost(h) == {t \in Tuns : tunState[t] = "open" /\ hostOf[tunHost[t]] = h}

TunnelsTeardown(s) ==
    /\ TeardownSession(s)
    /\ Drop(TunnelsOfHost(hostOf[s]))
    /\ UNCHANGED <<clientPc, clientHost, tunHost, tunClient, out, got>>

\* A write to a closed connection fails, and the failure is ignored.
Receives(e) == IF e \in Sessions THEN connOpen[e] ELSE clientPc[e] = "serving"

Deliver(e) ==
    /\ out[e] # <<>>
    /\ LET w == Head(out[e]) IN
         IF Receives(w.to)
         THEN /\ Len(got[w.to]) < MaxFrames
              /\ got' = [got EXCEPT ![w.to] = Append(@, w.frame)]
         ELSE UNCHANGED got
    /\ out' = [out EXCEPT ![e] = Tail(@)]
    /\ UNCHANGED <<clientPc, clientHost, tunState, tunHost, tunClient>>

\* port.expose does not concern tunnels and is left to module Ingress.
TunnelsNext ==
    \/ \E s \in Sessions : /\ \/ \E h \in HostIds : Register(s, h)
                              \/ SendHelloOk(s)
                              \/ out[s] = <<>> /\ ReadFails(s)
                              \/ CloseConn(s)
                           /\ UNCHANGED tunnelVars
    \/ \E s \in Sessions : TunnelsTeardown(s)
    \/ \E c \in Clients : ClientHello(c) /\ UNCHANGED sessionVars
    \/ \E c \in Clients, t \in Tuns : TunOpen(c, t) /\ UNCHANGED sessionVars
    \/ \E c \in Clients, t \in Tuns : (ClientData(c, t) \/ ClientCloses(c, t)) /\ UNCHANGED sessionVars
    \/ \E c \in Clients : ClientLeaves(c) /\ UNCHANGED sessionVars
    \/ \E s \in Sessions, t \in Tuns :
         /\ HostForwards(s, t, "tun.ok") \/ HostForwards(s, t, "data")
         /\ UNCHANGED sessionVars
    \/ \E s \in Sessions, t \in Tuns : HostCloses(s, t) /\ UNCHANGED sessionVars
    \/ \E e \in Ends : Deliver(e) /\ UNCHANGED sessionVars

TunnelsSpec == TunnelsInit /\ [][TunnelsNext]_vars

-----------------------------------------------------------------------------
\* Among such hosts, what a client receives on a tunnel comes from the session the
\* tunnel was opened to, or is the echo of its own tun.close, although hosts go on
\* answering on tunnels that ended (newTunnelID, routeToClient).  That holds by
\* ids that are never reused and lookups that use the entry as it is, not by a
\* check of who owns the tunnel: serveHost makes none (relay.go:231-238).
FramesFromOwnHost ==
    \A c \in Clients : \A i \in 1..Len(got[c]) :
        LET f == got[c][i] IN tunClient[f.tun] = c /\ f.from \in {tunHost[f.tun], c}

Closes(e, t) == Cardinality({i \in 1..Len(got[e]) : got[e][i] = Frame("tun.close", t, got[e][i].from)})
ClosePending(to, t) ==
    \E e \in Ends : \E i \in 1..Len(out[e]) :
        out[e][i].to = to /\ out[e][i].frame.kind = "tun.close" /\ out[e][i].frame.tun = t

\* A tunnel that was closed by a frame is closed once for each end that is still
\* connected, also when both ends close it at the same time (closeTunnelLocked).
CloseToldOnce ==
    \A t \in Tuns : tunState[t] # "unused" => \A e \in {tunHost[t], tunClient[t]} :
        /\ Closes(e, t) <= 1
        /\ tunState[t] = "closed" /\ Receives(e) /\ ~ClosePending(e, t) => Closes(e, t) = 1
        /\ tunState[t] = "open" => Closes(e, t) = 0

\* The map does not leak: a tunnel in it has a client that is connected, whatever
\* became of its host (dropTunnelsForClientLocked).
TunnelHasClient == \A t \in Tuns : tunState[t] = "open" => clientPc[tunClient[t]] = "serving"
=============================================================================
