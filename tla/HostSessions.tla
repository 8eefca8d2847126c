------------------------------ MODULE HostSessions ------------------------------
(***************************************************************************)
(* The registry of host control sessions of the Go Relay                   *)
(* (internal/relay/relay.go, serveWire and serveHost).  Every accepted     *)
(* control connection runs serveHost in a goroutine of its own; a session  *)
(* is one such goroutine together with its hostSession record.             *)
(*                                                                         *)
(* The goroutine is split where another goroutine can be scheduled between *)
(* two effects: each mutex section is one step and each frame written on   *)
(* the control connection is one step.  The teardown of a session is       *)
(* completed by the module that composes this one, because the same mutex  *)
(* section also drops the tunnels and raw connections of the host.         *)
(***************************************************************************)
EXTENDS FiniteSets

CONSTANTS Sessions,       \* control connections, one serveHost goroutine each
          HostIds,        \* the keys of Relay.hosts
          TokenSessions,  \* the sessions whose hello lists the data-token feature
          NoSession, NoHost

ASSUME SessionAssumption == /\ TokenSessions \subseteq Sessions
                            /\ NoSession \notin Sessions
                            /\ NoHost \notin HostIds

VARIABLES hosts,      \* Relay.hosts, NoSession where the map has no entry
          sessPc,     \* where the goroutine of a session is
          hostOf,     \* hostSession.id
          exposed,    \* hostSession.local # ""
          cancelled,  \* the context of the session was cancelled by a successor
          connOpen    \* the relay's side of the control connection is not closed

sessionVars == <<hosts, sessPc, hostOf, exposed, cancelled, connOpen>>

SessionPcs == {"idle", "registered", "serving", "exposing", "closing",
               "dropped", "closed"}

SessionTypeOK ==
    /\ hosts \in [HostIds -> Sessions \cup {NoSession}]
    /\ sessPc \in [Sessions -> SessionPcs]
    /\ hostOf \in [Sessions -> HostIds \cup {NoHost}]
    /\ exposed \in [Sessions -> BOOLEAN]
    /\ cancelled \in [Sessions -> BOOLEAN]
    /\ connOpen \in [Sessions -> BOOLEAN]

SessionInit ==
    /\ hosts = [h \in HostIds |-> NoSession]
    /\ sessPc = [s \in Sessions |-> "idle"]
    /\ hostOf = [s \in Sessions |-> NoHost]
    /\ exposed = [s \in Sessions |-> FALSE]
    /\ cancelled = [s \in Sessions |-> FALSE]
    /\ connOpen = [s \in Sessions |-> FALSE]

SessionAt(s, from, to) == sessPc[s] = from /\ sessPc' = [sessPc EXCEPT ![s] = to]

\* serveHost was entered and its deferred section has not run yet.
Live(s) == sessPc[s] \in {"registered", "serving", "exposing", "closing"}

-----------------------------------------------------------------------------
\* Replacing a session cancels its context and closes its connection.
Cancelled(old) == [x \in Sessions |-> cancelled[x] \/ x = old]
\* Mutant: only the context of the replaced session is cancelled.
OldConnLeftOpen(s, old) == [connOpen EXCEPT ![s] = TRUE]

ConnsAfterRegister(s, old) == [x \in Sessions |-> x = s \/ (connOpen[x] /\ x # old)]

\* The hello of session s was authorised for host id h.
Register(s, h) ==
    /\ SessionAt(s, "idle", "registered")
    /\ hostOf' = [hostOf EXCEPT ![s] = h]
    /\ cancelled' = Cancelled(hosts[h])
    /\ connOpen' = ConnsAfterRegister(s, hosts[h])
    /\ hosts' = [hosts EXCEPT ![h] = s]
    /\ UNCHANGED exposed

\* A write error is ignored: the goroutine goes on to its read loop.
SendHelloOk(s) ==
    /\ SessionAt(s, "registered", "serving")
    /\ UNCHANGED <<hosts, hostOf, exposed, cancelled, connOpen>>

\* port.expose was read.  A frame that was already buffered is still read
\* after the connection is closed, so connOpen is no guard.
ExposePort(s, nonEmpty) ==
    /\ SessionAt(s, "serving", "exposing")
    /\ exposed' = [exposed EXCEPT ![s] = nonEmpty]
    /\ UNCHANGED <<hosts, hostOf, cancelled, connOpen>>

SendPortOk(s) ==
    /\ SessionAt(s, "exposing", "serving")
    /\ UNCHANGED <<hosts, hostOf, exposed, cancelled, connOpen>>

\* ReadFrame fails: the peer is gone, the frame is malformed, or the relay has
\* closed the connection.  ReadFrame does not look at its context.
ReadFails(s) ==
    /\ SessionAt(s, "serving", "closing")
    /\ UNCHANGED <<hosts, hostOf, exposed, cancelled, connOpen>>

\* Mutant: the entry is deleted whoever it belongs to.
EntryAlwaysDeleted(s) == [hosts EXCEPT ![hostOf[s]] = NoSession]

\* The deferred section removes the map entry only when it is still its own.
HostsAfter(s) ==
    [h \in HostIds |-> IF h = hostOf[s] /\ hosts[h] = s THEN NoSession ELSE hosts[h]]

TeardownSession(s) ==
    /\ SessionAt(s, "closing", "dropped")
    /\ hosts' = HostsAfter(s)
    /\ UNCHANGED <<hostOf, exposed, cancelled, connOpen>>

\* The deferred Close of serveWire runs after serveHost has returned.
CloseConn(s) ==
    /\ SessionAt(s, "dropped", "closed")
    /\ connOpen' = [connOpen EXCEPT ![s] = FALSE]
    /\ UNCHANGED <<hosts, hostOf, exposed, cancelled>>

\* Every step of a session but its teardown.
SessionStep(s) ==
    \/ \E h \in HostIds : Register(s, h)
    \/ SendHelloOk(s)
    \/ \E nonEmpty \in BOOLEAN : ExposePort(s, nonEmpty)
    \/ SendPortOk(s)
    \/ ReadFails(s)
    \/ CloseConn(s)
=============================================================================
