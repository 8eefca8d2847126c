--------------------------------- MODULE Ingress ---------------------------------
(***************************************************************************)
(* The transparent mode of the Go Relay: serveIngress (ingress.go) holds a *)
(* browser connection and announces it to a host, serveData (data.go)      *)
(* claims it for the data channel the host opens, and the teardown of a    *)
(* control session (relay.go) drops what waits for that host.  The three   *)
(* run in different goroutines that share Relay.rawConns under one mutex,  *)
(* while the browser socket itself is closed outside any lock.             *)
(*                                                                         *)
(* A step is a mutex section, a frame write, or a channel operation.       *)
(* Bytes are not modelled here.  Connection ids are never reused           *)
(* (newConnID is an atomic counter), so a connection is its id.  A token   *)
(* is abstracted to whether the attaching peer presents the one the relay  *)
(* drew.                                                                   *)
(***************************************************************************)
EXTENDS HostSessions

CONSTANTS Conns,      \* inbound browser connections, one serveIngress goroutine each
          Attachers,  \* connections that send data.attach, one serveData goroutine each
          NoConn

ASSUME ConnAssumption == NoConn \notin Conns

VARIABLES inbPc,     \* where the serveIngress goroutine of a connection is
          inbHost,   \* rawConn.host
          browser,   \* the browser socket as the relay sees it
          rawConns,  \* the keys of Relay.rawConns
          ready,     \* the connections whose rawConn.ready is closed
          attPc,     \* where a serveData goroutine is
          attConn,   \* the connection it claimed
          ctxDone    \* the context of Serve is cancelled

ingressVars == <<inbPc, inbHost, browser, rawConns, ready, attPc, attConn, ctxDone>>
vars == <<sessionVars, ingressVars>>

HandlerPcs == {"idle", "picked", "listed", "waiting", "giveup", "handedoff", "done"}
AttacherPcs == {"idle", "claimed", "acked", "splicing", "done"}

TypeOK ==
    /\ SessionTypeOK
    /\ inbPc \in [Conns -> HandlerPcs]
    /\ inbHost \in [Conns -> Sessions \cup {NoSession}]
    /\ browser \in [Conns -> {"absent", "open", "closed"}]
    /\ rawConns \subseteq Conns
    /\ ready \subseteq Conns
    /\ attPc \in [Attachers -> AttacherPcs]
    /\ attConn \in [Attachers -> Conns \cup {NoConn}]
    /\ ctxDone \in BOOLEAN

IngressInit ==
    /\ SessionInit
    /\ inbPc = [b \in Conns |-> "idle"]
    /\ inbHost = [b \in Conns |-> NoSession]
    /\ browser = [b \in Conns |-> "absent"]
    /\ rawConns = {}
    /\ ready = {}
    /\ attPc = [a \in Attachers |-> "idle"]
    /\ attConn = [a \in Attachers |-> NoConn]
    /\ ctxDone = FALSE

HandlerAt(b, from, to) == inbPc[b] = from /\ inbPc' = [inbPc EXCEPT ![b] = to]
AttacherAt(a, from, to) == attPc[a] = from /\ attPc' = [attPc EXCEPT ![a] = to]
CloseBrowsers(B) == browser' = [b \in Conns |-> IF b \in B THEN "closed" ELSE browser[b]]

-----------------------------------------------------------------------------
\* serveIngress, one action per step.

\* Mutant: any registered session is picked.
AnyRegistered == {s \in Sessions : \E h \in HostIds : hosts[h] = s}

\* The sessions in the map that have exposed a port; the range over the map
\* stops at an arbitrary one.
Candidates == {s \in Sessions : exposed[s] /\ \E h \in HostIds : hosts[h] = s}

\* Accept and the lookup.  Shutdown closes the listener only: a browser accepted
\* before is looked up, and waits, after it as well.
PickHost(b, s) ==
    /\ s \in Candidates
    /\ HandlerAt(b, "idle", "picked")
    /\ inbHost' = [inbHost EXCEPT ![b] = s]
    /\ browser' = [browser EXCEPT ![b] = "open"]
    /\ UNCHANGED <<rawConns, ready, attPc, attConn, ctxDone>>

RefuseBrowser(b) ==
    /\ Candidates = {}
    /\ HandlerAt(b, "idle", "done")
    /\ CloseBrowsers({b})
    /\ UNCHANGED <<inbHost, rawConns, ready, attPc, attConn, ctxDone>>

\* The session picked may have ended meanwhile: nothing re-checks it.
ListInbound(b) ==
    /\ HandlerAt(b, "picked", "listed")
    /\ rawConns' = rawConns \cup {b}
    /\ UNCHANGED <<inbHost, browser, ready, attPc, attConn, ctxDone>>

\* WriteFrame can succeed only while the relay has not closed the connection.
SendInbound(b) ==
    /\ HandlerAt(b, "listed", "waiting")
    /\ connOpen[inbHost[b]]
    /\ UNCHANGED <<inbHost, browser, rawConns, ready, attPc, attConn, ctxDone>>

\* Mutants: the handler forgets to delete its entry, or to close the browser.
DiscardLeavesEntry(b) == rawConns' = rawConns /\ CloseBrowsers({b})
DiscardLeavesBrowser(b) == rawConns' = rawConns \ {b} /\ CloseBrowsers({})

\* The handler deletes its entry, if it is still there, and closes the browser;
\* between the two nobody else can reach the browser through the map.
Discard(b) == rawConns' = rawConns \ {b} /\ CloseBrowsers({b})

SendInboundFails(b) ==
    /\ HandlerAt(b, "listed", "done")
    /\ Discard(b)
    /\ UNCHANGED <<inbHost, ready, attPc, attConn, ctxDone>>

\* The select: case <-rc.ready.
AttachSeen(b) ==
    /\ HandlerAt(b, "waiting", "handedoff")
    /\ b \in ready
    /\ UNCHANGED <<inbHost, browser, rawConns, ready, attPc, attConn, ctxDone>>

\* Mutant: the wait has no deadline and ends only on shutdown.
NoDeadline(b) == HandlerAt(b, "waiting", "giveup") /\ b \notin ready /\ ctxDone
                 /\ UNCHANGED <<inbHost, browser, rawConns, ready, attPc, attConn, ctxDone>>

\* case <-time.After.  The timer is armed on entering the select, and the
\* goroutine is woken by the first channel that becomes ready.
TimerFires(b) ==
    /\ HandlerAt(b, "waiting", "giveup")
    /\ b \notin ready
    /\ UNCHANGED <<inbHost, browser, rawConns, ready, attPc, attConn, ctxDone>>

\* case <-ctx.Done.  Both channels may be ready on entry: the choice is random.
CtxSeen(b) ==
    /\ HandlerAt(b, "waiting", "giveup")
    /\ ctxDone
    /\ UNCHANGED <<inbHost, browser, rawConns, ready, attPc, attConn, ctxDone>>

\* Both branches discard the browser, without looking whether it was claimed.
GiveUp(b) ==
    /\ HandlerAt(b, "giveup", "done")
    /\ Discard(b)
    /\ UNCHANGED <<inbHost, ready, attPc, attConn, ctxDone>>

Shutdown ==
    /\ ~ctxDone
    /\ ctxDone' = TRUE
    /\ UNCHANGED <<inbPc, inbHost, browser, rawConns, ready, attPc, attConn>>

-----------------------------------------------------------------------------
\* serveData, one action per step.

\* Mutant: the result of the lookup is not compared with nil.
UnknownIdClaimable(b, goodToken) == b \in Conns => b \in rawConns

\* The claim is the lookup, the token check and the delete in one mutex section.
Claimable(b, goodToken) == b \in rawConns /\ (inbHost[b] \in TokenSessions => goodToken)

\* Mutant: the claim leaves the entry in the map.
ClaimLeavesEntry(b) == rawConns

RawConnsAfterClaim(b) == rawConns \ {b}

Claim(a, b, goodToken) ==
    /\ AttacherAt(a, "idle", "claimed")
    /\ Claimable(b, goodToken)
    /\ attConn' = [attConn EXCEPT ![a] = b]
    /\ rawConns' = RawConnsAfterClaim(b)
    /\ UNCHANGED <<inbPc, inbHost, browser, ready, ctxDone>>

\* Mutant: the channel is neither answered nor closed.
DropAttachSilent(a, b, goodToken) ==
    /\ attPc[a] = "idle" /\ ~Claimable(b, goodToken)
    /\ UNCHANGED ingressVars

\* An unknown connId (NoConn stands for the ids the relay never drew) or a
\* wrong token: the channel is closed without an answer.
DropAttach(a, b, goodToken) ==
    /\ AttacherAt(a, "idle", "done")
    /\ ~Claimable(b, goodToken)
    /\ UNCHANGED <<inbPc, inbHost, browser, rawConns, ready, attConn, ctxDone>>

\* Write errors are ignored.
SendDataAck(a) ==
    /\ AttacherAt(a, "claimed", "acked")
    /\ UNCHANGED <<inbPc, inbHost, browser, rawConns, ready, attConn, ctxDone>>

HandOff(a) ==
    /\ AttacherAt(a, "acked", "splicing")
    /\ ready' = ready \cup {attConn[a]}
    /\ UNCHANGED <<inbPc, inbHost, browser, rawConns, attConn, ctxDone>>

SpliceEnds(a) ==
    /\ AttacherAt(a, "splicing", "done")
    /\ CloseBrowsers({attConn[a]})
    /\ UNCHANGED <<inbPc, inbHost, rawConns, ready, attConn, ctxDone>>

-----------------------------------------------------------------------------
\* Mutant: the raw connections of every host are dropped.
RawConnsOfAll(h) == rawConns

\* dropRawConnsForHostLocked selects by host id, not by session.
RawConnsOfHost(h) == {b \in rawConns : hostOf[inbHost[b]] = h}

\* Mutant: the browsers are closed and their entries stay.
NoneDropped(h) == rawConns

RawConnsAfterDrop(h) == rawConns \ RawConnsOfHost(h)

DropRawConnsForHost(h) ==
    /\ rawConns' = RawConnsAfterDrop(h)
    /\ CloseBrowsers(RawConnsOfHost(h))
    /\ UNCHANGED <<inbPc, inbHost, ready, attPc, attConn, ctxDone>>

\* One mutex section of the deferred function of serveHost.
Teardown(s) == TeardownSession(s) /\ DropRawConnsForHost(hostOf[s])

HandlerStep(b) ==
    \/ \E s \in Sessions : PickHost(b, s)
    \/ RefuseBrowser(b)
    \/ ListInbound(b)
    \/ SendInbound(b) \/ SendInboundFails(b)
    \/ AttachSeen(b) \/ TimerFires(b) \/ CtxSeen(b)
    \/ GiveUp(b)

AttacherStep(a) ==
    \/ \E b \in Conns \cup {NoConn}, goodToken \in BOOLEAN :
          Claim(a, b, goodToken) \/ DropAttach(a, b, goodToken)
    \/ SendDataAck(a) \/ HandOff(a) \/ SpliceEnds(a)

IngressNext ==
    \/ \E s \in Sessions : SessionStep(s) /\ UNCHANGED ingressVars
    \/ \E s \in Sessions : Teardown(s)
    \/ \E b \in Conns : HandlerStep(b) /\ UNCHANGED sessionVars
    \/ \E a \in Attachers : AttacherStep(a) /\ UNCHANGED sessionVars
    \/ Shutdown /\ UNCHANGED sessionVars

IngressSafety == IngressInit /\ [][IngressNext]_vars

-----------------------------------------------------------------------------
\* A serveData goroutine owns the browser from its claim to the end of the splice.
Owns(a, b) == attConn[a] = b /\ attPc[a] \in {"claimed", "acked", "splicing"}

\* The registry and the goroutines agree: the entry of a host id is the one
\* session of that id that is running and was not replaced, however the
\* registration, the teardown and the closing of old and new sessions of the
\* host interleave (relay.go, serveHost).
CurrentSession ==
    /\ \A s \in Sessions : Live(s) /\ ~cancelled[s] <=> \E h \in HostIds : hosts[h] = s
    /\ \A h \in HostIds : hosts[h] # NoSession => hostOf[hosts[h]] = h

\* Two data channels never splice the same browser, so rc.ready is closed at
\* most once (closing it twice would panic the relay), whatever attachers race
\* with each other, with the timer and with the teardown (data.go, serveData).
OneChannelPerBrowser ==
    \A a1, a2 \in Attachers : attConn[a1] = attConn[a2] /\ attConn[a1] # NoConn => a1 = a2

\* No browser is forgotten open: when its handler is gone without closing it,
\* a data channel has it and will close it (ingress.go, serveIngress).
NoOrphanBrowser ==
    \A b \in Conns : browser[b] = "open" /\ inbPc[b] \in {"handedoff", "done"}
                        => \E a \in Attachers : Owns(a, b)

\* A browser whose handler saw the hand-off is not closed by the relay while its
\* splice runs: neither a timer, nor a shutdown, nor the end of its host's
\* control session reaches it any more (ingress.go, "serveData now owns the
\* browser conn").
HandedOffStaysOpen ==
    \A b \in Conns : inbPc[b] = "handedoff" =>
        \E a \in Attachers : /\ attConn[a] = b
                             /\ attPc[a] \in {"splicing", "done"}
                             /\ attPc[a] = "splicing" => browser[b] = "open"

\* Relay.rawConns does not leak and offers no closed browser: an entry belongs
\* to a handler that still waits, its browser is open, and no data channel has
\* claimed it.
ListedIsPending ==
    \A b \in rawConns : /\ inbPc[b] \in {"listed", "waiting", "giveup"}
                        /\ browser[b] = "open"
                        /\ \A a \in Attachers : attConn[a] # b

\* Every browser accepted for a host is handed to a data channel or closed, though
\* the host may die, be replaced or never answer.
InboundResolved ==
    \A b \in Conns : inbPc[b] = "picked" ~> inbPc[b] \in {"handedoff", "done"}

\* A replaced session ends.  Cancelling its context alone would not end it,
\* since ReadFrame does not look at the context: the closed connection does.
ReplacedSessionEnds == \A s \in Sessions : cancelled[s] ~> sessPc[s] = "closed"

\* A browser that waits on a running, current session is lost to the session only
\* by the teardown of a session of the same host id; hosts do not disturb each
\* other (relay.go, dropRawConnsForHostLocked).
OnlyOwnHostDrops ==
    \A b \in Conns :
        inbPc[b] = "waiting" /\ Live(inbHost[b]) =>
            \/ b \in rawConns
            \/ \E a \in Attachers : attConn[a] = b
            \/ \E s \in Sessions : /\ hostOf[s] = hostOf[inbHost[b]]
                                   /\ sessPc[s] \in {"dropped", "closed"}

\* What data.go:27 says of the claim: the timeout path of the ingress handler
\* does not close a browser that a data channel has claimed.
TimeoutSparesClaimed ==
    [][\A b \in Conns : inbPc[b] = "giveup" /\ inbPc'[b] = "done"
                            => ~ \E a \in Attachers : Owns(a, b)]_vars

\* The abstract phase of an inbound connection.
PhaseOf(b) == IF browser[b] = "absent" THEN "new"
              ELSE IF browser[b] = "closed" THEN "closed"
              ELSE IF \E a \in Attachers : attConn[a] = b THEN "served" ELSE "waiting"

inboundPhase == [b \in Conns |-> PhaseOf(b)]

Lifecycle == INSTANCE InboundLifecycle WITH serving <- attConn, phase <- inboundPhase

\* The relay implements the promise of module InboundLifecycle.
LifecycleSpec == Lifecycle!Spec
=============================================================================
