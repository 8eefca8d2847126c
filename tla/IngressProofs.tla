----------------------------- MODULE IngressProofs -----------------------------
(***************************************************************************)
(* Proofs about the transparent mode for any number of hosts, sessions,    *)
(* browsers and data channels.  The inductive invariant has a part about   *)
(* the registry (RegistryInv), which the ingress steps leave alone, and a  *)
(* part about who may close a browser (OwnershipInv), which relates the    *)
(* three kinds of goroutines.                                              *)
(***************************************************************************)
EXTENDS Ingress, TLAPS

\* An entry of the map is a running session that nobody replaced, and each such
\* session has its entry; a session that has not started was not replaced.
RegistryInv ==
    /\ \A h \in HostIds : hosts[h] # NoSession =>
          hostOf[hosts[h]] = h /\ Live(hosts[h]) /\ ~cancelled[hosts[h]]
    /\ \A s \in Sessions : Live(s) /\ ~cancelled[s] =>
          hostOf[s] \in HostIds /\ hosts[hostOf[s]] = s
    /\ \A s \in Sessions : sessPc[s] = "idle" => ~cancelled[s]

\* The handler owns the browser until a claim; the claiming goroutine owns it
\* from then on, with the exception of a handler that is giving up.
HandlerInv ==
    /\ \A b \in Conns : browser[b] = "absent" <=> inbPc[b] = "idle"
    /\ \A b \in Conns : inbPc[b] = "picked" => browser[b] = "open"
    /\ \A b \in Conns : inbPc[b] = "done" => browser[b] = "closed"

ClaimInv ==
    /\ \A a \in Attachers : attPc[a] = "idle" => attConn[a] = NoConn
    /\ \A a \in Attachers : attPc[a] \in {"claimed", "acked", "splicing"} => attConn[a] \in Conns
    /\ \A a \in Attachers, b \in Conns :
          attConn[a] = b => inbPc[b] \in {"listed", "waiting", "giveup", "handedoff", "done"}
    /\ \A a \in Attachers, b \in Conns :
          attConn[a] = b /\ attPc[a] # "done" /\ inbPc[b] # "done" => browser[b] = "open"
    /\ \A b \in ready : \E a \in Attachers : attConn[a] = b /\ attPc[a] \in {"splicing", "done"}

OwnershipInv ==
    /\ HandlerInv
    /\ ClaimInv
    /\ ListedIsPending
    /\ OneChannelPerBrowser
    /\ \A b \in Conns : inbPc[b] = "handedoff" =>
          \E a \in Attachers : attConn[a] = b /\ attPc[a] \in {"splicing", "done"}
    /\ \A a \in Attachers, b \in Conns :
          attConn[a] = b /\ attPc[a] = "done" => browser[b] = "closed"

IInv == TypeOK /\ RegistryInv /\ OwnershipInv

-----------------------------------------------------------------------------
\* The types hold initially and every step keeps them.
LEMMA TypeInit == IngressInit => TypeOK
<1> SUFFICES ASSUME IngressInit PROVE TypeOK
  OBVIOUS
<1>1. SessionTypeOK
  BY DEF IngressInit, SessionInit, SessionTypeOK, SessionPcs
<1> QED BY <1>1 DEF IngressInit, TypeOK, HandlerPcs, AttacherPcs

\* A step of a control session keeps the types of the registry.
LEMMA SessionTypeStep ==
    ASSUME SessionTypeOK, NEW s \in Sessions, SessionStep(s) \/ TeardownSession(s)
    PROVE  SessionTypeOK'
<1> USE DEF SessionTypeOK, SessionAt, SessionPcs
<1>1. ASSUME NEW h \in HostIds, Register(s, h) PROVE SessionTypeOK'
  BY <1>1 DEF Register, Cancelled, ConnsAfterRegister
<1>2. CASE SendHelloOk(s) BY <1>2 DEF SendHelloOk
<1>3. ASSUME NEW e \in BOOLEAN, ExposePort(s, e) PROVE SessionTypeOK'
  BY <1>3 DEF ExposePort
<1>4. CASE SendPortOk(s) BY <1>4 DEF SendPortOk
<1>5. CASE ReadFails(s) BY <1>5 DEF ReadFails
<1>6. CASE CloseConn(s) BY <1>6 DEF CloseConn
<1>7. CASE TeardownSession(s) BY <1>7 DEF TeardownSession, HostsAfter
<1> QED BY <1>1, <1>2, <1>3, <1>4, <1>5, <1>6, <1>7 DEF SessionStep

\* A step of an ingress handler keeps the types.
LEMMA HandlerTypeStep ==
    ASSUME TypeOK, NEW b \in Conns, HandlerStep(b), UNCHANGED sessionVars
    PROVE  TypeOK'
<1>0. SessionTypeOK'
  BY DEF TypeOK, SessionTypeOK, sessionVars
<1> USE <1>0 DEF TypeOK, HandlerAt, HandlerPcs, AttacherPcs, CloseBrowsers
<1>1. ASSUME NEW s \in Sessions, PickHost(b, s) PROVE TypeOK'
  BY <1>1 DEF PickHost
<1>2. CASE RefuseBrowser(b) BY <1>2 DEF RefuseBrowser
<1>3. CASE ListInbound(b) BY <1>3 DEF ListInbound
<1>4. CASE SendInbound(b) BY <1>4 DEF SendInbound
<1>5. CASE SendInboundFails(b) BY <1>5 DEF SendInboundFails, Discard
<1>6. CASE AttachSeen(b) BY <1>6 DEF AttachSeen
<1>7. CASE TimerFires(b) BY <1>7 DEF TimerFires
<1>8. CASE CtxSeen(b) BY <1>8 DEF CtxSeen
<1>9. CASE GiveUp(b) BY <1>9 DEF GiveUp, Discard
<1> QED BY <1>1, <1>2, <1>3, <1>4, <1>5, <1>6, <1>7, <1>8, <1>9 DEF HandlerStep

\* A step of a data channel keeps the types.  HandOff closes the channel of a
\* connection, because the goroutine that reaches it has claimed one.
LEMMA AttacherTypeStep ==
    ASSUME TypeOK, ClaimInv, NEW a \in Attachers, AttacherStep(a), UNCHANGED sessionVars
    PROVE  TypeOK'
<1>0. SessionTypeOK'
  BY DEF TypeOK, SessionTypeOK, sessionVars
<1> USE <1>0 DEF TypeOK, AttacherAt, HandlerPcs, AttacherPcs, CloseBrowsers
<1>1. ASSUME NEW b \in Conns \cup {NoConn}, NEW t \in BOOLEAN, Claim(a, b, t) PROVE TypeOK'
  BY <1>1 DEF Claim, RawConnsAfterClaim
<1>2. ASSUME NEW b \in Conns \cup {NoConn}, NEW t \in BOOLEAN, DropAttach(a, b, t) PROVE TypeOK'
  BY <1>2 DEF DropAttach
<1>3. CASE SendDataAck(a) BY <1>3 DEF SendDataAck
<1>4. CASE HandOff(a) BY <1>4 DEF HandOff, ClaimInv
<1>5. CASE SpliceEnds(a) BY <1>5 DEF SpliceEnds
<1> QED BY <1>1, <1>2, <1>3, <1>4, <1>5 DEF AttacherStep

LEMMA TypeStep == TypeOK /\ ClaimInv /\ [IngressNext]_vars => TypeOK'
<1> SUFFICES ASSUME TypeOK, ClaimInv, [IngressNext]_vars PROVE TypeOK'
  OBVIOUS
<1>1. ASSUME NEW s \in Sessions, SessionStep(s), UNCHANGED ingressVars PROVE TypeOK'
  <2>1. SessionTypeOK' BY <1>1, SessionTypeStep DEF TypeOK
  <2> QED BY <1>1, <2>1 DEF TypeOK, ingressVars
<1>2. ASSUME NEW s \in Sessions, Teardown(s) PROVE TypeOK'
  <2>1. SessionTypeOK' BY <1>2, SessionTypeStep DEF TypeOK, Teardown
  <2> QED BY <1>2, <2>1 DEF TypeOK, Teardown, DropRawConnsForHost, RawConnsAfterDrop, CloseBrowsers
<1>3. ASSUME NEW b \in Conns, HandlerStep(b), UNCHANGED sessionVars PROVE TypeOK'
  BY <1>3, HandlerTypeStep
<1>4. ASSUME NEW a \in Attachers, AttacherStep(a), UNCHANGED sessionVars PROVE TypeOK'
  BY <1>4, AttacherTypeStep
<1>5. CASE Shutdown /\ UNCHANGED sessionVars
  BY <1>5 DEF TypeOK, SessionTypeOK, sessionVars, Shutdown
<1>6. CASE UNCHANGED vars
  BY <1>6 DEF TypeOK, SessionTypeOK, vars, sessionVars, ingressVars
<1> QED BY <1>1, <1>2, <1>3, <1>4, <1>5, <1>6 DEF IngressNext

-----------------------------------------------------------------------------
\* The registry invariant: only the steps of sessions can disturb it.
LEMMA RegistrySessionStep ==
    ASSUME SessionTypeOK, RegistryInv, NEW s \in Sessions, SessionStep(s) \/ TeardownSession(s)
    PROVE  RegistryInv'
<1> USE SessionAssumption DEF SessionTypeOK, SessionAt, RegistryInv, Live
<1>1. ASSUME NEW h \in HostIds, Register(s, h) PROVE RegistryInv'
  <2> DEFINE old == hosts[h]
  <2>1. old = NoSession \/ (old \in Sessions /\ old # s)
    BY <1>1 DEF Register
  <2>2. /\ hosts' = [hosts EXCEPT ![h] = s]
        /\ hostOf' = [hostOf EXCEPT ![s] = h]
        /\ sessPc' = [sessPc EXCEPT ![s] = "registered"]
        /\ sessPc[s] = "idle"
        /\ cancelled' = [x \in Sessions |-> cancelled[x] \/ x = old]
    BY <1>1 DEF Register, Cancelled
  <2>3. \A x \in Sessions : cancelled'[x] <=> cancelled[x] \/ x = old
    BY <2>2
  <2> HIDE DEF old
  <2>4. ASSUME NEW k \in HostIds, hosts'[k] # NoSession
        PROVE  hostOf'[hosts'[k]] = k /\ Live(hosts[k])' /\ ~cancelled'[hosts'[k]]
    <3>1. CASE k = h BY <3>1, <2>1, <2>2, <2>3
    <3>2. CASE k # h
      <4>1. hosts'[k] = hosts[k] /\ hosts[k] \in Sessions BY <3>2, <2>2, <2>4
      <4>2. hosts[k] # s BY <4>1, <2>2, <2>4
      <4>3. hosts[k] # old BY <3>2, <4>1, <2>4 DEF old
      <4> QED BY <4>1, <4>2, <4>3, <2>2, <2>3, <2>4
    <3> QED BY <3>1, <3>2
  <2>5. ASSUME NEW x \in Sessions, Live(x)', ~cancelled'[x]
        PROVE  hostOf'[x] \in HostIds /\ hosts'[hostOf'[x]] = x
    <3>1. CASE x = s BY <3>1, <2>2
    <3>2. CASE x # s
      <4>1. Live(x) /\ ~cancelled[x] /\ x # old BY <3>2, <2>2, <2>3, <2>5
      <4>2. hostOf[x] # h BY <4>1 DEF old
      <4> QED BY <3>2, <4>1, <4>2, <2>2
    <3> QED BY <3>1, <3>2
  <2>6. ASSUME NEW x \in Sessions, sessPc'[x] = "idle" PROVE ~cancelled'[x]
    <3>1. x # s /\ sessPc[x] = "idle" BY <2>2, <2>6
    <3>2. x # old BY <3>1 DEF old
    <3> QED BY <3>1, <3>2, <2>3
  <2> QED BY <2>4, <2>5, <2>6
<1>2. CASE SendHelloOk(s) BY <1>2 DEF SendHelloOk
<1>3. ASSUME NEW e \in BOOLEAN, ExposePort(s, e) PROVE RegistryInv'
  BY <1>3 DEF ExposePort
<1>4. CASE SendPortOk(s) BY <1>4 DEF SendPortOk
<1>5. CASE ReadFails(s) BY <1>5 DEF ReadFails
<1>6. CASE CloseConn(s) BY <1>6 DEF CloseConn
<1>7. CASE TeardownSession(s) BY <1>7 DEF TeardownSession, HostsAfter
<1> QED BY <1>1, <1>2, <1>3, <1>4, <1>5, <1>6, <1>7 DEF SessionStep

LEMMA RegistryStep == TypeOK /\ RegistryInv /\ [IngressNext]_vars => RegistryInv'
<1> SUFFICES ASSUME TypeOK, RegistryInv, [IngressNext]_vars PROVE RegistryInv'
  OBVIOUS
<1>1. ASSUME NEW s \in Sessions, SessionStep(s) PROVE RegistryInv'
  BY <1>1, RegistrySessionStep DEF TypeOK
<1>2. ASSUME NEW s \in Sessions, Teardown(s) PROVE RegistryInv'
  BY <1>2, RegistrySessionStep DEF TypeOK, Teardown
<1>3. CASE UNCHANGED sessionVars
  BY <1>3 DEF RegistryInv, Live, sessionVars
<1> QED BY <1>1, <1>2, <1>3 DEF IngressNext, vars

-----------------------------------------------------------------------------
\* The ownership invariant reads only the variables of the ingress.
LEMMA OwnershipUnchanged == OwnershipInv /\ UNCHANGED ingressVars => OwnershipInv'
BY DEF OwnershipInv, HandlerInv, ClaimInv, ListedIsPending, OneChannelPerBrowser, ingressVars

\* A step of an ingress handler keeps it: discarding a browser that was claimed
\* meanwhile leaves its handler in "done", outside every promise to the claimer.
LEMMA OwnershipHandlerStep ==
    ASSUME TypeOK, OwnershipInv, NEW b \in Conns, HandlerStep(b)
    PROVE  OwnershipInv'
<1> USE DEF TypeOK, HandlerAt, HandlerPcs, AttacherPcs, CloseBrowsers, OwnershipInv,
            HandlerInv, ClaimInv, ListedIsPending, OneChannelPerBrowser
<1>1. ASSUME NEW s \in Sessions, PickHost(b, s) PROVE OwnershipInv'
  BY <1>1 DEF PickHost
<1>2. CASE RefuseBrowser(b) BY <1>2 DEF RefuseBrowser
<1>3. CASE ListInbound(b) BY <1>3 DEF ListInbound
<1>4. CASE SendInbound(b) BY <1>4 DEF SendInbound
<1>5. CASE SendInboundFails(b) BY <1>5 DEF SendInboundFails, Discard
<1>6. CASE AttachSeen(b) BY <1>6 DEF AttachSeen
<1>7. CASE TimerFires(b) BY <1>7 DEF TimerFires
<1>8. CASE CtxSeen(b) BY <1>8 DEF CtxSeen
<1>9. CASE GiveUp(b) BY <1>9 DEF GiveUp, Discard
<1> QED BY <1>1, <1>2, <1>3, <1>4, <1>5, <1>6, <1>7, <1>8, <1>9 DEF HandlerStep

\* A step of a data channel keeps it.
LEMMA OwnershipAttacherStep ==
    ASSUME TypeOK, OwnershipInv, NEW a \in Attachers, AttacherStep(a)
    PROVE  OwnershipInv'
<1> USE ConnAssumption DEF TypeOK, AttacherAt, HandlerPcs, AttacherPcs, CloseBrowsers, OwnershipInv,
            HandlerInv, ClaimInv, ListedIsPending, OneChannelPerBrowser
<1>1. ASSUME NEW b \in Conns \cup {NoConn}, NEW t \in BOOLEAN, Claim(a, b, t) PROVE OwnershipInv'
  BY <1>1 DEF Claim, Claimable, RawConnsAfterClaim
<1>2. ASSUME NEW b \in Conns \cup {NoConn}, NEW t \in BOOLEAN, DropAttach(a, b, t)
      PROVE OwnershipInv'
  BY <1>2 DEF DropAttach
<1>3. CASE SendDataAck(a) BY <1>3 DEF SendDataAck
<1>4. CASE HandOff(a) BY <1>4 DEF HandOff
<1>5. CASE SpliceEnds(a) BY <1>5 DEF SpliceEnds
<1> QED BY <1>1, <1>2, <1>3, <1>4, <1>5 DEF AttacherStep

\* Dropping the raw connections of a host keeps it: what is dropped is listed,
\* so nobody has claimed it.
LEMMA OwnershipDrop ==
    ASSUME TypeOK, OwnershipInv, NEW h, DropRawConnsForHost(h)
    PROVE  OwnershipInv'
BY DEF TypeOK, OwnershipInv, HandlerInv, ClaimInv, ListedIsPending, OneChannelPerBrowser,
       DropRawConnsForHost, RawConnsAfterDrop, RawConnsOfHost, CloseBrowsers

LEMMA OwnershipStep == TypeOK /\ OwnershipInv /\ [IngressNext]_vars => OwnershipInv'
<1> SUFFICES ASSUME TypeOK, OwnershipInv, [IngressNext]_vars PROVE OwnershipInv'
  OBVIOUS
<1>1. CASE UNCHANGED ingressVars BY <1>1, OwnershipUnchanged
<1>2. ASSUME NEW s \in Sessions, Teardown(s) PROVE OwnershipInv'
  BY <1>2, OwnershipDrop DEF Teardown
<1>3. ASSUME NEW b \in Conns, HandlerStep(b) PROVE OwnershipInv'
  BY <1>3, OwnershipHandlerStep
<1>4. ASSUME NEW a \in Attachers, AttacherStep(a) PROVE OwnershipInv'
  BY <1>4, OwnershipAttacherStep
<1>5. CASE Shutdown
  BY <1>5 DEF Shutdown, OwnershipInv, HandlerInv, ClaimInv, ListedIsPending, OneChannelPerBrowser
<1> QED BY <1>1, <1>2, <1>3, <1>4, <1>5 DEF IngressNext, vars

-----------------------------------------------------------------------------
LEMMA IInvInit == IngressInit => IInv
<1> SUFFICES ASSUME IngressInit PROVE IInv
  OBVIOUS
<1>1. TypeOK BY TypeInit
<1>2. RegistryInv BY SessionAssumption DEF IngressInit, SessionInit, RegistryInv, Live
<1>3. OwnershipInv
  BY ConnAssumption DEF IngressInit, OwnershipInv, HandlerInv, ClaimInv, ListedIsPending, OneChannelPerBrowser
<1> QED BY <1>1, <1>2, <1>3 DEF IInv

\* The inductive invariant holds of every behaviour.
THEOREM IInvInvariant == IngressSafety => []IInv
<1>1. IInv /\ [IngressNext]_vars => IInv'
  BY TypeStep, RegistryStep, OwnershipStep DEF IInv, OwnershipInv
<1> QED BY IInvInit, <1>1, PTL DEF IngressSafety

\* Types: in particular ready only ever holds connections of the relay.
THEOREM TypeCorrect == IngressSafety => []TypeOK
<1>1. IInv => TypeOK BY DEF IInv
<1> QED BY IInvInvariant, <1>1, PTL

\* The map of hosts and the running goroutines agree, for any number of
\* sessions that replace each other (relay.go, serveHost).
THEOREM CurrentSessionCorrect == IngressSafety => []CurrentSession
<1>1. IInv => CurrentSession
  BY SessionAssumption DEF IInv, RegistryInv, CurrentSession, TypeOK, SessionTypeOK
<1> QED BY IInvInvariant, <1>1, PTL

\* A browser is spliced to at most one data channel and rc.ready is closed at
\* most once (data.go, serveData).
THEOREM OneChannelCorrect == IngressSafety => []OneChannelPerBrowser
<1>1. IInv => OneChannelPerBrowser BY DEF IInv, OwnershipInv
<1> QED BY IInvInvariant, <1>1, PTL

\* The handler never leaves an open browser to nobody (ingress.go, serveIngress).
THEOREM NoOrphanCorrect == IngressSafety => []NoOrphanBrowser
<1>1. IInv => NoOrphanBrowser
  BY DEF IInv, OwnershipInv, HandlerInv, NoOrphanBrowser, Owns, TypeOK
<1> QED BY IInvInvariant, <1>1, PTL

\* After the hand-off was seen nothing closes the browser but its splice.
THEOREM HandedOffCorrect == IngressSafety => []HandedOffStaysOpen
<1>1. IInv => HandedOffStaysOpen
  BY DEF IInv, OwnershipInv, ClaimInv, HandedOffStaysOpen
<1> QED BY IInvInvariant, <1>1, PTL

\* The table of raw connections holds only browsers that still wait.
THEOREM ListedIsPendingCorrect == IngressSafety => []ListedIsPending
<1>1. IInv => ListedIsPending BY DEF IInv, OwnershipInv
<1> QED BY IInvInvariant, <1>1, PTL

-----------------------------------------------------------------------------
\* A handler is bound to a session that has registered, and it loses its entry
\* only to a claim or to a teardown under the same host id.
Pending(b) == inbPc[b] \in {"listed", "waiting"}
TornDown(h) == \E s \in Sessions : hostOf[s] = h /\ sessPc[s] \in {"dropped", "closed"}
Claimed(b) == \E a \in Attachers : attConn[a] = b

DropInv ==
    \A b \in Conns :
        /\ inbPc[b] \in {"picked", "listed", "waiting"} =>
              inbHost[b] \in Sessions /\ sessPc[inbHost[b]] # "idle"
        /\ Pending(b) => b \in rawConns \/ Claimed(b) \/ TornDown(hostOf[inbHost[b]])

\* Sessions that registered keep their host id, and torn down ones stay so.
LEMMA SessionHistory ==
    ASSUME SessionTypeOK, NEW s \in Sessions, SessionStep(s) \/ TeardownSession(s)
    PROVE  /\ \A x \in Sessions : sessPc[x] # "idle" =>
                hostOf'[x] = hostOf[x] /\ sessPc'[x] # "idle"
           /\ \A x \in Sessions : sessPc[x] \in {"dropped", "closed"} =>
                sessPc'[x] \in {"dropped", "closed"}
BY DEF SessionTypeOK, SessionStep, SessionAt, Register, SendHelloOk, ExposePort, SendPortOk,
       ReadFails, CloseConn, TeardownSession

LEMMA DropStep == IInv /\ DropInv /\ [IngressNext]_vars => DropInv'
<1> SUFFICES ASSUME IInv, DropInv, [IngressNext]_vars PROVE DropInv'
  OBVIOUS
<1> USE DEF IInv, TypeOK, Pending, TornDown, Claimed
<1>1. ASSUME NEW s \in Sessions, SessionStep(s), UNCHANGED ingressVars PROVE DropInv'
  BY <1>1, SessionHistory DEF DropInv, ingressVars
<1>2. ASSUME NEW s \in Sessions, Teardown(s) PROVE DropInv'
  <2>1. /\ \A x \in Sessions : sessPc[x] # "idle" => hostOf'[x] = hostOf[x] /\ sessPc'[x] # "idle"
        /\ \A x \in Sessions : sessPc[x] \in {"dropped", "closed"} =>
              sessPc'[x] \in {"dropped", "closed"}
        /\ sessPc'[s] = "dropped" /\ sessPc[s] = "closing" /\ hostOf' = hostOf
    BY <1>2, SessionHistory DEF Teardown, TeardownSession, SessionAt, SessionTypeOK
  <2>2. /\ inbPc' = inbPc /\ inbHost' = inbHost /\ attConn' = attConn
        /\ \A b \in rawConns : b \notin rawConns' => hostOf[inbHost[b]] = hostOf[s]
    BY <1>2 DEF Teardown, DropRawConnsForHost, RawConnsAfterDrop, RawConnsOfHost
  <2> QED BY <2>1, <2>2 DEF DropInv
<1>3. ASSUME NEW b \in Conns, HandlerStep(b), UNCHANGED sessionVars PROVE DropInv'
  <2> USE DEF HandlerAt, DropInv, sessionVars, HandlerPcs
  <2>1. ASSUME NEW s \in Sessions, PickHost(b, s) PROVE DropInv'
    <3>1. sessPc[s] # "idle"
      BY <2>1, SessionAssumption DEF PickHost, Candidates, RegistryInv, Live
    <3> QED BY <1>3, <2>1, <3>1 DEF PickHost
  <2>2. CASE RefuseBrowser(b) BY <1>3, <2>2 DEF RefuseBrowser
  <2>3. CASE ListInbound(b) BY <1>3, <2>3 DEF ListInbound
  <2>4. CASE SendInbound(b) BY <1>3, <2>4 DEF SendInbound
  <2>5. CASE SendInboundFails(b) BY <1>3, <2>5 DEF SendInboundFails, Discard
  <2>6. CASE AttachSeen(b) BY <1>3, <2>6 DEF AttachSeen
  <2>7. CASE TimerFires(b) BY <1>3, <2>7 DEF TimerFires
  <2>8. CASE CtxSeen(b) BY <1>3, <2>8 DEF CtxSeen
  <2>9. CASE GiveUp(b) BY <1>3, <2>9 DEF GiveUp, Discard
  <2> QED BY <1>3, <2>1, <2>2, <2>3, <2>4, <2>5, <2>6, <2>7, <2>8, <2>9 DEF HandlerStep
<1>4. ASSUME NEW a \in Attachers, AttacherStep(a), UNCHANGED sessionVars PROVE DropInv'
  <2>1. /\ inbPc' = inbPc /\ inbHost' = inbHost
        /\ \A b \in Conns : Claimed(b) => Claimed(b)'
        /\ \A b \in rawConns : b \notin rawConns' => Claimed(b)'
    BY <1>4, ConnAssumption DEF AttacherStep, AttacherAt, Claim, RawConnsAfterClaim, DropAttach,
          SendDataAck, HandOff, SpliceEnds, OwnershipInv, ClaimInv
  <2> QED BY <1>4, <2>1 DEF DropInv, sessionVars
<1>5. CASE (Shutdown /\ UNCHANGED sessionVars) \/ UNCHANGED vars
  BY <1>5 DEF DropInv, Shutdown, vars, sessionVars, ingressVars
<1> QED BY <1>1, <1>2, <1>3, <1>4, <1>5 DEF IngressNext

\* A waiting browser is lost only to a teardown under its own host id (relay.go,
\* dropRawConnsForHostLocked), for any number of hosts.
THEOREM OnlyOwnHostDropsCorrect == IngressSafety => []OnlyOwnHostDrops
<1>1. IngressInit => DropInv
  BY DEF IngressInit, DropInv, Pending
<1>2. DropInv => OnlyOwnHostDrops
  BY DEF DropInv, OnlyOwnHostDrops, Pending, TornDown, Claimed
<1> QED BY IInvInvariant, <1>1, <1>2, DropStep, PTL DEF IngressSafety

-----------------------------------------------------------------------------
\* The relay keeps the promise of InboundLifecycle: each step is a step of the
\* abstract specification or leaves its variables alone.
Stutter == UNCHANGED Lifecycle!lifecycleVars

LEMMA LifecycleInit == IngressInit => Lifecycle!Init
BY DEF IngressInit, Lifecycle!Init, inboundPhase, PhaseOf

\* The abstract state reads only the browsers and the claims.
LEMMA PhaseUnchanged == browser' = browser /\ attConn' = attConn => Stutter
BY DEF Stutter, Lifecycle!lifecycleVars, inboundPhase, PhaseOf

\* One connection changes its phase and no other does.
LEMMA PhaseMove ==
    ASSUME NEW b \in Conns, NEW to, PhaseOf(b)' = to,
           \A c \in Conns : c # b => PhaseOf(c)' = PhaseOf(c)
    PROVE  inboundPhase' = [inboundPhase EXCEPT ![b] = to]
BY DEF inboundPhase

\* The steps of a handler.
LEMMA LifecycleHandlerStep ==
    ASSUME IInv, NEW b \in Conns, HandlerStep(b)
    PROVE  Lifecycle!Next \/ Stutter
<1> USE DEF IInv, TypeOK, OwnershipInv, HandlerInv, ClaimInv, HandlerAt, CloseBrowsers
<1>1. ASSUME NEW s \in Sessions, PickHost(b, s) PROVE Lifecycle!Arrive(b)
  <2>1. attConn' = attConn /\ \A a \in Attachers : attConn[a] # b
    BY <1>1 DEF PickHost
  <2>2. inboundPhase[b] = "new" BY <1>1 DEF PickHost, inboundPhase, PhaseOf
  <2>3. inboundPhase' = [inboundPhase EXCEPT ![b] = "waiting"]
    BY <1>1, <2>1, PhaseMove DEF PickHost, PhaseOf
  <2> QED BY <2>1, <2>2, <2>3 DEF Lifecycle!Arrive, Lifecycle!Move
<1>2. CASE RefuseBrowser(b)
  <2>1. inboundPhase[b] = "new" BY <1>2 DEF RefuseBrowser, inboundPhase, PhaseOf
  <2>2. inboundPhase' = [inboundPhase EXCEPT ![b] = "closed"]
    BY <1>2, PhaseMove DEF RefuseBrowser, PhaseOf
  <2>3. Lifecycle!Refuse(b)
    BY <1>2, <2>1, <2>2 DEF RefuseBrowser, Lifecycle!Refuse, Lifecycle!Move
  <2> QED BY <2>3 DEF Lifecycle!Next
<1>3. CASE SendInboundFails(b) \/ GiveUp(b)
  <2>0. attConn' = attConn BY <1>3 DEF SendInboundFails, GiveUp
  <2>1. inboundPhase[b] \in {"waiting", "served", "closed"}
    BY <1>3 DEF SendInboundFails, GiveUp, inboundPhase, PhaseOf
  <2>2. inboundPhase' = [inboundPhase EXCEPT ![b] = "closed"]
    BY <1>3, <2>0, PhaseMove DEF SendInboundFails, GiveUp, Discard, PhaseOf
  <2>3. inboundPhase \in [Conns -> {"new", "waiting", "served", "closed"}]
    BY DEF inboundPhase, PhaseOf
  <2>4. Lifecycle!End(b) \/ Stutter
    BY <2>0, <2>1, <2>2, <2>3 DEF Lifecycle!End, Lifecycle!Move, Stutter, Lifecycle!lifecycleVars
  <2> QED BY <2>4 DEF Lifecycle!Next
<1>4. CASE ListInbound(b) \/ SendInbound(b) \/ AttachSeen(b) \/ TimerFires(b) \/ CtxSeen(b)
  <2>1. browser' = browser /\ attConn' = attConn
    BY <1>4 DEF ListInbound, SendInbound, AttachSeen, TimerFires, CtxSeen
  <2> QED BY <2>1, PhaseUnchanged
<1> QED BY <1>1, <1>2, <1>3, <1>4 DEF HandlerStep, Lifecycle!Next

\* The steps of a data channel.
LEMMA LifecycleAttacherStep ==
    ASSUME IInv, NEW a \in Attachers, AttacherStep(a)
    PROVE  Lifecycle!Next \/ Stutter
<1> USE ConnAssumption DEF IInv, TypeOK, OwnershipInv, HandlerInv, ClaimInv, AttacherAt, CloseBrowsers
<1>1. ASSUME NEW b \in Conns \cup {NoConn}, NEW t \in BOOLEAN, Claim(a, b, t)
      PROVE  b \in Conns /\ Lifecycle!Serve(b, a)
  <2>1. b \in rawConns /\ b \in Conns /\ browser[b] = "open" /\ \A x \in Attachers : attConn[x] # b
    BY <1>1 DEF Claim, Claimable, ListedIsPending
  <2>2. attConn[a] = NoConn /\ attConn' = [attConn EXCEPT ![a] = b] /\ browser' = browser
    BY <1>1 DEF Claim
  <2>3. inboundPhase[b] = "waiting" BY <2>1 DEF inboundPhase, PhaseOf
  <2>4. inboundPhase' = [inboundPhase EXCEPT ![b] = "served"]
    BY <2>1, <2>2, PhaseMove DEF PhaseOf
  <2> QED BY <2>1, <2>2, <2>3, <2>4 DEF Lifecycle!Serve, Lifecycle!Move
<1>2. CASE \/ \E b \in Conns \cup {NoConn}, t \in BOOLEAN : DropAttach(a, b, t)
           \/ SendDataAck(a) \/ HandOff(a)
  <2>1. browser' = browser /\ attConn' = attConn
    BY <1>2 DEF DropAttach, SendDataAck, HandOff
  <2> QED BY <2>1, PhaseUnchanged
<1>3. CASE SpliceEnds(a)
  <2> DEFINE b == attConn[a]
  <2>1. b \in Conns /\ attConn' = attConn BY <1>3 DEF SpliceEnds
  <2>2. inboundPhase[b] \in {"served", "closed"} BY <1>3, <2>1 DEF SpliceEnds, inboundPhase, PhaseOf
  <2>3. inboundPhase' = [inboundPhase EXCEPT ![b] = "closed"]
    BY <1>3, <2>1, PhaseMove DEF SpliceEnds, PhaseOf
  <2>4. inboundPhase \in [Conns -> {"new", "waiting", "served", "closed"}]
    BY DEF inboundPhase, PhaseOf
  <2> HIDE DEF b
  <2>5. Lifecycle!End(b) \/ Stutter
    BY <2>1, <2>2, <2>3, <2>4 DEF Lifecycle!End, Lifecycle!Move, Stutter, Lifecycle!lifecycleVars
  <2> QED BY <2>1, <2>5 DEF Lifecycle!Next
<1> QED BY <1>1, <1>2, <1>3 DEF AttacherStep, Lifecycle!Next

\* A teardown ends every browser it drops, each of which waits unclaimed.
LEMMA LifecycleDrop ==
    ASSUME IInv, NEW h, DropRawConnsForHost(h)
    PROVE  Lifecycle!EndAll(RawConnsOfHost(h))
<1> DEFINE B == RawConnsOfHost(h)
<1>1. \A b \in B : /\ b \in Conns /\ browser[b] = "open"
                   /\ \A a \in Attachers : attConn[a] # b
  BY DEF IInv, TypeOK, OwnershipInv, ListedIsPending, RawConnsOfHost
<1>2. browser' = [b \in Conns |-> IF b \in B THEN "closed" ELSE browser[b]] /\ attConn' = attConn
  BY DEF DropRawConnsForHost, CloseBrowsers
<1> HIDE DEF B
<1>3. \A b \in B : inboundPhase[b] = "waiting" BY <1>1 DEF inboundPhase, PhaseOf
<1>4. inboundPhase' = [b \in Conns |-> IF b \in B THEN "closed" ELSE inboundPhase[b]]
  BY <1>2 DEF inboundPhase, PhaseOf
<1>5. Lifecycle!EndAll(B) BY <1>2, <1>3, <1>4 DEF Lifecycle!EndAll
<1> QED BY <1>5 DEF B

\* The transparent mode implements the abstract life of an inbound connection.
THEOREM LifecycleImplemented == IngressSafety => LifecycleSpec
<1>1. IInv /\ [IngressNext]_vars => [Lifecycle!Next]_Lifecycle!lifecycleVars
  <2> SUFFICES ASSUME IInv, [IngressNext]_vars PROVE Lifecycle!Next \/ Stutter
    BY DEF Stutter
  <2>1. CASE UNCHANGED ingressVars
    BY <2>1, PhaseUnchanged DEF ingressVars
  <2>2. ASSUME NEW s \in Sessions, Teardown(s) PROVE Lifecycle!Next
    <3>1. RawConnsOfHost(hostOf[s]) \in SUBSET Conns BY DEF RawConnsOfHost, IInv, TypeOK
    <3>2. Lifecycle!EndAll(RawConnsOfHost(hostOf[s])) BY <2>2, LifecycleDrop DEF Teardown
    <3> QED BY <3>1, <3>2 DEF Lifecycle!Next
  <2>3. ASSUME NEW b \in Conns, HandlerStep(b) PROVE Lifecycle!Next \/ Stutter
    BY <2>3, LifecycleHandlerStep
  <2>4. ASSUME NEW a \in Attachers, AttacherStep(a) PROVE Lifecycle!Next \/ Stutter
    BY <2>4, LifecycleAttacherStep
  <2>5. CASE Shutdown BY <2>5, PhaseUnchanged DEF Shutdown
  <2> QED BY <2>1, <2>2, <2>3, <2>4, <2>5 DEF IngressNext, vars
<1> QED BY IInvInvariant, LifecycleInit, <1>1, PTL DEF IngressSafety, LifecycleSpec, Lifecycle!Spec
=============================================================================
