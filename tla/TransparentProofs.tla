--------------------------- MODULE TransparentProofs ---------------------------
(***************************************************************************)
(* Proofs about the transparent mode with the bridge host at the other     *)
(* end of each control connection.  The inductive invariant of the relay   *)
(* alone (IInv of IngressProofs) carries over, since a step of this module *)
(* is a step of the relay or leaves it alone; to it come a part about the  *)
(* start-up of a host (StartupInv), a part about the session a browser was *)
(* given to (PickedInv) and one about the goroutines of the host           *)
(* (ChannelInv).                                                           *)
(***************************************************************************)
EXTENDS Transparent, IngressProofs, SequenceTheorems

\* How far a host can be given what the relay has done with its session.
StartupInv ==
    \A s \in Sessions :
        /\ hostPc[s] = "off" => sessPc[s] = "idle"
        /\ sessPc[s] \in {"idle", "registered"} =>
              /\ toHost[s] = <<>> /\ ~exposed[s] /\ ~exposeSent[s]
              /\ hostPc[s] \in {"off", "hello", "ended"}
        /\ hostPc[s] \in {"off", "hello"} =>
              /\ ~exposed[s] /\ ~exposeSent[s]
              /\ toHost[s] \in {<<>>, <<HelloOk>>}
        /\ sessPc[s] = "exposing" => exposed[s]

\* A browser is given only to a session that has exposed a port.
PickedInv ==
    \A b \in Conns : inbPc[b] \in {"picked", "listed", "waiting"} =>
        inbHost[b] \in Sessions /\ exposed[inbHost[b]]

\* A goroutine that was not started has no browser.
ChannelInv == \A a \in Attachers : chanPc[a] = "idle" => chanConn[a] = NoConn

FullInv ==
    /\ IInv
    /\ TransparentTypeOK
    /\ StartupInv
    /\ PickedInv
    /\ ChannelInv
    /\ InboundDelivered

-----------------------------------------------------------------------------
\* Every step is a step of the relay alone, or one that the relay does not see.
LEMMA RelayStep == TransparentTypeOK /\ [TransparentNext]_allVars => [IngressNext]_vars
<1> SUFFICES ASSUME TransparentTypeOK, [TransparentNext]_allVars PROVE [IngressNext]_vars
  OBVIOUS
<1>1. ASSUME NEW s \in Sessions,
             RelayRegisters(s) \/ RelayHelloOk(s) \/ RelayReadsExpose(s) \/ RelayPortOk(s)
      PROVE  IngressNext
  BY <1>1 DEF RelayRegisters, RelayHelloOk, RelayReadsExpose, RelayPortOk, SessionStep, IngressNext
<1>2. ASSUME NEW s \in Sessions, RelaySession(s) PROVE IngressNext
  BY <1>2 DEF RelaySession, SessionStep, IngressNext
<1>3. ASSUME NEW b \in Conns, RelayInbound(b) PROVE IngressNext
  BY <1>3 DEF RelayInbound, HandlerStep, IngressNext
<1>4. ASSUME NEW b \in Conns, RelayHandler(b) PROVE IngressNext
  BY <1>4 DEF RelayHandler, HandlerStep, IngressNext
<1>5. ASSUME NEW a \in Attachers, RelayReadsAttach(a) PROVE IngressNext
  <2>1. chanConn[a] \in Conns \cup {NoConn} BY DEF TransparentTypeOK
  <2> QED BY <1>5, <2>1 DEF RelayReadsAttach, AttacherStep, IngressNext
<1>6. ASSUME NEW a \in Attachers, RelayChannel(a) PROVE IngressNext
  BY <1>6 DEF RelayChannel, AttacherStep, IngressNext
<1>7. ASSUME NEW s \in Sessions,
             HostDials(s) \/ HostReadsHelloOk(s) \/ HostReadsPortOk(s) \/ HostEnds(s)
      PROVE  UNCHANGED vars
  BY <1>7 DEF HostDials, HostReadsHelloOk, HostReadsPortOk, HostEnds
<1>8. ASSUME NEW s \in Sessions, NEW a \in Attachers, HostReadsInbound(s, a) PROVE UNCHANGED vars
  BY <1>8 DEF HostReadsInbound
<1>9. ASSUME NEW a \in Attachers,
             ChannelAttaches(a) \/ ChannelReadsAck(a) \/ ChannelRefused(a) \/ ChannelEnds(a)
      PROVE  UNCHANGED vars
  BY <1>9 DEF ChannelAttaches, ChannelReadsAck, ChannelRefused, ChannelEnds
<1>10. CASE UNCHANGED allVars BY <1>10 DEF allVars
<1> QED BY <1>1, <1>2, <1>3, <1>4, <1>5, <1>6, <1>7, <1>8, <1>9, <1>10 DEF TransparentNext

-----------------------------------------------------------------------------
\* Appending a frame to a queue, and reading its head, keep it a queue of frames.
LEMMA SendType ==
    ASSUME TransparentTypeOK, NEW s \in Sessions, NEW f \in Frames, Send(s, f)
    PROVE  toHost' \in [Sessions -> Seq(Frames)]
BY AppendProperties DEF TransparentTypeOK, Send

LEMMA ConsumeType ==
    ASSUME TransparentTypeOK, NEW s \in Sessions, toHost[s] # <<>>, Consume(s)
    PROVE  toHost' \in [Sessions -> Seq(Frames)]
BY HeadTailProperties DEF TransparentTypeOK, Consume

LEMMA TransparentTypeStep ==
    TransparentTypeOK /\ TypeOK' /\ [TransparentNext]_allVars => TransparentTypeOK'
<1> SUFFICES ASSUME TransparentTypeOK, TypeOK', [TransparentNext]_allVars
             PROVE  TransparentTypeOK'
  OBVIOUS
<1> USE DEF HostAt, ChanAt, ChannelsUnchanged, hostVars, Reply
<1>1. ASSUME NEW s \in Sessions, RelayRegisters(s) \/ RelaySession(s)
      PROVE  TransparentTypeOK'
  BY <1>1 DEF RelayRegisters, RelaySession, TransparentTypeOK
<1>2. ASSUME NEW s \in Sessions, RelayHelloOk(s) \/ RelayPortOk(s) PROVE TransparentTypeOK'
  <2>1. toHost' \in [Sessions -> Seq(Frames)]
    BY <1>2, SendType DEF RelayHelloOk, RelayPortOk, Frames, TransparentTypeOK
  <2> QED BY <1>2, <2>1 DEF RelayHelloOk, RelayPortOk, TransparentTypeOK
<1>3. ASSUME NEW s \in Sessions, RelayReadsExpose(s) PROVE TransparentTypeOK'
  BY <1>3 DEF RelayReadsExpose, TransparentTypeOK
<1>4. ASSUME NEW b \in Conns, RelayInbound(b) PROVE TransparentTypeOK'
  <2>1. toHost' \in [Sessions -> Seq(Frames)]
    <3>1. CASE inbHost[b] \in Sessions
      BY <1>4, <3>1, SendType DEF RelayInbound, Frames
    <3>2. CASE inbHost[b] \notin Sessions
      BY <1>4, <3>2 DEF RelayInbound, Send, TransparentTypeOK
    <3> QED BY <3>1, <3>2
  <2> QED BY <1>4, <2>1 DEF RelayInbound, TransparentTypeOK
<1>5. ASSUME NEW b \in Conns, RelayHandler(b) PROVE TransparentTypeOK'
  BY <1>5 DEF RelayHandler, TransparentTypeOK
<1>6. ASSUME NEW a \in Attachers, RelayReadsAttach(a) \/ RelayChannel(a)
      PROVE  TransparentTypeOK'
  BY <1>6 DEF RelayReadsAttach, RelayChannel, TransparentTypeOK
<1>7. ASSUME NEW s \in Sessions, HostDials(s) \/ HostEnds(s) PROVE TransparentTypeOK'
  BY <1>7 DEF HostDials, HostEnds, TransparentTypeOK
<1>8. ASSUME NEW s \in Sessions, HostReadsHelloOk(s) \/ HostReadsPortOk(s)
      PROVE  TransparentTypeOK'
  <2>1. toHost' \in [Sessions -> Seq(Frames)]
    BY <1>8, ConsumeType DEF HostReadsHelloOk, HostReadsPortOk, Receive
  <2> QED BY <1>8, <2>1 DEF HostReadsHelloOk, HostReadsPortOk, TransparentTypeOK
<1>9. ASSUME NEW s \in Sessions, NEW a \in Attachers, HostReadsInbound(s, a)
      PROVE  TransparentTypeOK'
  <2>1. toHost' \in [Sessions -> Seq(Frames)]
    BY <1>9, ConsumeType DEF HostReadsInbound, Receive
  <2>2. PICK b \in Conns : chanConn' = [chanConn EXCEPT ![a] = b]
    BY <1>9 DEF HostReadsInbound, ConnId, Inbound
  <2> QED BY <1>9, <2>1, <2>2 DEF HostReadsInbound, TransparentTypeOK
<1>10. ASSUME NEW a \in Attachers,
              ChannelAttaches(a) \/ ChannelReadsAck(a) \/ ChannelRefused(a) \/ ChannelEnds(a)
       PROVE  TransparentTypeOK'
  BY <1>10 DEF ChannelAttaches, ChannelReadsAck, ChannelRefused, ChannelEnds, TransparentTypeOK
<1>11. CASE UNCHANGED allVars BY <1>11 DEF allVars, TransparentTypeOK
<1> QED BY <1>1, <1>2, <1>3, <1>4, <1>5, <1>6, <1>7, <1>8, <1>9, <1>10, <1>11 DEF TransparentNext

-----------------------------------------------------------------------------
\* What a browser or a data channel does leaves the registry and the hosts alone.
LEMMA StartupUnchanged ==
    StartupInv /\ UNCHANGED <<sessPc, exposed, hostPc, exposeSent, toHost>> => StartupInv'
BY DEF StartupInv

\* The start-up of a host goes step by step with its session in the relay.
LEMMA StartupStep ==
    TransparentTypeOK /\ StartupInv /\ PickedInv /\ [TransparentNext]_allVars => StartupInv'
<1> SUFFICES ASSUME TransparentTypeOK, StartupInv, PickedInv, [TransparentNext]_allVars
             PROVE  StartupInv'
  OBVIOUS
<1> USE DEF HostAt, ChannelsUnchanged, hostVars, SessionAt
<1>0. SessionTypeOK BY DEF TransparentTypeOK, TypeOK
<1>1. ASSUME NEW s \in Sessions, RelayRegisters(s) PROVE StartupInv'
  BY <1>0, <1>1 DEF RelayRegisters, Register, StartupInv, TransparentTypeOK, SessionTypeOK
<1>2. ASSUME NEW s \in Sessions, RelayHelloOk(s) PROVE StartupInv'
  <2>1. toHost[s] = <<>> /\ hostPc[s] \in {"hello", "ended"}
    BY <1>2 DEF RelayHelloOk, SendHelloOk, StartupInv
  <2>2. Append(toHost[s], HelloOk) = <<HelloOk>> BY <2>1
  <2>3. toHost' = toHost \/ toHost' = [toHost EXCEPT ![s] = <<HelloOk>>]
    BY <1>2, <2>2 DEF RelayHelloOk, Reply, Send
  <2> QED
    BY <1>0, <1>2, <2>1, <2>3 DEF RelayHelloOk, SendHelloOk, StartupInv, TransparentTypeOK, SessionTypeOK
<1>3. ASSUME NEW s \in Sessions, RelayReadsExpose(s) PROVE StartupInv'
  BY <1>0, <1>3 DEF RelayReadsExpose, ExposePort, StartupInv, TransparentTypeOK, SessionTypeOK
<1>4. ASSUME NEW s \in Sessions, RelayPortOk(s) PROVE StartupInv'
  BY <1>0, <1>4 DEF RelayPortOk, SendPortOk, Reply, Send, StartupInv, TransparentTypeOK, SessionTypeOK
<1>5. ASSUME NEW s \in Sessions, RelaySession(s) PROVE StartupInv'
  BY <1>0, <1>5 DEF RelaySession, ReadFails, CloseConn, Teardown, TeardownSession, StartupInv,
                    TransparentTypeOK, SessionTypeOK
<1>6. ASSUME NEW b \in Conns, RelayInbound(b) PROVE StartupInv'
  <2>1. inbHost[b] \in Sessions /\ exposed[inbHost[b]]
    BY <1>6 DEF RelayInbound, SendInbound, HandlerAt, PickedInv
  <2> QED
    BY <1>6, <2>1 DEF RelayInbound, Send, sessionVars, StartupInv, TransparentTypeOK
<1>7. ASSUME NEW b \in Conns, RelayHandler(b) PROVE StartupInv'
  BY <1>7, StartupUnchanged DEF RelayHandler, sessionVars
<1>8. ASSUME NEW a \in Attachers, RelayReadsAttach(a) \/ RelayChannel(a) PROVE StartupInv'
  BY <1>8, StartupUnchanged DEF RelayReadsAttach, RelayChannel, sessionVars
<1>9. ASSUME NEW s \in Sessions, HostDials(s) \/ HostEnds(s) PROVE StartupInv'
  BY <1>9 DEF HostDials, HostEnds, vars, sessionVars, StartupInv, TransparentTypeOK
<1>10. ASSUME NEW s \in Sessions, HostReadsHelloOk(s) \/ HostReadsPortOk(s) PROVE StartupInv'
  BY <1>10 DEF HostReadsHelloOk, HostReadsPortOk, Receive, Consume, vars, sessionVars, StartupInv,
               TransparentTypeOK
<1>11. ASSUME NEW s \in Sessions, NEW a \in Attachers, HostReadsInbound(s, a) PROVE StartupInv'
  BY <1>11 DEF HostReadsInbound, Receive, Consume, vars, sessionVars, StartupInv, TransparentTypeOK
<1>12. ASSUME NEW a \in Attachers,
              ChannelAttaches(a) \/ ChannelReadsAck(a) \/ ChannelRefused(a) \/ ChannelEnds(a)
       PROVE  StartupInv'
  BY <1>12, StartupUnchanged
     DEF ChannelAttaches, ChannelReadsAck, ChannelRefused, ChannelEnds, vars, sessionVars
<1>13. CASE UNCHANGED allVars BY <1>13, StartupUnchanged DEF allVars, vars, sessionVars
<1> QED
  BY <1>1, <1>2, <1>3, <1>4, <1>5, <1>6, <1>7, <1>8, <1>9, <1>10, <1>11, <1>12, <1>13
     DEF TransparentNext

-----------------------------------------------------------------------------
\* A session that exposed a port stays exposed, so the choice of a host holds good.
LEMMA ExposedStays ==
    TransparentTypeOK /\ [TransparentNext]_allVars
        => \A s \in Sessions : exposed[s] => exposed'[s]
<1> SUFFICES ASSUME TransparentTypeOK, [TransparentNext]_allVars
             PROVE  \A s \in Sessions : exposed[s] => exposed'[s]
  OBVIOUS
<1>1. exposed' = exposed \/ \E s \in Sessions : exposed' = [exposed EXCEPT ![s] = TRUE]
  BY DEF TransparentNext, allVars, vars, sessionVars,
         RelayRegisters, Register, RelayHelloOk, SendHelloOk, RelayReadsExpose, ExposePort,
         RelayPortOk, SendPortOk, RelaySession, ReadFails, CloseConn, Teardown, TeardownSession,
         RelayInbound, RelayHandler, RelayReadsAttach, RelayChannel, HostDials, HostReadsHelloOk,
         HostReadsPortOk, HostEnds, HostReadsInbound, ChannelAttaches, ChannelReadsAck,
         ChannelRefused, ChannelEnds
<1>2. exposed \in [Sessions -> BOOLEAN] BY DEF TransparentTypeOK, TypeOK, SessionTypeOK
<1> QED BY <1>1, <1>2

LEMMA PickedStep ==
    TransparentTypeOK /\ PickedInv /\ [TransparentNext]_allVars => PickedInv'
<1> SUFFICES ASSUME TransparentTypeOK, PickedInv, [TransparentNext]_allVars PROVE PickedInv'
  OBVIOUS
<1>1. \A s \in Sessions : exposed[s] => exposed'[s] BY ExposedStays
<1>5. /\ inbPc \in [Conns -> HandlerPcs]
      /\ inbHost \in [Conns -> Sessions \cup {NoSession}]
  BY DEF TransparentTypeOK, TypeOK
<1> USE <1>1, <1>5 DEF PickedInv, HandlerAt, HandlerPcs
<1>2. CASE UNCHANGED <<inbPc, inbHost>> BY <1>2
<1>3. ASSUME NEW b \in Conns, RelayInbound(b) PROVE PickedInv'
  BY <1>3 DEF RelayInbound, SendInbound
<1>4. ASSUME NEW b \in Conns, RelayHandler(b) PROVE PickedInv'
  <2>1. ASSUME NEW s \in Sessions, PickHost(b, s) PROVE PickedInv'
    BY <1>4, <2>1 DEF PickHost, Candidates
  <2>2. CASE RefuseBrowser(b) \/ ListInbound(b)
    BY <1>4, <2>2 DEF RefuseBrowser, ListInbound
  <2>3. CASE SendInboundFails(b) \/ AttachSeen(b) \/ TimerFires(b) \/ GiveUp(b)
    BY <1>4, <2>3 DEF SendInboundFails, AttachSeen, TimerFires, GiveUp
  <2> QED BY <1>4, <2>1, <2>2, <2>3 DEF RelayHandler
<1> QED
  BY <1>2, <1>3, <1>4
     DEF TransparentNext, allVars, vars, ingressVars, RelayRegisters, RelayHelloOk, RelayReadsExpose,
         RelayPortOk, RelaySession, Teardown, DropRawConnsForHost, RelayReadsAttach, Claim, DropAttach,
         RelayChannel, SendDataAck, HandOff, SpliceEnds, HostDials, HostReadsHelloOk,
         HostReadsPortOk, HostEnds, HostReadsInbound, ChannelAttaches, ChannelReadsAck,
         ChannelRefused, ChannelEnds
LEMMA ChannelStep ==
    TransparentTypeOK /\ ChannelInv /\ [TransparentNext]_allVars => ChannelInv'
<1> SUFFICES ASSUME TransparentTypeOK, ChannelInv, [TransparentNext]_allVars PROVE ChannelInv'
  OBVIOUS
<1>1. CASE UNCHANGED <<chanPc, chanConn>> BY <1>1 DEF ChannelInv
<1>2. ASSUME NEW s \in Sessions, NEW a \in Attachers, HostReadsInbound(s, a) PROVE ChannelInv'
  BY <1>2 DEF HostReadsInbound, ChannelInv, TransparentTypeOK
<1>3. ASSUME NEW a \in Attachers,
             ChannelAttaches(a) \/ ChannelReadsAck(a) \/ ChannelRefused(a) \/ ChannelEnds(a)
      PROVE  ChannelInv'
  BY <1>3 DEF ChannelAttaches, ChannelReadsAck, ChannelRefused, ChannelEnds, ChanAt, ChannelInv,
              TransparentTypeOK
<1> QED
  BY <1>1, <1>2, <1>3
     DEF TransparentNext, allVars, hostVars, ChannelsUnchanged, RelayRegisters, RelayHelloOk,
         RelayReadsExpose, RelayPortOk, RelaySession, RelayInbound, RelayHandler, RelayReadsAttach,
         RelayChannel, HostDials, HostReadsHelloOk, HostReadsPortOk, HostEnds

-----------------------------------------------------------------------------
\* The parts of InboundDelivered: the announcement of a browser is on its way to a
\* host, or a goroutine of that host works on it.
OnItsWay(b, s) == \E i \in 1..Len(toHost[s]) : toHost[s][i] = Inbound(b)
WorkedOn(b, s) == \E a \in Attachers : chanConn[a] = b /\ chanHost[a] = s

\* A frame stays in the queue when another one is appended behind it.
LEMMA AppendKeeps ==
    ASSUME TransparentTypeOK, NEW s \in Sessions, NEW f \in Frames, Send(s, f),
           NEW b \in Conns, NEW x \in Sessions, OnItsWay(b, x)
    PROVE  OnItsWay(b, x)'
<1>1. CASE x # s BY <1>1 DEF Send, OnItsWay, TransparentTypeOK, Inbound
<1>2. CASE x = s
  <2>1. PICK i \in 1..Len(toHost[s]) : toHost[s][i] = Inbound(b) BY <1>2 DEF OnItsWay
  <2>2. toHost'[s] = Append(toHost[s], f) /\ toHost[s] \in Seq(Frames)
    BY DEF Send, TransparentTypeOK
  <2>3. i \in 1..Len(toHost'[s]) /\ toHost'[s][i] = toHost[s][i]
    BY <2>1, <2>2, AppendProperties
  <2> QED BY <1>2, <2>1, <2>3 DEF OnItsWay, Inbound
<1> QED BY <1>1, <1>2

\* What was appended is on its way.
LEMMA AppendAdds ==
    ASSUME TransparentTypeOK, NEW b \in Conns, NEW s \in Sessions, Send(s, Inbound(b))
    PROVE  OnItsWay(b, s)'
<1>1. toHost'[s] = Append(toHost[s], Inbound(b)) /\ toHost[s] \in Seq(Frames)
  BY DEF Send, TransparentTypeOK
<1>2. Inbound(b) \in Frames BY DEF Frames
<1>3. Len(toHost'[s]) \in 1..Len(toHost'[s]) /\ toHost'[s][Len(toHost'[s])] = Inbound(b)
  BY <1>1, <1>2, AppendProperties, LenProperties
<1> QED BY <1>3 DEF OnItsWay, Inbound

\* Reading the head of the queue moves the others up.
LEMMA ConsumeKeeps ==
    ASSUME TransparentTypeOK, NEW s \in Sessions, NEW f \in Frames, Receive(s, f),
           NEW b \in Conns, Inbound(b) # f, NEW x \in Sessions, OnItsWay(b, x)
    PROVE  OnItsWay(b, x)'
<1>1. CASE x # s BY <1>1 DEF Receive, Consume, OnItsWay, TransparentTypeOK, Inbound
<1>2. CASE x = s
  <2>1. PICK i \in 1..Len(toHost[s]) : toHost[s][i] = Inbound(b) BY <1>2 DEF OnItsWay
  <2>2. /\ toHost[s] \in Seq(Frames) /\ toHost[s] # <<>>
        /\ toHost'[s] = Tail(toHost[s]) /\ Head(toHost[s]) = f
    BY DEF Receive, Consume, TransparentTypeOK
  <2>3. toHost[s][1] = f BY <2>2
  <2>4. i # 1 BY <2>1, <2>3
  <2>5. i - 1 \in 1..Len(toHost'[s]) /\ toHost'[s][i - 1] = toHost[s][i]
    BY <2>1, <2>2, <2>4, HeadTailProperties
  <2> QED BY <1>2, <2>1, <2>5 DEF OnItsWay, Inbound
<1> QED BY <1>1, <1>2
\* A goroutine keeps the browser it was started for.
LEMMA WorkedOnStays ==
    ASSUME TransparentTypeOK, ChannelInv, [TransparentNext]_allVars,
           NEW b \in Conns, NEW x \in Sessions, WorkedOn(b, x)
    PROVE  WorkedOn(b, x)'
<1>1. PICK a \in Attachers : chanConn[a] = b /\ chanHost[a] = x BY DEF WorkedOn
<1>2. chanPc[a] # "idle" BY <1>1, ConnAssumption DEF ChannelInv
<1>3. CASE UNCHANGED <<chanConn, chanHost>> BY <1>1, <1>3 DEF WorkedOn
<1>4. ASSUME NEW s \in Sessions, NEW c \in Attachers, HostReadsInbound(s, c) PROVE WorkedOn(b, x)'
  <2>1. c # a BY <1>2, <1>4 DEF HostReadsInbound
  <2> QED BY <1>1, <1>4, <2>1 DEF HostReadsInbound, TransparentTypeOK, WorkedOn
<1> QED
  BY <1>3, <1>4
     DEF TransparentNext, allVars, hostVars, ChannelsUnchanged, RelayRegisters, RelayHelloOk,
         RelayReadsExpose, RelayPortOk, RelaySession, RelayInbound, RelayHandler, RelayReadsAttach,
         RelayChannel, HostDials, HostReadsHelloOk, HostReadsPortOk, HostEnds, ChannelAttaches,
         ChannelReadsAck, ChannelRefused, ChannelEnds

\* An announcement leaves the queue only for a goroutine.
LEMMA OnItsWayStep ==
    ASSUME TransparentTypeOK, PickedInv, [TransparentNext]_allVars,
           NEW b \in Conns, NEW x \in Sessions, OnItsWay(b, x)
    PROVE  OnItsWay(b, x)' \/ WorkedOn(b, x)'
<1>1. ASSUME UNCHANGED toHost PROVE OnItsWay(b, x)'
  BY <1>1 DEF OnItsWay, Inbound
<1>2. ASSUME NEW s \in Sessions, NEW f \in Frames, Send(s, f) PROVE OnItsWay(b, x)'
  BY <1>2, AppendKeeps
<1>3. ASSUME NEW s \in Sessions, RelayHelloOk(s) \/ RelayPortOk(s) PROVE OnItsWay(b, x)'
  BY <1>1, <1>2, <1>3 DEF RelayHelloOk, RelayPortOk, Reply, Frames
<1>4. ASSUME NEW c \in Conns, RelayInbound(c) PROVE OnItsWay(b, x)'
  <2>1. inbHost[c] \in Sessions BY <1>4 DEF RelayInbound, SendInbound, HandlerAt, PickedInv
  <2> QED BY <1>2, <1>4, <2>1 DEF RelayInbound, Frames
<1>5. ASSUME NEW s \in Sessions, HostReadsHelloOk(s) \/ HostReadsPortOk(s) PROVE OnItsWay(b, x)'
  <2>1. HelloOk # Inbound(b) /\ PortOk # Inbound(b) BY DEF HelloOk, PortOk, Inbound
  <2>2. HelloOk \in Frames /\ PortOk \in Frames BY DEF Frames
  <2> QED BY <1>5, <2>1, <2>2, ConsumeKeeps DEF HostReadsHelloOk, HostReadsPortOk
<1>6. ASSUME NEW s \in Sessions, NEW a \in Attachers, HostReadsInbound(s, a)
      PROVE  OnItsWay(b, x)' \/ WorkedOn(b, x)'
  <2>1. PICK c \in Conns : Receive(s, Inbound(c)) /\ chanConn' = [chanConn EXCEPT ![a] = c]
    BY <1>6 DEF HostReadsInbound, ConnId, Inbound
  <2>2. CASE c = b /\ s = x
    BY <1>6, <2>1, <2>2 DEF HostReadsInbound, WorkedOn, TransparentTypeOK
  <2>3. CASE c = b /\ s # x
    BY <2>1, <2>3 DEF Receive, Consume, OnItsWay, TransparentTypeOK, Inbound
  <2>4. CASE c # b
    <3>1. Inbound(c) # Inbound(b) BY <2>4 DEF Inbound
    <3> QED BY <2>1, <3>1, ConsumeKeeps DEF Frames
  <2> QED BY <2>2, <2>3, <2>4
<1> QED
  BY <1>1, <1>3, <1>4, <1>5, <1>6
     DEF TransparentNext, allVars, hostVars, RelayRegisters, RelayReadsExpose, RelaySession,
         RelayHandler, RelayReadsAttach, RelayChannel, HostDials, HostEnds, ChannelAttaches,
         ChannelReadsAck, ChannelRefused, ChannelEnds

\* A handler comes to wait only by announcing its browser.
LEMMA WaitingStep ==
    ASSUME TransparentTypeOK, PickedInv, [TransparentNext]_allVars,
           NEW b \in Conns, inbPc'[b] = "waiting"
    PROVE  /\ inbHost'[b] = inbHost[b] /\ inbHost[b] \in Sessions
           /\ inbPc[b] = "waiting" \/ OnItsWay(b, inbHost[b])'
<1> USE DEF TransparentTypeOK, TypeOK, HandlerAt
<1>1. CASE UNCHANGED <<inbPc, inbHost>> BY <1>1 DEF PickedInv
<1>2. ASSUME NEW c \in Conns, RelayInbound(c)
      PROVE  /\ inbHost'[b] = inbHost[b] /\ inbHost[b] \in Sessions
             /\ inbPc[b] = "waiting" \/ OnItsWay(b, inbHost[b])'
  <2>1. inbHost' = inbHost /\ inbHost[b] \in Sessions
    BY <1>2 DEF RelayInbound, SendInbound, PickedInv
  <2>2. CASE c # b BY <1>2, <2>1, <2>2 DEF RelayInbound, SendInbound
  <2>3. CASE c = b BY <1>2, <2>1, <2>3, AppendAdds DEF RelayInbound
  <2> QED BY <2>1, <2>2, <2>3
<1>3. ASSUME NEW c \in Conns, RelayHandler(c)
      PROVE  inbHost'[b] = inbHost[b] /\ inbHost[b] \in Sessions /\ inbPc[b] = "waiting"
  BY <1>3 DEF RelayHandler, PickHost, RefuseBrowser, ListInbound, SendInboundFails, AttachSeen,
              TimerFires, GiveUp, PickedInv
<1> QED
  BY <1>1, <1>2, <1>3
     DEF TransparentNext, allVars, vars, ingressVars, RelayRegisters, RelayHelloOk, RelayReadsExpose,
         RelayPortOk, RelaySession, Teardown, DropRawConnsForHost, RelayReadsAttach, Claim, DropAttach,
         RelayChannel, SendDataAck, HandOff, SpliceEnds, HostDials, HostReadsHelloOk,
         HostReadsPortOk, HostEnds, HostReadsInbound, ChannelAttaches, ChannelReadsAck,
         ChannelRefused, ChannelEnds

\* A host that has ended is not started again.
LEMMA EndedStays ==
    ASSUME TransparentTypeOK, [TransparentNext]_allVars, NEW s \in Sessions, hostPc[s] = "ended"
    PROVE  hostPc'[s] = "ended"
BY DEF TransparentTypeOK, HostAt, hostVars, TransparentNext, allVars, RelayRegisters, RelayHelloOk,
       RelayReadsExpose, RelayPortOk, RelaySession, RelayInbound, RelayHandler, RelayReadsAttach,
       RelayChannel, HostDials, HostReadsHelloOk, HostReadsPortOk, HostEnds, HostReadsInbound,
       ChannelAttaches, ChannelReadsAck, ChannelRefused, ChannelEnds

LEMMA DeliveredStep ==
    /\ TransparentTypeOK /\ PickedInv /\ ChannelInv /\ InboundDelivered
    /\ [TransparentNext]_allVars
    => InboundDelivered'
<1> SUFFICES ASSUME TransparentTypeOK, PickedInv, ChannelInv, InboundDelivered,
                    [TransparentNext]_allVars,
                    NEW b \in Conns, inbPc'[b] = "waiting", hostPc'[inbHost'[b]] # "ended"
             PROVE  OnItsWay(b, inbHost[b])' \/ WorkedOn(b, inbHost[b])'
  BY DEF InboundDelivered, OnItsWay, WorkedOn, Inbound
<1>1. inbHost'[b] = inbHost[b] /\ inbHost[b] \in Sessions BY WaitingStep
<1>2. CASE inbPc[b] # "waiting" BY <1>1, <1>2, WaitingStep DEF OnItsWay
<1>3. CASE inbPc[b] = "waiting"
  <2>1. hostPc[inbHost[b]] # "ended" BY <1>1, EndedStays
  <2>2. OnItsWay(b, inbHost[b]) \/ WorkedOn(b, inbHost[b])
    BY <1>3, <2>1 DEF InboundDelivered, OnItsWay, WorkedOn
  <2> QED BY <1>1, <2>2, OnItsWayStep, WorkedOnStays DEF OnItsWay, WorkedOn
<1> QED BY <1>2, <1>3
-----------------------------------------------------------------------------
LEMMA FullInvInit == TransparentInit => FullInv
<1> SUFFICES ASSUME TransparentInit PROVE FullInv
  OBVIOUS
<1>1. IInv BY IInvInit DEF TransparentInit
<1>2. TransparentTypeOK BY <1>1 DEF TransparentInit, TransparentTypeOK, IInv
<1>3. StartupInv BY DEF TransparentInit, IngressInit, SessionInit, StartupInv
<1>4. PickedInv /\ InboundDelivered
  BY DEF TransparentInit, IngressInit, PickedInv, InboundDelivered
<1>5. ChannelInv BY DEF TransparentInit, ChannelInv
<1> QED BY <1>1, <1>2, <1>3, <1>4, <1>5 DEF FullInv

\* The inductive invariant holds of the relay and its hosts together.
THEOREM FullInvInvariant == TransparentSafety => []FullInv
<1>1. FullInv /\ [TransparentNext]_allVars => FullInv'
  <2> SUFFICES ASSUME FullInv, [TransparentNext]_allVars PROVE FullInv'
    OBVIOUS
  <2> USE DEF FullInv
  <2>1. IInv' BY RelayStep, TypeStep, RegistryStep, OwnershipStep DEF IInv, OwnershipInv
  <2>2. TransparentTypeOK' BY <2>1, TransparentTypeStep DEF IInv
  <2> QED BY <2>1, <2>2, StartupStep, PickedStep, ChannelStep, DeliveredStep
<1> QED BY FullInvInit, <1>1, PTL DEF TransparentSafety

\* Types: in particular a goroutine that was started has the browser and the
\* session it was started for.
THEOREM TransparentTypeCorrect == TransparentSafety => []TransparentTypeOK
<1>1. FullInv => TransparentTypeOK BY DEF FullInv
<1> QED BY FullInvInvariant, <1>1, PTL

\* The relay among bridge hosts is the relay of module Ingress, whose attachers and
\* hosts may do anything: whatever holds of that one holds here.
THEOREM RelayImplemented == TransparentSafety => IngressSafety
<1>1. TransparentInit => IngressInit BY DEF TransparentInit
<1>2. FullInv /\ [TransparentNext]_allVars => [IngressNext]_vars BY RelayStep DEF FullInv
<1> QED BY <1>1, <1>2, FullInvInvariant, PTL DEF TransparentSafety, IngressSafety

\* With its hosts the relay keeps the promise of InboundLifecycle for every browser,
\* and its registry, its table of raw connections and the owners of the browsers agree.
THEOREM RelayAmongHosts ==
    TransparentSafety => /\ LifecycleSpec
                         /\ [](CurrentSession /\ OneChannelPerBrowser /\ NoOrphanBrowser)
                         /\ [](HandedOffStaysOpen /\ ListedIsPending /\ OnlyOwnHostDrops)
BY RelayImplemented, LifecycleImplemented, CurrentSessionCorrect, OneChannelCorrect, NoOrphanCorrect,
   HandedOffCorrect, ListedIsPendingCorrect, OnlyOwnHostDropsCorrect, PTL

\* The first frame a bridge host reads is hello.ok, although its session is in the
\* map before that frame is written (relay.go, serveHost).
THEOREM HelloOkFirstCorrect == TransparentSafety => []HelloOkFirst
<1>1. FullInv => HelloOkFirst
  <2> SUFFICES ASSUME FullInv, NEW s \in Sessions, hostPc[s] = "hello", toHost[s] # <<>>
               PROVE  Head(toHost[s]) = HelloOk
    BY DEF HelloOkFirst
  <2>1. toHost[s] = <<HelloOk>> BY DEF FullInv, StartupInv
  <2> QED BY <2>1
<1> QED BY FullInvInvariant, <1>1, PTL

\* A browser that a handler waits on is announced to its host, or a goroutine of that
\* host works on it, for any number of hosts, browsers and goroutines (ingress.go,
\* serveIngress; thost.go, Run).
THEOREM InboundDeliveredCorrect == TransparentSafety => []InboundDelivered
<1>1. FullInv => InboundDelivered BY DEF FullInv
<1> QED BY FullInvInvariant, <1>1, PTL
=============================================================================
