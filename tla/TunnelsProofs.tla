----------------------------- MODULE TunnelsProofs -----------------------------
(***************************************************************************)
(* Proofs about the native mode for any number of hosts, clients, tunnels  *)
(* and frames.  As far as the frames go a step does one of four things:    *)
(* nothing, leave one write to do, leave the two writes that close a       *)
(* tunnel, or deliver a write.  That is shown once (StepKinds); the parts  *)
(* of the inductive invariant about frames follow kind by kind.            *)
(***************************************************************************)
EXTENDS Tunnels, TLAPS, SequenceTheorems, FiniteSetTheorems

Used(t) == tunState[t] # "unused"
EndsOf(t) == {tunHost[t], tunClient[t]}

\* Whom the goroutines name has been there: a session in the map, the session of a
\* client and the ends of a tunnel are not idle.
ParticipantsInv ==
    /\ \A h \in HostIds : hosts[h] # NoSession => sessPc[hosts[h]] # "idle"
    /\ \A c \in Clients : clientPc[c] = "serving" =>
          clientHost[c] \in Sessions /\ sessPc[clientHost[c]] # "idle"
    /\ \A t \in Tuns : Used(t) =>
          /\ tunHost[t] \in Sessions /\ sessPc[tunHost[t]] # "idle"
          /\ tunClient[t] \in Clients /\ clientPc[tunClient[t]] # "idle"

\* A frame names a tunnel that was opened and goes from one of its ends to one.
Addressed(f, e) == Used(f.tun) /\ e \in EndsOf(f.tun) /\ f.from \in EndsOf(f.tun)

TrafficInv ==
    /\ \A e \in Ends : \A i \in 1..Len(got[e]) : Addressed(got[e][i], e)
    /\ \A e \in Ends : \A i \in 1..Len(out[e]) : Addressed(out[e][i].frame, out[e][i].to)

\* Places of a close of a tunnel: among the frames an end has received, and among
\* the writes to it that are still to be done.
ClosedAt(to, t, i) ==
    i \in 1..Len(got[to]) /\ got[to][i].kind = "tun.close" /\ got[to][i].tun = t
PendingAt(to, t, e, i) ==
    /\ i \in 1..Len(out[e]) /\ out[e][i].to = to
    /\ out[e][i].frame.kind = "tun.close" /\ out[e][i].frame.tun = t

\* A tunnel is closed to an end at most once, received or pending; an end that can
\* still receive has the close of a closed tunnel in one of the two places.
CloseInv ==
    \A to \in Ends, t \in Tuns :
        /\ \A i, j \in Nat : ClosedAt(to, t, i) /\ ClosedAt(to, t, j) => i = j
        /\ \A e, f \in Ends, i, j \in Nat :
              PendingAt(to, t, e, i) /\ PendingAt(to, t, f, j) => e = f /\ i = j
        /\ \A e \in Ends, i, j \in Nat : ~(PendingAt(to, t, e, i) /\ ClosedAt(to, t, j))
        /\ \A e \in Ends, i \in Nat :
              PendingAt(to, t, e, i) \/ ClosedAt(to, t, i) => tunState[t] = "closed"
        /\ tunState[t] = "closed" /\ to \in EndsOf(t) /\ Receives(to) =>
              \E i \in Nat : ClosedAt(to, t, i) \/ \E e \in Ends : PendingAt(to, t, e, i)

IInv == TypeOK /\ ParticipantsInv /\ TrafficInv /\ TunnelHasClient /\ CloseInv

-----------------------------------------------------------------------------
\* The kinds of steps, as far as the frames go.
NoneClosed == \A t \in Tuns : tunState'[t] = "closed" => tunState[t] = "closed"

Quiet == UNCHANGED <<out, got>> /\ NoneClosed

SendsOne(e, t) ==
    /\ out[e] = <<>> /\ got' = got /\ NoneClosed
    /\ Used(t)' /\ e \in EndsOf(t)'
    /\ \E to \in EndsOf(t)', kind \in {"tun.open", "tun.ok", "data"} :
          out' = [out EXCEPT ![e] = <<Write(to, Frame(kind, t, e))>>]

TellsBoth(e, t) ==
    /\ out[e] = <<>> /\ got' = got
    /\ tunState[t] = "open" /\ tunState' = [tunState EXCEPT ![t] = "closed"]
    /\ e \in EndsOf(t) /\ UNCHANGED <<tunHost, tunClient>>
    /\ out' = [out EXCEPT ![e] = <<Write(tunHost[t], Frame("tun.close", t, e)),
                                   Write(tunClient[t], Frame("tun.close", t, e))>>]

\* What the frames an end has received say of a tunnel.
LEMMA HasAddressed ==
    ASSUME TrafficInv, NEW e \in Ends, NEW t \in Tuns, NEW kind, Has(e, kind, t)
    PROVE  Used(t) /\ e \in EndsOf(t)
BY DEF TrafficInv, Has, Addressed

\* Only an open tunnel is closed, and only by this step or a host's or client's end.
LEMMA CloseTunnelKind ==
    ASSUME TypeOK, ParticipantsInv, NEW e \in Ends, NEW t \in Tuns, CloseTunnel(e, t),
           out[e] = <<>>, Used(t), e \in EndsOf(t)
    PROVE  Quiet \/ TellsBoth(e, t)
<1>1. CASE tunState[t] = "open" BY <1>1 DEF CloseTunnel, Unlist, TellsBoth, TypeOK
<1>2. CASE tunState[t] # "open" BY <1>2 DEF CloseTunnel, Quiet, NoneClosed
<1> QED BY <1>1, <1>2

LEMMA ForwardKind ==
    ASSUME TypeOK, NEW e \in Ends, NEW t \in Tuns, NEW to \in EndsOf(t),
           NEW kind \in {"tun.ok", "data"}, Forward(e, t, to, kind), out[e] = <<>>,
           Used(t), e \in EndsOf(t)
    PROVE  Quiet \/ SendsOne(e, t)
<1>1. CASE tunState[t] = "open" BY <1>1 DEF Forward, SendsOne, NoneClosed, Used, EndsOf
<1>2. CASE tunState[t] # "open" BY <1>2 DEF Forward, Quiet, NoneClosed, TypeOK
<1> QED BY <1>1, <1>2

LEMMA StepKinds ==
    ASSUME TypeOK, ParticipantsInv, TrafficInv, [TunnelsNext]_vars
    PROVE  \/ Quiet
           \/ \E e \in Ends, t \in Tuns : SendsOne(e, t) \/ TellsBoth(e, t)
           \/ \E e \in Ends : Deliver(e)
<1> DEFINE Goal == \/ Quiet
                   \/ \E e \in Ends, t \in Tuns : SendsOne(e, t) \/ TellsBoth(e, t)
                   \/ \E e \in Ends : Deliver(e)
<1>0. Sessions \subseteq Ends /\ Clients \subseteq Ends BY DEF Ends
<1>1. CASE UNCHANGED tunnelVars \/ \E s \in Sessions : TunnelsTeardown(s)
  BY <1>1 DEF tunnelVars, TunnelsTeardown, Drop, Quiet, NoneClosed
<1>2. ASSUME NEW c \in Clients, ClientHello(c) \/ ClientLeaves(c) PROVE Quiet
  BY <1>2 DEF ClientHello, ClientLeaves, Drop, Quiet, NoneClosed
<1>3. ASSUME NEW c \in Clients, NEW t \in Tuns, TunOpen(c, t) PROVE SendsOne(c, t)
  BY <1>3 DEF TunOpen, ClientReads, SendsOne, NoneClosed, Used, EndsOf, TypeOK
<1>4. ASSUME NEW c \in Clients, NEW t \in Tuns, ClientData(c, t) \/ ClientCloses(c, t) PROVE Goal
  <2>1. out[c] = <<>> /\ Used(t) /\ c \in EndsOf(t)
    BY <1>0, <1>4, HasAddressed DEF ClientData, ClientCloses, ClientReads
  <2>2. CASE ClientData(c, t)
    BY <1>0, <2>1, <2>2, ForwardKind DEF ClientData, EndsOf
  <2>3. CASE ClientCloses(c, t)
    BY <1>0, <2>1, <2>3, CloseTunnelKind DEF ClientCloses
  <2> QED BY <1>4, <2>2, <2>3
<1>5. ASSUME NEW s \in Sessions, NEW t \in Tuns,
             HostForwards(s, t, "tun.ok") \/ HostForwards(s, t, "data") \/ HostCloses(s, t)
      PROVE  Goal
  <2>1. out[s] = <<>> /\ Used(t) /\ s \in EndsOf(t)
    BY <1>0, <1>5, HasAddressed DEF HostForwards, HostCloses, HostReads
  <2>2. ASSUME NEW kind \in {"tun.ok", "data"}, HostForwards(s, t, kind) PROVE Goal
    BY <1>0, <2>1, <2>2, ForwardKind DEF HostForwards, EndsOf
  <2>3. CASE HostCloses(s, t)
    BY <1>0, <2>1, <2>3, CloseTunnelKind DEF HostCloses
  <2> QED BY <1>5, <2>2, <2>3
<1>6. CASE \E e \in Ends : Deliver(e) BY <1>6
<1>7. CASE UNCHANGED vars BY <1>7 DEF vars, tunnelVars, Quiet, NoneClosed
<1> QED BY <1>0, <1>1, <1>2, <1>3, <1>4, <1>5, <1>6, <1>7 DEF TunnelsNext
-----------------------------------------------------------------------------
\* A session that was registered and a client that was there stay so; once their
\* connection is closed they receive nothing any more.
LEMMA SessionHistory ==
    ASSUME TypeOK, [TunnelsNext]_vars, NEW s \in Sessions, sessPc[s] # "idle"
    PROVE  sessPc'[s] # "idle" /\ (connOpen'[s] => connOpen[s])
<1> USE DEF TypeOK, SessionTypeOK, SessionAt
<1>1. CASE UNCHANGED sessionVars BY <1>1 DEF sessionVars
<1>2. ASSUME NEW x \in Sessions, NEW h \in HostIds, Register(x, h)
      PROVE  sessPc'[s] # "idle" /\ (connOpen'[s] => connOpen[s])
  BY <1>2 DEF Register, ConnsAfterRegister
<1>3. ASSUME NEW x \in Sessions, SendHelloOk(x) \/ ReadFails(x) \/ CloseConn(x)
      PROVE  sessPc'[s] # "idle" /\ (connOpen'[s] => connOpen[s])
  BY <1>3 DEF SendHelloOk, ReadFails, CloseConn
<1>4. ASSUME NEW x \in Sessions, TunnelsTeardown(x)
      PROVE  sessPc'[s] # "idle" /\ (connOpen'[s] => connOpen[s])
  BY <1>4 DEF TunnelsTeardown, TeardownSession
<1> HIDE DEF TypeOK, SessionTypeOK, SessionAt
<1> QED BY <1>1, <1>2, <1>3, <1>4 DEF TunnelsNext, vars

LEMMA ClientHistory ==
    ASSUME TypeOK, [TunnelsNext]_vars, NEW c \in Clients, clientPc[c] # "idle"
    PROVE  /\ clientPc'[c] # "idle" /\ clientHost'[c] = clientHost[c]
           /\ clientPc'[c] = "serving" => clientPc[c] = "serving"
BY DEF TypeOK, TunnelsNext, vars, tunnelVars, TunnelsTeardown, ClientHello, TunOpen, ClientData,
       Forward, ClientCloses, CloseTunnel, ClientLeaves, HostForwards, HostCloses, Deliver

\* A tunnel keeps its ends, and is never opened again.
LEMMA TunnelHistory ==
    ASSUME TypeOK, [TunnelsNext]_vars, NEW t \in Tuns, Used(t)
    PROVE  /\ Used(t)' /\ tunHost'[t] = tunHost[t] /\ tunClient'[t] = tunClient[t]
           /\ tunState[t] = "closed" => tunState'[t] = "closed"
           /\ tunState'[t] = "open" => tunState[t] = "open"
<1> USE DEF TypeOK, Used
<1>1. CASE UNCHANGED <<tunState, tunHost, tunClient>> BY <1>1
<1>2. ASSUME NEW s \in Sessions, TunnelsTeardown(s)
      PROVE  /\ tunState'[t] \in {tunState[t], "dropped"} /\ UNCHANGED <<tunHost, tunClient>>
             /\ tunState[t] # "open" => tunState'[t] = tunState[t]
  BY <1>2 DEF TunnelsTeardown, Drop, TunnelsOfHost
<1>3. ASSUME NEW c \in Clients, ClientLeaves(c)
      PROVE  /\ tunState'[t] \in {tunState[t], "dropped"} /\ UNCHANGED <<tunHost, tunClient>>
             /\ tunState[t] # "open" => tunState'[t] = tunState[t]
  BY <1>3 DEF ClientLeaves, Drop, TunnelsOfClient
<1>4. ASSUME NEW c \in Clients, NEW u \in Tuns, TunOpen(c, u)
      PROVE  u # t /\ tunState'[t] = tunState[t] /\ tunHost'[t] = tunHost[t]
             /\ tunClient'[t] = tunClient[t]
  BY <1>4 DEF TunOpen, Fresh
<1>5. ASSUME NEW e, NEW u \in Tuns, CloseTunnel(e, u)
      PROVE  /\ tunState'[t] \in {tunState[t], "closed"} /\ UNCHANGED <<tunHost, tunClient>>
  BY <1>5 DEF CloseTunnel, Unlist
<1>6. CASE \/ \E s \in Sessions, u \in Tuns : HostCloses(s, u)
           \/ \E c \in Clients, u \in Tuns : ClientCloses(c, u)
  BY <1>5, <1>6 DEF HostCloses, ClientCloses
<1> QED
  BY <1>1, <1>2, <1>3, <1>4, <1>6
     DEF TunnelsNext, vars, tunnelVars, ClientHello, ClientData, Forward, HostForwards, Deliver

LEMMA ParticipantsStep ==
    TypeOK /\ ParticipantsInv /\ [TunnelsNext]_vars => ParticipantsInv'
<1> SUFFICES ASSUME TypeOK, ParticipantsInv, [TunnelsNext]_vars PROVE ParticipantsInv'
  OBVIOUS
<1>1. ASSUME NEW h \in HostIds, hosts'[h] # NoSession PROVE sessPc'[hosts'[h]] # "idle"
  <2>1. CASE hosts'[h] = hosts[h]
    BY <1>1, <2>1, SessionHistory DEF ParticipantsInv, TypeOK, SessionTypeOK
  <2>2. ASSUME NEW s \in Sessions, NEW k \in HostIds, Register(s, k)
        PROVE  hosts'[h] = hosts[h] \/ (hosts'[h] = s /\ sessPc'[s] # "idle")
    BY <2>2 DEF Register, SessionAt, TypeOK, SessionTypeOK
  <2>3. ASSUME NEW s \in Sessions, TunnelsTeardown(s) PROVE hosts'[h] = hosts[h]
    BY <1>1, <2>3 DEF TunnelsTeardown, TeardownSession, HostsAfter
  <2> QED
    BY <2>1, <2>2, <2>3 DEF TunnelsNext, vars, sessionVars, SendHelloOk, ReadFails, CloseConn
<1>2. ASSUME NEW c \in Clients, clientPc'[c] = "serving"
      PROVE  clientHost'[c] \in Sessions /\ sessPc'[clientHost'[c]] # "idle"
  <2>1. CASE clientPc[c] # "idle"
    BY <1>2, <2>1, ClientHistory, SessionHistory DEF ParticipantsInv
  <2>2. CASE clientPc[c] = "idle"
    <3>1. ASSUME NEW d \in Clients, ClientHello(d), UNCHANGED sessionVars
          PROVE  clientHost'[c] \in Sessions /\ sessPc'[clientHost'[c]] # "idle"
      BY <1>2, <2>2, <3>1 DEF ClientHello, HostFound, ParticipantsInv, TypeOK, SessionTypeOK, sessionVars
    <3>2. CASE clientPc' = clientPc BY <1>2, <2>2, <3>2
    <3>3. ASSUME NEW d \in Clients, ClientLeaves(d) PROVE clientPc'[c] # "serving"
      BY <2>2, <3>3 DEF ClientLeaves, TypeOK
    <3> QED
      BY <1>2, <3>1, <3>2, <3>3
         DEF TunnelsNext, vars, tunnelVars, TunnelsTeardown, TunOpen, ClientData, Forward,
             ClientCloses, CloseTunnel, HostForwards, HostCloses, Deliver
  <2> QED BY <2>1, <2>2
<1>3. ASSUME NEW t \in Tuns, Used(t)'
      PROVE  /\ tunHost'[t] \in Sessions /\ sessPc'[tunHost'[t]] # "idle"
             /\ tunClient'[t] \in Clients /\ clientPc'[tunClient'[t]] # "idle"
  <2>1. CASE Used(t)
    BY <2>1, TunnelHistory, SessionHistory, ClientHistory DEF ParticipantsInv
  <2>2. CASE ~Used(t)
    <3> USE DEF TypeOK, Used
    <3>1. ASSUME NEW c \in Clients, TunOpen(c, t), UNCHANGED sessionVars
          PROVE  /\ tunHost'[t] \in Sessions /\ sessPc'[tunHost'[t]] # "idle"
                 /\ tunClient'[t] \in Clients /\ clientPc'[tunClient'[t]] # "idle"
      BY <3>1 DEF TunOpen, ClientReads, ParticipantsInv, sessionVars
    <3>2. ASSUME NEW c \in Clients, NEW u \in Tuns, TunOpen(c, u), u # t PROVE FALSE
      BY <1>3, <2>2, <3>2 DEF TunOpen
    <3>3. ASSUME NEW e, NEW u \in Tuns, CloseTunnel(e, u) PROVE FALSE
      BY <1>3, <2>2, <3>3 DEF CloseTunnel, Unlist
    <3>4. CASE UNCHANGED tunState BY <1>3, <2>2, <3>4
    <3>5. ASSUME NEW c \in Clients, ClientLeaves(c) PROVE FALSE
      BY <1>3, <2>2, <3>5 DEF ClientLeaves, Drop, TunnelsOfClient
    <3>6. ASSUME NEW s \in Sessions, TunnelsTeardown(s) PROVE FALSE
      BY <1>3, <2>2, <3>6 DEF TunnelsTeardown, Drop, TunnelsOfHost
    <3> QED
      BY <3>1, <3>2, <3>3, <3>4, <3>5, <3>6
         DEF TunnelsNext, vars, tunnelVars, ClientHello, ClientData, Forward, ClientCloses,
             HostForwards, HostCloses, Deliver
  <2> QED BY <2>1, <2>2
<1> QED BY <1>1, <1>2, <1>3 DEF ParticipantsInv, Used
-----------------------------------------------------------------------------
\* A frame and a write between the ends of a tunnel have their types.
LEMMA WriteType ==
    ASSUME NEW t \in Tuns, NEW e \in Ends, NEW to \in Ends,
           NEW kind \in {"tun.open", "tun.ok", "data", "tun.close"}
    PROVE  Write(to, Frame(kind, t, e)) \in Writes
BY DEF Write, Writes, Frame, Frames

LEMMA EndsType ==
    ASSUME ParticipantsInv, NEW t \in Tuns, Used(t)
    PROVE  tunHost[t] \in Ends /\ tunClient[t] \in Ends
BY DEF ParticipantsInv, Ends

\* The first write of a queue, and the queue without it.
LEMMA HeadWrite ==
    ASSUME TypeOK, NEW e \in Ends, Deliver(e)
    PROVE  /\ out[e] \in Seq(Writes) /\ Len(out[e]) >= 1 /\ out[e] # <<>>
           /\ Head(out[e]) = out[e][1] /\ Head(out[e]) \in Writes
           /\ Head(out[e]).to \in Ends /\ Head(out[e]).frame \in Frames
           /\ out' = [out EXCEPT ![e] = Tail(out[e])] /\ Tail(out[e]) \in Seq(Writes)
           /\ Len(Tail(out[e])) = Len(out[e]) - 1
           /\ \A i \in 1..Len(Tail(out[e])) : Tail(out[e])[i] = out[e][i + 1]
<1>1. out[e] \in Seq(Writes) /\ out[e] # <<>> BY DEF Deliver, TypeOK
<1>2. Head(out[e]) \in Writes /\ Head(out[e]) = out[e][1] BY <1>1, HeadTailProperties
<1>3. Head(out[e]).to \in Ends /\ Head(out[e]).frame \in Frames BY <1>2 DEF Writes
<1>4. /\ Tail(out[e]) \in Seq(Writes) /\ Len(Tail(out[e])) = Len(out[e]) - 1
      /\ \A i \in 1..Len(Tail(out[e])) : Tail(out[e])[i] = out[e][i + 1]
  BY <1>1, HeadTailProperties
<1>5. Len(out[e]) >= 1 BY <1>1, EmptySeq, LenProperties
<1> QED BY <1>1, <1>2, <1>3, <1>4, <1>5 DEF Deliver

\* What a delivery does to the frames received: the write at the head is appended
\* for its addressee, unless that one receives nothing any more.
LEMMA DeliveredFrame ==
    ASSUME TypeOK, NEW e \in Ends, Deliver(e), NEW to \in Ends
    PROVE  LET w == Head(out[e]) IN
           IF w.to = to /\ Receives(to)
           THEN /\ got'[to] = Append(got[to], w.frame)
                /\ Len(got'[to]) = Len(got[to]) + 1
                /\ got'[to][Len(got[to]) + 1] = w.frame
                /\ \A i \in 1..Len(got[to]) : got'[to][i] = got[to][i]
           ELSE got'[to] = got[to]
<1> DEFINE w == Head(out[e])
<1>1. w.to \in Ends /\ w.frame \in Frames BY HeadWrite
<1>2. got \in [Ends -> Seq(Frames)] BY DEF TypeOK
<1>3. CASE w.to = to /\ Receives(to)
  <2>1. got'[to] = Append(got[to], w.frame) BY <1>1, <1>2, <1>3 DEF Deliver
  <2> QED BY <1>1, <1>2, <1>3, <2>1, AppendProperties
<1>4. CASE w.to # to \/ ~Receives(to)
  BY <1>1, <1>2, <1>4 DEF Deliver
<1> QED BY <1>3, <1>4

LEMMA FramesTypeStep ==
    ASSUME TypeOK, ParticipantsInv, ParticipantsInv', TrafficInv, [TunnelsNext]_vars
    PROVE  out' \in [Ends -> Seq(Writes)] /\ got' \in [Ends -> Seq(Frames)]
<1>0. out \in [Ends -> Seq(Writes)] /\ got \in [Ends -> Seq(Frames)] BY DEF TypeOK
<1>1. CASE Quiet BY <1>0, <1>1 DEF Quiet
<1>2. ASSUME NEW e \in Ends, NEW t \in Tuns, SendsOne(e, t)
      PROVE  out' \in [Ends -> Seq(Writes)] /\ got' \in [Ends -> Seq(Frames)]
  <2>1. \A to \in EndsOf(t)' : to \in Ends
    BY <1>2 DEF SendsOne, EndsOf, Used, ParticipantsInv, Ends
  <2>2. PICK x \in Writes : out' = [out EXCEPT ![e] = <<x>>]
    BY <1>2, <2>1, WriteType DEF SendsOne
  <2>3. <<x>> \in Seq(Writes) OBVIOUS
  <2> QED BY <1>0, <1>2, <2>2, <2>3 DEF SendsOne
<1>3. ASSUME NEW e \in Ends, NEW t \in Tuns, TellsBoth(e, t)
      PROVE  out' \in [Ends -> Seq(Writes)] /\ got' \in [Ends -> Seq(Frames)]
  <2>1. tunHost[t] \in Ends /\ tunClient[t] \in Ends BY <1>3, EndsType DEF TellsBoth, Used
  <2>2. PICK x \in Writes, y \in Writes : out' = [out EXCEPT ![e] = <<x, y>>]
    BY <1>3, <2>1, WriteType DEF TellsBoth
  <2>3. <<x, y>> \in Seq(Writes) OBVIOUS
  <2> QED BY <1>0, <1>3, <2>2, <2>3 DEF TellsBoth
<1>4. ASSUME NEW e \in Ends, Deliver(e)
      PROVE  out' \in [Ends -> Seq(Writes)] /\ got' \in [Ends -> Seq(Frames)]
  <2>1. out' \in [Ends -> Seq(Writes)] BY <1>0, <1>4, HeadWrite
  <2>2. got' = got \/ got' = [got EXCEPT ![Head(out[e]).to] = Append(@, Head(out[e]).frame)]
    BY <1>4 DEF Deliver
  <2>3. Append(got[Head(out[e]).to], Head(out[e]).frame) \in Seq(Frames)
    BY <1>0, <1>4, HeadWrite, AppendProperties
  <2> QED BY <1>0, <2>1, <2>2, <2>3
<1> QED BY <1>1, <1>2, <1>3, <1>4, StepKinds

LEMMA SessionTypeStep ==
    ASSUME TypeOK, [TunnelsNext]_vars PROVE SessionTypeOK'
<1> USE DEF TypeOK, SessionTypeOK, SessionAt, SessionPcs
<1>1. ASSUME NEW s \in Sessions, NEW h \in HostIds, Register(s, h) PROVE SessionTypeOK'
  BY <1>1 DEF Register, Cancelled, ConnsAfterRegister
<1>2. ASSUME NEW s \in Sessions, SendHelloOk(s) \/ ReadFails(s) \/ CloseConn(s) PROVE SessionTypeOK'
  BY <1>2 DEF SendHelloOk, ReadFails, CloseConn
<1>3. ASSUME NEW s \in Sessions, TunnelsTeardown(s) PROVE SessionTypeOK'
  BY <1>3 DEF TunnelsTeardown, TeardownSession, HostsAfter
<1>4. CASE UNCHANGED sessionVars BY <1>4 DEF sessionVars
<1> QED BY <1>1, <1>2, <1>3, <1>4 DEF TunnelsNext, vars

\* The types of the clients and of the map of tunnels.
LEMMA ClientTypeStep ==
    ASSUME TypeOK, ParticipantsInv, [TunnelsNext]_vars
    PROVE  /\ clientPc' \in [Clients -> {"idle", "serving", "left"}]
           /\ clientHost' \in [Clients -> Sessions \cup {NoSession}]
<1> DEFINE Goal == /\ clientPc' \in [Clients -> {"idle", "serving", "left"}]
                   /\ clientHost' \in [Clients -> Sessions \cup {NoSession}]
<1>0. /\ clientPc \in [Clients -> {"idle", "serving", "left"}]
      /\ clientHost \in [Clients -> Sessions \cup {NoSession}]
      /\ hosts \in [HostIds -> Sessions \cup {NoSession}]
  BY DEF TypeOK, SessionTypeOK
<1>1. CASE UNCHANGED <<clientPc, clientHost>> BY <1>0, <1>1
<1>2. ASSUME NEW c \in Clients, ClientHello(c) PROVE Goal BY <1>0, <1>2 DEF ClientHello
<1>3. ASSUME NEW c \in Clients, ClientLeaves(c) PROVE Goal BY <1>0, <1>3 DEF ClientLeaves
<1> HIDE DEF Goal
<1>4. Goal
  BY <1>1, <1>2, <1>3
     DEF Goal, TunnelsNext, vars, tunnelVars, TunnelsTeardown, TunOpen, ClientData, Forward, ClientCloses,
         CloseTunnel, HostForwards, HostCloses, Deliver
<1> QED BY <1>4 DEF Goal

LEMMA TunnelTypeStep ==
    ASSUME TypeOK, ParticipantsInv, [TunnelsNext]_vars
    PROVE  /\ tunState' \in [Tuns -> {"unused", "open", "closed", "dropped"}]
           /\ tunHost' \in [Tuns -> Sessions \cup {NoSession}]
           /\ tunClient' \in [Tuns -> Clients \cup {NoClient}]
<1> DEFINE Goal == /\ tunState' \in [Tuns -> {"unused", "open", "closed", "dropped"}]
                   /\ tunHost' \in [Tuns -> Sessions \cup {NoSession}]
                   /\ tunClient' \in [Tuns -> Clients \cup {NoClient}]
<1> USE DEF TypeOK
<1>1. CASE UNCHANGED <<tunState, tunHost, tunClient>> BY <1>1
<1>2. ASSUME NEW c \in Clients, NEW t \in Tuns, TunOpen(c, t) PROVE Goal
  BY <1>2 DEF TunOpen
<1>3. ASSUME NEW e, NEW t \in Tuns, CloseTunnel(e, t) PROVE Goal
  BY <1>3 DEF CloseTunnel, Unlist
<1>4. ASSUME NEW T, Drop(T), UNCHANGED <<tunHost, tunClient>> PROVE Goal
  BY <1>4 DEF Drop
<1> QED
  BY <1>1, <1>2, <1>3, <1>4
     DEF TunnelsNext, vars, tunnelVars, TunnelsTeardown, ClientHello, ClientData, Forward,
         ClientCloses, ClientLeaves, HostForwards, HostCloses, Deliver

LEMMA TypeStep ==
    TypeOK /\ ParticipantsInv /\ TrafficInv /\ [TunnelsNext]_vars => TypeOK'
BY ParticipantsStep, FramesTypeStep, SessionTypeStep, ClientTypeStep, TunnelTypeStep DEF TypeOK
-----------------------------------------------------------------------------
\* A frame that was addressed to an end of its tunnel stays so.
LEMMA AddressedStays ==
    ASSUME TypeOK, [TunnelsNext]_vars, NEW f \in Frames, NEW e \in Ends, Addressed(f, e)
    PROVE  Addressed(f, e)'
<1>1. f.tun \in Tuns BY DEF Frames
<1> QED BY <1>1, TunnelHistory DEF Addressed, EndsOf

\* Frames go between the ends of their tunnel: delivering one changes nothing of
\* that, and whoever writes one is an end itself.
LEMMA TrafficStep ==
    TypeOK /\ ParticipantsInv /\ TrafficInv /\ [TunnelsNext]_vars => TrafficInv'
<1> SUFFICES ASSUME TypeOK, ParticipantsInv, TrafficInv, [TunnelsNext]_vars PROVE TrafficInv'
  OBVIOUS
<1>1. /\ got \in [Ends -> Seq(Frames)] /\ out \in [Ends -> Seq(Writes)]
      /\ got' \in [Ends -> Seq(Frames)] /\ out' \in [Ends -> Seq(Writes)]
  BY ParticipantsStep, FramesTypeStep DEF TypeOK
<1>2. ASSUME NEW x \in Ends, NEW f \in Frames, NEW i \in 1..Len(got[x]), f = got[x][i]
      PROVE  Addressed(f, x)'
  BY <1>2, AddressedStays DEF TrafficInv
<1>3. ASSUME NEW x \in Ends, NEW w \in Writes, NEW i \in 1..Len(out[x]), w = out[x][i]
      PROVE  Addressed(w.frame, w.to)'
  <2>1. w.frame \in Frames /\ w.to \in Ends BY DEF Writes
  <2>2. Addressed(w.frame, w.to) BY <1>3 DEF TrafficInv
  <2> QED BY <2>1, <2>2, AddressedStays
\* A frame received is an old one or the head of the queue that was delivered.
<1>4. ASSUME NEW x \in Ends, NEW f \in Frames, NEW i \in 1..Len(got'[x]), f = got'[x][i]
      PROVE  Addressed(f, x)'
  <2>1. CASE got' = got BY <1>2, <1>4, <2>1
  <2>2. ASSUME NEW e \in Ends, Deliver(e) PROVE Addressed(f, x)'
    <3> DEFINE w == Head(out[e])
    <3>1. CASE got'[x] = got[x] BY <1>2, <1>4, <3>1
    <3>2. CASE w.to = x /\ Receives(x)
      <4>1. /\ Len(got'[x]) = Len(got[x]) + 1 /\ got'[x][Len(got[x]) + 1] = w.frame
            /\ \A j \in 1..Len(got[x]) : got'[x][j] = got[x][j]
        BY <2>2, <3>2, DeliveredFrame
      <4>2. Len(got[x]) \in Nat BY <1>1, LenProperties
      <4>3. CASE i \in 1..Len(got[x]) BY <1>2, <1>4, <4>1, <4>3
      <4>4. CASE i = Len(got[x]) + 1
        <5>1. w = out[e][1] /\ w \in Writes /\ 1 \in 1..Len(out[e])
          BY <1>1, <2>2, HeadWrite, LenProperties
        <5> QED BY <1>3, <1>4, <3>2, <4>1, <4>4, <5>1
      <4> QED BY <4>1, <4>2, <4>3, <4>4
    <3> QED BY <2>2, <3>1, <3>2, DeliveredFrame
  <2> QED BY <2>1, <2>2, StepKinds DEF Quiet, SendsOne, TellsBoth
\* A write to be done is an old one or was added by an end of the tunnel it names.
<1>5. ASSUME NEW x \in Ends, NEW w \in Writes, NEW i \in 1..Len(out'[x]), w = out'[x][i]
      PROVE  Addressed(w.frame, w.to)'
  <2>1. CASE out'[x] = out[x] BY <1>3, <1>5, <2>1
  <2>2. ASSUME NEW e \in Ends, NEW t \in Tuns, SendsOne(e, t) PROVE Addressed(w.frame, w.to)'
    <3>1. PICK to \in EndsOf(t)', kind \in {"tun.open", "tun.ok", "data"} :
             out' = [out EXCEPT ![e] = <<Write(to, Frame(kind, t, e))>>]
      BY <2>2 DEF SendsOne
    <3>2. CASE x = e
      <4>1. out'[x] = <<Write(to, Frame(kind, t, e))>> BY <1>1, <3>1, <3>2
      <4>2. w = Write(to, Frame(kind, t, e)) BY <1>5, <4>1
      <4> QED BY <2>2, <4>2 DEF SendsOne, Write, Frame, Addressed, EndsOf, Used
    <3> QED BY <1>1, <2>1, <3>1, <3>2
  <2>3. ASSUME NEW e \in Ends, NEW t \in Tuns, TellsBoth(e, t) PROVE Addressed(w.frame, w.to)'
    <3> DEFINE f == Frame("tun.close", t, e)
    <3>1. CASE x = e
      <4>1. out'[x] = <<Write(tunHost[t], f), Write(tunClient[t], f)>>
        BY <1>1, <2>3, <3>1 DEF TellsBoth
      <4>2. w = Write(tunHost[t], f) \/ w = Write(tunClient[t], f) BY <1>5, <4>1
      <4> QED BY <2>3, <4>2 DEF TellsBoth, Write, Frame, Addressed, EndsOf, Used
    <3>2. CASE x # e BY <1>1, <2>1, <2>3, <3>2 DEF TellsBoth
    <3> QED BY <3>1, <3>2
  <2>4. ASSUME NEW e \in Ends, Deliver(e) PROVE Addressed(w.frame, w.to)'
    <3>1. CASE x = e
      <4>1. /\ out'[e] = Tail(out[e]) /\ Len(Tail(out[e])) = Len(out[e]) - 1
            /\ \A j \in 1..Len(Tail(out[e])) : Tail(out[e])[j] = out[e][j + 1]
        BY <1>1, <2>4, HeadWrite
      <4>2. Len(out[e]) \in Nat BY <1>1, LenProperties
      <4>3. i + 1 \in 1..Len(out[e]) /\ w = out[e][i + 1] BY <1>5, <3>1, <4>1, <4>2
      <4> QED BY <1>3, <4>3
    <3>2. CASE x # e BY <1>1, <2>1, <2>4, <3>2, HeadWrite
    <3> QED BY <3>1, <3>2
  <2> QED BY <2>1, <2>2, <2>3, <2>4, StepKinds DEF Quiet
<1>6. ASSUME NEW x \in Ends, NEW i \in 1..Len(got'[x]) PROVE Addressed(got[x][i], x)'
  <2>1. PICK f \in Frames : f = got'[x][i] BY <1>1, ElementOfSeq
  <2> QED BY <1>4, <2>1 DEF Addressed
<1>7. ASSUME NEW x \in Ends, NEW i \in 1..Len(out'[x])
      PROVE  Addressed(out[x][i].frame, out[x][i].to)'
  <2>1. PICK w \in Writes : w = out'[x][i] BY <1>1, ElementOfSeq
  <2> QED BY <1>5, <2>1 DEF Addressed
<1> QED BY <1>6, <1>7 DEF TrafficInv
-----------------------------------------------------------------------------
\* The client of an open tunnel is connected: it opens tunnels only while it is, and
\* takes them along when it leaves.
LEMMA HasClientStep ==
    TypeOK /\ ParticipantsInv /\ TunnelHasClient /\ [TunnelsNext]_vars => TunnelHasClient'
<1> SUFFICES ASSUME TypeOK, ParticipantsInv, TunnelHasClient, [TunnelsNext]_vars,
                    NEW t \in Tuns, tunState'[t] = "open"
             PROVE  clientPc'[tunClient'[t]] = "serving"
  BY DEF TunnelHasClient
<1>1. CASE Used(t)
  <2> DEFINE c == tunClient[t]
  <2>1. tunState[t] = "open" /\ tunClient'[t] = c BY <1>1, TunnelHistory
  <2>2. c \in Clients /\ clientPc[c] = "serving" BY <1>1, <2>1 DEF TunnelHasClient, ParticipantsInv
  <2>3. ASSUME NEW d \in Clients, ClientLeaves(d) PROVE d # c
    BY <2>1, <2>2, <2>3 DEF ClientLeaves, Drop, TunnelsOfClient
  <2>4. clientPc'[c] = "serving"
    BY <2>2, <2>3
       DEF TypeOK, TunnelsNext, vars, tunnelVars, TunnelsTeardown, ClientHello, TunOpen, ClientData,
           Forward, ClientCloses, CloseTunnel, ClientLeaves, HostForwards, HostCloses, Deliver
  <2> QED BY <2>1, <2>4
<1>2. CASE ~Used(t)
  <2> USE DEF TypeOK, Used
  <2>1. ASSUME NEW c \in Clients, NEW u \in Tuns, TunOpen(c, u)
        PROVE  clientPc'[tunClient'[t]] = "serving"
    BY <1>2, <2>1 DEF TunOpen, ClientReads
  <2>2. CASE UNCHANGED tunState BY <1>2, <2>2
  <2>3. ASSUME NEW T, Drop(T) PROVE FALSE BY <1>2, <2>3 DEF Drop
  <2>4. ASSUME NEW e, NEW u \in Tuns, CloseTunnel(e, u) PROVE FALSE
    BY <1>2, <2>4 DEF CloseTunnel, Unlist
  <2> QED
    BY <2>1, <2>2, <2>3, <2>4
       DEF TunnelsNext, vars, tunnelVars, TunnelsTeardown, ClientHello, ClientData, Forward,
           ClientCloses, ClientLeaves, HostForwards, HostCloses, Deliver
<1> QED BY <1>1, <1>2
-----------------------------------------------------------------------------
\* How each kind of step moves the places of a close.
LEMMA SendsOnePlaces ==
    ASSUME TypeOK, NEW e \in Ends, NEW u \in Tuns, SendsOne(e, u),
           NEW to \in Ends, NEW t \in Tuns, NEW x \in Ends, NEW i \in Nat
    PROVE  /\ PendingAt(to, t, x, i)' <=> PendingAt(to, t, x, i)
           /\ ClosedAt(to, t, i)' <=> ClosedAt(to, t, i)
<1>1. ClosedAt(to, t, i)' <=> ClosedAt(to, t, i) BY DEF SendsOne, ClosedAt
<1>2. PICK d \in EndsOf(u)', kind \in {"tun.open", "tun.ok", "data"} :
         out' = [out EXCEPT ![e] = <<Write(d, Frame(kind, u, e))>>]
  BY DEF SendsOne
<1>3. CASE x # e
  <2>1. out'[x] = out[x] BY <1>2, <1>3 DEF TypeOK
  <2> QED BY <1>1, <2>1 DEF PendingAt
<1>4. CASE x = e
  <2>1. ~PendingAt(to, t, e, i) BY DEF SendsOne, PendingAt
  <2>2. out'[e] = <<Write(d, Frame(kind, u, e))>> BY <1>2 DEF TypeOK
  <2>3. i \in 1..Len(out'[e]) => out'[e][i].frame.kind = kind BY <2>2 DEF Write, Frame
  <2>4. ~PendingAt(to, t, e, i)' BY <2>3 DEF PendingAt
  <2> QED BY <1>1, <1>4, <2>1, <2>4
<1> QED BY <1>3, <1>4

LEMMA TellsBothPlaces ==
    ASSUME TypeOK, NEW e \in Ends, NEW u \in Tuns, TellsBoth(e, u),
           NEW to \in Ends, NEW t \in Tuns, NEW x \in Ends, NEW i \in Nat
    PROVE  /\ PendingAt(to, t, x, i)' <=>
                  \/ PendingAt(to, t, x, i)
                  \/ x = e /\ t = u /\ ((i = 1 /\ to = tunHost[u]) \/ (i = 2 /\ to = tunClient[u]))
           /\ ClosedAt(to, t, i)' <=> ClosedAt(to, t, i)
<1>1. ClosedAt(to, t, i)' <=> ClosedAt(to, t, i) BY DEF TellsBoth, ClosedAt
<1>2. CASE x # e
  <2>1. out'[x] = out[x] BY <1>2 DEF TellsBoth, TypeOK
  <2> QED BY <1>1, <1>2, <2>1 DEF PendingAt
<1>3. CASE x = e
  <2>1. ~PendingAt(to, t, e, i) BY DEF TellsBoth, PendingAt
  <2> DEFINE f == Frame("tun.close", u, e)
  <2>2. out'[e] = <<Write(tunHost[u], f), Write(tunClient[u], f)>> BY DEF TellsBoth, TypeOK
  <2>3. /\ i \in 1..Len(out'[e]) <=> i = 1 \/ i = 2
        /\ out'[e][1].to = tunHost[u] /\ out'[e][2].to = tunClient[u]
        /\ out'[e][1].frame = f /\ out'[e][2].frame = f
    BY <2>2 DEF Write
  <2>4. f.kind = "tun.close" /\ f.tun = u BY DEF Frame
  <2>5. PendingAt(to, t, e, i)' <=>
           t = u /\ ((i = 1 /\ to = tunHost[u]) \/ (i = 2 /\ to = tunClient[u]))
    BY <2>3, <2>4 DEF PendingAt
  <2> QED BY <1>1, <1>3, <2>1, <2>5
<1> QED BY <1>2, <1>3

LEMMA DeliverPlaces ==
    ASSUME TypeOK, NEW e \in Ends, Deliver(e),
           NEW to \in Ends, NEW t \in Tuns, NEW x \in Ends, NEW i \in Nat
    PROVE  /\ PendingAt(to, t, x, i)' <=>
                  IF x = e THEN i # 0 /\ PendingAt(to, t, e, i + 1) ELSE PendingAt(to, t, x, i)
           /\ ClosedAt(to, t, i)' <=>
                  \/ ClosedAt(to, t, i)
                  \/ i = Len(got[to]) + 1 /\ PendingAt(to, t, e, 1) /\ Receives(to)
<1>1. PendingAt(to, t, x, i)' <=>
         IF x = e THEN i # 0 /\ PendingAt(to, t, e, i + 1) ELSE PendingAt(to, t, x, i)
  <2>1. CASE x # e BY <2>1, HeadWrite DEF TypeOK, PendingAt
  <2>2. CASE x = e
    <3>1. /\ out'[e] = Tail(out[e]) /\ Len(Tail(out[e])) = Len(out[e]) - 1
          /\ \A j \in 1..Len(Tail(out[e])) : Tail(out[e])[j] = out[e][j + 1]
      BY HeadWrite DEF TypeOK
    <3>2. Len(out[e]) \in Nat BY HeadWrite, LenProperties
    <3>3. i \in 1..Len(out'[e]) <=> i # 0 /\ i + 1 \in 1..Len(out[e]) BY <3>1, <3>2
    <3>4. i \in 1..Len(out'[e]) => out'[e][i] = out[e][i + 1] BY <3>1
    <3> QED BY <2>2, <3>3, <3>4 DEF PendingAt
  <2> QED BY <2>1, <2>2
<1>2. ClosedAt(to, t, i)' <=>
         \/ ClosedAt(to, t, i)
         \/ i = Len(got[to]) + 1 /\ PendingAt(to, t, e, 1) /\ Receives(to)
  <2> DEFINE w == Head(out[e])
  <2>0. Len(got[to]) \in Nat BY LenProperties DEF TypeOK
  <2>1. w = out[e][1] /\ 1 \in 1..Len(out[e]) BY HeadWrite, LenProperties
  <2>2. CASE w.to = to /\ Receives(to)
    <3>1. /\ Len(got'[to]) = Len(got[to]) + 1 /\ got'[to][Len(got[to]) + 1] = w.frame
          /\ \A j \in 1..Len(got[to]) : got'[to][j] = got[to][j]
      BY <2>2, DeliveredFrame
    <3>2. PendingAt(to, t, e, 1) <=> w.frame.kind = "tun.close" /\ w.frame.tun = t
      BY <2>1, <2>2 DEF PendingAt
    <3>3. CASE i = Len(got[to]) + 1 BY <2>0, <2>2, <3>1, <3>2, <3>3 DEF ClosedAt
    <3>4. CASE i # Len(got[to]) + 1 BY <2>0, <3>1, <3>4 DEF ClosedAt
    <3> QED BY <3>3, <3>4
  <2>3. CASE ~(w.to = to /\ Receives(to))
    <3>1. got'[to] = got[to] BY <2>3, DeliveredFrame
    <3>2. ~(PendingAt(to, t, e, 1) /\ Receives(to)) BY <2>1, <2>3 DEF PendingAt
    <3> QED BY <3>1, <3>2 DEF ClosedAt
  <2> QED BY <2>2, <2>3
<1> QED BY <1>1, <1>2

\* An end that cannot receive any more does not come back.
LEMMA ReceivesStays ==
    ASSUME TypeOK, ParticipantsInv, [TunnelsNext]_vars, NEW t \in Tuns, Used(t),
           NEW to \in EndsOf(t), Receives(to)'
    PROVE  Receives(to)
<1>1. CASE to = tunHost[t] /\ to \in Sessions
  BY <1>1, SessionHistory DEF ParticipantsInv, Receives
<1>2. CASE to = tunClient[t] /\ to \in Clients
  <2>1. to \notin Sessions BY <1>2, TunnelAssumption
  <2> QED BY <1>2, <2>1, ClientHistory DEF ParticipantsInv, Receives
<1> QED BY <1>1, <1>2 DEF ParticipantsInv, EndsOf

\* Each kind of step keeps the invariant about closes.  A delivery moves a close from
\* one place to the other; the two closes of a tunnel are written when it had none.
LEMMA CloseQuiet ==
    ASSUME CloseInv, UNCHANGED <<out, got>>, NoneClosed,
           \A t \in Tuns : tunState[t] = "closed" =>
              /\ tunState'[t] = "closed" /\ EndsOf(t)' = EndsOf(t)
              /\ \A to \in EndsOf(t) : Receives(to)' => Receives(to)
    PROVE  CloseInv'
<1>1. \A to, t, i : ClosedAt(to, t, i)' <=> ClosedAt(to, t, i) BY DEF ClosedAt
<1>2. \A to, t, e, i : PendingAt(to, t, e, i)' <=> PendingAt(to, t, e, i) BY DEF PendingAt
<1>3. \A t \in Tuns : tunState'[t] = "closed" <=> tunState[t] = "closed" BY DEF NoneClosed
<1>4. \A to \in Ends, t \in Tuns :
         tunState'[t] = "closed" /\ to \in EndsOf(t)' /\ Receives(to)' =>
            tunState[t] = "closed" /\ to \in EndsOf(t) /\ Receives(to)
  BY <1>3
<1> QED BY <1>1, <1>2, <1>3, <1>4 DEF CloseInv

\* The history of a closed tunnel.
LEMMA ClosedHistory ==
    ASSUME TypeOK, ParticipantsInv, [TunnelsNext]_vars, NEW t \in Tuns, tunState[t] = "closed"
    PROVE  /\ tunState'[t] = "closed" /\ EndsOf(t)' = EndsOf(t)
           /\ \A to \in EndsOf(t) : Receives(to)' => Receives(to)
<1>1. Used(t) BY DEF Used
<1> QED BY <1>1, TunnelHistory, ReceivesStays DEF EndsOf

LEMMA CloseSendsOne ==
    ASSUME TypeOK, ParticipantsInv, CloseInv, [TunnelsNext]_vars,
           NEW e \in Ends, NEW u \in Tuns, SendsOne(e, u)
    PROVE  CloseInv'
<1>1. /\ \A to, x \in Ends, t \in Tuns, i \in Nat : PendingAt(to, t, x, i)' <=> PendingAt(to, t, x, i)
      /\ \A to \in Ends, t \in Tuns, i \in Nat : ClosedAt(to, t, i)' <=> ClosedAt(to, t, i)
  BY SendsOnePlaces
<1>2. \A t \in Tuns : tunState'[t] = "closed" <=> tunState[t] = "closed"
  BY ClosedHistory DEF SendsOne, NoneClosed
<1>3. \A t \in Tuns : tunState[t] = "closed" =>
         EndsOf(t)' = EndsOf(t) /\ \A to \in EndsOf(t) : Receives(to)' => Receives(to)
  BY ClosedHistory
<1> QED BY <1>1, <1>2, <1>3 DEF CloseInv
LEMMA CloseTellsBoth ==
    ASSUME TypeOK, ParticipantsInv, CloseInv, [TunnelsNext]_vars,
           NEW e \in Ends, NEW u \in Tuns, TellsBoth(e, u)
    PROVE  CloseInv'
<1>1. /\ \A to, x \in Ends, t \in Tuns, i \in Nat :
            PendingAt(to, t, x, i)' <=>
               \/ PendingAt(to, t, x, i)
               \/ /\ x = e /\ t = u
                  /\ (i = 1 /\ to = tunHost[u]) \/ (i = 2 /\ to = tunClient[u])
      /\ \A to \in Ends, t \in Tuns, i \in Nat : ClosedAt(to, t, i)' <=> ClosedAt(to, t, i)
  BY TellsBothPlaces
<1>2. \A t \in Tuns : tunState'[t] = "closed" <=> tunState[t] = "closed" \/ t = u
  BY DEF TellsBoth, TypeOK
<1>3. \A t \in Tuns : tunState[t] = "closed" =>
         EndsOf(t)' = EndsOf(t) /\ \A to \in EndsOf(t) : Receives(to)' => Receives(to)
  BY ClosedHistory
<1>4. /\ tunState[u] # "closed" /\ EndsOf(u)' = EndsOf(u) /\ tunHost[u] # tunClient[u]
      /\ tunHost[u] \in Ends /\ tunClient[u] \in Ends
  BY TunnelAssumption, EndsType DEF TellsBoth, EndsOf, Used, ParticipantsInv
<1>5. \A to, x \in Ends, i \in Nat : ~PendingAt(to, u, x, i) /\ ~ClosedAt(to, u, i)
  BY <1>4 DEF CloseInv
<1> SUFFICES ASSUME NEW to \in Ends, NEW t \in Tuns
             PROVE  /\ \A i, j \in Nat : ClosedAt(to, t, i)' /\ ClosedAt(to, t, j)' => i = j
                    /\ \A x, y \in Ends, i, j \in Nat :
                          PendingAt(to, t, x, i)' /\ PendingAt(to, t, y, j)' => x = y /\ i = j
                    /\ \A x \in Ends, i, j \in Nat :
                          ~(PendingAt(to, t, x, i)' /\ ClosedAt(to, t, j)')
                    /\ \A x \in Ends, i \in Nat :
                          PendingAt(to, t, x, i)' \/ ClosedAt(to, t, i)' => tunState'[t] = "closed"
                    /\ tunState'[t] = "closed" /\ to \in EndsOf(t)' /\ Receives(to)' =>
                          \E i \in Nat : \/ ClosedAt(to, t, i)'
                                        \/ \E x \in Ends : PendingAt(to, t, x, i)'
  BY DEF CloseInv
<1>6. CASE t # u BY <1>1, <1>2, <1>3, <1>6 DEF CloseInv
<1>7. CASE t = u
  <2>1. \A i \in Nat : ~ClosedAt(to, u, i)' BY <1>1, <1>5
  <2>2. \A x \in Ends, i \in Nat :
           PendingAt(to, u, x, i)' <=>
              x = e /\ ((i = 1 /\ to = tunHost[u]) \/ (i = 2 /\ to = tunClient[u]))
    BY <1>1, <1>5
  <2>3. to \in EndsOf(u)' => \E i \in Nat : PendingAt(to, u, e, i)'
    BY <1>4, <2>2 DEF EndsOf
  <2> QED BY <1>2, <1>4, <1>7, <2>1, <2>2, <2>3
<1> QED BY <1>6, <1>7

LEMMA CloseDeliver ==
    ASSUME TypeOK, ParticipantsInv, CloseInv, [TunnelsNext]_vars, NEW e \in Ends, Deliver(e)
    PROVE  CloseInv'
<1>1. /\ \A to, x \in Ends, t \in Tuns, i \in Nat :
            PendingAt(to, t, x, i)' <=>
               IF x = e THEN i # 0 /\ PendingAt(to, t, e, i + 1) ELSE PendingAt(to, t, x, i)
      /\ \A to \in Ends, t \in Tuns, i \in Nat :
            ClosedAt(to, t, i)' <=>
               \/ ClosedAt(to, t, i)
               \/ i = Len(got[to]) + 1 /\ PendingAt(to, t, e, 1) /\ Receives(to)
  BY DeliverPlaces
<1>2. \A t \in Tuns : tunState'[t] = tunState[t] BY DEF Deliver
<1>3. \A t \in Tuns : tunState[t] = "closed" =>
         EndsOf(t)' = EndsOf(t) /\ \A to \in EndsOf(t) : Receives(to)' => Receives(to)
  BY ClosedHistory
<1>4. \A to \in Ends : Len(got[to]) + 1 \in Nat BY LenProperties DEF TypeOK
<1>5. \A to, x \in Ends, t \in Tuns, i \in Nat : PendingAt(to, t, x, i) => i # 0 /\ i - 1 \in Nat
  BY DEF PendingAt
<1> SUFFICES ASSUME NEW to \in Ends, NEW t \in Tuns
             PROVE  /\ \A i, j \in Nat : ClosedAt(to, t, i)' /\ ClosedAt(to, t, j)' => i = j
                    /\ \A x, y \in Ends, i, j \in Nat :
                          PendingAt(to, t, x, i)' /\ PendingAt(to, t, y, j)' => x = y /\ i = j
                    /\ \A x \in Ends, i, j \in Nat :
                          ~(PendingAt(to, t, x, i)' /\ ClosedAt(to, t, j)')
                    /\ \A x \in Ends, i \in Nat :
                          PendingAt(to, t, x, i)' \/ ClosedAt(to, t, i)' => tunState'[t] = "closed"
                    /\ tunState'[t] = "closed" /\ to \in EndsOf(t)' /\ Receives(to)' =>
                          \E i \in Nat : \/ ClosedAt(to, t, i)'
                                        \/ \E x \in Ends : PendingAt(to, t, x, i)'
  BY DEF CloseInv
<1>6. \A i, j \in Nat : ClosedAt(to, t, i)' /\ ClosedAt(to, t, j)' => i = j
  BY <1>1 DEF CloseInv
<1>7. \A x, y \in Ends, i, j \in Nat :
         PendingAt(to, t, x, i)' /\ PendingAt(to, t, y, j)' => x = y /\ i = j
  <2> SUFFICES ASSUME NEW x \in Ends, NEW y \in Ends, NEW i \in Nat, NEW j \in Nat,
                      PendingAt(to, t, x, i)', PendingAt(to, t, y, j)'
               PROVE  x = y /\ i = j
    OBVIOUS
  <2> DEFINE old(z, k) == IF z = e THEN k + 1 ELSE k
  <2>1. /\ old(x, i) \in Nat /\ PendingAt(to, t, x, old(x, i))
        /\ old(y, j) \in Nat /\ PendingAt(to, t, y, old(y, j))
    BY <1>1
  <2>2. x = y /\ old(x, i) = old(y, j) BY <2>1 DEF CloseInv
  <2> QED BY <2>2
<1>8. \A x \in Ends, i, j \in Nat : ~(PendingAt(to, t, x, i)' /\ ClosedAt(to, t, j)')
  <2> SUFFICES ASSUME NEW x \in Ends, NEW i \in Nat, NEW j \in Nat,
                      PendingAt(to, t, x, i)', ClosedAt(to, t, j)'
               PROVE  FALSE
    OBVIOUS
  <2> DEFINE k == IF x = e THEN i + 1 ELSE i
  <2>1. k \in Nat /\ PendingAt(to, t, x, k) /\ (x = e => k # 1) BY <1>1
  <2>2. ~ClosedAt(to, t, j) BY <2>1 DEF CloseInv
  <2>3. PendingAt(to, t, e, 1) BY <1>1, <2>2
  <2> QED BY <2>1, <2>3 DEF CloseInv
<1>9. \A x \in Ends, i \in Nat :
         PendingAt(to, t, x, i)' \/ ClosedAt(to, t, i)' => tunState'[t] = "closed"
  <2> SUFFICES ASSUME NEW x \in Ends, NEW i \in Nat, PendingAt(to, t, x, i)' \/ ClosedAt(to, t, i)'
               PROVE  tunState[t] = "closed"
    BY <1>2
  <2>1. \/ \E k \in Nat : PendingAt(to, t, x, k) \/ PendingAt(to, t, e, k)
        \/ ClosedAt(to, t, i)
    BY <1>1
  <2> QED BY <2>1 DEF CloseInv
<1>10. ASSUME tunState'[t] = "closed", to \in EndsOf(t)', Receives(to)'
       PROVE  \E i \in Nat : ClosedAt(to, t, i)' \/ \E x \in Ends : PendingAt(to, t, x, i)'
  <2>1. tunState[t] = "closed" /\ to \in EndsOf(t) /\ Receives(to) BY <1>2, <1>3, <1>10
  <2>2. PICK i \in Nat : ClosedAt(to, t, i) \/ \E x \in Ends : PendingAt(to, t, x, i)
    BY <2>1 DEF CloseInv
  <2>3. CASE ClosedAt(to, t, i) BY <1>1, <2>3
  <2>4. ASSUME NEW x \in Ends, PendingAt(to, t, x, i), x # e PROVE PendingAt(to, t, x, i)'
    BY <1>1, <2>4
  <2>5. CASE PendingAt(to, t, e, i) /\ i = 1
    <3>1. PICK n \in Nat : n = Len(got[to]) + 1 BY <1>4
    <3>2. ClosedAt(to, t, n)' BY <1>1, <2>1, <2>5, <3>1
    <3> QED BY <3>2
  <2>6. CASE PendingAt(to, t, e, i) /\ i # 1
    <3>1. i - 1 \in Nat /\ i - 1 # 0 /\ (i - 1) + 1 = i BY <1>5, <2>6
    <3>2. PendingAt(to, t, e, i - 1)' BY <1>1, <2>6, <3>1
    <3> QED BY <3>1, <3>2
  <2> QED BY <2>2, <2>3, <2>4, <2>5, <2>6
<1> QED BY <1>6, <1>7, <1>8, <1>9, <1>10
LEMMA CloseStep ==
    TypeOK /\ ParticipantsInv /\ TrafficInv /\ CloseInv /\ [TunnelsNext]_vars => CloseInv'
BY StepKinds, ClosedHistory, CloseQuiet, CloseSendsOne, CloseTellsBoth, CloseDeliver DEF Quiet

-----------------------------------------------------------------------------
LEMMA IInvInit == TunnelsInit => IInv
<1> SUFFICES ASSUME TunnelsInit PROVE IInv
  OBVIOUS
<1>1. TypeOK
  BY DEF TunnelsInit, SessionInit, TypeOK, SessionTypeOK, SessionPcs
<1>2. ParticipantsInv /\ TunnelHasClient
  BY DEF TunnelsInit, SessionInit, ParticipantsInv, TunnelHasClient, Used
<1>3. \A e \in Ends : got[e] = <<>> /\ out[e] = <<>> BY DEF TunnelsInit
<1>4. TrafficInv
  <2>1. \A e \in Ends : Len(got[e]) = 0 /\ Len(out[e]) = 0 BY <1>3
  <2> QED BY <2>1 DEF TrafficInv
<1>5. CloseInv
  <2>1. \A to \in Ends, t \in Tuns, i \in Nat : ~ClosedAt(to, t, i) BY <1>3 DEF ClosedAt
  <2>2. \A to, e \in Ends, t \in Tuns, i \in Nat : ~PendingAt(to, t, e, i) BY <1>3 DEF PendingAt
  <2> QED BY <2>1, <2>2 DEF CloseInv, TunnelsInit
<1> QED BY <1>1, <1>2, <1>4, <1>5 DEF IInv

\* The inductive invariant holds of every behaviour.
THEOREM IInvInvariant == TunnelsSpec => []IInv
<1>1. IInv /\ [TunnelsNext]_vars => IInv'
  BY TypeStep, ParticipantsStep, TrafficStep, HasClientStep, CloseStep DEF IInv
<1> QED BY IInvInit, <1>1, PTL DEF TunnelsSpec

\* Types: in particular nothing is ever written to a session or a client that is not
\* there, although every lookup is used after its unlock.
THEOREM TypeCorrect == TunnelsSpec => []TypeOK
<1>1. IInv => TypeOK BY DEF IInv
<1> QED BY IInvInvariant, <1>1, PTL

\* A client gets frames only on tunnels of its own, from the host session the tunnel
\* was opened to or from itself (relay.go, newTunnelID, routeToClient).
THEOREM FramesFromOwnHostCorrect == TunnelsSpec => []FramesFromOwnHost
<1>1. IInv => FramesFromOwnHost
  <2> SUFFICES ASSUME IInv, NEW c \in Clients, NEW i \in 1..Len(got[c])
               PROVE  LET f == got[c][i] IN tunClient[f.tun] = c /\ f.from \in {tunHost[f.tun], c}
    BY DEF FramesFromOwnHost
  <2> DEFINE f == got[c][i]
  <2>1. got[c] \in Seq(Frames) /\ Addressed(f, c) BY DEF IInv, TypeOK, TrafficInv, Ends
  <2>2. f.tun \in Tuns
    <3>1. f \in Frames BY <2>1, ElementOfSeq
    <3> QED BY <3>1 DEF Frames
  <2>3. tunHost[f.tun] # c
    BY <2>1, <2>2, TunnelAssumption DEF IInv, Addressed, ParticipantsInv
  <2> QED BY <2>1, <2>3 DEF Addressed, EndsOf
<1> QED BY IInvInvariant, <1>1, PTL

\* Relay.tunnels does not leak: a client takes its tunnels along (relay.go,
\* dropTunnelsForClientLocked).
THEOREM TunnelHasClientCorrect == TunnelsSpec => []TunnelHasClient
<1>1. IInv => TunnelHasClient BY DEF IInv
<1> QED BY IInvInvariant, <1>1, PTL

\* The closes an end has received are at most one place, which is counted.
LEMMA CloseCount ==
    ASSUME TypeOK, CloseInv, NEW e \in Ends, NEW t \in Tuns
    PROVE  /\ Closes(e, t) \in {0, 1}
           /\ Closes(e, t) = 1 <=> \E i \in Nat : ClosedAt(e, t, i)
<1> DEFINE S == {i \in 1..Len(got[e]) : got[e][i] = Frame("tun.close", t, got[e][i].from)}
<1>0. got[e] \in Seq(Frames) /\ Len(got[e]) \in Nat BY LenProperties DEF TypeOK
<1>1. ASSUME NEW i \in 1..Len(got[e]) PROVE i \in S <=> ClosedAt(e, t, i)
  <2>1. got[e][i] \in Frames BY <1>0, ElementOfSeq
  <2> QED BY <2>1 DEF Frames, Frame, ClosedAt
<1>2. \A i \in Nat : i \in S <=> ClosedAt(e, t, i) BY <1>0, <1>1 DEF ClosedAt
<1>3. CASE \E i \in Nat : ClosedAt(e, t, i)
  <2>1. PICK i \in Nat : ClosedAt(e, t, i) BY <1>3
  <2>2. S = {i} BY <1>0, <1>2, <2>1 DEF CloseInv
  <2>3. Cardinality(S) = 1 BY <2>2, FS_Singleton
  <2> QED BY <1>3, <2>3 DEF Closes
<1>4. CASE ~\E i \in Nat : ClosedAt(e, t, i)
  <2>1. S = {} BY <1>0, <1>2, <1>4
  <2>2. Cardinality(S) = 0 BY <2>1, FS_EmptySet
  <2> QED BY <1>4, <2>2 DEF Closes
<1> QED BY <1>3, <1>4

\* Each end of a tunnel is told of its close once, whichever of the two closes it and
\* though both may at the same time (relay.go, closeTunnelLocked).
THEOREM CloseToldOnceCorrect == TunnelsSpec => []CloseToldOnce
<1>1. IInv => CloseToldOnce
  <2> SUFFICES ASSUME IInv, NEW t \in Tuns, Used(t), NEW e \in EndsOf(t)
               PROVE  /\ Closes(e, t) <= 1
                      /\ tunState[t] = "closed" /\ Receives(e) /\ ~ClosePending(e, t) =>
                            Closes(e, t) = 1
                      /\ tunState[t] = "open" => Closes(e, t) = 0
    BY DEF CloseToldOnce, Used, EndsOf
  <2>1. e \in Ends BY DEF IInv, ParticipantsInv, EndsOf, Ends
  <2>2. /\ Closes(e, t) \in {0, 1}
        /\ Closes(e, t) = 1 <=> \E i \in Nat : ClosedAt(e, t, i)
    BY <2>1, CloseCount DEF IInv
  <2>3. ASSUME tunState[t] = "closed", Receives(e), ~ClosePending(e, t) PROVE Closes(e, t) = 1
    <3>1. \A x \in Ends, i \in Nat : ~PendingAt(e, t, x, i) BY <2>3 DEF ClosePending, PendingAt
    <3> QED BY <2>1, <2>2, <2>3, <3>1 DEF IInv, CloseInv
  <2>4. ASSUME tunState[t] = "open" PROVE Closes(e, t) = 0
    BY <2>1, <2>2, <2>4 DEF IInv, CloseInv
  <2> QED BY <2>2, <2>3, <2>4
<1> QED BY IInvInvariant, <1>1, PTL
=============================================================================
