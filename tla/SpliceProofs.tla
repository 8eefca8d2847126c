------------------------------ MODULE SpliceProofs ------------------------------
(***************************************************************************)
(* Proofs about the data channel, for any number of bytes and any capacity *)
(* of a connection: the chain of sockets, buffers and copies between the   *)
(* browser and the local service implements BytePipe.  The bytes are       *)
(* followed from the sink to the source (FlowInv): what an end has got     *)
(* says which byte is first on the last connection, that one which byte is *)
(* in the hand of the copy before it, and so on, up to a place where a     *)
(* byte was lost and from where none can follow.                           *)
(***************************************************************************)
EXTENDS Splice, TLAPS, SequenceTheorems

\* The number of bytes of a connection that are in the buffered reader of the host,
\* and of those a copy has read and not written.
Beyond(d, h) == IF d = "up" /\ h = 2 THEN Len(ahead) ELSE 0
Held(d, n) == IF hand[<<d, n>>] = None THEN 0 ELSE 1

\* How many bytes were written to a connection and read from it, if none was lost
\* further down.
Written(d, out, h) == out + Beyond(d, h) + Len(pipe[d][h].q) - Framed(pipe[d][h].q)
Written3(d) == Written(d, Len(got[d]), 3)
Taken2(d) == Written3(d) + Held(d, 2)
Written2(d) == Written(d, Taken2(d), 2)
Taken1(d) == Written2(d) + Held(d, 1)
Written1(d) == Written(d, Taken1(d), 1)

\* The bytes of a queue behind the first k entries are from + 1, from + 2, ...
Run(q, k, from) == \A i \in 1..(Len(q) - k) : q[i + k] = from + i

\* A copy has lost no byte.
Linked(d, n) == ~broken \/ (copyPc[<<d, n>>] # "done" /\ ~Dead(d, n + 1))

Flow3(d) == Run(pipe[d][3].q, 0, Len(got[d]))
Flow2(d) == Linked(d, 2) =>
    /\ hand[<<d, 2>>] \in {None, Written3(d) + 1}
    /\ d = "up" => Run(ahead, 0, Taken2(d))
    /\ Run(pipe[d][2].q, Framed(pipe[d][2].q), Taken2(d) + Beyond(d, 2))
Flow1(d) == Linked(d, 2) /\ Linked(d, 1) =>
    /\ hand[<<d, 1>>] \in {None, Written2(d) + 1}
    /\ Run(pipe[d][1].q, 0, Taken1(d))
    /\ ~Dead(d, 1) => sent[d] = Written1(d)
FlowInv == \A d \in Dirs : Flow3(d) /\ Flow2(d) /\ Flow1(d)

\* Which copies run, and who has closed a socket.
PlaceInv ==
    /\ procPc["relay"] \in {"splicing", "closed"}
    /\ \A p \in Procs : \A c \in CopiesOf(p) :
          /\ copyPc[c] = "copy" => procPc[p] = "splicing"
          /\ procPc[p] = "splicing" => copyPc[c] # "off"
          /\ procPc[p] \in {"attach", "dial"} => copyPc[c] = "off"
    /\ \A c \in Copies : hand[c] # None => copyPc[c] = "copy"
    /\ \A p \in Procs, s \in closed : s \in SocksOf(p) => procPc[p] = "closed"

\* data.ack is in front of all bytes, and is read before the splice.
AckInv ==
    /\ \A d \in Dirs, h \in Hops : \A i \in 1..Len(pipe[d][h].q) :
          pipe[d][h].q[i] = Ack => d = "up" /\ h = 2 /\ i = 1 /\ procPc["host"] \in {"attach", "closed"}
    /\ procPc["host"] = "attach" => ahead = <<>>
    /\ procPc["host"] = "attach" => pipe["up"][2].q # <<>> /\ Head(pipe["up"][2].q) = Ack

\* Nothing is on the way that was not sent.
BoundInv == \A d \in Dirs :
    /\ \A h \in Hops : \A i \in 1..Len(pipe[d][h].q) : pipe[d][h].q[i] <= sent[d]
    /\ \A n \in {1, 2} : hand[<<d, n>>] <= sent[d]
    /\ d = "up" => \A i \in 1..Len(ahead) : ahead[i] <= sent[d]

\* As long as nothing broke, an end of stream is sent behind the last byte only.
EndOrder(d) ==
    /\ pipe[d][1].fin <=> finished[d]
    /\ seen[d] # "broken"
    /\ seen[d] = "eof" => AtEof(d, 3)
    /\ Sock(d, 0, 1) \in closed => finished[d] /\ seen[Other(d)] = "eof"
CopyOrder(d, n) ==
    /\ copyPc[<<d, n>>] = "done" <=> pipe[d][n + 1].fin
    /\ copyPc[<<d, n>>] = "done" => AtEof(d, n) /\ ~Buffered(d, n)
OrderlyInv == ~broken =>
    /\ reset = {}
    /\ \A d \in Dirs : EndOrder(d) /\ \A n \in {1, 2} : CopyOrder(d, n)
    /\ \A p \in Procs : procPc[p] = "closed" => Done(p)

SpliceInv == SpliceTypeOK /\ PlaceInv /\ AckInv /\ BoundInv /\ FlowInv /\ OrderlyInv

-----------------------------------------------------------------------------
\* Queues.
Items == {Ack} \cup Bytes
PipeType == [Dirs -> [Hops -> [q : Seq(Items), fin : BOOLEAN]]]

LEMMA ItemsNat == Bytes \subseteq Nat \ {0} /\ Items \subseteq Nat /\ None \notin Items
BY SpliceAssumption DEF Items, Bytes, Dirs, Ack, None

LEMMA QueueType ==
    ASSUME SpliceTypeOK, NEW d \in Dirs, NEW h \in Hops
    PROVE  /\ pipe \in PipeType /\ pipe[d][h].q \in Seq(Items) /\ Len(pipe[d][h].q) \in Nat
           /\ \A i \in 1..Len(pipe[d][h].q) : pipe[d][h].q[i] \in Items
           /\ pipe[d][h].fin \in BOOLEAN
<1>1. pipe \in PipeType BY DEF SpliceTypeOK, PipeType, Items
<1>2. pipe[d][h] \in [q : Seq(Items), fin : BOOLEAN] BY <1>1 DEF PipeType
<1>3. pipe[d][h].q \in Seq(Items) /\ pipe[d][h].fin \in BOOLEAN BY <1>2
<1> QED BY <1>1, <1>3, LenProperties, ElementOfSeq

Put(d, h, x) == pipe' = [pipe EXCEPT ![d][h].q = x]

LEMMA QueueSet ==
    ASSUME SpliceTypeOK, NEW d \in Dirs, NEW h \in Hops, NEW x \in Seq(Items), Put(d, h, x)
    PROVE  /\ pipe' \in PipeType
           /\ pipe'[d][h].q = x /\ pipe'[d][h].fin = pipe[d][h].fin
           /\ \A e \in Dirs, k \in Hops : ~(e = d /\ k = h) => pipe'[e][k] = pipe[e][k]
<1>1. pipe \in PipeType BY QueueType
<1>2. pipe' = [pipe EXCEPT ![d] = [pipe[d] EXCEPT ![h] = [pipe[d][h] EXCEPT !.q = x]]] BY DEF Put
<1>3. pipe[d] \in [Hops -> [q : Seq(Items), fin : BOOLEAN]] BY <1>1 DEF PipeType
<1>4. pipe[d][h] \in [q : Seq(Items), fin : BOOLEAN] BY <1>3
<1> DEFINE r == [pipe[d][h] EXCEPT !.q = x]
           f == [pipe[d] EXCEPT ![h] = r]
<1>5. r \in [q : Seq(Items), fin : BOOLEAN] /\ r.q = x /\ r.fin = pipe[d][h].fin BY <1>4
<1> HIDE DEF r
<1>6. f \in [Hops -> [q : Seq(Items), fin : BOOLEAN]] /\ f[h] = r
      /\ \A k \in Hops : k # h => f[k] = pipe[d][k]
  BY <1>3, <1>5
<1>7. pipe' = [pipe EXCEPT ![d] = f] BY <1>2 DEF r
<1> HIDE DEF f
<1>8. pipe' \in PipeType /\ pipe'[d] = f /\ \A e \in Dirs : e # d => pipe'[e] = pipe[e]
  BY <1>1, <1>6, <1>7 DEF PipeType
<1> QED BY <1>5, <1>6, <1>8

LEMMA FinSet ==
    ASSUME SpliceTypeOK, NEW d \in Dirs, NEW h \in Hops, SendFin(d, h)
    PROVE  /\ pipe' \in PipeType
           /\ \A e \in Dirs, k \in Hops :
                 /\ pipe'[e][k].q = pipe[e][k].q
                 /\ pipe'[e][k].fin = (pipe[e][k].fin \/ (e = d /\ k = h))
<1>1. pipe \in PipeType BY QueueType
<1>2. pipe' = [pipe EXCEPT ![d] = [pipe[d] EXCEPT ![h] = [pipe[d][h] EXCEPT !.fin = TRUE]]]
  BY DEF SendFin
<1>3. pipe[d] \in [Hops -> [q : Seq(Items), fin : BOOLEAN]] BY <1>1 DEF PipeType
<1>4. pipe[d][h] \in [q : Seq(Items), fin : BOOLEAN] BY <1>3
<1> DEFINE r == [pipe[d][h] EXCEPT !.fin = TRUE]
           f == [pipe[d] EXCEPT ![h] = r]
<1>5. r \in [q : Seq(Items), fin : BOOLEAN] /\ r.q = pipe[d][h].q /\ r.fin = TRUE BY <1>4
<1> HIDE DEF r
<1>6. f \in [Hops -> [q : Seq(Items), fin : BOOLEAN]] /\ f[h] = r
      /\ \A k \in Hops : k # h => f[k] = pipe[d][k]
  BY <1>3, <1>5
<1>7. pipe' = [pipe EXCEPT ![d] = f] BY <1>2 DEF r
<1> HIDE DEF f
<1>8. pipe' \in PipeType /\ pipe'[d] = f /\ \A e \in Dirs : e # d => pipe'[e] = pipe[e]
  BY <1>1, <1>6, <1>7 DEF PipeType
<1>9. \A e \in Dirs, k \in Hops : ~(e = d /\ k = h) => pipe'[e][k] = pipe[e][k] BY <1>6, <1>8
<1>10. pipe'[d][h] = r BY <1>6, <1>8
<1>11. ASSUME NEW e \in Dirs, NEW k \in Hops
       PROVE  /\ pipe'[e][k].q = pipe[e][k].q
              /\ pipe'[e][k].fin = (pipe[e][k].fin \/ (e = d /\ k = h))
  <2>1. pipe[e][k].fin \in BOOLEAN BY QueueType
  <2>2. CASE e = d /\ k = h BY <1>5, <1>10, <2>2
  <2>3. CASE ~(e = d /\ k = h) BY <1>9, <2>1, <2>3
  <2> QED BY <2>2, <2>3
<1> QED BY <1>8, <1>11

LEMMA SocksClosed ==
    ASSUME SpliceTypeOK, NEW S, CloseSocks(S)
    PROVE  /\ pipe' \in PipeType
           /\ \A e \in Dirs, k \in Hops :
                 /\ pipe'[e][k].q = pipe[e][k].q
                 /\ pipe'[e][k].fin = (pipe[e][k].fin \/ Sock(e, k - 1, k) \in S)
<1> DEFINE r(e, k) == [pipe[e][k] EXCEPT !.fin = pipe[e][k].fin \/ Sock(e, k - 1, k) \in S]
<1>1. pipe' = [e \in Dirs |-> [k \in Hops |-> r(e, k)]] BY DEF CloseSocks
<1>2. \A e \in Dirs, k \in Hops :
         /\ r(e, k) \in [q : Seq(Items), fin : BOOLEAN] /\ r(e, k).q = pipe[e][k].q
         /\ r(e, k).fin = (pipe[e][k].fin \/ Sock(e, k - 1, k) \in S)
  <2> TAKE e \in Dirs, k \in Hops
  <2>1. pipe[e][k] \in [q : Seq(Items), fin : BOOLEAN] BY QueueType DEF PipeType
  <2> QED BY <2>1
<1> HIDE DEF r
<1> QED BY <1>1, <1>2 DEF PipeType

\* Numbered runs: a byte behind a run, a run without its first byte, and a run that
\* the frame was in front of, cut in two.
LEMMA RunAppend ==
    ASSUME NEW q \in Seq(Items), NEW b \in Items, NEW k \in {0, 1}, k <= Len(q),
           NEW from \in Int, Run(q, k, from), b = from + Len(q) - k + 1
    PROVE  Run(Append(q, b), k, from) /\ Len(Append(q, b)) = Len(q) + 1
<1> DEFINE r == Append(q, b)
<1>1. Len(q) \in Nat BY LenProperties
<1>2. /\ Len(r) = Len(q) + 1
      /\ \A i \in 1..Len(q) : r[i] = q[i]
      /\ r[Len(q) + 1] = b
  BY AppendProperties
<1> HIDE DEF r
<1>3. ASSUME NEW i \in 1..(Len(r) - k) PROVE r[i + k] = from + i
  <2>1. CASE i = Len(q) + 1 - k BY <1>1, <1>2, <2>1
  <2>2. CASE i # Len(q) + 1 - k
    <3>1. i \in 1..(Len(q) - k) /\ i + k \in 1..Len(q) BY <1>1, <1>2, <2>2
    <3> QED BY <1>2, <3>1 DEF Run
  <2> QED BY <2>1, <2>2
<1> QED BY <1>2, <1>3 DEF Run, r

LEMMA RunTail ==
    ASSUME NEW q \in Seq(Items), q # <<>>, NEW from \in Int, Run(q, 0, from)
    PROVE  /\ Head(q) = from + 1 /\ Run(Tail(q), 0, from + 1)
           /\ Len(Tail(q)) = Len(q) - 1 /\ Len(q) \in Nat \ {0}
<1>1. Len(q) \in Nat \ {0} BY LenProperties, EmptySeq
<1>2. /\ Len(Tail(q)) = Len(q) - 1
      /\ \A i \in 1..Len(Tail(q)) : Tail(q)[i] = q[i + 1]
  BY HeadTailProperties
<1>3. Head(q) = q[1] OBVIOUS
<1>4. 1 \in 1..(Len(q) - 0) /\ q[1 + 0] = q[1] BY <1>1
<1>5. Head(q) = from + 1 BY <1>3, <1>4 DEF Run
<1>6. ASSUME NEW i \in 1..(Len(Tail(q)) - 0) PROVE Tail(q)[i + 0] = (from + 1) + i
  <2>1. i \in 1..Len(Tail(q)) /\ i + 1 \in 1..(Len(q) - 0) /\ i + 0 = i /\ (i + 1) + 0 = i + 1
    BY <1>1, <1>2
  <2>2. q[i + 1] = from + (i + 1) BY <2>1 DEF Run
  <2> QED BY <1>2, <2>1, <2>2
<1> QED BY <1>1, <1>2, <1>5, <1>6 DEF Run

LEMMA RunCut ==
    ASSUME NEW q \in Seq(Items), NEW from \in Int, Run(q, 1, from), NEW k \in 1..Len(q)
    PROVE  /\ Run(SubSeq(q, 2, k), 0, from) /\ Len(SubSeq(q, 2, k)) = k - 1
           /\ Run(SubSeq(q, k + 1, Len(q)), 0, from + k - 1)
           /\ Len(SubSeq(q, k + 1, Len(q))) = Len(q) - k
           /\ SubSeq(q, k + 1, Len(q)) \in Seq(Items)
<1>1. Len(q) \in Nat /\ \A i \in 1..Len(q) : q[i] \in Items BY LenProperties, ElementOfSeq
<1> DEFINE a == SubSeq(q, 2, k)
           b == SubSeq(q, k + 1, Len(q))
<1>2. Len(a) = k - 1 /\ \A i \in 1..(k - 1) : a[i] = q[i + 1]
  <2>1. \A i \in 2..k : q[i] \in Items BY <1>1
  <2>2. /\ Len(a) = IF 2 <= k THEN k - 2 + 1 ELSE 0
        /\ \A i \in 1..(k - 2 + 1) : a[i] = q[2 + i - 1]
    BY <1>1, <2>1, SubSeqProperties
  <2> HIDE DEF a
  <2>3. \A i \in 1..(k - 1) : i \in 1..(k - 2 + 1) /\ 2 + i - 1 = i + 1 BY <1>1
  <2> QED BY <1>1, <2>2, <2>3
<1>3. Len(b) = Len(q) - k /\ b \in Seq(Items) /\ \A i \in 1..(Len(q) - k) : b[i] = q[i + k]
  <2>1. \A i \in (k + 1)..Len(q) : q[i] \in Items BY <1>1
  <2>2. /\ Len(b) = IF k + 1 <= Len(q) THEN Len(q) - (k + 1) + 1 ELSE 0
        /\ \A i \in 1..(Len(q) - (k + 1) + 1) : b[i] = q[(k + 1) + i - 1]
        /\ b \in Seq(Items)
    BY <1>1, <2>1, SubSeqProperties
  <2> HIDE DEF b
  <2>3. \A i \in 1..(Len(q) - k) : i \in 1..(Len(q) - (k + 1) + 1) /\ (k + 1) + i - 1 = i + k BY <1>1
  <2> QED BY <1>1, <2>2, <2>3
<1> HIDE DEF a, b
<1>4. ASSUME NEW i \in 1..(Len(a) - 0) PROVE a[i + 0] = from + i
  <2>1. i \in 1..(k - 1) /\ i \in 1..(Len(q) - 1) /\ i + 0 = i BY <1>1, <1>2
  <2> QED BY <1>2, <2>1 DEF Run
<1>5. ASSUME NEW i \in 1..(Len(b) - 0) PROVE b[i + 0] = (from + k - 1) + i
  <2>1. /\ i \in 1..(Len(q) - k) /\ i + 0 = i
        /\ i + k - 1 \in 1..(Len(q) - 1) /\ (i + k - 1) + 1 = i + k
    BY <1>1, <1>3
  <2>2. q[i + k] = from + (i + k - 1) BY <2>1 DEF Run
  <2> QED BY <1>1, <1>3, <2>1, <2>2
<1> QED BY <1>2, <1>3, <1>4, <1>5 DEF Run, a, b

-----------------------------------------------------------------------------
\* Types.
LEMMA SocketFacts ==
    /\ \A p \in Procs : SocksOf(p) \subseteq Socks /\ CopiesOf(p) \subseteq Copies
    /\ \A d \in Dirs : Sock(d, 0, 1) \in Socks /\ Other(d) \in Dirs
    /\ \A d \in Dirs, h \in Hops : Conn(d, h) \in Hops
    /\ \A d \in Dirs : \A n \in {1, 2} : <<d, n>> \in Copies
BY DEF Procs, SocksOf, Socks, CopiesOf, Copies, Dirs, Sock, Other, Hops, Conn

LEMMA Places ==
    /\ "up" \in Dirs /\ "down" \in Dirs /\ 1 \in Hops /\ 2 \in Hops /\ 3 \in Hops
    /\ \A n \in {1, 2} : n \in Hops /\ n + 1 \in Hops
BY DEF Dirs, Hops

LEMMA SentType ==
    ASSUME SpliceTypeOK, NEW d \in Dirs
    PROVE  /\ sent[d] \in Nat /\ got[d] \in Seq(Bytes) /\ Len(got[d]) \in Nat
           /\ ahead \in Seq(Bytes) /\ Len(ahead) \in Nat
           /\ \A n \in {1, 2} : hand[<<d, n>>] \in {None} \cup Bytes /\ hand[<<d, n>>] \in Int
<1>1. sent[d] \in {0} \cup Bytes /\ got[d] \in Seq(Bytes) /\ ahead \in Seq(Bytes)
      /\ \A c \in Copies : hand[c] \in {None} \cup Bytes
  BY DEF SpliceTypeOK
<1>2. sent[d] \in Nat
  <2>1. CASE sent[d] = 0 BY <2>1
  <2>2. CASE sent[d] \in Bytes BY <2>2, ItemsNat
  <2> QED BY <1>1, <2>1, <2>2
<1>3. \A n \in {1, 2} : hand[<<d, n>>] \in {None} \cup Bytes BY <1>1, SocketFacts
<1>4. \A n \in {1, 2} : hand[<<d, n>>] \in Int
  <2>1. \A b \in Bytes : b \in Int BY ItemsNat
  <2>2. None \in Int BY DEF None
  <2> QED BY <1>3, <2>1, <2>2
<1> QED BY <1>1, <1>2, <1>3, <1>4, LenProperties

\* What Write does to the connection.
LEMMA WriteCases ==
    ASSUME SpliceTypeOK, NEW d \in Dirs, NEW h \in Hops, NEW b \in Bytes, Write(d, h, b)
    PROVE  /\ closed' = closed /\ pipe' \in PipeType /\ ~Dead(d, h)
           /\ \/ /\ reset' = reset /\ Room(d, h)
                 /\ pipe'[d][h].q = Append(pipe[d][h].q, b) /\ pipe'[d][h].fin = pipe[d][h].fin
                 /\ \A e \in Dirs, k \in Hops : ~(e = d /\ k = h) => pipe'[e][k] = pipe[e][k]
              \/ /\ reset' = reset \cup {Conn(d, h)} /\ Sock(d, h, h) \in closed
                 /\ pipe' = pipe
<1>1. pipe \in PipeType /\ pipe[d][h].q \in Seq(Items) BY QueueType
<1>2. b \in Items BY DEF Items
<1> DEFINE x == Append(pipe[d][h].q, b)
<1>3. x \in Seq(Items) BY <1>1, <1>2, AppendProperties
<1> HIDE DEF x
<1>6. Put(d, h, x) =>
         /\ pipe' \in PipeType
         /\ pipe'[d][h].q = x /\ pipe'[d][h].fin = pipe[d][h].fin
         /\ \A e \in Dirs, k \in Hops : ~(e = d /\ k = h) => pipe'[e][k] = pipe[e][k]
  BY <1>3, QueueSet
<1>4. CASE pipe' = [pipe EXCEPT ![d][h].q = x] /\ ~Dead(d, h) /\ Room(d, h) /\ UNCHANGED <<reset, closed>>
  BY <1>4, <1>6 DEF x, Put
<1>5. CASE ~Dead(d, h) /\ Sock(d, h, h) \in closed /\ reset' = reset \cup {Conn(d, h)}
           /\ UNCHANGED <<pipe, closed>>
  BY <1>1, <1>5
<1> QED BY <1>4, <1>5 DEF Write, x

LEMMA FramedType ==
    ASSUME NEW q \in Seq(Items)
    PROVE  Framed(q) \in {0, 1} /\ Framed(q) <= Len(q) /\ Len(q) \in Nat
<1>1. Len(q) \in Nat /\ (q # <<>> => Len(q) # 0) BY LenProperties, EmptySeq
<1> QED BY <1>1 DEF Framed

LEMMA WriteType ==
    ASSUME SpliceTypeOK, NEW d \in Dirs, NEW h \in Hops, NEW b \in Bytes, Write(d, h, b)
    PROVE  /\ pipe' \in PipeType /\ reset' \subseteq Hops /\ closed' = closed
           /\ \A e \in Dirs, k \in Hops : Len(pipe'[e][k].q) <= Cap + 1
<1>1. \A e \in Dirs, k \in Hops : Len(pipe[e][k].q) <= Cap + 1 BY DEF SpliceTypeOK
<1>2. Conn(d, h) \in Hops /\ reset \subseteq Hops BY SocketFacts DEF SpliceTypeOK
<1>3. pipe[d][h].q \in Seq(Items) BY QueueType
<1>4. ASSUME Room(d, h), pipe'[d][h].q = Append(pipe[d][h].q, b) PROVE Len(pipe'[d][h].q) <= Cap + 1
  <2> DEFINE q == pipe[d][h].q
  <2>1. b \in Items BY DEF Items
  <2>2. Len(Append(q, b)) = Len(q) + 1 BY <1>3, <2>1, AppendProperties
  <2>3. Framed(q) \in {0, 1} /\ Len(q) \in Nat BY <1>3, FramedType
  <2>4. Len(q) - Framed(q) < Cap BY <1>4 DEF Room
  <2>5. Cap \in Nat BY SpliceAssumption
  <2> HIDE DEF q
  <2>6. Len(q) + 1 <= Cap + 1 BY <2>3, <2>4, <2>5
  <2> QED BY <1>4, <2>2, <2>6 DEF q
<1> QED BY <1>1, <1>2, <1>4, WriteCases

LEMMA CloseType ==
    ASSUME SpliceTypeOK, NEW S, S \subseteq Socks, CloseSocks(S)
    PROVE  /\ pipe' \in PipeType /\ reset' \subseteq Hops /\ closed' \subseteq Socks
           /\ \A e \in Dirs, k \in Hops : Len(pipe'[e][k].q) <= Cap + 1
<1>1. reset' \subseteq Hops /\ closed' \subseteq Socks BY DEF CloseSocks, SpliceTypeOK
<1>2. \A e \in Dirs, k \in Hops : Len(pipe[e][k].q) <= Cap + 1 BY DEF SpliceTypeOK
<1> QED BY <1>1, <1>2, SocksClosed

\* A queue without its first entry.
Popped(d, h) == pipe[d][h].q # <<>> /\ Put(d, h, Tail(pipe[d][h].q))

LEMMA PopType ==
    ASSUME SpliceTypeOK, NEW d \in Dirs, NEW h \in Hops, Popped(d, h)
    PROVE  /\ pipe' \in PipeType
           /\ pipe'[d][h].q = Tail(pipe[d][h].q) /\ pipe'[d][h].fin = pipe[d][h].fin
           /\ \A e \in Dirs, k \in Hops : ~(e = d /\ k = h) => pipe'[e][k] = pipe[e][k]
           /\ \A e \in Dirs, k \in Hops : Len(pipe'[e][k].q) <= Cap + 1
           /\ Head(pipe[d][h].q) = pipe[d][h].q[1] /\ 1 \in 1..Len(pipe[d][h].q)
<1> DEFINE q == pipe[d][h].q
<1>1. q \in Seq(Items) /\ q # <<>> BY QueueType DEF Popped
<1>2. /\ Tail(q) \in Seq(Items) /\ Len(Tail(q)) = Len(q) - 1 /\ Len(q) \in Nat \ {0}
      /\ Head(q) = q[1]
  BY <1>1, HeadTailProperties, LenProperties, EmptySeq
<1>3. Len(q) <= Cap + 1 /\ Cap \in Nat BY SpliceAssumption DEF SpliceTypeOK
<1>4. \A e \in Dirs, k \in Hops : Len(pipe[e][k].q) <= Cap + 1 BY DEF SpliceTypeOK
<1> DEFINE x == Tail(q)
<1>8. Put(d, h, x) BY DEF Popped
<1> HIDE DEF q, x
<1>5. /\ pipe' \in PipeType
      /\ pipe'[d][h].q = x /\ pipe'[d][h].fin = pipe[d][h].fin
      /\ \A e \in Dirs, k \in Hops : ~(e = d /\ k = h) => pipe'[e][k] = pipe[e][k]
  <2>1. x \in Seq(Items) BY <1>2 DEF x
  <2> QED BY <1>8, <2>1, QueueSet
<1>6. Len(Tail(q)) <= Cap + 1 BY <1>2, <1>3
<1>7. 1 \in 1..Len(q) BY <1>2
<1> QED BY <1>2, <1>4, <1>5, <1>6, <1>7 DEF q, x

\* A copy never reads data.ack, and no end does.
LEMMA NoFrame ==
    ASSUME SpliceTypeOK, PlaceInv, AckInv, NEW d \in Dirs, NEW h \in Hops, pipe[d][h].q # <<>>,
           h = 3 \/ copyPc[<<d, h>>] = "copy"
    PROVE  Head(pipe[d][h].q) \in Bytes /\ Framed(pipe[d][h].q) = 0
<1>1. Head(pipe[d][h].q) = pipe[d][h].q[1] /\ 1 \in 1..Len(pipe[d][h].q)
  <2>1. pipe[d][h].q \in Seq(Items) /\ Len(pipe[d][h].q) \in Nat BY QueueType
  <2>2. Len(pipe[d][h].q) # 0 BY <2>1, EmptySeq
  <2> QED BY <2>1, <2>2
<1>2. pipe[d][h].q[1] \in Items BY <1>1, QueueType
<1>3. d = "up" /\ h = 2 => procPc["host"] \notin {"attach", "closed"}
  <2>1. <<"up", 2>> \in CopiesOf("host") /\ "host" \in Procs BY DEF CopiesOf, Procs
  <2> QED BY <2>1 DEF PlaceInv
<1>4. pipe[d][h].q[1] # Ack BY <1>1, <1>3 DEF AckInv
<1> QED BY <1>1, <1>2, <1>4 DEF Items, Framed

\* What the host takes off the socket with data.ack are bytes.
LEMMA AckRead ==
    ASSUME SpliceTypeOK, AckInv, procPc["host"] = "attach", NEW k \in 1..Len(pipe["up"][2].q)
    PROVE  LET q == pipe["up"][2].q IN
           /\ q \in Seq(Items) /\ Len(q) \in Nat /\ q[1] = Ack /\ Framed(q) = 1
           /\ \A i \in 2..Len(q) : q[i] \in Bytes
           /\ SubSeq(q, 2, k) \in Seq(Bytes)
           /\ SubSeq(q, k + 1, Len(q)) \in Seq(Bytes)
           /\ Len(SubSeq(q, 2, k)) = k - 1 /\ \A i \in 1..(k - 1) : SubSeq(q, 2, k)[i] = q[i + 1]
           /\ Len(SubSeq(q, k + 1, Len(q))) = Len(q) - k
           /\ \A i \in 1..(Len(q) - k) : SubSeq(q, k + 1, Len(q))[i] = q[i + k]
<1> DEFINE q == pipe["up"][2].q
<1>0. "up" \in Dirs /\ 2 \in Hops BY DEF Dirs, Hops
<1>1. q \in Seq(Items) /\ Len(q) \in Nat /\ \A i \in 1..Len(q) : q[i] \in Items BY <1>0, QueueType
<1>2. q # <<>> /\ Head(q) = Ack BY DEF AckInv
<1>3. Head(q) = q[1] BY <1>1, <1>2
<1>4. \A i \in 2..Len(q) : q[i] \in Bytes
  <2> SUFFICES ASSUME NEW i \in 2..Len(q) PROVE q[i] \in Bytes
    OBVIOUS
  <2>1. i \in 1..Len(q) /\ i # 1 BY <1>1
  <2>2. q[i] # Ack BY <1>0, <2>1 DEF AckInv
  <2> QED BY <1>1, <2>1, <2>2 DEF Items
<1>5. Framed(q) = 1 BY <1>2 DEF Framed
<1> HIDE DEF q
<1>6. \A i \in 2..k : q[i] \in Bytes BY <1>1, <1>4 DEF q
<1>7. \A i \in (k + 1)..Len(q) : q[i] \in Bytes BY <1>1, <1>4 DEF q
<1>8. k \in 1..Len(q) BY DEF q
<1>9. /\ SubSeq(q, 2, k) \in Seq(Bytes)
      /\ Len(SubSeq(q, 2, k)) = IF 2 <= k THEN k - 2 + 1 ELSE 0
      /\ \A i \in 1..(k - 2 + 1) : SubSeq(q, 2, k)[i] = q[2 + i - 1]
  BY <1>1, <1>6, <1>8, SubSeqProperties
<1>10. /\ SubSeq(q, k + 1, Len(q)) \in Seq(Bytes)
       /\ Len(SubSeq(q, k + 1, Len(q))) = IF k + 1 <= Len(q) THEN Len(q) - (k + 1) + 1 ELSE 0
       /\ \A i \in 1..(Len(q) - (k + 1) + 1) : SubSeq(q, k + 1, Len(q))[i] = q[(k + 1) + i - 1]
  BY <1>1, <1>7, <1>8, SubSeqProperties
<1>11. Len(SubSeq(q, 2, k)) = k - 1 /\ \A i \in 1..(k - 1) : SubSeq(q, 2, k)[i] = q[i + 1]
  <2>1. \A i \in 1..(k - 1) : i \in 1..(k - 2 + 1) /\ 2 + i - 1 = i + 1 BY <1>1, <1>8
  <2> QED BY <1>1, <1>8, <1>9, <2>1
<1>12. /\ Len(SubSeq(q, k + 1, Len(q))) = Len(q) - k
       /\ \A i \in 1..(Len(q) - k) : SubSeq(q, k + 1, Len(q))[i] = q[i + k]
  <2>1. \A i \in 1..(Len(q) - k) : i \in 1..(Len(q) - (k + 1) + 1) /\ (k + 1) + i - 1 = i + k
    BY <1>1, <1>8
  <2> QED BY <1>1, <1>8, <1>10, <2>1
<1> QED BY <1>1, <1>2, <1>3, <1>4, <1>5, <1>9, <1>10, <1>11, <1>12 DEF q

LEMMA AckReadPipe ==
    ASSUME SpliceTypeOK, AckInv, HostReadsAck
    PROVE  \E k \in 1..Len(pipe["up"][2].q) :
              /\ ahead' = SubSeq(pipe["up"][2].q, 2, k)
              /\ pipe' \in PipeType
              /\ pipe'["up"][2].q = SubSeq(pipe["up"][2].q, k + 1, Len(pipe["up"][2].q))
              /\ pipe'["up"][2].fin = pipe["up"][2].fin
              /\ \A e \in Dirs, h \in Hops : ~(e = "up" /\ h = 2) => pipe'[e][h] = pipe[e][h]
<1>0. "up" \in Dirs /\ 2 \in Hops BY DEF Dirs, Hops
<1>1. procPc["host"] = "attach" BY DEF HostReadsAck
<1>2. PICK k \in 1..Len(pipe["up"][2].q) :
         /\ ahead' = SubSeq(pipe["up"][2].q, 2, k)
         /\ pipe' = [pipe EXCEPT !["up"][2].q = SubSeq(pipe["up"][2].q, k + 1, Len(pipe["up"][2].q))]
  BY DEF HostReadsAck, ReadAhead
<1> DEFINE x == SubSeq(pipe["up"][2].q, k + 1, Len(pipe["up"][2].q))
<1>3. x \in Seq(Bytes) BY <1>1, AckRead
<1>4. Put("up", 2, x) BY <1>2 DEF Put
<1> HIDE DEF x
<1>5. x \in Seq(Items) BY <1>3 DEF Items
<1>6. /\ pipe' \in PipeType
      /\ pipe'["up"][2].q = x /\ pipe'["up"][2].fin = pipe["up"][2].fin
      /\ \A e \in Dirs, h \in Hops : ~(e = "up" /\ h = 2) => pipe'[e][h] = pipe[e][h]
  BY <1>0, <1>4, <1>5, QueueSet
<1> QED BY <1>2, <1>6 DEF x

LEMMA SendsByte ==
    ASSUME SpliceTypeOK, NEW d \in Dirs, EndSends(d)
    PROVE  sent[d] + 1 \in Bytes
<1>1. sent[d] \in Nat BY SentType
<1>2. MaxBytes[d] \in Nat BY SpliceAssumption
<1>3. sent[d] + 1 \in 1..MaxBytes[d] BY <1>1, <1>2 DEF EndSends
<1> QED BY <1>3 DEF Bytes

LEMMA TypeStep ==
    ASSUME SpliceTypeOK, PlaceInv, AckInv, [SpliceNext]_spliceVars
    PROVE  SpliceTypeOK'
<1> USE SpliceAssumption, SocketFacts
<1> DEFINE TcpType == /\ pipe' \in PipeType /\ reset' \subseteq Hops /\ closed' \subseteq Socks
                      /\ \A e \in Dirs, k \in Hops : Len(pipe'[e][k].q) <= Cap + 1
           RestType == /\ procPc \in [Procs -> {"attach", "dial", "splicing", "closed"}]
                       /\ copyPc \in [Copies -> {"off", "copy", "done"}]
                       /\ hand \in [Copies -> {None} \cup Bytes]
                       /\ ahead \in Seq(Bytes)
                       /\ sent \in [Dirs -> {0} \cup Bytes] /\ finished \in [Dirs -> BOOLEAN]
                       /\ got \in [Dirs -> Seq(Bytes)]
                       /\ seen \in [Dirs -> {"open", "eof", "broken"}]
                       /\ broken \in BOOLEAN
<1>1. RestType BY DEF SpliceTypeOK
<1>2. UNCHANGED tcpVars => TcpType BY DEF tcpVars, SpliceTypeOK, PipeType, Items
<1>3. TcpType /\ RestType' => SpliceTypeOK' BY DEF SpliceTypeOK, PipeType, Items
<1>4. \A S \in SUBSET Socks : CloseSocks(S) => TcpType BY CloseType
<1>5. reset \subseteq Hops /\ closed \subseteq Socks
      /\ \A e \in Dirs, k \in Hops : Len(pipe[e][k].q) <= Cap + 1
  BY DEF SpliceTypeOK
<1> HIDE DEF TcpType
<1>6. CASE HostReadsAck
  <2>1. PICK k \in 1..Len(pipe["up"][2].q) :
              /\ ahead' = SubSeq(pipe["up"][2].q, 2, k)
              /\ pipe' \in PipeType
              /\ pipe'["up"][2].q = SubSeq(pipe["up"][2].q, k + 1, Len(pipe["up"][2].q))
              /\ \A e \in Dirs, h \in Hops : ~(e = "up" /\ h = 2) => pipe'[e][h] = pipe[e][h]
    BY <1>6, AckReadPipe
  <2>2. procPc["host"] = "attach" BY <1>6 DEF HostReadsAck
  <2>3. ahead' \in Seq(Bytes) BY <2>1, <2>2, AckRead
  <2>4. Len(pipe'["up"][2].q) <= Cap + 1
    <3>1. Len(pipe'["up"][2].q) = Len(pipe["up"][2].q) - k /\ Len(pipe["up"][2].q) \in Nat
      BY <2>1, <2>2, AckRead
    <3>2. Len(pipe["up"][2].q) <= Cap + 1 BY <1>5 DEF Dirs, Hops
    <3> QED BY <3>1, <3>2
  <2>5. TcpType BY <1>5, <1>6, <2>1, <2>4 DEF TcpType, HostReadsAck
  <2>6. RestType' BY <1>1, <1>6, <2>3 DEF HostReadsAck, endVars
  <2> QED BY <1>3, <2>5, <2>6
<1>7. CASE HostDials
  <2>1. RestType' BY <1>1, <1>7 DEF HostDials, endVars
  <2> QED BY <1>2, <1>3, <1>7, <2>1 DEF HostDials
<1>8. CASE HostGivesUp
  <2>1. RestType' BY <1>1, <1>8 DEF HostGivesUp, Procs
  <2>2. {<<2, 2>>} \subseteq Socks BY DEF Socks
  <2> QED BY <1>3, <1>4, <1>8, <2>1, <2>2 DEF HostGivesUp
<1>9. ASSUME NEW d \in Dirs, NEW n \in {1, 2}, CopyRead(d, n) PROVE SpliceTypeOK'
  <2>0. n \in Hops BY DEF Hops
  <2>1. CASE Buffered(d, n)
    <3>1. Head(ahead) \in Bytes /\ Tail(ahead) \in Seq(Bytes)
      BY <1>1, <2>1, HeadTailProperties DEF Buffered
    <3>2. RestType' BY <1>1, <1>9, <2>1, <3>1 DEF CopyRead, endVars
    <3> QED BY <1>2, <1>3, <1>9, <2>1, <3>2 DEF CopyRead, tcpVars
  <2>2. CASE ~Buffered(d, n)
    <3>1. pipe[d][n].q # <<>> /\ copyPc[<<d, n>>] = "copy" BY <1>9, <2>2 DEF CopyRead
    <3>2. Head(pipe[d][n].q) \in Bytes BY <2>0, <3>1, NoFrame
    <3>3. RestType' BY <1>1, <1>9, <2>2, <3>2 DEF CopyRead, endVars
    <3>4. Popped(d, n) BY <1>9, <2>2 DEF CopyRead, Popped, Put
    <3>5. TcpType BY <1>5, <1>9, <2>0, <3>4, PopType DEF CopyRead, TcpType
    <3> QED BY <1>3, <3>3, <3>5
  <2> QED BY <2>1, <2>2
<1>10. ASSUME NEW d \in Dirs, NEW n \in {1, 2}, CopyWrite(d, n) PROVE SpliceTypeOK'
  <2>1. n + 1 \in Hops BY DEF Hops
  <2>2. hand[<<d, n>>] \in Bytes BY <1>1, <1>10 DEF CopyWrite
  <2>3. TcpType BY <1>5, <1>10, <2>1, <2>2, WriteType DEF CopyWrite, TcpType
  <2>4. RestType' BY <1>1, <1>10 DEF CopyWrite, endVars
  <2> QED BY <1>3, <2>3, <2>4
<1>11. ASSUME NEW d \in Dirs, NEW h \in Hops, SendFin(d, h) PROVE TcpType
  <2>1. /\ pipe' \in PipeType
        /\ \A e \in Dirs, k \in Hops : pipe'[e][k].q = pipe[e][k].q
    BY <1>11, FinSet
  <2>2. UNCHANGED <<reset, closed>> BY <1>11 DEF SendFin
  <2> QED BY <1>5, <2>1, <2>2 DEF TcpType
<1>12. ASSUME NEW d \in Dirs, NEW n \in {1, 2}, CopyEnds(d, n) PROVE SpliceTypeOK'
  <2>1. n + 1 \in Hops BY DEF Hops
  <2>2. TcpType BY <1>11, <1>12, <2>1 DEF CopyEnds, CloseWrite
  <2>3. RestType' BY <1>1, <1>12 DEF CopyEnds, endVars
  <2> QED BY <1>3, <2>2, <2>3
<1>13. ASSUME NEW p \in Procs, SpliceOver(p) PROVE SpliceTypeOK'
  <2>1. RestType' BY <1>1, <1>13 DEF SpliceOver, endVars
  <2> QED BY <1>3, <1>4, <1>13, <2>1 DEF SpliceOver
<1>14. ASSUME NEW p \in Procs, Killed(p) PROVE SpliceTypeOK'
  <2>1. RestType' BY <1>1, <1>14 DEF Killed
  <2>2. {<<2, 2>>} \subseteq Socks BY DEF Socks
  <2> QED BY <1>3, <1>4, <1>14, <2>1, <2>2 DEF Killed
<1>15. ASSUME NEW d \in Dirs, EndSends(d) PROVE SpliceTypeOK'
  <2>1. sent[d] + 1 \in Bytes BY <1>15, SendsByte
  <2>2. 1 \in Hops BY DEF Hops
  <2>3. TcpType BY <1>5, <1>15, <2>1, <2>2, WriteType DEF EndSends, TcpType
  <2>4. RestType' BY <1>1, <1>15, <2>1 DEF EndSends, procVars
  <2> QED BY <1>3, <2>3, <2>4
<1>16. ASSUME NEW d \in Dirs, EndHalfCloses(d) PROVE SpliceTypeOK'
  <2>1. TcpType BY <1>11, <1>16 DEF EndHalfCloses, Hops
  <2>2. RestType' BY <1>1, <1>16 DEF EndHalfCloses, procVars
  <2> QED BY <1>3, <2>1, <2>2
<1>17. ASSUME NEW d \in Dirs, EndReceives(d) PROVE SpliceTypeOK'
  <2>0. 3 \in Hops BY DEF Hops
  <2>1. pipe[d][3].q # <<>> BY <1>17 DEF EndReceives
  <2>2. Head(pipe[d][3].q) \in Bytes BY <2>0, <2>1, NoFrame
  <2>3. Append(got[d], Head(pipe[d][3].q)) \in Seq(Bytes) BY <1>1, <2>2, AppendProperties
  <2>4. RestType' BY <1>1, <1>17, <2>3 DEF EndReceives, procVars
  <2>5. Popped(d, 3) BY <1>17 DEF EndReceives, Popped, Put
  <2>6. TcpType BY <1>5, <1>17, <2>0, <2>5, PopType DEF EndReceives, TcpType
  <2> QED BY <1>3, <2>4, <2>6
<1>18. ASSUME NEW d \in Dirs, EndSeesEnd(d) PROVE SpliceTypeOK'
  <2>1. RestType' BY <1>1, <1>18 DEF EndSeesEnd, procVars
  <2> QED BY <1>2, <1>3, <1>18, <2>1 DEF EndSeesEnd
<1>19. ASSUME NEW d \in Dirs, EndCloses(d) PROVE SpliceTypeOK'
  <2>1. broken' \in BOOLEAN BY <1>1, <1>19 DEF EndCloses
  <2>2. RestType' BY <1>1, <1>19, <2>1 DEF EndCloses, procVars
  <2>3. {Sock(d, 0, 1)} \in SUBSET Socks OBVIOUS
  <2> QED BY <1>3, <1>4, <1>19, <2>2, <2>3 DEF EndCloses
<1>20. CASE UNCHANGED spliceVars
  BY <1>20 DEF spliceVars, tcpVars, procVars, endVars, SpliceTypeOK
<1> QED BY <1>6, <1>7, <1>8, <1>9, <1>10, <1>12, <1>13, <1>14, <1>15, <1>16, <1>17, <1>18, <1>19, <1>20
       DEF SpliceNext

-----------------------------------------------------------------------------
\* Which copies run, data.ack, and that nothing is made up.
LEMMA SocketOwners ==
    /\ \A p, r \in Procs : \A s \in SocksOf(p) : s \in SocksOf(r) => p = r
    /\ \A p, r \in Procs : \A c \in CopiesOf(p) : c \in CopiesOf(r) => p = r
    /\ \A d \in Dirs, p \in Procs : Sock(d, 0, 1) \notin SocksOf(p)
    /\ <<2, 2>> \in SocksOf("host") /\ "host" \in Procs /\ "relay" \in Procs
    /\ \A p \in Procs : p = "relay" \/ p = "host"
    /\ \A c \in Copies : \E p \in Procs : c \in CopiesOf(p)
    /\ \A p \in Procs : CopiesOf(p) \subseteq Copies
BY DEF Procs, SocksOf, CopiesOf, Copies, Dirs, Sock

LEMMA PlaceStep ==
    ASSUME SpliceTypeOK, PlaceInv, [SpliceNext]_spliceVars
    PROVE  PlaceInv'
<1> USE SocketOwners DEF PlaceInv
<1>1. /\ procPc \in [Procs -> {"attach", "dial", "splicing", "closed"}]
      /\ copyPc \in [Copies -> {"off", "copy", "done"}]
      /\ hand \in [Copies -> {None} \cup Bytes]
  BY DEF SpliceTypeOK
<1>2. UNCHANGED <<procPc, copyPc, hand, closed>> => PlaceInv' OBVIOUS
<1>3. CASE HostReadsAck BY <1>1, <1>3 DEF HostReadsAck
<1>4. CASE HostDials BY <1>1, <1>4 DEF HostDials, tcpVars
<1>5. CASE HostGivesUp
  <2>1. /\ procPc["host"] \in {"attach", "dial"} /\ procPc' = [procPc EXCEPT !["host"] = "closed"]
        /\ closed' = closed \cup {<<2, 2>>} /\ UNCHANGED <<copyPc, hand>>
    BY <1>5 DEF HostGivesUp, CloseSocks
  <2>2. \A p \in Procs : procPc'[p] = IF p = "host" THEN "closed" ELSE procPc[p] BY <1>1, <2>1
  <2>3. \A c \in CopiesOf("host") : copyPc[c] = "off" BY <2>1
  <2>4. ASSUME NEW p \in Procs, NEW c \in CopiesOf(p)
        PROVE  /\ copyPc'[c] = "copy" => procPc'[p] = "splicing"
               /\ procPc'[p] = "splicing" => copyPc'[c] # "off"
               /\ procPc'[p] \in {"attach", "dial"} => copyPc'[c] = "off"
    <3>1. CASE p = "host" BY <2>1, <2>2, <2>3, <3>1
    <3>2. CASE p # "host" BY <2>1, <2>2, <3>2
    <3> QED BY <3>1, <3>2
  <2>5. ASSUME NEW p \in Procs, NEW s \in closed', s \in SocksOf(p) PROVE procPc'[p] = "closed"
    <3>1. CASE s \in closed BY <2>2, <2>5, <3>1
    <3>2. CASE s = <<2, 2>>
      <4>1. p = "host" BY <2>5, <3>2
      <4> QED BY <2>2, <4>1
    <3> QED BY <2>1, <3>1, <3>2
  <2>6. procPc'["relay"] \in {"splicing", "closed"} BY <2>2
  <2>7. \A c \in Copies : hand'[c] # None => copyPc'[c] = "copy" BY <2>1
  <2> QED BY <2>4, <2>5, <2>6, <2>7
<1>6. ASSUME NEW d \in Dirs, NEW n \in {1, 2}, CopyRead(d, n) PROVE PlaceInv'
  <2>1. /\ UNCHANGED <<procPc, copyPc, closed>> /\ copyPc[<<d, n>>] = "copy"
        /\ \A c \in Copies : c # <<d, n>> => hand'[c] = hand[c]
    BY <1>1, <1>6 DEF CopyRead
  <2> QED BY <1>1, <2>1
<1>7. ASSUME NEW d \in Dirs, NEW n \in {1, 2}, CopyWrite(d, n) PROVE PlaceInv'
  <2>1. UNCHANGED <<procPc, copyPc, closed>> BY <1>7 DEF CopyWrite, Write
  <2>2. \A c \in Copies : hand'[c] = hand[c] \/ hand'[c] = None BY <1>1, <1>7 DEF CopyWrite
  <2> QED BY <1>1, <2>1, <2>2
<1>8. ASSUME NEW d \in Dirs, NEW n \in {1, 2}, CopyEnds(d, n) PROVE PlaceInv'
  <2>0. <<d, n>> \in Copies BY SocketFacts
  <2>1. UNCHANGED <<procPc, closed>> BY <1>8 DEF CopyEnds, CloseWrite, SendFin
  <2>2. copyPc[<<d, n>>] = "copy" BY <1>8 DEF CopyEnds
  <2>3. \A c \in Copies : IF c = <<d, n>> THEN copyPc'[c] = "done" /\ hand'[c] = None
                          ELSE copyPc'[c] = copyPc[c] /\ hand'[c] = hand[c]
    BY <1>1, <1>8 DEF CopyEnds
  <2>4. \A p \in Procs : \A c \in CopiesOf(p) :
              /\ copyPc'[c] = "copy" => copyPc[c] = "copy"
              /\ copyPc'[c] = "off" <=> copyPc[c] = "off"
    BY <2>2, <2>3
  <2> QED BY <1>1, <2>1, <2>2, <2>3, <2>4
<1>9. ASSUME NEW p \in Procs, SpliceOver(p) PROVE PlaceInv'
  BY <1>1, <1>9 DEF SpliceOver, CloseSocks, Done
<1>10. ASSUME NEW p \in Procs, Killed(p) PROVE PlaceInv'
  <2>1. /\ procPc' = [procPc EXCEPT ![p] = "closed"]
        /\ \A c \in Copies : IF c \in CopiesOf(p)
                             THEN copyPc'[c] # "copy" /\ hand'[c] = None
                                  /\ (copyPc'[c] = "off" <=> copyPc[c] = "off")
                             ELSE copyPc'[c] = copyPc[c] /\ hand'[c] = hand[c]
    BY <1>1, <1>10 DEF Killed
  <2>2. \A s \in closed' : s \in closed \/ s \in SocksOf(p)
    BY <1>1, <1>10 DEF Killed, CloseSocks
  <2> QED BY <1>1, <2>1, <2>2
<1>11. ASSUME NEW d \in Dirs, EndSends(d) PROVE PlaceInv'
  BY <1>2, <1>11 DEF EndSends, Write, procVars
<1>12. ASSUME NEW d \in Dirs, EndHalfCloses(d) PROVE PlaceInv'
  BY <1>2, <1>12 DEF EndHalfCloses, SendFin, procVars
<1>13. ASSUME NEW d \in Dirs, EndReceives(d) PROVE PlaceInv'
  BY <1>2, <1>13 DEF EndReceives, procVars
<1>14. ASSUME NEW d \in Dirs, EndSeesEnd(d) PROVE PlaceInv'
  BY <1>2, <1>14 DEF EndSeesEnd, procVars, tcpVars
<1>15. ASSUME NEW d \in Dirs, EndCloses(d) PROVE PlaceInv'
  <2>1. UNCHANGED <<procPc, copyPc, hand>> /\ closed' = closed \cup {Sock(d, 0, 1)}
    BY <1>15 DEF EndCloses, CloseSocks, procVars
  <2> QED BY <2>1
<1>16. CASE UNCHANGED spliceVars BY <1>2, <1>16 DEF spliceVars, tcpVars, procVars
<1> QED BY <1>3, <1>4, <1>5, <1>6, <1>7, <1>8, <1>9, <1>10, <1>11, <1>12, <1>13, <1>14, <1>15, <1>16
       DEF SpliceNext

\* The entries of the queues after a step: nothing, the byte written, or fewer.
QueuesKept == \A d \in Dirs, h \in Hops : pipe'[d][h].q = pipe[d][h].q

LEMMA Quiet ==
    ASSUME SpliceTypeOK,
           \/ HostDials \/ HostGivesUp
           \/ \E d \in Dirs, n \in {1, 2} : CopyEnds(d, n)
           \/ \E p \in Procs : SpliceOver(p) \/ Killed(p)
           \/ \E d \in Dirs : EndHalfCloses(d) \/ EndSeesEnd(d) \/ EndCloses(d)
           \/ UNCHANGED spliceVars
    PROVE  /\ QueuesKept /\ UNCHANGED <<ahead, sent, got>>
           /\ \A c \in Copies : hand'[c] = hand[c] \/ hand'[c] = None
<1> USE SocketFacts DEF QueuesKept
<1>0. hand \in [Copies -> {None} \cup Bytes] BY DEF SpliceTypeOK
<1>1. \A S : CloseSocks(S) => QueuesKept BY SocksClosed
<1>2. ASSUME NEW d \in Dirs, NEW h \in Hops, SendFin(d, h) PROVE QueuesKept BY <1>2, FinSet
<1>3. UNCHANGED pipe => QueuesKept OBVIOUS
<1> HIDE DEF QueuesKept
<1>4. CASE HostDials \/ UNCHANGED spliceVars
  BY <1>3, <1>4 DEF HostDials, tcpVars, procVars, endVars, spliceVars
<1>5. CASE HostGivesUp BY <1>1, <1>5 DEF HostGivesUp
<1>6. ASSUME NEW d \in Dirs, NEW n \in {1, 2}, CopyEnds(d, n)
      PROVE  /\ QueuesKept /\ UNCHANGED <<ahead, sent, got>>
             /\ \A c \in Copies : hand'[c] = hand[c] \/ hand'[c] = None
  <2>1. QueuesKept BY <1>2, <1>6 DEF CopyEnds, CloseWrite, Hops
  <2> QED BY <1>0, <1>6, <2>1 DEF CopyEnds, endVars
<1>7. ASSUME NEW p \in Procs, SpliceOver(p) \/ Killed(p)
      PROVE  /\ QueuesKept /\ UNCHANGED <<ahead, sent, got>>
             /\ \A c \in Copies : hand'[c] = hand[c] \/ hand'[c] = None
  <2>1. CASE SpliceOver(p) BY <1>1, <2>1 DEF SpliceOver, endVars
  <2>2. CASE Killed(p) BY <1>0, <1>1, <2>2 DEF Killed
  <2> QED BY <1>7, <2>1, <2>2
<1>8. ASSUME NEW d \in Dirs, EndHalfCloses(d) \/ EndSeesEnd(d) \/ EndCloses(d)
      PROVE  /\ QueuesKept /\ UNCHANGED <<ahead, sent, got>>
             /\ \A c \in Copies : hand'[c] = hand[c] \/ hand'[c] = None
  <2>1. CASE EndHalfCloses(d) BY <1>2, <2>1 DEF EndHalfCloses, procVars, Hops
  <2>2. CASE EndSeesEnd(d) BY <1>3, <2>2 DEF EndSeesEnd, procVars, tcpVars
  <2>3. CASE EndCloses(d) BY <1>1, <2>3 DEF EndCloses, procVars
  <2> QED BY <1>8, <2>1, <2>2, <2>3
<1> QED BY <1>4, <1>5, <1>6, <1>7, <1>8

LEMMA PopEntries ==
    ASSUME SpliceTypeOK, NEW d \in Dirs, NEW h \in Hops, Popped(d, h),
           NEW e \in Dirs, NEW k \in Hops, NEW i \in 1..Len(pipe'[e][k].q)
    PROVE  \E j \in 1..Len(pipe[e][k].q) :
              pipe'[e][k].q[i] = pipe[e][k].q[j] /\ i \in Nat \ {0} /\ (j = i \/ j = i + 1)
<1>1. pipe' \in PipeType /\ pipe'[d][h].q = Tail(pipe[d][h].q)
      /\ \A x \in Dirs, y \in Hops : ~(x = d /\ y = h) => pipe'[x][y] = pipe[x][y]
  BY PopType
<1>2. CASE e = d /\ k = h
  <2> DEFINE q == pipe[d][h].q
  <2>1. q \in Seq(Items) /\ q # <<>> BY QueueType DEF Popped
  <2>2. /\ Len(Tail(q)) = Len(q) - 1 /\ Len(q) \in Nat
        /\ \A j \in 1..Len(Tail(q)) : Tail(q)[j] = q[j + 1]
    BY <2>1, HeadTailProperties, LenProperties
  <2>3. i \in 1..Len(Tail(q)) /\ pipe'[e][k].q[i] = Tail(q)[i] BY <1>1, <1>2
  <2> HIDE DEF q
  <2>4. i + 1 \in 1..Len(q) /\ i \in Nat \ {0} /\ pipe'[e][k].q[i] = q[i + 1] BY <2>2, <2>3
  <2> QED BY <1>2, <2>4 DEF q
<1>3. CASE ~(e = d /\ k = h)
  <2>1. pipe'[e][k] = pipe[e][k] /\ Len(pipe[e][k].q) \in Nat BY <1>1, <1>3, QueueType
  <2> QED BY <2>1
<1> QED BY <1>2, <1>3

LEMMA WriteEntries ==
    ASSUME SpliceTypeOK, NEW d \in Dirs, NEW h \in Hops, NEW b \in Bytes, Write(d, h, b),
           NEW e \in Dirs, NEW k \in Hops
    PROVE  /\ \A i \in 1..Len(pipe'[e][k].q) :
                 \/ i \in 1..Len(pipe[e][k].q) /\ pipe'[e][k].q[i] = pipe[e][k].q[i]
                 \/ e = d /\ pipe'[e][k].q[i] = b
           /\ pipe[e][k].q # <<>> => pipe'[e][k].q # <<>> /\ Head(pipe'[e][k].q) = Head(pipe[e][k].q)
<1> DEFINE q == pipe[d][h].q
<1>1. CASE pipe' = pipe BY <1>1
<1>2. CASE /\ pipe'[d][h].q = Append(q, b)
           /\ \A x \in Dirs, y \in Hops : ~(x = d /\ y = h) => pipe'[x][y] = pipe[x][y]
  <2>1. q \in Seq(Items) /\ b \in Items BY QueueType DEF Items
  <2>2. /\ Len(Append(q, b)) = Len(q) + 1 /\ Len(q) \in Nat /\ Append(q, b) # <<>>
        /\ \A i \in 1..Len(q) : Append(q, b)[i] = q[i]
        /\ Append(q, b)[Len(q) + 1] = b
    BY <2>1, AppendProperties, LenProperties
  <2>3. q # <<>> => Head(Append(q, b)) = Head(q) BY <2>1
  <2>4. \A i \in 1..Len(Append(q, b)) : (i \in 1..Len(q) /\ Append(q, b)[i] = q[i]) \/ Append(q, b)[i] = b
    BY <2>2
  <2>5. CASE e = d /\ k = h BY <1>2, <2>2, <2>3, <2>4, <2>5
  <2>6. CASE ~(e = d /\ k = h) BY <1>2, <2>6
  <2> QED BY <2>5, <2>6
<1> QED BY <1>1, <1>2, WriteCases

LEMMA AckStep ==
    ASSUME SpliceTypeOK, PlaceInv, AckInv, [SpliceNext]_spliceVars
    PROVE  AckInv'
<1>0. procPc \in [Procs -> {"attach", "dial", "splicing", "closed"}] /\ "host" \in Procs
  BY SocketOwners DEF SpliceTypeOK
<1>1. CASE HostReadsAck
  <2>1. PICK k \in 1..Len(pipe["up"][2].q) :
              /\ pipe'["up"][2].q = SubSeq(pipe["up"][2].q, k + 1, Len(pipe["up"][2].q))
              /\ \A e \in Dirs, h \in Hops : ~(e = "up" /\ h = 2) => pipe'[e][h] = pipe[e][h]
    BY <1>1, AckReadPipe
  <2>2. procPc["host"] = "attach" /\ procPc'["host"] = "dial" BY <1>0, <1>1 DEF HostReadsAck
  <2>3. pipe'["up"][2].q \in Seq(Bytes) BY <2>1, <2>2, AckRead
  <2>4. \A i \in 1..Len(pipe'["up"][2].q) : pipe'["up"][2].q[i] # Ack
    BY <2>3, ElementOfSeq, ItemsNat DEF Ack
  <2>5. ASSUME NEW d \in Dirs, NEW h \in Hops, NEW i \in 1..Len(pipe'[d][h].q) PROVE pipe'[d][h].q[i] # Ack
    <3>1. CASE d = "up" /\ h = 2 BY <2>4, <2>5, <3>1
    <3>2. CASE ~(d = "up" /\ h = 2)
      <4>1. pipe'[d][h] = pipe[d][h] BY <2>1, <3>2
      <4> QED BY <2>5, <3>2, <4>1 DEF AckInv
    <3> QED BY <3>1, <3>2
  <2> QED BY <2>2, <2>5 DEF AckInv
<1>2. CASE \/ HostDials \/ HostGivesUp
           \/ \E d \in Dirs, n \in {1, 2} : CopyEnds(d, n)
           \/ \E p \in Procs : SpliceOver(p) \/ Killed(p)
           \/ \E d \in Dirs : EndHalfCloses(d) \/ EndSeesEnd(d) \/ EndCloses(d)
           \/ UNCHANGED spliceVars
  <2>1. QueuesKept /\ ahead' = ahead BY <1>2, Quiet
  <2>2. /\ procPc'["host"] = "attach" => procPc["host"] = "attach"
        /\ procPc["host"] \in {"attach", "closed"} => procPc'["host"] \in {"attach", "closed"}
    BY <1>0, <1>2 DEF HostDials, HostGivesUp, CopyEnds, SpliceOver, Killed, EndHalfCloses, EndSeesEnd,
                      EndCloses, procVars, spliceVars
  <2>3. ASSUME NEW d \in Dirs, NEW h \in Hops, NEW i \in 1..Len(pipe'[d][h].q), pipe'[d][h].q[i] = Ack
        PROVE  d = "up" /\ h = 2 /\ i = 1 /\ procPc'["host"] \in {"attach", "closed"}
    <3>1. pipe'[d][h].q = pipe[d][h].q BY <2>1 DEF QueuesKept
    <3>2. d = "up" /\ h = 2 /\ i = 1 /\ procPc["host"] \in {"attach", "closed"}
      BY <2>3, <3>1 DEF AckInv
    <3> QED BY <2>2, <3>2
  <2>4. pipe'["up"][2].q = pipe["up"][2].q BY <2>1, Places DEF QueuesKept
  <2> QED BY <2>1, <2>2, <2>3, <2>4 DEF AckInv
<1>3. ASSUME NEW d \in Dirs, NEW h \in Hops, Popped(d, h), h = 3 \/ copyPc[<<d, h>>] = "copy",
             UNCHANGED <<procPc, ahead>>
      PROVE  AckInv'
  <2>1. ASSUME NEW e \in Dirs, NEW k \in Hops, NEW i \in 1..Len(pipe'[e][k].q), pipe'[e][k].q[i] = Ack
        PROVE  e = "up" /\ k = 2 /\ i = 1 /\ procPc["host"] \in {"attach", "closed"}
    <3>1. PICK j \in 1..Len(pipe[e][k].q) :
             pipe'[e][k].q[i] = pipe[e][k].q[j] /\ i \in Nat \ {0} /\ (j = i \/ j = i + 1)
      BY <1>3, PopEntries
    <3>2. e = "up" /\ k = 2 /\ j = 1 /\ procPc["host"] \in {"attach", "closed"}
      BY <2>1, <3>1 DEF AckInv
    <3> QED BY <3>1, <3>2
  <2>2. ASSUME procPc["host"] = "attach" PROVE pipe'["up"][2] = pipe["up"][2]
    <3>1. ~(d = "up" /\ h = 2)
      <4>1. <<"up", 2>> \in CopiesOf("host") BY DEF CopiesOf
      <4> QED BY <1>0, <1>3, <2>2, <4>1 DEF PlaceInv
    <3> QED BY <1>3, <3>1, PopType, Places
  <2> QED BY <1>3, <2>1, <2>2 DEF AckInv
<1>4. ASSUME NEW d \in Dirs, NEW h \in Hops, NEW b \in Bytes, Write(d, h, b), UNCHANGED <<procPc, ahead>>
      PROVE  AckInv'
  <2>1. \A e \in Dirs, k \in Hops :
           /\ \A i \in 1..Len(pipe'[e][k].q) :
                 \/ i \in 1..Len(pipe[e][k].q) /\ pipe'[e][k].q[i] = pipe[e][k].q[i]
                 \/ e = d /\ pipe'[e][k].q[i] = b
           /\ pipe[e][k].q # <<>> => pipe'[e][k].q # <<>> /\ Head(pipe'[e][k].q) = Head(pipe[e][k].q)
    BY <1>4, WriteEntries
  <2>2. b # Ack BY ItemsNat DEF Ack
  <2>3. ASSUME NEW e \in Dirs, NEW k \in Hops, NEW i \in 1..Len(pipe'[e][k].q), pipe'[e][k].q[i] = Ack
        PROVE  e = "up" /\ k = 2 /\ i = 1 /\ procPc["host"] \in {"attach", "closed"}
    <3>1. i \in 1..Len(pipe[e][k].q) /\ pipe[e][k].q[i] = Ack BY <2>1, <2>2, <2>3
    <3> QED BY <3>1 DEF AckInv
  <2>4. pipe["up"][2].q # <<>> =>
           pipe'["up"][2].q # <<>> /\ Head(pipe'["up"][2].q) = Head(pipe["up"][2].q)
    BY <2>1, Places
  <2> QED BY <1>4, <2>3, <2>4 DEF AckInv
<1>5. ASSUME NEW d \in Dirs, NEW n \in {1, 2}, CopyRead(d, n) PROVE AckInv'
  <2>1. CASE Buffered(d, n)
    <3>1. <<"up", 2>> \in CopiesOf("host") BY DEF CopiesOf
    <3>2. procPc["host"] # "attach" BY <1>0, <1>5, <2>1, <3>1 DEF CopyRead, Buffered, PlaceInv
    <3> QED BY <1>5, <2>1, <3>2 DEF CopyRead, AckInv
  <2>2. CASE ~Buffered(d, n)
    <3>1. Popped(d, n) /\ copyPc[<<d, n>>] = "copy" /\ UNCHANGED <<procPc, ahead>>
      BY <1>5, <2>2 DEF CopyRead, Popped, Put
    <3> QED BY <1>3, <3>1, Places
  <2> QED BY <2>1, <2>2
<1>6. ASSUME NEW d \in Dirs, NEW n \in {1, 2}, CopyWrite(d, n) PROVE AckInv'
  <2>1. hand[<<d, n>>] \in Bytes BY <1>6, SentType DEF CopyWrite
  <2>2. n + 1 \in Hops BY Places
  <2> QED BY <1>4, <1>6, <2>1, <2>2 DEF CopyWrite
<1>7. ASSUME NEW d \in Dirs, EndSends(d) PROVE AckInv'
  <2>1. sent[d] + 1 \in Bytes BY <1>7, SendsByte
  <2> QED BY <1>4, <1>7, <2>1, Places DEF EndSends, procVars
<1>8. ASSUME NEW d \in Dirs, EndReceives(d) PROVE AckInv'
  <2>1. Popped(d, 3) /\ UNCHANGED <<procPc, ahead>> BY <1>8 DEF EndReceives, procVars, Popped, Put
  <2> QED BY <1>3, <2>1, Places
<1> QED BY <1>1, <1>2, <1>5, <1>6, <1>7, <1>8 DEF SpliceNext

LEMMA BoundStep ==
    ASSUME SpliceTypeOK, PlaceInv, AckInv, BoundInv, [SpliceNext]_spliceVars
    PROVE  BoundInv'
<1>0. /\ \A d \in Dirs, n \in {1, 2} : <<d, n>> \in Copies
      /\ hand \in [Copies -> {None} \cup Bytes]
      /\ sent \in [Dirs -> {0} \cup Bytes] /\ \A d \in Dirs : sent[d] \in Nat
  BY SocketFacts, SentType DEF SpliceTypeOK
<1>1. \A d \in Dirs : None <= sent[d] BY <1>0 DEF None
<1>2. CASE HostReadsAck
  <2>1. PICK k \in 1..Len(pipe["up"][2].q) :
              /\ ahead' = SubSeq(pipe["up"][2].q, 2, k)
              /\ pipe'["up"][2].q = SubSeq(pipe["up"][2].q, k + 1, Len(pipe["up"][2].q))
              /\ \A e \in Dirs, h \in Hops : ~(e = "up" /\ h = 2) => pipe'[e][h] = pipe[e][h]
    BY <1>2, AckReadPipe
  <2> DEFINE q == pipe["up"][2].q
  <2>2. procPc["host"] = "attach" /\ UNCHANGED <<sent, hand>> BY <1>2 DEF HostReadsAck, endVars
  <2>3. /\ Len(q) \in Nat
        /\ Len(ahead') = k - 1 /\ \A i \in 1..(k - 1) : ahead'[i] = q[i + 1]
        /\ Len(pipe'["up"][2].q) = Len(q) - k
        /\ \A i \in 1..(Len(q) - k) : pipe'["up"][2].q[i] = q[i + k]
    BY <2>1, <2>2, AckRead
  <2>4. \A i \in 1..Len(q) : q[i] <= sent["up"] BY Places DEF BoundInv
  <2>5. k \in 1..Len(q) OBVIOUS
  <2> HIDE DEF q
  <2>6. \A i \in 1..Len(ahead') : ahead'[i] <= sent["up"]
    <3>1. \A i \in 1..(k - 1) : i + 1 \in 1..Len(q) BY <2>3, <2>5
    <3> QED BY <2>3, <2>4, <3>1
  <2>7. \A i \in 1..Len(pipe'["up"][2].q) : pipe'["up"][2].q[i] <= sent["up"]
    <3>1. \A i \in 1..(Len(q) - k) : i + k \in 1..Len(q) BY <2>3, <2>5
    <3> QED BY <2>3, <2>4, <3>1
  <2>8. ASSUME NEW d \in Dirs, NEW h \in Hops, NEW i \in 1..Len(pipe'[d][h].q)
        PROVE  pipe'[d][h].q[i] <= sent[d]
    <3>1. CASE d = "up" /\ h = 2 BY <2>7, <2>8, <3>1
    <3>2. CASE ~(d = "up" /\ h = 2)
      <4>1. pipe'[d][h] = pipe[d][h] BY <2>1, <3>2
      <4> QED BY <2>8, <4>1 DEF BoundInv
    <3> QED BY <3>1, <3>2
  <2> QED BY <2>2, <2>6, <2>8 DEF BoundInv
<1>3. CASE \/ HostDials \/ HostGivesUp
           \/ \E d \in Dirs, n \in {1, 2} : CopyEnds(d, n)
           \/ \E p \in Procs : SpliceOver(p) \/ Killed(p)
           \/ \E d \in Dirs : EndHalfCloses(d) \/ EndSeesEnd(d) \/ EndCloses(d)
           \/ UNCHANGED spliceVars
  <2>1. QueuesKept /\ UNCHANGED <<ahead, sent>>
        /\ \A c \in Copies : hand'[c] = hand[c] \/ hand'[c] = None
    BY <1>3, Quiet
  <2>2. \A d \in Dirs, n \in {1, 2} : hand'[<<d, n>>] = hand[<<d, n>>] \/ hand'[<<d, n>>] = None
    BY <1>0, <2>1
  <2>3. \A d \in Dirs, h \in Hops : \A i \in 1..Len(pipe'[d][h].q) : pipe'[d][h].q[i] <= sent[d]
    <3> SUFFICES ASSUME NEW d \in Dirs, NEW h \in Hops
                 PROVE  \A i \in 1..Len(pipe'[d][h].q) : pipe'[d][h].q[i] <= sent[d]
      OBVIOUS
    <3>1. pipe'[d][h].q = pipe[d][h].q BY <2>1 DEF QueuesKept
    <3> QED BY <3>1 DEF BoundInv
  <2>4. \A d \in Dirs, n \in {1, 2} : hand'[<<d, n>>] <= sent[d] BY <1>1, <2>2 DEF BoundInv
  <2> QED BY <2>1, <2>3, <2>4 DEF BoundInv
<1>4. ASSUME NEW d \in Dirs, NEW h \in Hops, Popped(d, h)
      PROVE  /\ \A e \in Dirs, k \in Hops : \A i \in 1..Len(pipe'[e][k].q) : pipe'[e][k].q[i] <= sent[e]
             /\ Head(pipe[d][h].q) <= sent[d]
  <2>1. \A e \in Dirs, k \in Hops : \A i \in 1..Len(pipe'[e][k].q) :
           \E j \in 1..Len(pipe[e][k].q) : pipe'[e][k].q[i] = pipe[e][k].q[j]
    BY <1>4, PopEntries
  <2>2. Head(pipe[d][h].q) = pipe[d][h].q[1] /\ 1 \in 1..Len(pipe[d][h].q) BY <1>4, PopType
  <2>3. ASSUME NEW e \in Dirs, NEW k \in Hops, NEW i \in 1..Len(pipe'[e][k].q)
        PROVE  pipe'[e][k].q[i] <= sent[e]
    <3>1. PICK j \in 1..Len(pipe[e][k].q) : pipe'[e][k].q[i] = pipe[e][k].q[j] BY <2>1, <2>3
    <3>2. pipe[e][k].q[j] <= sent[e] BY <3>1 DEF BoundInv
    <3> QED BY <3>1, <3>2
  <2>4. Head(pipe[d][h].q) <= sent[d] BY <2>2 DEF BoundInv
  <2> QED BY <2>3, <2>4
<1>5. ASSUME NEW d \in Dirs, NEW h \in Hops, NEW b \in Bytes, Write(d, h, b), b <= sent'[d],
             \A e \in Dirs : sent[e] <= sent'[e] /\ sent'[e] \in Nat, ahead' = ahead,
             \A e \in Dirs, n \in {1, 2} : hand'[<<e, n>>] = hand[<<e, n>>] \/ hand'[<<e, n>>] = None
      PROVE  BoundInv'
  <2>1. ASSUME NEW e \in Dirs, NEW k \in Hops, NEW i \in 1..Len(pipe'[e][k].q)
        PROVE  pipe'[e][k].q[i] <= sent'[e]
    <3>1. CASE i \in 1..Len(pipe[e][k].q) /\ pipe'[e][k].q[i] = pipe[e][k].q[i]
      <4>1. pipe[e][k].q[i] <= sent[e] BY <3>1 DEF BoundInv
      <4>2. pipe[e][k].q[i] \in Nat BY <3>1, QueueType, ItemsNat
      <4> QED BY <1>0, <1>5, <3>1, <4>1, <4>2
    <3>2. CASE e = d /\ pipe'[e][k].q[i] = b BY <1>5, <3>2
    <3> QED BY <1>5, <2>1, <3>1, <3>2, WriteEntries
  <2>2. ASSUME NEW e \in Dirs, NEW n \in {1, 2} PROVE hand'[<<e, n>>] <= sent'[e]
    <3>1. hand[<<e, n>>] <= sent[e] /\ hand[<<e, n>>] \in Int
      BY SentType DEF BoundInv
    <3>2. None <= sent'[e] BY <1>5 DEF None
    <3>3. sent[e] \in Int /\ sent'[e] \in Int /\ sent[e] <= sent'[e] BY <1>0, <1>5
    <3>4. hand'[<<e, n>>] = hand[<<e, n>>] \/ hand'[<<e, n>>] = None BY <1>5
    <3> QED BY <3>1, <3>2, <3>3, <3>4
  <2>3. "up" \in Dirs => \A i \in 1..Len(ahead') : ahead'[i] <= sent'["up"]
    <3> SUFFICES ASSUME "up" \in Dirs, NEW i \in 1..Len(ahead) PROVE ahead[i] <= sent'["up"]
      BY <1>5
    <3>1. ahead[i] <= sent["up"] BY DEF BoundInv
    <3>2. ahead[i] \in Nat BY SentType, ElementOfSeq, ItemsNat
    <3> QED BY <1>0, <1>5, <3>1, <3>2
  <2> QED BY <2>1, <2>2, <2>3 DEF BoundInv
<1>6. ASSUME NEW d \in Dirs, NEW n \in {1, 2}, CopyRead(d, n) PROVE BoundInv'
  <2>1. UNCHANGED sent BY <1>6 DEF CopyRead, endVars
  <2>2. CASE Buffered(d, n)
    <3>1. /\ ahead # <<>> /\ d = "up" /\ pipe' = pipe /\ ahead' = Tail(ahead)
          /\ hand' = [hand EXCEPT ![<<d, n>>] = Head(ahead)]
      BY <1>6, <2>2 DEF CopyRead, Buffered
    <3>2. /\ Len(Tail(ahead)) = Len(ahead) - 1 /\ Len(ahead) \in Nat \ {0} /\ Head(ahead) = ahead[1]
          /\ \A i \in 1..Len(Tail(ahead)) : Tail(ahead)[i] = ahead[i + 1]
      BY <3>1, SentType, HeadTailProperties, EmptySeq
    <3>3. \A i \in 1..Len(ahead) : ahead[i] <= sent["up"] BY <3>1 DEF BoundInv
    <3>4. Head(ahead) <= sent["up"]
      <4>1. 1 \in 1..Len(ahead) BY <3>2
      <4> QED BY <3>2, <3>3, <4>1
    <3>5. \A i \in 1..Len(ahead') : ahead'[i] <= sent["up"]
      <4>1. \A i \in 1..(Len(ahead) - 1) : i + 1 \in 1..Len(ahead) BY <3>2
      <4> QED BY <3>1, <3>2, <3>3, <4>1
    <3>6. \A e \in Dirs, m \in {1, 2} : hand'[<<e, m>>] <= sent[e]
      BY <1>0, <3>1, <3>4 DEF BoundInv
    <3> QED BY <2>1, <3>1, <3>5, <3>6 DEF BoundInv
  <2>3. CASE ~Buffered(d, n)
    <3>1. /\ Popped(d, n) /\ ahead' = ahead
          /\ hand' = [hand EXCEPT ![<<d, n>>] = Head(pipe[d][n].q)]
      BY <1>6, <2>3 DEF CopyRead, Popped, Put
    <3>2. /\ \A e \in Dirs, k \in Hops : \A i \in 1..Len(pipe'[e][k].q) : pipe'[e][k].q[i] <= sent[e]
          /\ Head(pipe[d][n].q) <= sent[d]
      BY <1>4, <3>1, Places
    <3>3. \A e \in Dirs, m \in {1, 2} : hand'[<<e, m>>] <= sent[e]
      BY <1>0, <3>1, <3>2 DEF BoundInv
    <3> QED BY <2>1, <3>1, <3>2, <3>3 DEF BoundInv
  <2> QED BY <2>2, <2>3
<1>7. ASSUME NEW d \in Dirs, NEW n \in {1, 2}, CopyWrite(d, n) PROVE BoundInv'
  <2>1. hand[<<d, n>>] \in Bytes BY <1>7, SentType DEF CopyWrite
  <2>2. hand[<<d, n>>] <= sent[d] BY DEF BoundInv
  <2>3. UNCHANGED <<sent, ahead>> BY <1>7 DEF CopyWrite, endVars
  <2>4. \A e \in Dirs, m \in {1, 2} : hand'[<<e, m>>] = hand[<<e, m>>] \/ hand'[<<e, m>>] = None
    BY <1>0, <1>7 DEF CopyWrite
  <2>5. n + 1 \in Hops BY Places
  <2>6. Write(d, n + 1, hand[<<d, n>>]) BY <1>7 DEF CopyWrite
  <2>7. \A e \in Dirs : sent[e] <= sent[e] BY <1>0
  <2> QED BY <1>0, <1>5, <2>1, <2>2, <2>3, <2>4, <2>5, <2>6, <2>7
<1>8. ASSUME NEW d \in Dirs, EndSends(d) PROVE BoundInv'
  <2>1. sent[d] + 1 \in Bytes BY <1>8, SendsByte
  <2>2. \A e \in Dirs : sent'[e] = IF e = d THEN sent[d] + 1 ELSE sent[e]
    BY <1>0, <1>8 DEF EndSends
  <2>3. /\ sent[d] + 1 <= sent'[d]
        /\ \A e \in Dirs : sent[e] <= sent'[e] /\ sent'[e] \in Nat
    BY <1>0, <2>2
  <2>4. Write(d, 1, sent[d] + 1) /\ UNCHANGED <<ahead, hand>> BY <1>8 DEF EndSends, procVars
  <2> QED BY <1>5, <2>1, <2>3, <2>4, Places
<1>9. ASSUME NEW d \in Dirs, EndReceives(d) PROVE BoundInv'
  <2>1. Popped(d, 3) /\ UNCHANGED <<ahead, hand, sent>>
    BY <1>9 DEF EndReceives, procVars, Popped, Put
  <2>2. \A e \in Dirs, k \in Hops : \A i \in 1..Len(pipe'[e][k].q) : pipe'[e][k].q[i] <= sent[e]
    BY <1>4, <2>1, Places
  <2> QED BY <2>1, <2>2 DEF BoundInv
<1> QED BY <1>2, <1>3, <1>6, <1>7, <1>8, <1>9 DEF SpliceNext

-----------------------------------------------------------------------------
\* The end of a stream.
LEMMA SocketTable ==
    /\ \A d \in Dirs, n \in {1, 2}, p \in Procs :
          /\ <<d, n>> \in CopiesOf(p) <=> Sock(d, n, n) \in SocksOf(p)
          /\ <<d, n>> \in CopiesOf(p) <=> Sock(d, n, n + 1) \in SocksOf(p)
    /\ \A d \in Dirs, p \in Procs : Sock(d, 3, 3) \notin SocksOf(p) /\ Sock(d, 0, 1) \notin SocksOf(p)
    /\ \A d, e \in Dirs, h \in Hops : Sock(e, h, h) = Sock(d, 0, 1) => e = Other(d) /\ h = 3
    /\ \A d, e \in Dirs, h \in Hops : Sock(e, h - 1, h) = Sock(d, 0, 1) => e = d /\ h = 1
    /\ \A d \in Dirs : Sock(d, 3, 3) = Sock(Other(d), 0, 1) /\ Other(Other(d)) = d /\ Other(d) \in Dirs
    /\ \A h \in Hops : h = 1 \/ h = 2 \/ h = 3
<1>1. \A d \in Dirs, n \in {1, 2}, p \in Procs :
          /\ <<d, n>> \in CopiesOf(p) <=> Sock(d, n, n) \in SocksOf(p)
          /\ <<d, n>> \in CopiesOf(p) <=> Sock(d, n, n + 1) \in SocksOf(p)
  BY DEF Dirs, Procs, CopiesOf, SocksOf, Sock
<1>2. \A d \in Dirs, p \in Procs : Sock(d, 3, 3) \notin SocksOf(p) /\ Sock(d, 0, 1) \notin SocksOf(p)
  BY DEF Dirs, Procs, SocksOf, Sock
<1>3. \A d, e \in Dirs, h \in Hops : Sock(e, h, h) = Sock(d, 0, 1) => e = Other(d) /\ h = 3
  BY DEF Dirs, Hops, Sock, Other
<1>4. \A d, e \in Dirs, h \in Hops : Sock(e, h - 1, h) = Sock(d, 0, 1) => e = d /\ h = 1
  BY DEF Dirs, Hops, Sock
<1>5. \A d \in Dirs : Sock(d, 3, 3) = Sock(Other(d), 0, 1) /\ Other(Other(d)) = d /\ Other(d) \in Dirs
  BY DEF Dirs, Sock, Other
<1> QED BY <1>1, <1>2, <1>3, <1>4, <1>5 DEF Hops

\* As long as nothing broke, no byte is written to a socket that its reader has closed.
LEMMA ReaderThere ==
    ASSUME PlaceInv, OrderlyInv, ~broken, NEW d \in Dirs, NEW h \in Hops, ~pipe[d][h].fin
    PROVE  Sock(d, h, h) \notin closed /\ ~AtEof(d, h) /\ ~Dead(d, h)
<1> SUFFICES ASSUME Sock(d, h, h) \in closed PROVE FALSE
  BY DEF AtEof, Dead, OrderlyInv
<1>1. CASE h = 3
  <2>1. Sock(Other(d), 0, 1) \in closed /\ Other(d) \in Dirs /\ Other(Other(d)) = d BY <1>1, SocketTable
  <2>2. seen[d] = "eof" BY <2>1 DEF OrderlyInv, EndOrder
  <2> QED BY <1>1, <2>2 DEF OrderlyInv, EndOrder, AtEof
<1>2. CASE h \in {1, 2}
  <2>1. <<d, h>> \in Copies BY <1>2, SocketFacts
  <2>2. PICK p \in Procs : <<d, h>> \in CopiesOf(p) BY <2>1, SocketOwners
  <2>3. procPc[p] = "closed" BY <1>2, <2>2, SocketTable DEF PlaceInv
  <2>4. copyPc[<<d, h>>] = "done" BY <2>2, <2>3 DEF OrderlyInv, Done
  <2> QED BY <1>2, <2>4 DEF OrderlyInv, CopyOrder, AtEof
<1> QED BY <1>1, <1>2, SocketTable

\* A write to a connection that has not ended is taken, and disturbs no order.
LEMMA OrderlyWrite ==
    ASSUME SpliceTypeOK, PlaceInv, OrderlyInv, ~broken,
           NEW d \in Dirs, NEW h \in Hops, NEW b \in Bytes, Write(d, h, b), ~pipe[d][h].fin
    PROVE  /\ UNCHANGED <<reset, closed>>
           /\ \A e \in Dirs, k \in Hops : /\ pipe'[e][k].fin = pipe[e][k].fin
                                          /\ AtEof(e, k) => AtEof(e, k)'
<1>1. /\ UNCHANGED <<reset, closed>> /\ pipe'[d][h].fin = pipe[d][h].fin
      /\ \A e \in Dirs, k \in Hops : ~(e = d /\ k = h) => pipe'[e][k] = pipe[e][k]
  BY WriteCases, ReaderThere
<1>2. ASSUME NEW e \in Dirs, NEW k \in Hops
      PROVE  pipe'[e][k].fin = pipe[e][k].fin /\ (AtEof(e, k) => AtEof(e, k)')
  <2>1. CASE e = d /\ k = h BY <1>1, <2>1, ReaderThere
  <2>2. CASE ~(e = d /\ k = h)
    <3>1. pipe'[e][k] = pipe[e][k] BY <1>1, <2>2
    <3> QED BY <3>1 DEF AtEof
  <2> QED BY <2>1, <2>2
<1> QED BY <1>1, <1>2

LEMMA OrderlyStep ==
    ASSUME SpliceTypeOK, PlaceInv, AckInv, OrderlyInv, [SpliceNext]_spliceVars
    PROVE  OrderlyInv'
<1> SUFFICES ASSUME ~broken' PROVE OrderlyInv'
  BY DEF OrderlyInv
<1>0. ~broken
  BY DEF SpliceNext, HostReadsAck, HostDials, HostGivesUp, CopyRead, CopyWrite, CopyEnds, SpliceOver, Killed,
         EndSends, EndHalfCloses, EndReceives, EndSeesEnd, EndCloses, endVars, spliceVars
<1>1. /\ reset = {}
      /\ \A d \in Dirs : EndOrder(d) /\ \A n \in {1, 2} : CopyOrder(d, n)
      /\ \A p \in Procs : procPc[p] = "closed" => Done(p)
  BY <1>0 DEF OrderlyInv
<1>2. /\ procPc \in [Procs -> {"attach", "dial", "splicing", "closed"}]
      /\ copyPc \in [Copies -> {"off", "copy", "done"}]
      /\ hand \in [Copies -> {None} \cup Bytes]
      /\ \A d \in Dirs, n \in {1, 2} : <<d, n>> \in Copies
      /\ \A p \in Procs : CopiesOf(p) \subseteq Copies
      /\ finished \in [Dirs -> BOOLEAN] /\ seen \in [Dirs -> {"open", "eof", "broken"}]
  BY SocketFacts DEF SpliceTypeOK
<1>3. ASSUME reset' = {}, \A d \in Dirs : EndOrder(d)', \A d \in Dirs, n \in {1, 2} : CopyOrder(d, n)',
             \A p \in Procs : procPc'[p] = "closed" => Done(p)'
      PROVE  OrderlyInv'
  BY <1>3 DEF OrderlyInv
\* A step that keeps the ends of the streams.
<1>4. ASSUME UNCHANGED <<reset, closed, seen, finished, procPc, copyPc>>,
             \A d \in Dirs, h \in Hops : /\ pipe'[d][h].fin = pipe[d][h].fin
                                         /\ AtEof(d, h) => AtEof(d, h)',
             \A d \in Dirs, n \in {1, 2} : Buffered(d, n)' => Buffered(d, n) \/ copyPc[<<d, n>>] # "done"
      PROVE  OrderlyInv'
  <2>1. ASSUME NEW d \in Dirs PROVE EndOrder(d)'
    BY <1>1, <1>4, Places DEF EndOrder
  <2>2. ASSUME NEW d \in Dirs, NEW n \in {1, 2} PROVE CopyOrder(d, n)'
    <3>1. CopyOrder(d, n) /\ n \in Hops /\ n + 1 \in Hops BY <1>1, Places
    <3> QED BY <1>4, <3>1 DEF CopyOrder
  <2>3. \A p \in Procs : procPc'[p] = "closed" => Done(p)' BY <1>1, <1>4 DEF Done
  <2>4. reset' = {} BY <1>1, <1>4
  <2> QED BY <1>3, <2>1, <2>2, <2>3, <2>4
\* A queue that is read was not at its end.
<1>5. ASSUME NEW d \in Dirs, NEW h \in Hops, Popped(d, h)
      PROVE  \A e \in Dirs, k \in Hops : /\ pipe'[e][k].fin = pipe[e][k].fin
                                         /\ AtEof(e, k) => AtEof(e, k)'
  <2>1. /\ pipe'[d][h].fin = pipe[d][h].fin /\ pipe[d][h].q # <<>>
        /\ \A e \in Dirs, k \in Hops : ~(e = d /\ k = h) => pipe'[e][k] = pipe[e][k]
    BY <1>5, PopType DEF Popped
  <2>2. ASSUME NEW e \in Dirs, NEW k \in Hops
        PROVE  pipe'[e][k].fin = pipe[e][k].fin /\ (AtEof(e, k) => AtEof(e, k)')
    <3>1. CASE e = d /\ k = h BY <2>1, <3>1 DEF AtEof
    <3>2. CASE ~(e = d /\ k = h)
      <4>1. pipe'[e][k] = pipe[e][k] BY <2>1, <3>2
      <4> QED BY <4>1 DEF AtEof
    <3> QED BY <3>1, <3>2
  <2> QED BY <2>2
<1>6. CASE HostReadsAck
  <2>1. PICK k \in 1..Len(pipe["up"][2].q) :
              /\ pipe'["up"][2].fin = pipe["up"][2].fin
              /\ \A e \in Dirs, h \in Hops : ~(e = "up" /\ h = 2) => pipe'[e][h] = pipe[e][h]
    BY <1>6, AckReadPipe
  <2>2. /\ procPc["host"] = "attach" /\ procPc' = [procPc EXCEPT !["host"] = "dial"]
        /\ UNCHANGED <<reset, closed, seen, finished, copyPc>>
    BY <1>6 DEF HostReadsAck, endVars
  <2>3. pipe["up"][2].q # <<>> BY <2>2 DEF AckInv
  <2>4. <<"up", 2>> \in CopiesOf("host") /\ "host" \in Procs BY SocketOwners DEF CopiesOf
  <2>5. copyPc[<<"up", 2>>] = "off" BY <2>2, <2>4 DEF PlaceInv
  <2>6. ASSUME NEW e \in Dirs, NEW h \in Hops
        PROVE  pipe'[e][h].fin = pipe[e][h].fin /\ (AtEof(e, h) => AtEof(e, h)')
    <3>1. CASE e = "up" /\ h = 2 BY <2>1, <2>3, <3>1 DEF AtEof
    <3>2. CASE ~(e = "up" /\ h = 2)
      <4>1. pipe'[e][h] = pipe[e][h] BY <2>1, <3>2
      <4> QED BY <4>1 DEF AtEof
    <3> QED BY <3>1, <3>2
  <2>7. ASSUME NEW e \in Dirs PROVE EndOrder(e)' BY <1>1, <2>2, <2>6, Places DEF EndOrder
  <2>8. ASSUME NEW e \in Dirs, NEW n \in {1, 2} PROVE CopyOrder(e, n)'
    <3>1. CopyOrder(e, n) /\ n \in Hops /\ n + 1 \in Hops BY <1>1, Places
    <3>2. copyPc[<<e, n>>] = "done" => ~Buffered(e, n)' BY <2>5 DEF Buffered
    <3> QED BY <2>2, <2>6, <3>1, <3>2 DEF CopyOrder
  <2>9. \A p \in Procs : procPc'[p] = "closed" => procPc[p] = "closed" BY <1>2, <2>2
  <2> QED BY <1>1, <1>3, <2>2, <2>7, <2>8, <2>9 DEF Done
<1>7. CASE HostDials
  <2>1. /\ procPc["host"] = "dial" /\ procPc' = [procPc EXCEPT !["host"] = "splicing"]
        /\ copyPc' = [c \in Copies |-> IF c \in CopiesOf("host") THEN "copy" ELSE copyPc[c]]
        /\ UNCHANGED <<pipe, reset, closed, ahead, finished, seen>>
    BY <1>7 DEF HostDials, tcpVars, endVars
  <2>2. "host" \in Procs BY SocketOwners
  <2>3. \A c \in Copies : copyPc'[c] = "done" <=> copyPc[c] = "done"
    BY <2>1, <2>2 DEF PlaceInv
  <2>4. ASSUME NEW e \in Dirs PROVE EndOrder(e)' BY <1>1, <2>1 DEF EndOrder, AtEof
  <2>5. ASSUME NEW e \in Dirs, NEW n \in {1, 2} PROVE CopyOrder(e, n)'
    <3>1. CopyOrder(e, n) /\ (copyPc'[<<e, n>>] = "done" <=> copyPc[<<e, n>>] = "done")
      BY <1>1, <1>2, <2>3
    <3> QED BY <2>1, <3>1 DEF CopyOrder, AtEof, Buffered
  <2>6. \A p \in Procs : procPc'[p] = "closed" => procPc[p] = "closed" BY <1>2, <2>1
  <2>7. \A p \in Procs : procPc'[p] = "closed" => Done(p)' BY <1>1, <1>2, <2>3, <2>6 DEF Done
  <2> QED BY <1>1, <1>3, <2>1, <2>4, <2>5, <2>7
<1>8. ASSUME NEW d \in Dirs, NEW n \in {1, 2}, CopyRead(d, n) PROVE OrderlyInv'
  <2>1. UNCHANGED <<reset, closed, seen, finished, procPc, copyPc>> /\ copyPc[<<d, n>>] = "copy"
    BY <1>8 DEF CopyRead, endVars
  <2>2. CASE Buffered(d, n)
    <3>1. UNCHANGED pipe BY <1>8, <2>2 DEF CopyRead
    <3>2. \A e \in Dirs, m \in {1, 2} : Buffered(e, m)' => Buffered(e, m) BY <2>2 DEF Buffered
    <3> QED BY <1>4, <2>1, <3>1, <3>2 DEF AtEof
  <2>3. CASE ~Buffered(d, n)
    <3>1. Popped(d, n) /\ UNCHANGED ahead BY <1>8, <2>3 DEF CopyRead, Popped, Put
    <3>2. \A e \in Dirs, k \in Hops : /\ pipe'[e][k].fin = pipe[e][k].fin
                                      /\ AtEof(e, k) => AtEof(e, k)'
      BY <1>5, <3>1, Places
    <3>3. \A e \in Dirs, m \in {1, 2} : Buffered(e, m)' => Buffered(e, m) BY <3>1 DEF Buffered
    <3> QED BY <1>4, <2>1, <3>2, <3>3
  <2> QED BY <2>2, <2>3
<1>9. ASSUME NEW d \in Dirs, NEW n \in {1, 2}, CopyWrite(d, n) PROVE OrderlyInv'
  <2>1. hand[<<d, n>>] \in Bytes BY <1>9, SentType DEF CopyWrite
  <2>2. UNCHANGED <<seen, finished, procPc, copyPc, ahead>> /\ copyPc[<<d, n>>] = "copy"
        /\ Write(d, n + 1, hand[<<d, n>>])
    BY <1>9 DEF CopyWrite, endVars
  <2>3. ~pipe[d][n + 1].fin BY <1>1, <2>2 DEF CopyOrder
  <2>4. n + 1 \in Hops BY Places
  <2>5. /\ UNCHANGED <<reset, closed>>
        /\ \A e \in Dirs, k \in Hops : /\ pipe'[e][k].fin = pipe[e][k].fin
                                       /\ AtEof(e, k) => AtEof(e, k)'
    BY <1>0, <2>1, <2>2, <2>3, <2>4, OrderlyWrite
  <2>6. \A e \in Dirs, m \in {1, 2} : Buffered(e, m)' => Buffered(e, m) BY <2>2 DEF Buffered
  <2> QED BY <1>4, <2>2, <2>5, <2>6
<1>10. ASSUME NEW d \in Dirs, NEW n \in {1, 2}, CopyEnds(d, n) PROVE OrderlyInv'
  <2>1. /\ copyPc[<<d, n>>] = "copy" /\ CopyOver(d, n) /\ SendFin(d, n + 1)
        /\ copyPc' = [copyPc EXCEPT ![<<d, n>>] = "done"]
        /\ UNCHANGED <<procPc, ahead, finished, seen>>
    BY <1>10 DEF CopyEnds, CloseWrite, endVars
  <2>2. n + 1 \in Hops /\ n \in Hops BY Places
  <2>3. ~Buffered(d, n) /\ AtEof(d, n) BY <1>1, <2>1 DEF CopyOver, Dead
  <2>4. \A e \in Dirs, k \in Hops :
           /\ pipe'[e][k].q = pipe[e][k].q
           /\ pipe'[e][k].fin = (pipe[e][k].fin \/ (e = d /\ k = n + 1))
    BY <2>1, <2>2, FinSet
  <2>5. UNCHANGED <<reset, closed>> BY <2>1 DEF SendFin
  <2>6. ASSUME NEW e \in Dirs, NEW k \in Hops PROVE AtEof(e, k) => AtEof(e, k)' BY <2>4 DEF AtEof
  <2>7. ASSUME NEW e \in Dirs PROVE EndOrder(e)'
    <3>1. pipe'[e][1].fin = pipe[e][1].fin
      <4>1. pipe[e][1].fin \in BOOLEAN BY QueueType, Places
      <4>2. ~(e = d /\ 1 = n + 1) OBVIOUS
      <4> QED BY <2>4, <4>1, <4>2, Places
    <3> QED BY <1>1, <2>1, <2>5, <2>6, <3>1, Places DEF EndOrder
  <2>8. ASSUME NEW e \in Dirs, NEW m \in {1, 2} PROVE CopyOrder(e, m)'
    <3>1. CopyOrder(e, m) /\ m \in Hops /\ m + 1 \in Hops BY <1>1, Places
    <3>2. Buffered(e, m)' = Buffered(e, m) BY <2>1 DEF Buffered
    <3>3. CASE e = d /\ m = n
      <4>1. copyPc'[<<e, m>>] = "done" BY <1>2, <2>1, <3>3
      <4>2. pipe'[e][m + 1].fin = TRUE BY <2>4, <3>1, <3>3
      <4> QED BY <2>3, <2>6, <3>1, <3>2, <3>3, <4>1, <4>2 DEF CopyOrder
    <3>4. CASE ~(e = d /\ m = n)
      <4>1. copyPc'[<<e, m>>] = copyPc[<<e, m>>]
        <5>1. <<e, m>> # <<d, n>> BY <3>4
        <5> QED BY <1>2, <2>1, <5>1
      <4>2. pipe'[e][m + 1].fin = pipe[e][m + 1].fin
        <5>1. ~(e = d /\ m + 1 = n + 1) BY <3>4
        <5>2. pipe[e][m + 1].fin \in BOOLEAN BY <3>1, QueueType
        <5> QED BY <2>4, <3>1, <5>1, <5>2
      <4> QED BY <2>6, <3>1, <3>2, <4>1, <4>2 DEF CopyOrder
    <3> QED BY <3>3, <3>4
  <2>9. \A c \in Copies : copyPc[c] = "done" => copyPc'[c] = "done" BY <1>2, <2>1
  <2>10. \A p \in Procs : procPc'[p] = "closed" => Done(p)' BY <1>1, <1>2, <2>1, <2>9 DEF Done
  <2> QED BY <1>1, <1>3, <2>5, <2>7, <2>8, <2>10
\* Sockets whose streams are at their end on both sides.
<1>11. ASSUME NEW S, CloseSocks(S),
              \A e \in Dirs, k \in Hops : Sock(e, k, k) \in S => pipe[e][k].q = <<>>,
              \A e \in Dirs, k \in Hops : Sock(e, k - 1, k) \in S => pipe[e][k].fin
       PROVE  /\ reset' = {} /\ closed' = closed \cup S
              /\ \A e \in Dirs, k \in Hops : /\ pipe'[e][k].fin = pipe[e][k].fin
                                             /\ AtEof(e, k) => AtEof(e, k)'
  <2>1. \A s \in S : ~Unread(s) BY <1>11 DEF Unread
  <2>2. reset' = {} /\ closed' = closed \cup S BY <1>1, <1>11, <2>1 DEF CloseSocks
  <2>3. \A e \in Dirs, k \in Hops :
           /\ pipe'[e][k].q = pipe[e][k].q
           /\ pipe'[e][k].fin = (pipe[e][k].fin \/ Sock(e, k - 1, k) \in S)
    BY <1>11, SocksClosed
  <2>4. ASSUME NEW e \in Dirs, NEW k \in Hops
        PROVE  pipe'[e][k].fin = pipe[e][k].fin /\ (AtEof(e, k) => AtEof(e, k)')
    <3>1. pipe[e][k].fin \in BOOLEAN BY QueueType
    <3> QED BY <1>11, <2>3, <3>1 DEF AtEof
  <2> QED BY <2>2, <2>4
<1>12. ASSUME NEW p \in Procs, SpliceOver(p) PROVE OrderlyInv'
  <2>1. /\ Done(p) /\ procPc' = [procPc EXCEPT ![p] = "closed"] /\ CloseSocks(SocksOf(p))
        /\ UNCHANGED <<copyPc, ahead, finished, seen>>
    BY <1>12 DEF SpliceOver, endVars
  <2>2. ASSUME NEW e \in Dirs, NEW k \in Hops, Sock(e, k, k) \in SocksOf(p) PROVE pipe[e][k].q = <<>>
    <3>1. k \in {1, 2} BY <2>2, SocketTable
    <3>2. copyPc[<<e, k>>] = "done" BY <2>1, <2>2, <3>1, SocketTable DEF Done
    <3> QED BY <1>1, <3>1, <3>2 DEF CopyOrder, AtEof
  <2>3. ASSUME NEW e \in Dirs, NEW k \in Hops, Sock(e, k - 1, k) \in SocksOf(p) PROVE pipe[e][k].fin
    <3>1. CASE k = 1 BY <2>3, <3>1, SocketTable
    <3>2. CASE k \in {2, 3}
      <4>1. k - 1 \in {1, 2} /\ (k - 1) + 1 = k BY <3>2
      <4>2. <<e, k - 1>> \in CopiesOf(p) BY <2>3, <4>1, SocketTable
      <4>3. copyPc[<<e, k - 1>>] = "done" BY <2>1, <4>2 DEF Done
      <4>4. CopyOrder(e, k - 1) BY <1>1, <4>1
      <4> QED BY <4>1, <4>3, <4>4 DEF CopyOrder
    <3> QED BY <3>1, <3>2, SocketTable
  <2>4. /\ reset' = {} /\ closed' = closed \cup SocksOf(p)
        /\ \A e \in Dirs, k \in Hops : /\ pipe'[e][k].fin = pipe[e][k].fin
                                       /\ AtEof(e, k) => AtEof(e, k)'
    BY <1>11, <2>1, <2>2, <2>3
  <2>5. ASSUME NEW e \in Dirs PROVE EndOrder(e)'
    <3>1. Sock(e, 0, 1) \notin SocksOf(p) BY SocketTable
    <3> QED BY <1>1, <2>1, <2>4, <3>1, Places DEF EndOrder
  <2>6. ASSUME NEW e \in Dirs, NEW n \in {1, 2} PROVE CopyOrder(e, n)'
    <3>1. CopyOrder(e, n) /\ n \in Hops /\ n + 1 \in Hops BY <1>1, Places
    <3>2. Buffered(e, n)' = Buffered(e, n) BY <2>1 DEF Buffered
    <3> QED BY <2>1, <2>4, <3>1, <3>2 DEF CopyOrder
  <2>7. \A r \in Procs : procPc'[r] = "closed" => Done(r)' BY <1>1, <1>2, <2>1 DEF Done
  <2> QED BY <1>3, <2>4, <2>5, <2>6, <2>7
<1>13. ASSUME NEW d \in Dirs, EndSends(d) PROVE OrderlyInv'
  <2>1. sent[d] + 1 \in Bytes BY <1>13, SendsByte
  <2>2. UNCHANGED <<seen, finished, procPc, copyPc, ahead>> /\ ~finished[d] /\ Write(d, 1, sent[d] + 1)
    BY <1>13 DEF EndSends, procVars
  <2>3. ~pipe[d][1].fin BY <1>1, <2>2 DEF EndOrder
  <2>4. /\ UNCHANGED <<reset, closed>>
        /\ \A e \in Dirs, k \in Hops : /\ pipe'[e][k].fin = pipe[e][k].fin
                                       /\ AtEof(e, k) => AtEof(e, k)'
    BY <1>0, <2>1, <2>2, <2>3, OrderlyWrite, Places
  <2>5. \A e \in Dirs, m \in {1, 2} : Buffered(e, m)' => Buffered(e, m) BY <2>2 DEF Buffered
  <2> QED BY <1>4, <2>2, <2>4, <2>5
<1>14. ASSUME NEW d \in Dirs, EndHalfCloses(d) PROVE OrderlyInv'
  <2>1. /\ SendFin(d, 1) /\ finished' = [finished EXCEPT ![d] = TRUE]
        /\ UNCHANGED <<procPc, copyPc, ahead, seen>>
    BY <1>14 DEF EndHalfCloses, procVars
  <2>2. \A e \in Dirs, k \in Hops :
           /\ pipe'[e][k].q = pipe[e][k].q
           /\ pipe'[e][k].fin = (pipe[e][k].fin \/ (e = d /\ k = 1))
    BY <2>1, FinSet, Places
  <2>3. UNCHANGED <<reset, closed>> BY <2>1 DEF SendFin
  <2>4. ASSUME NEW e \in Dirs, NEW k \in Hops PROVE AtEof(e, k) => AtEof(e, k)' BY <2>2 DEF AtEof
  <2>5. ASSUME NEW e \in Dirs PROVE EndOrder(e)'
    <3>1. EndOrder(e) /\ pipe[e][1].fin \in BOOLEAN BY <1>1, QueueType, Places
    <3>2. pipe'[e][1].fin <=> finished'[e]
      <4>1. CASE e = d BY <1>2, <2>1, <2>2, <4>1, Places
      <4>2. CASE e # d BY <1>2, <2>1, <2>2, <3>1, <4>2, Places DEF EndOrder
      <4> QED BY <4>1, <4>2
    <3>3. finished[e] => finished'[e] BY <1>2, <2>1
    <3> QED BY <2>1, <2>3, <2>4, <3>1, <3>2, <3>3, Places DEF EndOrder
  <2>6. ASSUME NEW e \in Dirs, NEW m \in {1, 2} PROVE CopyOrder(e, m)'
    <3>1. CopyOrder(e, m) /\ m \in Hops /\ m + 1 \in Hops BY <1>1, Places
    <3>2. Buffered(e, m)' = Buffered(e, m) BY <2>1 DEF Buffered
    <3>3. pipe'[e][m + 1].fin = pipe[e][m + 1].fin
      <4>1. m + 1 # 1 /\ pipe[e][m + 1].fin \in BOOLEAN BY <3>1, QueueType
      <4> QED BY <2>2, <3>1, <4>1
    <3> QED BY <2>1, <2>4, <3>1, <3>2, <3>3 DEF CopyOrder
  <2>7. \A p \in Procs : procPc'[p] = "closed" => Done(p)' BY <1>1, <2>1 DEF Done
  <2> QED BY <1>1, <1>3, <2>3, <2>5, <2>6, <2>7
<1>15. ASSUME NEW d \in Dirs, EndReceives(d) PROVE OrderlyInv'
  <2>1. Popped(d, 3) /\ UNCHANGED <<reset, closed, seen, finished, procPc, copyPc, ahead>>
    BY <1>15 DEF EndReceives, procVars, Popped, Put
  <2>2. \A e \in Dirs, k \in Hops : /\ pipe'[e][k].fin = pipe[e][k].fin
                                    /\ AtEof(e, k) => AtEof(e, k)'
    BY <1>5, <2>1, Places
  <2>3. \A e \in Dirs, m \in {1, 2} : Buffered(e, m)' => Buffered(e, m) BY <2>1 DEF Buffered
  <2> QED BY <1>4, <2>1, <2>2, <2>3
<1>16. ASSUME NEW d \in Dirs, EndSeesEnd(d) PROVE OrderlyInv'
  <2>1. /\ AtEof(d, 3) /\ seen[d] = "open" /\ seen' = [seen EXCEPT ![d] = "eof"]
        /\ UNCHANGED <<pipe, reset, closed, procPc, copyPc, ahead, finished>>
    BY <1>1, <1>16 DEF EndSeesEnd, Dead, tcpVars, procVars
  <2>2. ASSUME NEW e \in Dirs PROVE EndOrder(e)'
    <3>1. EndOrder(e) /\ Other(e) \in Dirs BY <1>1, SocketTable
    <3>2. seen'[e] # "broken" /\ (seen'[e] = "eof" => AtEof(e, 3))
      BY <1>2, <2>1, <3>1 DEF EndOrder
    <3>3. seen[Other(e)] = "eof" => seen'[Other(e)] = "eof" BY <1>2, <2>1, <3>1
    <3> QED BY <2>1, <3>1, <3>2, <3>3 DEF EndOrder, AtEof
  <2>3. ASSUME NEW e \in Dirs, NEW m \in {1, 2} PROVE CopyOrder(e, m)'
    BY <1>1, <2>1 DEF CopyOrder, AtEof, Buffered
  <2>4. \A p \in Procs : procPc'[p] = "closed" => Done(p)' BY <1>1, <2>1 DEF Done
  <2> QED BY <1>1, <1>3, <2>1, <2>2, <2>3, <2>4
<1>17. ASSUME NEW d \in Dirs, EndCloses(d) PROVE OrderlyInv'
  <2>1. /\ finished[d] /\ seen[Other(d)] # "open" /\ CloseSocks({Sock(d, 0, 1)})
        /\ finished' = [finished EXCEPT ![d] = TRUE]
        /\ UNCHANGED <<procPc, copyPc, ahead, seen>>
    BY <1>17 DEF EndCloses, procVars
  <2>2. Other(d) \in Dirs /\ seen[Other(d)] = "eof"
    BY <1>1, <1>2, <2>1, SocketTable DEF EndOrder
  <2>3. ASSUME NEW e \in Dirs, NEW k \in Hops, Sock(e, k, k) \in {Sock(d, 0, 1)} PROVE pipe[e][k].q = <<>>
    <3>1. e = Other(d) /\ k = 3 BY <2>3, SocketTable
    <3> QED BY <1>1, <2>2, <3>1 DEF EndOrder, AtEof
  <2>4. ASSUME NEW e \in Dirs, NEW k \in Hops, Sock(e, k - 1, k) \in {Sock(d, 0, 1)} PROVE pipe[e][k].fin
    <3>1. e = d /\ k = 1 BY <2>4, SocketTable
    <3> QED BY <1>1, <2>1, <3>1 DEF EndOrder
  <2>5. /\ reset' = {} /\ closed' = closed \cup {Sock(d, 0, 1)}
        /\ \A e \in Dirs, k \in Hops : /\ pipe'[e][k].fin = pipe[e][k].fin
                                       /\ AtEof(e, k) => AtEof(e, k)'
    BY <1>11, <2>1, <2>3, <2>4
  <2>6. finished' = finished BY <1>2, <2>1
  <2>7. ASSUME NEW e \in Dirs PROVE EndOrder(e)'
    <3>1. Sock(e, 0, 1) = Sock(d, 0, 1) => e = d BY Places, SocketTable
    <3> QED BY <1>1, <2>1, <2>2, <2>5, <2>6, <3>1, Places DEF EndOrder
  <2>8. ASSUME NEW e \in Dirs, NEW n \in {1, 2} PROVE CopyOrder(e, n)'
    <3>1. CopyOrder(e, n) /\ n \in Hops /\ n + 1 \in Hops BY <1>1, Places
    <3>2. Buffered(e, n)' = Buffered(e, n) BY <2>1 DEF Buffered
    <3> QED BY <2>1, <2>5, <3>1, <3>2 DEF CopyOrder
  <2>9. \A r \in Procs : procPc'[r] = "closed" => Done(r)' BY <1>1, <2>1 DEF Done
  <2> QED BY <1>3, <2>5, <2>7, <2>8, <2>9
<1>18. CASE HostGivesUp \/ \E p \in Procs : Killed(p) BY <1>18 DEF HostGivesUp, Killed
<1>19. CASE UNCHANGED spliceVars
  <2>1. UNCHANGED <<pipe, reset, closed, seen, finished, procPc, copyPc, ahead>>
    BY <1>19 DEF spliceVars, tcpVars, procVars, endVars
  <2> QED BY <1>4, <2>1 DEF AtEof, Buffered
<1> QED BY <1>6, <1>7, <1>8, <1>9, <1>10, <1>12, <1>13, <1>14, <1>15, <1>16, <1>17, <1>18, <1>19
       DEF SpliceNext

-----------------------------------------------------------------------------
\* The bytes in their order.
LEMMA FrameWhere ==
    ASSUME SpliceTypeOK, AckInv, NEW d \in Dirs, NEW h \in Hops, h # 2 \/ d = "down"
    PROVE  Framed(pipe[d][h].q) = 0
<1>1. pipe[d][h].q # <<>> => Head(pipe[d][h].q) = pipe[d][h].q[1] /\ 1 \in 1..Len(pipe[d][h].q)
  <2>1. pipe[d][h].q \in Seq(Items) BY QueueType
  <2>2. pipe[d][h].q # <<>> => Len(pipe[d][h].q) \in Nat \ {0} BY <2>1, LenProperties, EmptySeq
  <2> QED BY <2>1, <2>2
<1> QED BY <1>1 DEF AckInv, Framed

CountFacts == \A d \in Dirs :
    /\ Len(got[d]) \in Nat /\ \A h \in Hops : Len(pipe[d][h].q) \in Nat
    /\ Framed(pipe[d][2].q) \in {0, 1} /\ Framed(pipe[d][2].q) <= Len(pipe[d][2].q)
    /\ Beyond(d, 2) \in Nat /\ \A n \in {1, 2} : Held(d, n) \in {0, 1}
    /\ Written3(d) \in Nat /\ Written3(d) = Len(got[d]) + Len(pipe[d][3].q)
    /\ Taken2(d) \in Nat /\ Taken2(d) = Written3(d) + Held(d, 2)
    /\ Written2(d) \in Nat
    /\ Written2(d) = Taken2(d) + Beyond(d, 2) + Len(pipe[d][2].q) - Framed(pipe[d][2].q)
    /\ Taken1(d) \in Nat /\ Taken1(d) = Written2(d) + Held(d, 1)
    /\ Written1(d) \in Nat /\ Written1(d) = Taken1(d) + Len(pipe[d][1].q)

LEMMA Counts == SpliceTypeOK /\ AckInv => CountFacts
<1> SUFFICES ASSUME SpliceTypeOK, AckInv PROVE CountFacts
  OBVIOUS
<1>1. ASSUME NEW d \in Dirs
      PROVE  /\ Len(got[d]) \in Nat /\ \A h \in Hops : Len(pipe[d][h].q) \in Nat
             /\ Framed(pipe[d][2].q) \in {0, 1} /\ Framed(pipe[d][2].q) <= Len(pipe[d][2].q)
             /\ Beyond(d, 2) \in Nat /\ \A n \in {1, 2} : Held(d, n) \in {0, 1}
             /\ Written3(d) \in Nat /\ Written3(d) = Len(got[d]) + Len(pipe[d][3].q)
             /\ Taken2(d) \in Nat /\ Taken2(d) = Written3(d) + Held(d, 2)
             /\ Written2(d) \in Nat
             /\ Written2(d) = Taken2(d) + Beyond(d, 2) + Len(pipe[d][2].q) - Framed(pipe[d][2].q)
             /\ Taken1(d) \in Nat /\ Taken1(d) = Written2(d) + Held(d, 1)
             /\ Written1(d) \in Nat /\ Written1(d) = Taken1(d) + Len(pipe[d][1].q)
  <2>1. Len(got[d]) \in Nat /\ \A h \in Hops : Len(pipe[d][h].q) \in Nat BY SentType, QueueType
  <2>2. /\ Framed(pipe[d][2].q) \in {0, 1} /\ Framed(pipe[d][2].q) <= Len(pipe[d][2].q)
        /\ Framed(pipe[d][1].q) = 0 /\ Framed(pipe[d][3].q) = 0
    BY QueueType, FramedType, FrameWhere, Places
  <2>3. /\ Beyond(d, 2) \in Nat /\ Beyond(d, 1) = 0 /\ Beyond(d, 3) = 0
        /\ \A n \in {1, 2} : Held(d, n) \in {0, 1}
    BY SentType DEF Beyond, Held
  <2> DEFINE g == Len(got[d])
             q == pipe[d][3].q
  <2>4. Written3(d) = g + Len(q) /\ Written3(d) \in Nat
    <3>1. Written3(d) = g + Beyond(d, 3) + Len(q) - Framed(q)
      BY DEF Written3, Written
    <3>2. g \in Nat /\ Len(q) \in Nat /\ Beyond(d, 3) = 0 /\ Framed(q) = 0 BY <2>1, <2>2, <2>3, Places
    <3> HIDE DEF g, q
    <3> QED BY <3>1, <3>2
  <2>5. Taken2(d) = Written3(d) + Held(d, 2) /\ Taken2(d) \in Nat
    <3>1. Held(d, 2) \in {0, 1} BY <2>3
    <3>2. Written3(d) \in Nat BY <2>4
    <3> QED BY <3>1, <3>2 DEF Taken2
  <2>6. /\ Written2(d) = Taken2(d) + Beyond(d, 2) + Len(pipe[d][2].q) - Framed(pipe[d][2].q)
        /\ Written2(d) \in Nat
    BY <2>1, <2>2, <2>3, <2>5, Places DEF Written2, Written
  <2>7. Taken1(d) = Written2(d) + Held(d, 1) /\ Taken1(d) \in Nat BY <2>3, <2>6 DEF Taken1
  <2>8. Written1(d) = Taken1(d) + Len(pipe[d][1].q) /\ Written1(d) \in Nat
    BY <2>1, <2>2, <2>3, <2>7, Places DEF Written1, Written
  <2> QED BY <2>1, <2>2, <2>3, <2>4, <2>5, <2>6, <2>7, <2>8
<1> QED BY <1>1 DEF CountFacts

LEMMA CountsNext == (SpliceTypeOK /\ AckInv => CountFacts)'
BY Counts, PTL

\* What was lost stays lost.
LEMMA Losses ==
    ASSUME SpliceTypeOK, PlaceInv, [SpliceNext]_spliceVars
    PROVE  /\ broken => broken'
           /\ reset \subseteq reset'
           /\ \A c \in Copies : copyPc[c] = "done" => copyPc'[c] = "done"
<1>1. copyPc \in [Copies -> {"off", "copy", "done"}] BY DEF SpliceTypeOK
<1>2. broken => broken'
  BY DEF SpliceNext, HostReadsAck, HostDials, HostGivesUp, CopyRead, CopyWrite, CopyEnds, SpliceOver, Killed,
         EndSends, EndHalfCloses, EndReceives, EndSeesEnd, EndCloses, endVars, spliceVars
<1>3. reset \subseteq reset'
  BY DEF SpliceNext, HostReadsAck, HostDials, HostGivesUp, CopyRead, CopyWrite, CopyEnds, SpliceOver, Killed,
         EndSends, EndHalfCloses, EndReceives, EndSeesEnd, EndCloses, tcpVars, spliceVars,
         CloseSocks, Write, CloseWrite, SendFin
<1>4. CASE UNCHANGED copyPc BY <1>2, <1>3, <1>4
<1>5. CASE HostDials
  <2>1. copyPc' = [c \in Copies |-> IF c \in CopiesOf("host") THEN "copy" ELSE copyPc[c]]
        /\ procPc["host"] = "dial"
    BY <1>5 DEF HostDials
  <2>2. \A c \in CopiesOf("host") : copyPc[c] = "off" BY <2>1, SocketOwners DEF PlaceInv
  <2> QED BY <1>2, <1>3, <2>1, <2>2
<1>6. CASE \E d \in Dirs, n \in {1, 2} : CopyEnds(d, n) BY <1>1, <1>2, <1>3, <1>6 DEF CopyEnds
<1>7. CASE \E p \in Procs : Killed(p)
  <2>1. \A c \in Copies : copyPc[c] = "done" => copyPc'[c] = "done" BY <1>1, <1>7 DEF Killed
  <2> QED BY <1>2, <1>3, <2>1
<1>8. \/ UNCHANGED copyPc \/ HostDials \/ (\E d \in Dirs, n \in {1, 2} : CopyEnds(d, n))
      \/ (\E p \in Procs : Killed(p))
  BY DEF SpliceNext, HostReadsAck, HostGivesUp, CopyRead, CopyWrite, SpliceOver,
         EndSends, EndHalfCloses, EndReceives, EndSeesEnd, EndCloses, procVars, spliceVars
<1> QED BY <1>4, <1>5, <1>6, <1>7, <1>8

LEMMA LinkedBack ==
    ASSUME SpliceTypeOK, PlaceInv, [SpliceNext]_spliceVars, NEW d \in Dirs, NEW n \in {1, 2}, Linked(d, n)'
    PROVE  Linked(d, n)
BY Losses, SocketFacts DEF Linked, Dead

LEMMA FrameRead ==
    SpliceTypeOK /\ PlaceInv /\ AckInv =>
        \A d \in Dirs, n \in {1, 2} : copyPc[<<d, n>>] = "copy" => Framed(pipe[d][n].q) = 0
<1> SUFFICES ASSUME SpliceTypeOK, PlaceInv, AckInv, NEW d \in Dirs, NEW n \in {1, 2}, copyPc[<<d, n>>] = "copy"
             PROVE  Framed(pipe[d][n].q) = 0
  OBVIOUS
<1>1. CASE pipe[d][n].q = <<>> BY <1>1 DEF Framed
<1>2. CASE pipe[d][n].q # <<>> BY <1>2, NoFrame, Places
<1> QED BY <1>1, <1>2

LEMMA FrameReadNext ==
    (SpliceTypeOK /\ PlaceInv /\ AckInv =>
        \A d \in Dirs, n \in {1, 2} : copyPc[<<d, n>>] = "copy" => Framed(pipe[d][n].q) = 0)'
BY FrameRead, PTL

\* A step from a good state, of which all but the order of the bytes is known.
FlowStepFrom ==
    /\ SpliceInv /\ [SpliceNext]_spliceVars
    /\ SpliceTypeOK' /\ PlaceInv' /\ AckInv'

Flow(d) == Flow3(d) /\ Flow2(d) /\ Flow1(d)

LEMMA FlowBase ==
    ASSUME FlowStepFrom, NEW d \in Dirs
    PROVE  /\ SpliceTypeOK /\ PlaceInv /\ AckInv /\ OrderlyInv
           /\ CountFacts /\ CountFacts'
           /\ Flow3(d) /\ Flow2(d) /\ Flow1(d)
           /\ \A n \in {1, 2} : Linked(d, n)' => Linked(d, n)
           /\ Dead(d, 1) => Dead(d, 1)'
<1>1. SpliceTypeOK /\ PlaceInv /\ AckInv /\ OrderlyInv /\ FlowInv /\ [SpliceNext]_spliceVars
      /\ SpliceTypeOK' /\ AckInv'
  BY DEF FlowStepFrom, SpliceInv
<1>2. CountFacts /\ CountFacts' BY <1>1, Counts, CountsNext
<1>3. Flow3(d) /\ Flow2(d) /\ Flow1(d) BY <1>1 DEF FlowInv
<1>4. \A n \in {1, 2} : Linked(d, n)' => Linked(d, n) BY <1>1, LinkedBack
<1>5. Dead(d, 1) => Dead(d, 1)' BY <1>1, Losses DEF Dead
<1> QED BY <1>1, <1>2, <1>3, <1>4, <1>5

\* What keeps the order above a place where it was kept.
LEMMA Flow1Kept ==
    ASSUME FlowStepFrom, NEW d \in Dirs,
           Linked(d, 2)' /\ Linked(d, 1)' =>
               Taken1(d)' = Taken1(d) /\ hand'[<<d, 1>>] \in {None, Written2(d)' + 1},
           pipe'[d][1].q = pipe[d][1].q, sent'[d] = sent[d]
    PROVE  Flow1(d)'
<1> SUFFICES ASSUME Linked(d, 2)', Linked(d, 1)'
             PROVE  /\ hand'[<<d, 1>>] \in {None, Written2(d)' + 1}
                    /\ Run(pipe[d][1].q, 0, Taken1(d)')
                    /\ ~Dead(d, 1)' => sent[d] = Written1(d)'
  BY DEF Flow1
<1>1. Linked(d, 2) /\ Linked(d, 1) /\ Flow1(d) /\ (Dead(d, 1) => Dead(d, 1)') BY FlowBase
<1>2. Written1(d)' = Written1(d) BY DEF Written1, Written, Beyond
<1> QED BY <1>1, <1>2 DEF Flow1

LEMMA Flow2Kept ==
    ASSUME FlowStepFrom, NEW d \in Dirs,
           Linked(d, 2)' => Taken2(d)' = Taken2(d) /\ hand'[<<d, 2>>] \in {None, Written3(d)' + 1},
           pipe'[d][2].q = pipe[d][2].q, d = "up" => ahead' = ahead
    PROVE  Flow2(d)' /\ (Linked(d, 2)' => Written2(d)' = Written2(d))
<1> SUFFICES ASSUME Linked(d, 2)'
             PROVE  /\ hand'[<<d, 2>>] \in {None, Written3(d)' + 1}
                    /\ d = "up" => Run(ahead, 0, Taken2(d)')
                    /\ Run(pipe[d][2].q, Framed(pipe[d][2].q), Taken2(d)' + Beyond(d, 2)')
                    /\ Written2(d)' = Written2(d)
  BY DEF Flow2
<1>1. Linked(d, 2) /\ Flow2(d) BY FlowBase
<1>2. Beyond(d, 2)' = Beyond(d, 2) BY DEF Beyond
<1>3. Written2(d)' = Written2(d) BY <1>2 DEF Written2, Written
<1> QED BY <1>1, <1>2, <1>3 DEF Flow2

LEMMA Flow1Above ==
    ASSUME FlowStepFrom, NEW d \in Dirs, Linked(d, 2)' => Written2(d)' = Written2(d),
           Linked(d, 1)' => hand'[<<d, 1>>] = hand[<<d, 1>>],
           pipe'[d][1].q = pipe[d][1].q, sent'[d] = sent[d]
    PROVE  Flow1(d)'
<1>1. ASSUME Linked(d, 2)', Linked(d, 1)'
      PROVE  Taken1(d)' = Taken1(d) /\ hand'[<<d, 1>>] \in {None, Written2(d)' + 1}
  <2>1. Linked(d, 2) /\ Linked(d, 1) /\ Flow1(d) BY <1>1, FlowBase
  <2>2. Held(d, 1)' = Held(d, 1) BY <1>1 DEF Held
  <2> QED BY <1>1, <2>1, <2>2 DEF Flow1, Taken1
<1> QED BY <1>1, Flow1Kept

LEMMA FlowAbove ==
    ASSUME FlowStepFrom, NEW d \in Dirs, Written3(d)' = Written3(d),
           \A n \in {1, 2} : /\ Linked(d, n)' => hand'[<<d, n>>] = hand[<<d, n>>]
                             /\ pipe'[d][n].q = pipe[d][n].q,
           d = "up" => ahead' = ahead, sent'[d] = sent[d]
    PROVE  Flow2(d)' /\ Flow1(d)'
<1>1. ASSUME Linked(d, 2)'
      PROVE  Taken2(d)' = Taken2(d) /\ hand'[<<d, 2>>] \in {None, Written3(d)' + 1}
  <2>1. Linked(d, 2) /\ Flow2(d) BY <1>1, FlowBase
  <2>2. Held(d, 2)' = Held(d, 2) BY <1>1 DEF Held
  <2> QED BY <1>1, <2>1, <2>2 DEF Flow2, Taken2
<1>2. Flow2(d)' /\ (Linked(d, 2)' => Written2(d)' = Written2(d)) BY <1>1, Flow2Kept
<1> QED BY <1>2, Flow1Above

LEMMA FlowSame ==
    ASSUME FlowStepFrom, NEW d \in Dirs,
           \A h \in Hops : pipe'[d][h].q = pipe[d][h].q,
           \A n \in {1, 2} : Linked(d, n)' => hand'[<<d, n>>] = hand[<<d, n>>],
           d = "up" => ahead' = ahead, sent'[d] = sent[d], got'[d] = got[d]
    PROVE  Flow(d)'
<1>1. Flow3(d)' BY FlowBase, Places DEF Flow3
<1>2. Written3(d)' = Written3(d) BY Places DEF Written3, Written, Beyond
<1>3. Flow2(d)' /\ Flow1(d)' BY <1>2, FlowAbove, Places
<1> QED BY <1>1, <1>3 DEF Flow

\* Each step that moves a byte, for the direction of the byte.
LEMMA FlowAck ==
    ASSUME FlowStepFrom, HostReadsAck
    PROVE  Flow("up")'
<1> DEFINE q == pipe["up"][2].q
           r == pipe'["up"][2].q
<1>0. /\ SpliceTypeOK /\ AckInv /\ SpliceTypeOK' /\ CountFacts /\ CountFacts' /\ "up" \in Dirs
      /\ Flow3("up") /\ Flow2("up") /\ Flow1("up")
      /\ Linked("up", 2)' => Linked("up", 2)
  BY FlowBase, Places DEF FlowStepFrom
<1>1. procPc["host"] = "attach" /\ ahead = <<>> /\ UNCHANGED <<hand, got, sent>>
  BY <1>0 DEF HostReadsAck, endVars, AckInv
<1>2. PICK k \in 1..Len(q) :
        /\ ahead' = SubSeq(q, 2, k) /\ r = SubSeq(q, k + 1, Len(q))
        /\ \A e \in Dirs, h \in Hops : ~(e = "up" /\ h = 2) => pipe'[e][h] = pipe[e][h]
  BY <1>0, AckReadPipe
<1>3. /\ q \in Seq(Items) /\ Framed(q) = 1 /\ r \in Seq(Bytes)
      /\ Len(ahead') = k - 1 /\ Len(r) = Len(q) - k /\ Len(q) \in Nat
  BY <1>0, <1>1, <1>2, AckRead
<1>4. Framed(r) = 0
  <2>1. CASE r = <<>> BY <2>1 DEF Framed
  <2>2. CASE r # <<>>
    <3>1. Head(r) \in Bytes BY <1>3, <2>2, HeadTailProperties
    <3> QED BY <3>1, ItemsNat DEF Framed, Ack
  <2> QED BY <2>1, <2>2
<1>5. Beyond("up", 2) = 0 /\ Beyond("up", 2)' = k - 1
  <2>1. Len(ahead) = 0 BY <1>1
  <2> QED BY <1>3, <2>1 DEF Beyond
<1>6. Flow3("up")' /\ Written3("up")' = Written3("up")
  BY <1>0, <1>1, <1>2, Places DEF Flow3, Written3, Written, Beyond
<1>7. Taken2("up")' = Taken2("up") BY <1>1, <1>6 DEF Taken2, Held
<1>8. Taken2("up") \in Nat BY <1>0 DEF CountFacts
<1>9. Written2("up")' = Written2("up")
  <2>1. Written2("up") = Taken2("up") + Beyond("up", 2) + Len(q) - Framed(q) BY DEF Written2, Written
  <2>2. Written2("up")' = Taken2("up")' + Beyond("up", 2)' + Len(r) - Framed(r) BY DEF Written2, Written
  <2>3. k \in Nat BY <1>3
  <2> HIDE DEF q, r
  <2> QED BY <1>3, <1>4, <1>5, <1>7, <1>8, <2>1, <2>2, <2>3
<1>10. Flow2("up")'
  <2> SUFFICES ASSUME Linked("up", 2)'
               PROVE  /\ hand'[<<"up", 2>>] \in {None, Written3("up")' + 1}
                      /\ Run(ahead', 0, Taken2("up")')
                      /\ Run(r, Framed(r), Taken2("up")' + Beyond("up", 2)')
    BY DEF Flow2
  <2>1. /\ hand[<<"up", 2>>] \in {None, Written3("up") + 1}
        /\ Run(q, Framed(q), Taken2("up") + Beyond("up", 2))
    BY <1>0 DEF Flow2
  <2> HIDE DEF q, r
  <2>2. Run(q, 1, Taken2("up"))
    <3>1. Taken2("up") + Beyond("up", 2) = Taken2("up") BY <1>5, <1>8
    <3> QED BY <1>3, <2>1, <3>1
  <2>3. Run(ahead', 0, Taken2("up")) /\ Run(r, 0, Taken2("up") + k - 1)
    BY <1>2, <1>3, <1>8, <2>2, RunCut
  <2>4. Taken2("up") + Beyond("up", 2)' = Taken2("up") + k - 1 BY <1>3, <1>5, <1>8
  <2> QED BY <1>1, <1>4, <1>6, <1>7, <2>1, <2>3, <2>4
<1>11. Flow1("up")' BY <1>0, <1>1, <1>2, <1>9, Flow1Above, Places
<1> QED BY <1>6, <1>10, <1>11 DEF Flow

LEMMA FlowRead2 ==
    ASSUME FlowStepFrom, NEW d \in Dirs, CopyRead(d, 2)
    PROVE  Flow(d)'
<1>0. /\ SpliceTypeOK /\ SpliceTypeOK' /\ PlaceInv /\ AckInv /\ PlaceInv' /\ AckInv'
      /\ CountFacts /\ CountFacts' /\ Flow3(d) /\ Flow2(d) /\ Flow1(d)
      /\ Linked(d, 2)' => Linked(d, 2)
  BY FlowBase DEF FlowStepFrom
<1>1. /\ copyPc[<<d, 2>>] = "copy" /\ UNCHANGED copyPc /\ hand[<<d, 2>>] = None
      /\ UNCHANGED <<got, sent>>
  BY DEF CopyRead, endVars
<1>2. Framed(pipe[d][2].q) = 0 /\ Framed(pipe'[d][2].q) = 0
  <2>1. copyPc'[<<d, 2>>] = "copy" BY <1>1
  <2> QED BY <1>0, <1>1, <2>1, FrameRead, FrameReadNext
<1>3. /\ Written3(d) \in Nat /\ Taken2(d) = Written3(d) + Held(d, 2) /\ Taken2(d)' = Written3(d)' + Held(d, 2)'
      /\ Beyond(d, 2) \in Nat /\ Len(pipe[d][2].q) \in Nat
  BY <1>0, Places DEF CountFacts
<1>4. Written2(d) = Taken2(d) + Beyond(d, 2) + Len(pipe[d][2].q) - Framed(pipe[d][2].q)
      /\ Written2(d)' = Taken2(d)' + Beyond(d, 2)' + Len(pipe'[d][2].q) - Framed(pipe'[d][2].q)
  BY DEF Written2, Written
\* What was read is the next byte.
<1>5. ASSUME NEW b \in Bytes, hand' = [hand EXCEPT ![<<d, 2>>] = b]
      PROVE  Held(d, 2) = 0 /\ Held(d, 2)' = 1 /\ hand'[<<d, 2>>] = b /\ hand'[<<d, 1>>] = hand[<<d, 1>>]
  <2>1. hand \in [Copies -> {None} \cup Bytes] BY <1>0 DEF SpliceTypeOK
  <2>2. b # None BY ItemsNat DEF None
  <2>3. <<d, 1>> \in Copies /\ <<d, 2>> \in Copies /\ <<d, 1>> # <<d, 2>> BY SocketFacts
  <2>4. hand'[<<d, 2>>] = b /\ hand'[<<d, 1>>] = hand[<<d, 1>>] BY <1>5, <2>1, <2>3
  <2> QED BY <1>1, <2>2, <2>4 DEF Held
<1>6. CASE Buffered(d, 2)
  <2>1. /\ d = "up" /\ ahead # <<>> /\ ahead' = Tail(ahead) /\ UNCHANGED pipe
        /\ hand' = [hand EXCEPT ![<<d, 2>>] = Head(ahead)]
    BY <1>6 DEF CopyRead, Buffered
  <2>2. ahead \in Seq(Items) /\ Head(ahead) \in Bytes
        /\ Len(ahead') = Len(ahead) - 1 /\ Len(ahead) \in Nat \ {0}
    <3>1. ahead \in Seq(Bytes) BY <1>0, SentType
    <3>2. ahead \in Seq(Items)
      <4>1. Bytes \subseteq Items BY DEF Items
      <4>2. Len(ahead) \in Nat /\ \A i \in 1..Len(ahead) : ahead[i] \in Bytes
        BY <3>1, ElementOfSeq, LenProperties
      <4>3. ahead = [i \in 1..Len(ahead) |-> ahead[i]] BY <3>1
      <4> QED BY <4>1, <4>2, <4>3
    <3> QED BY <2>1, <3>1, <3>2, HeadTailProperties, EmptySeq, LenProperties
  <2>3. Held(d, 2) = 0 /\ Held(d, 2)' = 1 /\ hand'[<<d, 2>>] = Head(ahead) /\ hand'[<<d, 1>>] = hand[<<d, 1>>]
    BY <1>5, <2>1, <2>2
  <2>4. Beyond(d, 2) = Len(ahead) /\ Beyond(d, 2)' = Len(ahead) - 1 BY <2>1, <2>2 DEF Beyond
  <2>5. Flow3(d)' /\ Written3(d)' = Written3(d) BY <1>0, <1>1, <2>1 DEF Flow3, Written3, Written, Beyond
  <2>6. Taken2(d) = Written3(d) /\ Taken2(d)' = Written3(d) + 1 BY <1>3, <2>3, <2>5
  <2>7. Taken2(d)' + Beyond(d, 2)' = Taken2(d) + Beyond(d, 2) BY <1>3, <2>2, <2>4, <2>6
  <2>8. Written2(d)' = Written2(d) BY <1>4, <2>1, <2>7
  <2>9. Flow2(d)'
    <3> SUFFICES ASSUME Linked(d, 2)'
                 PROVE  /\ hand'[<<d, 2>>] \in {None, Written3(d)' + 1}
                        /\ Run(ahead', 0, Taken2(d)')
                        /\ Run(pipe'[d][2].q, Framed(pipe'[d][2].q), Taken2(d)' + Beyond(d, 2)')
      BY DEF Flow2
    <3>1. Run(ahead, 0, Taken2(d)) /\ Run(pipe[d][2].q, Framed(pipe[d][2].q), Taken2(d) + Beyond(d, 2))
      BY <1>0, <2>1 DEF Flow2
    <3>2. Head(ahead) = Written3(d) + 1 /\ Run(Tail(ahead), 0, Written3(d) + 1)
      BY <1>3, <2>1, <2>2, <2>6, <3>1, RunTail
    <3> QED BY <2>1, <2>3, <2>5, <2>6, <2>7, <3>1, <3>2
  <2>10. Flow1(d)' BY <1>1, <2>1, <2>3, <2>8, Flow1Above
  <2> QED BY <2>5, <2>9, <2>10 DEF Flow
<1>7. CASE ~Buffered(d, 2)
  <2>1. /\ Popped(d, 2) /\ ahead' = ahead
        /\ hand' = [hand EXCEPT ![<<d, 2>>] = Head(pipe[d][2].q)]
    BY <1>7 DEF CopyRead, Popped, Put
  <2> DEFINE q == pipe[d][2].q
  <2>2. /\ pipe'[d][2].q = Tail(q) /\ q \in Seq(Items) /\ q # <<>>
        /\ pipe'[d][3] = pipe[d][3] /\ pipe'[d][1] = pipe[d][1]
    BY <1>0, <2>1, PopType, QueueType, Places DEF Popped
  <2>3. Head(q) \in Bytes BY <1>0, <1>1, <2>2, NoFrame, Places
  <2>4. Held(d, 2) = 0 /\ Held(d, 2)' = 1 /\ hand'[<<d, 2>>] = Head(q) /\ hand'[<<d, 1>>] = hand[<<d, 1>>]
    BY <1>5, <2>1, <2>3
  <2>5. Beyond(d, 2) = 0 /\ Beyond(d, 2)' = 0 /\ (d = "up" => ahead = <<>>)
    BY <1>7, <2>1 DEF Beyond, Buffered
  <2>6. Flow3(d)' /\ Written3(d)' = Written3(d) BY <1>0, <1>1, <2>2 DEF Flow3, Written3, Written, Beyond
  <2>7. Taken2(d) = Written3(d) /\ Taken2(d)' = Written3(d) + 1 BY <1>3, <2>4, <2>6
  <2>8. Len(Tail(q)) = Len(q) - 1 /\ Len(q) \in Nat BY <2>2, HeadTailProperties, LenProperties
  <2>9. Written2(d) = Taken2(d) + Beyond(d, 2) + Len(q) - Framed(q)
        /\ Written2(d)' = Taken2(d)' + Beyond(d, 2)' + Len(Tail(q)) - Framed(Tail(q))
    BY <1>4, <2>2
  <2>10. Framed(q) = 0 /\ Framed(Tail(q)) = 0 BY <1>2, <2>2
  <2>11. ASSUME Linked(d, 2)' PROVE Run(q, Framed(q), Taken2(d) + Beyond(d, 2))
    BY <1>0, <2>11 DEF Flow2
  <2> HIDE DEF q
  <2>12. Written2(d)' = Written2(d)
    <3> DEFINE w == Written3(d)
               l == Len(q)
    <3>1. Written2(d) = w + 0 + l - 0 BY <2>5, <2>7, <2>9, <2>10
    <3>2. Written2(d)' = w + 1 + 0 + (l - 1) - 0 BY <2>5, <2>7, <2>8, <2>9, <2>10
    <3>3. w \in Nat /\ l \in Nat BY <1>3, <2>8
    <3> HIDE DEF w, l
    <3> QED BY <3>1, <3>2, <3>3
  <2>13. ASSUME Linked(d, 2)'
         PROVE  /\ hand'[<<d, 2>>] = Written3(d) + 1
                /\ Run(Tail(q), Framed(Tail(q)), Taken2(d)' + Beyond(d, 2)')
    <3>1. Run(q, 0, Written3(d))
      <4>1. Taken2(d) + Beyond(d, 2) = Written3(d) BY <1>3, <2>5, <2>7
      <4> QED BY <2>10, <2>11, <2>13, <4>1
    <3>2. Head(q) = Written3(d) + 1 /\ Run(Tail(q), 0, Written3(d) + 1)
      BY <1>3, <2>2, <3>1, RunTail
    <3>3. Taken2(d)' + Beyond(d, 2)' = Written3(d) + 1 BY <1>3, <2>5, <2>7
    <3> QED BY <2>4, <2>10, <3>2, <3>3
  <2>14. d = "up" => Run(ahead', 0, Taken2(d)')
    <3>1. d = "up" => Len(ahead') = 0 BY <2>1, <2>5
    <3> QED BY <3>1 DEF Run
  <2>15. Flow2(d)' BY <2>2, <2>6, <2>13, <2>14 DEF Flow2
  <2>16. Flow1(d)' BY <1>1, <2>2, <2>4, <2>12, Flow1Above
  <2> QED BY <2>6, <2>15, <2>16 DEF Flow
<1> QED BY <1>6, <1>7

LEMMA FlowRead1 ==
    ASSUME FlowStepFrom, NEW d \in Dirs, CopyRead(d, 1)
    PROVE  Flow(d)'
<1> DEFINE q == pipe[d][1].q
<1>0. /\ SpliceTypeOK /\ PlaceInv /\ AckInv /\ CountFacts /\ CountFacts'
      /\ Flow3(d) /\ Flow2(d) /\ Flow1(d)
      /\ \A n \in {1, 2} : Linked(d, n)' => Linked(d, n)
      /\ Dead(d, 1) => Dead(d, 1)'
  BY FlowBase
<1>1. /\ copyPc[<<d, 1>>] = "copy" /\ hand[<<d, 1>>] = None /\ UNCHANGED <<got, sent, ahead>>
      /\ hand' = [hand EXCEPT ![<<d, 1>>] = Head(q)] /\ Popped(d, 1)
  BY DEF CopyRead, Buffered, endVars, Popped, Put
<1>2. /\ pipe'[d][1].q = Tail(q) /\ q \in Seq(Items) /\ q # <<>>
      /\ pipe'[d][3] = pipe[d][3] /\ pipe'[d][2] = pipe[d][2]
  BY <1>0, <1>1, PopType, QueueType, Places DEF Popped
<1>3. Head(q) \in Bytes BY <1>0, <1>1, <1>2, NoFrame, Places
<1>4. hand'[<<d, 1>>] = Head(q) /\ hand'[<<d, 2>>] = hand[<<d, 2>>] /\ Held(d, 1) = 0 /\ Held(d, 1)' = 1
  <2>1. hand \in [Copies -> {None} \cup Bytes] BY <1>0 DEF SpliceTypeOK
  <2>2. <<d, 1>> \in Copies /\ <<d, 2>> \in Copies /\ <<d, 1>> # <<d, 2>> BY SocketFacts
  <2>3. hand'[<<d, 1>>] = Head(q) /\ hand'[<<d, 2>>] = hand[<<d, 2>>] BY <1>1, <2>1, <2>2
  <2>4. Head(q) # None BY <1>3, ItemsNat DEF None
  <2> QED BY <1>1, <2>3, <2>4 DEF Held
<1>5. Flow3(d)' /\ Written3(d)' = Written3(d) BY <1>0, <1>1, <1>2 DEF Flow3, Written3, Written, Beyond
<1>6. Taken2(d)' = Taken2(d) BY <1>4, <1>5 DEF Taken2, Held
<1>7. ASSUME Linked(d, 2)' PROVE hand'[<<d, 2>>] \in {None, Written3(d)' + 1}
  BY <1>0, <1>4, <1>5, <1>7 DEF Flow2
<1>8. Flow2(d)' /\ (Linked(d, 2)' => Written2(d)' = Written2(d)) BY <1>1, <1>2, <1>6, <1>7, Flow2Kept
<1>9. Flow1(d)'
  <2> SUFFICES ASSUME Linked(d, 2)', Linked(d, 1)'
               PROVE  /\ hand'[<<d, 1>>] \in {None, Written2(d)' + 1}
                      /\ Run(pipe'[d][1].q, 0, Taken1(d)')
                      /\ ~Dead(d, 1)' => sent'[d] = Written1(d)'
    BY DEF Flow1
  <2>1. Run(q, 0, Taken1(d)) /\ (~Dead(d, 1)' => sent[d] = Written1(d)) BY <1>0 DEF Flow1
  <2>2. /\ Written2(d) \in Nat /\ Taken1(d) = Written2(d) + Held(d, 1)
        /\ Taken1(d)' = Written2(d)' + Held(d, 1)'
        /\ Written1(d) = Taken1(d) + Len(q) /\ Written1(d)' = Taken1(d)' + Len(pipe'[d][1].q)
    BY <1>0 DEF CountFacts
  <2>3. Written2(d)' = Written2(d) BY <1>8
  <2>4. Taken1(d) = Written2(d) /\ Taken1(d)' = Written2(d) + 1
    <3>1. Taken1(d) = Written2(d) + 0 /\ Taken1(d)' = Written2(d) + 1 BY <1>4, <2>2, <2>3
    <3>2. Written2(d) \in Nat BY <2>2
    <3> QED BY <3>1, <3>2
  <2> HIDE DEF q
  <2>5. /\ Head(q) = Written2(d) + 1 /\ Run(Tail(q), 0, Written2(d) + 1)
        /\ Len(Tail(q)) = Len(q) - 1 /\ Len(q) \in Nat \ {0}
    BY <1>2, <2>1, <2>2, <2>4, RunTail
  <2>6. Written1(d)' = Written1(d)
    <3> DEFINE w == Written2(d)
               l == Len(q)
    <3>1. Written1(d) = w + l BY <2>2, <2>4 DEF q
    <3>2. Written1(d)' = (w + 1) + (l - 1) BY <1>2, <2>2, <2>4, <2>5
    <3>3. w \in Nat /\ l \in Nat BY <2>2, <2>5
    <3> HIDE DEF w, l
    <3> QED BY <3>1, <3>2, <3>3
  <2> QED BY <1>1, <1>2, <1>4, <2>1, <2>3, <2>4, <2>5, <2>6
<1> QED BY <1>5, <1>8, <1>9 DEF Flow

LEMMA FramedAppend ==
    ASSUME NEW q \in Seq(Items), NEW b \in Bytes
    PROVE  /\ Append(q, b) \in Seq(Items) /\ Len(Append(q, b)) = Len(q) + 1
           /\ Framed(Append(q, b)) = Framed(q)
<1>1. b \in Items /\ b # Ack BY ItemsNat DEF Items, Ack
<1>2. Append(q, b) \in Seq(Items) /\ Len(Append(q, b)) = Len(q) + 1 /\ Append(q, b) # <<>>
  BY <1>1, AppendProperties
<1>3. CASE q = <<>>
  <2>1. Append(q, b)[1] = b /\ Head(Append(q, b)) = Append(q, b)[1] BY <1>1, <1>2, <1>3, AppendProperties
  <2> QED BY <1>1, <1>2, <1>3, <2>1 DEF Framed
<1>4. CASE q # <<>>
  <2>1. Head(Append(q, b)) = Head(q) BY <1>1, <1>4
  <2> QED BY <1>2, <1>4, <2>1 DEF Framed
<1> QED BY <1>2, <1>3, <1>4

\* A copy that loses a byte is linked no more.
LEMMA WriteLost ==
    ASSUME FlowStepFrom, NEW d \in Dirs, NEW n \in {1, 2}, CopyWrite(d, n),
           reset' = reset \cup {Conn(d, n + 1)}, Sock(d, n + 1, n + 1) \in closed
    PROVE  ~Linked(d, n)'
<1>1. PlaceInv /\ OrderlyInv BY FlowBase
<1>2. copyPc[<<d, n>>] = "copy" /\ UNCHANGED broken BY DEF CopyWrite, endVars
<1>3. ~broken => ~pipe[d][n + 1].fin BY <1>1, <1>2 DEF OrderlyInv, CopyOrder
<1>4. broken BY <1>1, <1>3, ReaderThere, Places
<1> QED BY <1>2, <1>4 DEF Linked, Dead

LEMMA FlowWrite2 ==
    ASSUME FlowStepFrom, NEW d \in Dirs, CopyWrite(d, 2)
    PROVE  Flow(d)'
<1> DEFINE b == hand[<<d, 2>>]
           q == pipe[d][3].q
<1>0. /\ SpliceTypeOK /\ AckInv /\ CountFacts /\ CountFacts' /\ Flow3(d) /\ Flow2(d) /\ Flow1(d)
      /\ \A n \in {1, 2} : Linked(d, n)' => Linked(d, n)
  BY FlowBase
<1>1. /\ copyPc[<<d, 2>>] = "copy" /\ b # None /\ Write(d, 3, b)
      /\ hand' = [hand EXCEPT ![<<d, 2>>] = None] /\ UNCHANGED <<got, sent, ahead>>
  BY DEF CopyWrite, endVars
<1>2. b \in Bytes BY <1>0, <1>1, SentType
<1>3. hand'[<<d, 2>>] = None /\ hand'[<<d, 1>>] = hand[<<d, 1>>]
  <2>1. hand \in [Copies -> {None} \cup Bytes] BY <1>0 DEF SpliceTypeOK
  <2>2. <<d, 1>> \in Copies /\ <<d, 2>> \in Copies /\ <<d, 1>> # <<d, 2>> BY SocketFacts
  <2> QED BY <1>1, <2>1, <2>2
<1>4. CASE /\ ~Dead(d, 3) /\ pipe'[d][3].q = Append(q, b)
           /\ pipe'[d][2] = pipe[d][2] /\ pipe'[d][1] = pipe[d][1]
  <2>1. Linked(d, 2) BY <1>1, <1>4 DEF Linked
  <2>2. b = Written3(d) + 1 BY <1>0, <1>1, <2>1 DEF Flow2
  <2>3. /\ Len(got[d]) \in Nat /\ Written3(d) = Len(got[d]) + Len(q) /\ Written3(d) \in Nat
        /\ Written3(d)' = Len(got[d]) + Len(Append(q, b))
        /\ Taken2(d) = Written3(d) + Held(d, 2) /\ Taken2(d)' = Written3(d)' + Held(d, 2)'
    <3>1. got'[d] = got[d] BY <1>1
    <3> QED BY <1>0, <1>4, <3>1 DEF CountFacts
  <2>4. q \in Seq(Items) /\ b \in Items /\ Run(q, 0, Len(got[d])) /\ Len(q) \in Nat
    BY <1>0, <1>2, QueueType, Places DEF Flow3, Items
  <2>5. Held(d, 2) = 1 /\ Held(d, 2)' = 0 BY <1>1, <1>3 DEF Held
  <2> DEFINE g == Len(got[d])
  <2> HIDE DEF q, b, g
  <2>6. Run(Append(q, b), 0, g) /\ Len(Append(q, b)) = Len(q) + 1
    <3>1. b = g + Len(q) - 0 + 1
      <4> DEFINE l == Len(q)
      <4>1. b = (g + l) + 1 /\ g \in Nat /\ l \in Nat BY <2>2, <2>3, <2>4 DEF g
      <4> HIDE DEF l
      <4>2. b = g + l - 0 + 1 BY <4>1
      <4> QED BY <4>2 DEF l
    <3>2. g \in Int /\ 0 <= Len(q) /\ Run(q, 0, g) BY <2>3, <2>4 DEF g
    <3> QED BY <2>4, <3>1, <3>2, RunAppend
  <2>7. Flow3(d)' BY <1>1, <1>4, <2>6 DEF Flow3, g, q, b
  <2>8. Taken2(d)' = Taken2(d)
    <3> DEFINE l == Len(q)
    <3>1. Taken2(d) = (g + l) + 1 /\ Taken2(d)' = (g + (l + 1)) + 0 BY <2>3, <2>5, <2>6 DEF g
    <3>2. g \in Nat /\ l \in Nat BY <2>3, <2>4 DEF g
    <3> HIDE DEF l
    <3> QED BY <3>1, <3>2
  <2>9. Flow2(d)' /\ (Linked(d, 2)' => Written2(d)' = Written2(d)) BY <1>1, <1>3, <1>4, <2>8, Flow2Kept
  <2>10. Flow1(d)' BY <1>1, <1>3, <1>4, <2>9, Flow1Above
  <2> QED BY <2>7, <2>9, <2>10 DEF Flow
<1>5. CASE reset' = reset \cup {Conn(d, 3)} /\ Sock(d, 3, 3) \in closed /\ pipe' = pipe
  <2>1. ~Linked(d, 2)'
    <3>1. reset' = reset \cup {Conn(d, 2 + 1)} /\ Sock(d, 2 + 1, 2 + 1) \in closed BY <1>5
    <3> QED BY <3>1, WriteLost
  <2>2. Flow3(d)' BY <1>0, <1>1, <1>5 DEF Flow3
  <2> QED BY <2>1, <2>2 DEF Flow, Flow2, Flow1
<1> QED BY <1>0, <1>1, <1>2, <1>4, <1>5, WriteCases, Places

LEMMA FlowWrite1 ==
    ASSUME FlowStepFrom, NEW d \in Dirs, CopyWrite(d, 1)
    PROVE  Flow(d)'
<1> DEFINE b == hand[<<d, 1>>]
           q == pipe[d][2].q
<1>0. /\ SpliceTypeOK /\ AckInv /\ CountFacts /\ CountFacts' /\ Flow3(d) /\ Flow2(d) /\ Flow1(d)
      /\ \A n \in {1, 2} : Linked(d, n)' => Linked(d, n)
  BY FlowBase
<1>1. /\ copyPc[<<d, 1>>] = "copy" /\ b # None /\ Write(d, 2, b)
      /\ hand' = [hand EXCEPT ![<<d, 1>>] = None] /\ UNCHANGED <<got, sent, ahead>>
  BY DEF CopyWrite, endVars
<1>2. b \in Bytes BY <1>0, <1>1, SentType
<1>3. hand'[<<d, 1>>] = None /\ hand'[<<d, 2>>] = hand[<<d, 2>>]
  <2>1. hand \in [Copies -> {None} \cup Bytes] BY <1>0 DEF SpliceTypeOK
  <2>2. <<d, 1>> \in Copies /\ <<d, 2>> \in Copies /\ <<d, 1>> # <<d, 2>> BY SocketFacts
  <2> QED BY <1>1, <2>1, <2>2
<1>4. CASE /\ ~Dead(d, 2) /\ pipe'[d][2].q = Append(q, b)
           /\ pipe'[d][3] = pipe[d][3] /\ pipe'[d][1] = pipe[d][1]
  <2>1. Linked(d, 1) BY <1>1, <1>4 DEF Linked
  <2>2. Flow3(d)' /\ Written3(d)' = Written3(d) BY <1>0, <1>1, <1>4 DEF Flow3, Written3, Written, Beyond
  <2>3. Taken2(d)' = Taken2(d) /\ Beyond(d, 2)' = Beyond(d, 2) BY <1>1, <1>3, <2>2 DEF Taken2, Held, Beyond
  <2>4. /\ q \in Seq(Items) /\ Len(q) \in Nat /\ Framed(q) \in {0, 1} /\ Framed(q) <= Len(q)
        /\ Len(Append(q, b)) = Len(q) + 1 /\ Framed(Append(q, b)) = Framed(q) /\ b \in Items
    BY <1>0, <1>2, QueueType, FramedType, FramedAppend, Places DEF Items
  <2>5. /\ Taken2(d) \in Nat /\ Beyond(d, 2) \in Nat /\ Written2(d) \in Nat
        /\ Written2(d) = Taken2(d) + Beyond(d, 2) + Len(q) - Framed(q)
        /\ Written2(d)' = Taken2(d)' + Beyond(d, 2)' + Len(Append(q, b)) - Framed(Append(q, b))
        /\ Taken1(d) = Written2(d) + Held(d, 1) /\ Taken1(d)' = Written2(d)' + Held(d, 1)'
    BY <1>0, <1>4 DEF CountFacts
  <2>6. Held(d, 1) = 1 /\ Held(d, 1)' = 0 BY <1>1, <1>3 DEF Held
  <2>7. ASSUME Linked(d, 2)'
        PROVE  /\ b = Written2(d) + 1 /\ Run(q, Framed(q), Taken2(d) + Beyond(d, 2))
               /\ hand[<<d, 2>>] \in {None, Written3(d) + 1} /\ (d = "up" => Run(ahead, 0, Taken2(d)))
    BY <1>0, <1>1, <2>1, <2>7 DEF Flow1, Flow2
  <2> HIDE DEF q, b
  <2> DEFINE t == Taken2(d) + Beyond(d, 2)
             l == Len(q)
             f == Framed(q)
  <2>8. t \in Nat /\ l \in Nat /\ f \in {0, 1} /\ Written2(d) = t + l - f /\ Written2(d)' = t + (l + 1) - f
    BY <2>3, <2>4, <2>5
  <2> HIDE DEF t, l, f
  <2>9. Taken1(d)' = Taken1(d)
    <3>1. Taken1(d) = (t + l - f) + 1 /\ Taken1(d)' = (t + (l + 1) - f) + 0 BY <2>5, <2>6, <2>8
    <3> QED BY <2>8, <3>1
  <2>10. ASSUME Linked(d, 2)' PROVE Run(Append(q, b), f, t)
    <3>1. b = t + l - f + 1 BY <2>7, <2>8, <2>10
    <3>2. t \in Int /\ f \in {0, 1} /\ f <= Len(q) /\ Run(q, f, t) /\ b = t + Len(q) - f + 1
      BY <2>4, <2>7, <2>8, <2>10, <3>1 DEF t, f, l
    <3> QED BY <2>4, <3>2, RunAppend
  <2>11. Flow2(d)'
    <3> SUFFICES ASSUME Linked(d, 2)'
                 PROVE  /\ hand'[<<d, 2>>] \in {None, Written3(d)' + 1}
                        /\ d = "up" => Run(ahead', 0, Taken2(d)')
                        /\ Run(pipe'[d][2].q, Framed(pipe'[d][2].q), Taken2(d)' + Beyond(d, 2)')
      BY DEF Flow2
    <3>1. pipe'[d][2].q = Append(q, b) BY <1>4 DEF q, b
    <3>2. Framed(Append(q, b)) = f /\ Taken2(d)' + Beyond(d, 2)' = t BY <2>3, <2>4 DEF f, t
    <3>3. Run(pipe'[d][2].q, Framed(pipe'[d][2].q), Taken2(d)' + Beyond(d, 2)') BY <2>10, <3>1, <3>2
    <3> QED BY <1>1, <1>3, <2>2, <2>3, <2>7, <3>3
  <2>12. Flow1(d)' BY <1>1, <1>3, <1>4, <2>9, Flow1Kept
  <2> QED BY <2>2, <2>11, <2>12 DEF Flow
<1>5. CASE reset' = reset \cup {Conn(d, 2)} /\ Sock(d, 2, 2) \in closed /\ pipe' = pipe
  <2>1. ~Linked(d, 1)'
    <3>1. reset' = reset \cup {Conn(d, 1 + 1)} /\ Sock(d, 1 + 1, 1 + 1) \in closed BY <1>5
    <3> QED BY <3>1, WriteLost
  <2>2. Flow3(d)' /\ Written3(d)' = Written3(d) BY <1>0, <1>1, <1>5 DEF Flow3, Written3, Written, Beyond
  <2>3. Taken2(d)' = Taken2(d) BY <1>3, <2>2 DEF Taken2, Held
  <2>4. ASSUME Linked(d, 2)' PROVE hand'[<<d, 2>>] \in {None, Written3(d)' + 1}
    BY <1>0, <1>3, <2>2, <2>4 DEF Flow2
  <2>5. Flow2(d)' BY <1>1, <1>5, <2>3, <2>4, Flow2Kept
  <2> QED BY <2>1, <2>2, <2>5 DEF Flow, Flow1
<1> QED BY <1>0, <1>1, <1>2, <1>4, <1>5, WriteCases, Places

LEMMA FlowSend ==
    ASSUME FlowStepFrom, NEW d \in Dirs, EndSends(d)
    PROVE  Flow(d)'
<1> DEFINE b == sent[d] + 1
           q == pipe[d][1].q
<1>0. /\ SpliceTypeOK /\ CountFacts /\ CountFacts' /\ Flow3(d) /\ Flow2(d) /\ Flow1(d)
      /\ \A n \in {1, 2} : Linked(d, n)' => Linked(d, n)
  BY FlowBase
<1>1. /\ Write(d, 1, b) /\ sent' = [sent EXCEPT ![d] = @ + 1] /\ UNCHANGED <<got, ahead, hand>>
  BY DEF EndSends, procVars
<1>2. b \in Bytes BY <1>0, SendsByte
<1>3. sent'[d] = b BY <1>0, <1>1 DEF SpliceTypeOK
<1>4. CASE /\ ~Dead(d, 1) /\ pipe'[d][1].q = Append(q, b)
           /\ pipe'[d][3] = pipe[d][3] /\ pipe'[d][2] = pipe[d][2]
  <2>1. Flow3(d)' /\ Written3(d)' = Written3(d) BY <1>0, <1>1, <1>4 DEF Flow3, Written3, Written, Beyond
  <2>2. Taken2(d)' = Taken2(d) BY <1>1, <2>1 DEF Taken2, Held
  <2>3. ASSUME Linked(d, 2)' PROVE hand'[<<d, 2>>] \in {None, Written3(d)' + 1}
    BY <1>0, <1>1, <2>1, <2>3 DEF Flow2
  <2>4. Flow2(d)' /\ (Linked(d, 2)' => Written2(d)' = Written2(d)) BY <1>1, <1>4, <2>2, <2>3, Flow2Kept
  <2>5. q \in Seq(Items) /\ b \in Items /\ Len(q) \in Nat /\ Len(Append(q, b)) = Len(q) + 1
    BY <1>0, <1>2, QueueType, FramedAppend, Places DEF Items
  <2>6. /\ Taken1(d) \in Nat /\ Written1(d) = Taken1(d) + Len(q)
        /\ Written1(d)' = Taken1(d)' + Len(Append(q, b))
    BY <1>0, <1>4 DEF CountFacts
  <2>7. Flow1(d)'
    <3> SUFFICES ASSUME Linked(d, 2)', Linked(d, 1)'
                 PROVE  /\ hand'[<<d, 1>>] \in {None, Written2(d)' + 1}
                        /\ Run(pipe'[d][1].q, 0, Taken1(d)')
                        /\ sent'[d] = Written1(d)'
      BY DEF Flow1
    <3>1. /\ hand[<<d, 1>>] \in {None, Written2(d) + 1} /\ Run(q, 0, Taken1(d)) /\ sent[d] = Written1(d)
      BY <1>0, <1>4 DEF Flow1
    <3>2. Written2(d)' = Written2(d) BY <2>4
    <3>3. Taken1(d)' = Taken1(d) BY <1>1, <3>2 DEF Taken1, Held
    <3>4. b = Written1(d) + 1 BY <3>1
    <3> DEFINE t == Taken1(d)
               l == Len(q)
    <3> HIDE DEF q, b
    <3>5. t \in Nat /\ l \in Nat /\ b = (t + l) + 1 /\ Written1(d)' = t + (l + 1)
      BY <2>5, <2>6, <3>3, <3>4
    <3> HIDE DEF t, l
    <3>6. b = t + l - 0 + 1 /\ Written1(d)' = b /\ 0 <= l BY <3>5
    <3>7. t \in Int /\ 0 <= Len(q) /\ Run(q, 0, t) /\ b = t + Len(q) - 0 + 1
      BY <3>1, <3>5, <3>6 DEF t, l, q
    <3>8. Run(Append(q, b), 0, t) BY <2>5, <3>7, RunAppend
    <3>9. Run(pipe'[d][1].q, 0, Taken1(d)')
      <4>1. pipe'[d][1].q = Append(q, b) BY <1>4 DEF q, b
      <4> QED BY <3>3, <3>8, <4>1 DEF t
    <3> QED BY <1>1, <1>3, <3>1, <3>2, <3>6, <3>9
  <2> QED BY <2>1, <2>4, <2>7 DEF Flow
<1>5. CASE reset' = reset \cup {Conn(d, 1)} /\ pipe' = pipe
  <2>1. Dead(d, 1)' BY <1>5 DEF Dead
  <2>2. Flow3(d)' /\ Written3(d)' = Written3(d) BY <1>0, <1>1, <1>5 DEF Flow3, Written3, Written, Beyond
  <2>3. Taken2(d)' = Taken2(d) BY <1>1, <2>2 DEF Taken2, Held
  <2>4. ASSUME Linked(d, 2)' PROVE hand'[<<d, 2>>] \in {None, Written3(d)' + 1}
    BY <1>0, <1>1, <2>2, <2>4 DEF Flow2
  <2>5. Flow2(d)' /\ (Linked(d, 2)' => Written2(d)' = Written2(d)) BY <1>1, <1>5, <2>3, <2>4, Flow2Kept
  <2>6. Flow1(d)'
    <3> SUFFICES ASSUME Linked(d, 2)', Linked(d, 1)'
                 PROVE  /\ hand'[<<d, 1>>] \in {None, Written2(d)' + 1}
                        /\ Run(pipe'[d][1].q, 0, Taken1(d)')
      BY <2>1 DEF Flow1
    <3>1. hand[<<d, 1>>] \in {None, Written2(d) + 1} /\ Run(pipe[d][1].q, 0, Taken1(d))
      BY <1>0 DEF Flow1
    <3>2. Written2(d)' = Written2(d) BY <2>5
    <3>3. Taken1(d)' = Taken1(d) BY <1>1, <3>2 DEF Taken1, Held
    <3> QED BY <1>1, <1>5, <3>1, <3>2, <3>3
  <2> QED BY <2>2, <2>5, <2>6 DEF Flow
<1> QED BY <1>0, <1>1, <1>2, <1>4, <1>5, WriteCases, Places

LEMMA FlowReceive ==
    ASSUME FlowStepFrom, NEW d \in Dirs, EndReceives(d)
    PROVE  Flow(d)' /\ Head(pipe[d][3].q) = Len(got[d]) + 1
<1> DEFINE q == pipe[d][3].q
           g == Len(got[d])
<1>0. /\ SpliceTypeOK /\ CountFacts /\ CountFacts' /\ Flow3(d) /\ PlaceInv /\ AckInv
  BY FlowBase
<1>1. /\ Popped(d, 3) /\ got' = [got EXCEPT ![d] = Append(@, Head(q))]
      /\ UNCHANGED <<hand, ahead, sent>>
  BY DEF EndReceives, Popped, Put, procVars
<1>2. /\ q \in Seq(Items) /\ q # <<>> /\ pipe'[d][3].q = Tail(q)
      /\ pipe'[d][1] = pipe[d][1] /\ pipe'[d][2] = pipe[d][2]
  BY <1>0, <1>1, PopType, QueueType, Places DEF Popped
<1>3. g \in Nat /\ Run(q, 0, g) BY <1>0 DEF CountFacts, Flow3
<1>4. Len(got'[d]) = g + 1
  <2>1. Head(q) \in Bytes BY <1>0, <1>2, NoFrame, Places
  <2>2. got \in [Dirs -> Seq(Bytes)] BY <1>0 DEF SpliceTypeOK
  <2>3. got'[d] = Append(got[d], Head(q)) BY <1>1, <2>2
  <2> QED BY <2>1, <2>2, <2>3, AppendProperties
<1>5. Written3(d) = g + Len(q) /\ Written3(d)' = Len(got'[d]) + Len(pipe'[d][3].q)
  BY <1>0 DEF CountFacts
<1> HIDE DEF q, g
<1>6. Head(q) = g + 1 /\ Run(Tail(q), 0, g + 1) /\ Len(Tail(q)) = Len(q) - 1 /\ Len(q) \in Nat
  BY <1>2, <1>3, RunTail
<1>7. Flow3(d)' BY <1>2, <1>4, <1>6 DEF Flow3
<1>8. Written3(d)' = Written3(d)
  <2> DEFINE l == Len(q)
  <2>1. Written3(d) = g + l /\ Written3(d)' = (g + 1) + (l - 1) BY <1>2, <1>4, <1>5, <1>6
  <2>2. g \in Nat /\ l \in Nat BY <1>3, <1>6
  <2> HIDE DEF l
  <2> QED BY <2>1, <2>2
<1>9. Flow2(d)' /\ Flow1(d)' BY <1>1, <1>2, <1>8, FlowAbove
<1> QED BY <1>6, <1>7, <1>9 DEF Flow, q, g

\* A copy that ends has lost what it had in hand, or had nothing.
LEMMA HandKept ==
    ASSUME FlowStepFrom, NEW d \in Dirs, NEW n \in {1, 2}, Linked(d, n)',
           \/ HostDials \/ HostGivesUp
           \/ \E e \in Dirs, m \in {1, 2} : CopyEnds(e, m)
           \/ \E p \in Procs : SpliceOver(p) \/ Killed(p)
           \/ \E e \in Dirs : EndHalfCloses(e) \/ EndSeesEnd(e) \/ EndCloses(e)
           \/ UNCHANGED spliceVars
    PROVE  hand'[<<d, n>>] = hand[<<d, n>>]
<1>0. SpliceTypeOK /\ PlaceInv /\ OrderlyInv /\ <<d, n>> \in Copies BY FlowBase, SocketFacts
<1>1. copyPc \in [Copies -> {"off", "copy", "done"}] /\ hand \in [Copies -> {None} \cup Bytes]
  BY <1>0 DEF SpliceTypeOK
<1>2. CASE UNCHANGED hand BY <1>2
<1>3. ASSUME NEW e \in Dirs, NEW m \in {1, 2}, CopyEnds(e, m) PROVE hand'[<<d, n>>] = hand[<<d, n>>]
  <2>1. /\ CopyOver(e, m) /\ hand' = [hand EXCEPT ![<<e, m>>] = None]
        /\ copyPc' = [copyPc EXCEPT ![<<e, m>>] = "done"] /\ UNCHANGED broken
    BY <1>3 DEF CopyEnds, endVars
  <2>2. CASE <<d, n>> = <<e, m>>
    <3>1. copyPc'[<<d, n>>] = "done" BY <1>0, <1>1, <2>1, <2>2
    <3>2. ~broken /\ reset = {} BY <1>0, <2>1, <3>1 DEF Linked, OrderlyInv
    <3>3. hand[<<d, n>>] = None
      <4>1. ~Dead(e, m + 1) BY <3>2 DEF Dead
      <4>2. hand[<<e, m>>] = None BY <2>1, <4>1 DEF CopyOver
      <4> QED BY <2>2, <4>2
    <3> QED BY <1>0, <1>1, <2>1, <2>2, <3>3
  <2>3. CASE <<d, n>> # <<e, m>> BY <1>0, <1>1, <2>1, <2>3
  <2> QED BY <2>2, <2>3
<1>4. ASSUME NEW p \in Procs, Killed(p) PROVE hand'[<<d, n>>] = hand[<<d, n>>]
  <2>1. /\ hand' = [c \in Copies |-> IF c \in CopiesOf(p) THEN None ELSE hand[c]]
        /\ copyPc' = [c \in Copies |->
                        IF c \in CopiesOf(p) /\ copyPc[c] = "copy" THEN "done" ELSE copyPc[c]]
        /\ broken' = TRUE
    BY <1>4 DEF Killed
  <2>2. copyPc'[<<d, n>>] # "done" BY <2>1 DEF Linked
  <2>3. <<d, n>> \in CopiesOf(p) => hand[<<d, n>>] = None BY <1>0, <2>1, <2>2 DEF PlaceInv
  <2> QED BY <1>0, <2>1, <2>3
<1>5. ASSUME \/ HostDials \/ HostGivesUp \/ UNCHANGED spliceVars
             \/ \E p \in Procs : SpliceOver(p)
             \/ \E e \in Dirs : EndHalfCloses(e) \/ EndSeesEnd(e) \/ EndCloses(e)
      PROVE  UNCHANGED hand
  BY <1>5 DEF HostDials, HostGivesUp, SpliceOver, EndHalfCloses, EndSeesEnd, EndCloses, procVars, spliceVars
<1> QED BY <1>2, <1>3, <1>4, <1>5

LEMMA FlowStep ==
    ASSUME FlowStepFrom
    PROVE  FlowInv'
<1> SUFFICES ASSUME NEW d \in Dirs PROVE Flow(d)'
  BY DEF FlowInv, Flow
<1>0. /\ SpliceTypeOK /\ AckInv /\ [SpliceNext]_spliceVars
      /\ hand \in [Copies -> {None} \cup Bytes]
      /\ sent \in [Dirs -> {0} \cup Bytes] /\ got \in [Dirs -> Seq(Bytes)]
      /\ \A n \in {1, 2} : <<d, n>> \in Copies /\ n \in Hops /\ n + 1 \in Hops
  BY FlowBase, SocketFacts, Places DEF FlowStepFrom, SpliceTypeOK
<1>1. CASE HostReadsAck
  <2>1. CASE d = "up" BY <1>1, <2>1, FlowAck
  <2>2. CASE d # "up"
    <3>1. \A h \in Hops : pipe'[d][h] = pipe[d][h] BY <1>0, <1>1, <2>2, AckReadPipe
    <3>2. UNCHANGED <<hand, sent, got>> BY <1>1 DEF HostReadsAck, endVars
    <3> QED BY <2>2, <3>1, <3>2, FlowSame
  <2> QED BY <2>1, <2>2
<1>2. CASE \/ HostDials \/ HostGivesUp
           \/ \E e \in Dirs, m \in {1, 2} : CopyEnds(e, m)
           \/ \E p \in Procs : SpliceOver(p) \/ Killed(p)
           \/ \E e \in Dirs : EndHalfCloses(e) \/ EndSeesEnd(e) \/ EndCloses(e)
           \/ UNCHANGED spliceVars
  <2>1. QueuesKept /\ UNCHANGED <<ahead, sent, got>> BY <1>0, <1>2, Quiet
  <2>2. \A n \in {1, 2} : Linked(d, n)' => hand'[<<d, n>>] = hand[<<d, n>>] BY <1>2, HandKept
  <2>3. \A h \in Hops : pipe'[d][h].q = pipe[d][h].q BY <2>1 DEF QueuesKept
  <2> QED BY <2>1, <2>2, <2>3, FlowSame
<1>3. ASSUME NEW e \in Dirs, NEW m \in {1, 2}, CopyRead(e, m) PROVE Flow(d)'
  <2>1. CASE e = d
    <3>1. CASE m = 1 BY <1>3, <2>1, <3>1, FlowRead1
    <3>2. CASE m = 2 BY <1>3, <2>1, <3>2, FlowRead2
    <3> QED BY <3>1, <3>2
  <2>2. CASE e # d
    <3>1. UNCHANGED <<sent, got>> BY <1>3 DEF CopyRead, endVars
    <3>2. \A n \in {1, 2} : <<d, n>> # <<e, m>> BY <2>2
    <3>3. (\A n \in {1, 2} : hand'[<<d, n>>] = hand[<<d, n>>]) /\ (d = "up" => ahead' = ahead)
      BY <1>0, <1>3, <2>2, <3>2 DEF CopyRead, Buffered
    <3>4. \A h \in Hops : pipe'[d][h] = pipe[d][h]
      <4>1. CASE UNCHANGED pipe BY <4>1
      <4>2. CASE Popped(e, m) BY <1>0, <2>2, <4>2, PopType, Places
      <4> QED BY <1>3, <4>1, <4>2 DEF CopyRead, Popped, Put
    <3> QED BY <3>1, <3>3, <3>4, FlowSame
  <2> QED BY <2>1, <2>2
<1>4. ASSUME NEW e \in Dirs, NEW h \in Hops, NEW b \in Bytes, Write(e, h, b), e # d
      PROVE  \A k \in Hops : pipe'[d][k] = pipe[d][k]
  BY <1>0, <1>4, WriteCases
<1>5. ASSUME NEW e \in Dirs, NEW m \in {1, 2}, CopyWrite(e, m) PROVE Flow(d)'
  <2>1. CASE e = d
    <3>1. CASE m = 1 BY <1>5, <2>1, <3>1, FlowWrite1
    <3>2. CASE m = 2 BY <1>5, <2>1, <3>2, FlowWrite2
    <3> QED BY <3>1, <3>2
  <2>2. CASE e # d
    <3>1. UNCHANGED <<sent, got, ahead>> /\ Write(e, m + 1, hand[<<e, m>>])
      BY <1>5 DEF CopyWrite, endVars
    <3>2. hand[<<e, m>>] \in Bytes BY <1>0, <1>5, SentType DEF CopyWrite
    <3>3. \A n \in {1, 2} : <<d, n>> # <<e, m>> BY <2>2
    <3>4. \A n \in {1, 2} : hand'[<<d, n>>] = hand[<<d, n>>] BY <1>0, <1>5, <3>3 DEF CopyWrite
    <3>5. \A k \in Hops : pipe'[d][k] = pipe[d][k] BY <1>0, <1>4, <2>2, <3>1, <3>2
    <3> QED BY <3>1, <3>4, <3>5, FlowSame
  <2> QED BY <2>1, <2>2
<1>6. ASSUME NEW e \in Dirs, EndSends(e) PROVE Flow(d)'
  <2>1. CASE e = d BY <1>6, <2>1, FlowSend
  <2>2. CASE e # d
    <3>1. UNCHANGED <<got, ahead, hand>> /\ Write(e, 1, sent[e] + 1) /\ sent'[d] = sent[d]
      BY <1>0, <1>6, <2>2 DEF EndSends, procVars
    <3>2. sent[e] + 1 \in Bytes BY <1>0, <1>6, SendsByte
    <3>3. \A k \in Hops : pipe'[d][k] = pipe[d][k] BY <1>4, <2>2, <3>1, <3>2, Places
    <3> QED BY <3>1, <3>3, FlowSame
  <2> QED BY <2>1, <2>2
<1>7. ASSUME NEW e \in Dirs, EndReceives(e) PROVE Flow(d)'
  <2>1. CASE e = d BY <1>7, <2>1, FlowReceive
  <2>2. CASE e # d
    <3>1. UNCHANGED <<sent, ahead, hand>> /\ got'[d] = got[d] /\ Popped(e, 3)
      BY <1>0, <1>7, <2>2 DEF EndReceives, procVars, Popped, Put
    <3>2. \A k \in Hops : pipe'[d][k] = pipe[d][k] BY <1>0, <2>2, <3>1, PopType, Places
    <3> QED BY <3>1, <3>2, FlowSame
  <2> QED BY <2>1, <2>2
<1> QED BY <1>0, <1>1, <1>2, <1>3, <1>5, <1>6, <1>7 DEF SpliceNext

-----------------------------------------------------------------------------
\* The invariant.
LEMMA NothingOnTheWay ==
    ASSUME CountFacts, NEW d \in Dirs, Held(d, 1) = 0, Held(d, 2) = 0, Beyond(d, 2) = 0,
           Len(pipe[d][1].q) = 0, Len(pipe[d][3].q) = 0, Len(pipe[d][2].q) = Framed(pipe[d][2].q)
    PROVE  /\ Written3(d) = Len(got[d]) /\ Taken2(d) = Len(got[d]) /\ Written2(d) = Len(got[d])
           /\ Taken1(d) = Len(got[d]) /\ Written1(d) = Len(got[d])
<1> DEFINE g == Len(got[d])
           f == Framed(pipe[d][2].q)
           w3 == Written3(d)
           t2 == Taken2(d)
           w2 == Written2(d)
           t1 == Taken1(d)
           w1 == Written1(d)
<1>1. /\ g \in Nat /\ f \in {0, 1}
      /\ w3 = g + 0 /\ t2 = w3 + 0 /\ w2 = t2 + 0 + f - f /\ t1 = w2 + 0 /\ w1 = t1 + 0
  BY DEF CountFacts
<1> HIDE DEF g, f, w3, t2, w2, t1, w1
<1>2. w3 = g BY <1>1
<1>3. t2 = g BY <1>1, <1>2
<1>4. w2 = g BY <1>1, <1>3
<1>5. t1 = g /\ w1 = g BY <1>1, <1>4
<1> QED BY <1>2, <1>3, <1>4, <1>5 DEF g, w3, t2, w2, t1, w1

LEMMA InitInv == SpliceInit => SpliceInv
<1> SUFFICES ASSUME SpliceInit PROVE SpliceInv
  OBVIOUS
<1>1. /\ reset = {} /\ closed = {} /\ ahead = <<>> /\ broken = FALSE
      /\ procPc = [p \in Procs |-> IF p = "relay" THEN "splicing" ELSE "attach"]
      /\ copyPc = [c \in Copies |-> IF c \in CopiesOf("relay") THEN "copy" ELSE "off"]
      /\ hand = [c \in Copies |-> None]
      /\ sent = [d \in Dirs |-> 0] /\ finished = [d \in Dirs |-> FALSE]
      /\ got = [d \in Dirs |-> <<>>] /\ seen = [d \in Dirs |-> "open"]
  BY DEF SpliceInit
<1>2. <<Ack>> \in Seq(Items) /\ Len(<<Ack>>) = 1 /\ <<Ack>>[1] = Ack /\ Head(<<Ack>>) = Ack
      /\ <<Ack>> # <<>> /\ <<>> \in Seq(Items) /\ <<>> \in Seq(Bytes) /\ Len(<<>>) = 0
  BY DEF Items
<1>3. pipe = [d \in Dirs |-> [h \in Hops |-> [q |-> IF d = "up" /\ h = 2 THEN <<Ack>> ELSE <<>>, fin |-> FALSE]]]
  BY DEF SpliceInit
<1>4. /\ pipe \in PipeType
      /\ \A d \in Dirs, h \in Hops :
            /\ pipe[d][h].q = IF d = "up" /\ h = 2 THEN <<Ack>> ELSE <<>>
            /\ pipe[d][h].fin = FALSE
  BY <1>2, <1>3 DEF PipeType
<1>5. \A c \in Copies : hand[c] = None /\ copyPc[c] # "done" BY <1>1
<1>6. \A d \in Dirs, n \in {1, 2} : <<d, n>> \in Copies BY SocketFacts
<1>7. SpliceTypeOK
  <2>1. \A d \in Dirs, h \in Hops : Len(pipe[d][h].q) <= Cap + 1
    <3> TAKE d \in Dirs, h \in Hops
    <3>1. Len(pipe[d][h].q) = 0 \/ Len(pipe[d][h].q) = 1 BY <1>2, <1>4
    <3>2. 0 <= Cap + 1 /\ 1 <= Cap + 1 BY SpliceAssumption
    <3> QED BY <3>1, <3>2
  <2>2. /\ procPc \in [Procs -> {"attach", "dial", "splicing", "closed"}]
        /\ copyPc \in [Copies -> {"off", "copy", "done"}] /\ hand \in [Copies -> {None} \cup Bytes]
        /\ sent \in [Dirs -> {0} \cup Bytes] /\ finished \in [Dirs -> BOOLEAN]
        /\ got \in [Dirs -> Seq(Bytes)] /\ seen \in [Dirs -> {"open", "eof", "broken"}]
    BY <1>1, <1>2
  <2> QED BY <1>1, <1>2, <1>4, <2>1, <2>2 DEF SpliceTypeOK, PipeType, Items
<1>8. PlaceInv
  <2>1. procPc["relay"] = "splicing" /\ procPc["host"] = "attach" BY <1>1, SocketOwners
  <2>2. \A p \in Procs : \A c \in CopiesOf(p) :
           copyPc[c] = (IF p = "relay" THEN "copy" ELSE "off")
    <3>1. \A p \in Procs : \A c \in CopiesOf(p) : c \in Copies /\ (c \in CopiesOf("relay") <=> p = "relay")
      BY SocketOwners
    <3> QED BY <1>1, <3>1
  <2>3. \A p \in Procs : procPc[p] = (IF p = "relay" THEN "splicing" ELSE "attach") BY <1>1
  <2>4. ASSUME NEW p \in Procs, NEW c \in CopiesOf(p)
        PROVE  /\ copyPc[c] = "copy" => procPc[p] = "splicing"
               /\ procPc[p] = "splicing" => copyPc[c] # "off"
               /\ procPc[p] \in {"attach", "dial"} => copyPc[c] = "off"
    <3>1. CASE p = "relay" BY <2>2, <2>3, <3>1
    <3>2. CASE p # "relay" BY <2>2, <2>3, <3>2
    <3> QED BY <3>1, <3>2
  <2>5. \A p \in Procs, s \in closed : s \in SocksOf(p) => procPc[p] = "closed" BY <1>1
  <2>6. \A c \in Copies : hand[c] # None => copyPc[c] = "copy" BY <1>5
  <2>7. procPc["relay"] \in {"splicing", "closed"} BY <2>1
  <2> QED BY <2>4, <2>5, <2>6, <2>7 DEF PlaceInv
<1>9. AckInv
  <2>1. procPc["host"] = "attach" BY <1>1, SocketOwners
  <2>2. ASSUME NEW d \in Dirs, NEW h \in Hops, NEW i \in 1..Len(pipe[d][h].q)
        PROVE  d = "up" /\ h = 2 /\ i = 1
    <3>1. CASE d = "up" /\ h = 2 BY <1>2, <1>4, <2>2, <3>1
    <3>2. CASE ~(d = "up" /\ h = 2) BY <1>2, <1>4, <2>2, <3>2
    <3> QED BY <3>1, <3>2
  <2>3. pipe["up"][2].q # <<>> /\ Head(pipe["up"][2].q) = Ack
    <3>1. pipe["up"][2].q = <<Ack>> BY <1>4, Places
    <3> QED BY <1>2, <3>1
  <2> QED BY <1>1, <2>1, <2>2, <2>3 DEF AckInv
<1>10. BoundInv
  <2>1. \A d \in Dirs, h \in Hops : \A i \in 1..Len(pipe[d][h].q) : pipe[d][h].q[i] <= 0
    <3>1. ASSUME NEW d \in Dirs, NEW h \in Hops, NEW i \in 1..Len(pipe[d][h].q) PROVE pipe[d][h].q[i] <= 0
      <4>1. CASE d = "up" /\ h = 2
        <5>1. pipe[d][h].q = <<Ack>> BY <1>4, <4>1
        <5>2. i = 1 BY <1>2, <3>1, <5>1
        <5> QED BY <1>2, <5>1, <5>2 DEF Ack
      <4>2. CASE ~(d = "up" /\ h = 2) BY <1>2, <1>4, <3>1, <4>2
      <4> QED BY <4>1, <4>2
    <3> QED BY <3>1
  <2>2. \A d \in Dirs : sent[d] = 0 BY <1>1
  <2>3. \A d \in Dirs, n \in {1, 2} : hand[<<d, n>>] <= 0
    <3>1. \A d \in Dirs, n \in {1, 2} : hand[<<d, n>>] = None BY <1>5, <1>6
    <3>2. None <= 0 BY DEF None
    <3> QED BY <3>1, <3>2
  <2>4. \A i \in 1..Len(ahead) : FALSE BY <1>1
  <2> QED BY <2>1, <2>2, <2>3, <2>4 DEF BoundInv
<1>11. ASSUME NEW d \in Dirs PROVE Flow(d)
  <2>1. CountFacts BY <1>7, <1>9, Counts
  <2>2. /\ Len(got[d]) = 0 /\ Beyond(d, 2) = 0 /\ Held(d, 1) = 0 /\ Held(d, 2) = 0 /\ sent[d] = 0
        /\ hand[<<d, 1>>] = None /\ hand[<<d, 2>>] = None /\ Len(ahead) = 0
    BY <1>1, <1>2, <1>5, <1>6 DEF Beyond, Held
  <2>3. Len(pipe[d][1].q) = 0 /\ Len(pipe[d][3].q) = 0 BY <1>2, <1>4, Places
  <2>4. Len(pipe[d][2].q) = Framed(pipe[d][2].q) /\ Len(pipe[d][2].q) \in {0, 1}
    <3>1. CASE d = "up"
      <4>1. pipe[d][2].q = <<Ack>> BY <1>4, <3>1, Places
      <4> QED BY <1>2, <4>1 DEF Framed
    <3>2. CASE d # "up"
      <4>1. pipe[d][2].q = <<>> BY <1>4, <3>2, Places
      <4> QED BY <1>2, <4>1 DEF Framed
    <3> QED BY <3>1, <3>2
  <2>5. Written3(d) = 0 /\ Taken2(d) = 0 /\ Written2(d) = 0 /\ Taken1(d) = 0 /\ Written1(d) = 0
    BY <2>1, <2>2, <2>3, <2>4, NothingOnTheWay
  <2>9. Run(pipe[d][2].q, Framed(pipe[d][2].q), Taken2(d) + Beyond(d, 2))
    <3> DEFINE l == Len(pipe[d][2].q)
    <3>1. l - l = 0
      <4>1. l \in {0, 1} BY <2>4
      <4> HIDE DEF l
      <4> QED BY <4>1
    <3>2. Len(pipe[d][2].q) - Framed(pipe[d][2].q) = 0 BY <2>4, <3>1
    <3> QED BY <3>2 DEF Run
  <2>10. /\ Run(pipe[d][3].q, 0, Len(got[d])) /\ Run(ahead, 0, Taken2(d))
         /\ Run(pipe[d][1].q, 0, Taken1(d))
    BY <2>2, <2>3 DEF Run
  <2> QED BY <2>2, <2>5, <2>9, <2>10 DEF Flow, Flow3, Flow2, Flow1
<1>12. OrderlyInv
  <2>1. ASSUME NEW d \in Dirs PROVE EndOrder(d) BY <1>1, <1>4, Places DEF EndOrder
  <2>2. ASSUME NEW d \in Dirs, NEW n \in {1, 2} PROVE CopyOrder(d, n)
    BY <1>4, <1>5, <1>6, Places DEF CopyOrder
  <2>3. \A p \in Procs : procPc[p] # "closed" BY <1>1
  <2> QED BY <1>1, <2>1, <2>2, <2>3 DEF OrderlyInv
<1> QED BY <1>7, <1>8, <1>9, <1>10, <1>11, <1>12 DEF SpliceInv, FlowInv, Flow

LEMMA InvStep == SpliceInv /\ [SpliceNext]_spliceVars => SpliceInv'
<1> SUFFICES ASSUME SpliceInv, [SpliceNext]_spliceVars PROVE SpliceInv'
  OBVIOUS
<1>1. SpliceTypeOK /\ PlaceInv /\ AckInv /\ BoundInv /\ OrderlyInv BY DEF SpliceInv
<1>2. SpliceTypeOK' BY <1>1, TypeStep
<1>3. PlaceInv' BY <1>1, PlaceStep
<1>4. AckInv' BY <1>1, AckStep
<1>5. BoundInv' BY <1>1, BoundStep
<1>6. OrderlyInv' BY <1>1, OrderlyStep
<1>7. FlowInv' BY <1>2, <1>3, <1>4, FlowStep DEF FlowStepFrom
<1> QED BY <1>2, <1>3, <1>4, <1>5, <1>6, <1>7 DEF SpliceInv

\* What holds of a data channel at all times: its types, who runs and who has closed
\* what, where data.ack is, and which byte is where (splice.go, thost.go:177-210).
THEOREM SpliceInvariant == SpliceSpec => []SpliceInv
<1>1. SpliceInit => SpliceInv BY InitInv
<1>2. SpliceInv /\ [SpliceNext]_spliceVars => SpliceInv' BY InvStep
<1> QED BY <1>1, <1>2, PTL DEF SpliceSpec

\* Every variable has its type, and no connection holds more than its capacity and
\* data.ack, for any number of bytes and any capacity (splice.go, thost.go:177-210).
THEOREM SpliceTypeCorrect == SpliceSpec => []SpliceTypeOK
<1>1. SpliceInv => SpliceTypeOK BY DEF SpliceInv
<1> QED BY <1>1, SpliceInvariant, PTL

-----------------------------------------------------------------------------
\* The byte pipe.
LEMMA PipeStart == SpliceInit => Pipe!Init
BY DEF SpliceInit, Pipe!Init

\* An end of stream that is no reset comes after the last byte.
LEMMA EndBehindBytes ==
    ASSUME SpliceInv, ~broken, NEW d \in Dirs, AtEof(d, 3)
    PROVE  finished[d] /\ Len(got[d]) = sent[d]
<1>0. SpliceTypeOK /\ PlaceInv /\ AckInv /\ OrderlyInv /\ FlowInv BY DEF SpliceInv
<1>1. reset = {} /\ EndOrder(d) /\ CopyOrder(d, 1) /\ CopyOrder(d, 2) BY <1>0 DEF OrderlyInv
<1>2. /\ copyPc[<<d, 2>>] = "done" /\ AtEof(d, 2) /\ ~Buffered(d, 2)
  BY <1>1 DEF CopyOrder, AtEof
<1>3. copyPc[<<d, 1>>] = "done" /\ AtEof(d, 1) BY <1>1, <1>2 DEF CopyOrder, AtEof
<1>4. finished[d] BY <1>1, <1>3 DEF EndOrder, AtEof
<1>5. Held(d, 1) = 0 /\ Held(d, 2) = 0 BY <1>0, <1>2, <1>3, SocketFacts DEF PlaceInv, Held
<1>6. Beyond(d, 2) = 0 BY <1>2 DEF Beyond, Buffered
<1>7. /\ Len(pipe[d][1].q) = 0 /\ Len(pipe[d][2].q) = 0 /\ Len(pipe[d][3].q) = 0
      /\ Framed(pipe[d][2].q) = 0
  BY <1>2, <1>3 DEF AtEof, Framed
<1>8. sent[d] = Written1(d)
  <2>1. Linked(d, 1) /\ Linked(d, 2) /\ ~Dead(d, 1) BY <1>1 DEF Linked, Dead
  <2> QED BY <1>0, <2>1 DEF FlowInv, Flow1
<1>9. CountFacts BY <1>0, Counts
<1>10. Written1(d) = Len(got[d]) BY <1>5, <1>6, <1>7, <1>9, NothingOnTheWay
<1> QED BY <1>4, <1>8, <1>10

LEMMA PipeStep == SpliceInv /\ SpliceInv' /\ [SpliceNext]_spliceVars => [Pipe!Next]_Pipe!pipeVars
<1> SUFFICES ASSUME SpliceInv, SpliceInv', [SpliceNext]_spliceVars PROVE [Pipe!Next]_Pipe!pipeVars
  OBVIOUS
<1>0. /\ SpliceTypeOK /\ PlaceInv /\ AckInv /\ OrderlyInv /\ FlowInv /\ BoundInv
      /\ SpliceTypeOK' /\ PlaceInv' /\ AckInv'
      /\ finished \in [Dirs -> BOOLEAN] /\ broken \in BOOLEAN /\ got \in [Dirs -> Seq(Bytes)]
  BY DEF SpliceInv, SpliceTypeOK
<1>1. CASE UNCHANGED endVars BY <1>1 DEF endVars, Pipe!pipeVars
<1>2. CASE broken' = TRUE /\ UNCHANGED <<sent, finished, got, seen>>
  <2>1. finished' = [d \in Dirs |-> finished[d] \/ d \in {}] BY <1>0, <1>2
  <2>2. Pipe!Break({}) BY <1>2, <2>1 DEF Pipe!Break
  <2> QED BY <2>2 DEF Pipe!Next
<1>3. ASSUME NEW d \in Dirs, EndSends(d) PROVE Pipe!Next
  <2>1. Pipe!Send(d) BY <1>3 DEF EndSends, Pipe!Send
  <2> QED BY <2>1 DEF Pipe!Next
<1>4. ASSUME NEW d \in Dirs, EndHalfCloses(d) PROVE Pipe!Next
  <2>1. Pipe!Finish(d) BY <1>4 DEF EndHalfCloses, Pipe!Finish
  <2> QED BY <2>1 DEF Pipe!Next
<1>5. ASSUME NEW d \in Dirs, EndReceives(d) PROVE Pipe!Next
  <2>1. Head(pipe[d][3].q) = Len(got[d]) + 1 BY <1>0, <1>5, FlowReceive DEF FlowStepFrom
  <2>2. Head(pipe[d][3].q) = pipe[d][3].q[1] /\ 1 \in 1..Len(pipe[d][3].q)
    BY <1>0, <1>5, PopType, Places DEF EndReceives, Popped, Put
  <2>3. Len(got[d]) + 1 <= sent[d] BY <1>0, <2>1, <2>2, Places DEF BoundInv
  <2>4. Len(got[d]) < sent[d]
    <3>1. Len(got[d]) \in Nat /\ sent[d] \in Nat BY <1>0, SentType
    <3> QED BY <2>3, <3>1
  <2>5. got' = [got EXCEPT ![d] = Append(got[d], Len(got[d]) + 1)] BY <1>5, <2>1 DEF EndReceives
  <2>6. Pipe!Receive(d) BY <1>5, <2>4, <2>5 DEF EndReceives, Pipe!Receive
  <2> QED BY <2>6 DEF Pipe!Next
<1>6. ASSUME NEW d \in Dirs, EndSeesEnd(d) PROVE Pipe!Next
  <2>1. UNCHANGED <<sent, finished, got, broken>> BY <1>6 DEF EndSeesEnd
  <2>2. CASE AtEof(d, 3) /\ seen' = [seen EXCEPT ![d] = "eof"]
    <3>1. broken \/ (finished[d] /\ Len(got[d]) = sent[d]) BY <2>2, EndBehindBytes
    <3>2. Pipe!SeeEnd(d) BY <2>1, <2>2, <3>1 DEF Pipe!SeeEnd
    <3> QED BY <3>2 DEF Pipe!Next
  <2>3. CASE Dead(d, 3) /\ seen' = [seen EXCEPT ![d] = "broken"]
    <3>1. broken BY <1>0, <2>3 DEF OrderlyInv, Dead
    <3>2. Pipe!SeeEnd(d) BY <2>1, <2>3, <3>1 DEF Pipe!SeeEnd
    <3> QED BY <3>2 DEF Pipe!Next
  <2> QED BY <1>6, <2>2, <2>3 DEF EndSeesEnd
<1>7. ASSUME NEW d \in Dirs, EndCloses(d) PROVE [Pipe!Next]_Pipe!pipeVars
  <2> DEFINE early == ~finished[d] \/ seen[Other(d)] = "open"
  <2>1. /\ broken' = (broken \/ early) /\ finished' = [finished EXCEPT ![d] = TRUE]
        /\ UNCHANGED <<sent, got, seen>>
    BY <1>7 DEF EndCloses
  <2>2. CASE early
    <3>1. finished' = [e \in Dirs |-> finished[e] \/ e \in {d}] BY <1>0, <2>1
    <3>2. Pipe!Break({d}) BY <2>1, <2>2, <3>1 DEF Pipe!Break
    <3> QED BY <3>2 DEF Pipe!Next
  <2>3. CASE ~early
    <3>1. finished' = finished /\ broken' = broken BY <1>0, <2>1, <2>3
    <3> QED BY <2>1, <3>1 DEF Pipe!pipeVars
  <2> QED BY <2>2, <2>3
<1>8. HostReadsAck \/ HostDials \/ (\E d \in Dirs, n \in {1, 2} : CopyRead(d, n) \/ CopyWrite(d, n) \/ CopyEnds(d, n))
      \/ (\E p \in Procs : SpliceOver(p)) \/ UNCHANGED spliceVars => UNCHANGED endVars
  BY DEF HostReadsAck, HostDials, CopyRead, CopyWrite, CopyEnds, SpliceOver, spliceVars
<1>9. HostGivesUp \/ (\E p \in Procs : Killed(p)) => broken' = TRUE /\ UNCHANGED <<sent, finished, got, seen>>
  BY DEF HostGivesUp, Killed
<1> QED BY <1>1, <1>2, <1>3, <1>4, <1>5, <1>6, <1>7, <1>8, <1>9 DEF SpliceNext

\* The chain of sockets, buffers and copies is one byte pipe per direction, for any
\* number of bytes and any capacity: an end gets the bytes of the other in order, none
\* missing or twice, those read together with data.ack included, and as long as nothing
\* broke it sees the end of the stream after the last of them (relay.go:15-19,
\* splice.go:9-15, wire.go:104-108).
THEOREM PipeImplemented == SpliceSpec => PipeSpec
<1>1. SpliceInit => Pipe!Init BY PipeStart
<1>2. SpliceInv /\ SpliceInv' /\ [SpliceNext]_spliceVars => [Pipe!Next]_Pipe!pipeVars BY PipeStep
<1> QED BY <1>1, <1>2, SpliceInvariant, PTL DEF SpliceSpec, PipeSpec, Pipe!Spec
=============================================================================
