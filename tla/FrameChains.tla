------------------------------ MODULE FrameChains ------------------------------
(***************************************************************************)
(* Numbered frames in a queue.  Both directions of the Cloudflare path     *)
(* number the chunks or messages of a connection and put them into one     *)
(* queue with the frames of other connections.  The operators say that a   *)
(* queue continues, without a gap and in order, what the reader of the     *)
(* queue has had before; the lemmas say what appending a frame and taking  *)
(* the first one do to that.                                               *)
(***************************************************************************)
EXTENDS Integers, Sequences, SequenceTheorems, TLAPS

\* The i-th frame of a queue is one of connection c of some type, or data number n.
FrameAt(q, c, t, i) == i \in 1..Len(q) /\ q[i].t = t /\ q[i].conn = c
DataAt(q, c, n, i) == FrameAt(q, c, "data", i) /\ q[i].n = n

\* Number k was had before or comes before place i.
HadBefore(q, c, done, k, i) == k \in done \/ \E j \in 1..Len(q) : j < i /\ DataAt(q, c, k, j)

\* The data of c in a queue are some of the numbers ns, behind what is done, in
\* order, and with no gap.
Chain(q, c, done, ns) ==
    \A i \in 1..Len(q), n \in Nat : DataAt(q, c, n, i) =>
        /\ n \in ns
        /\ \A k \in done : k < n
        /\ \A j \in 1..Len(q), m \in Nat : j < i /\ DataAt(q, c, m, j) => m < n
        /\ \A k \in ns : k < n => HadBefore(q, c, done, k, i)

\* All of the numbers are done or in the queue before place i.
Complete(q, c, done, ns, i) == \A k \in ns : HadBefore(q, c, done, k, i)

\* The end of the data of c comes behind all of them.
EndsWhole(q, c, done, ns) ==
    \A i \in 1..Len(q) : FrameAt(q, c, "data.end", i) => Complete(q, c, done, ns, i)

\* All of that; while nothing is lost, the queue holds whatever is not done.
Link(q, c, done, ns, whole) ==
    /\ Chain(q, c, done, ns)
    /\ EndsWhole(q, c, done, ns)
    /\ whole => Complete(q, c, done, ns, Len(q) + 1)

\* A queue has a frame of a type, has it once, or has it before those of other types.
Has(q, c, t) == \E i \in 1..Len(q) : FrameAt(q, c, t, i)
Once(q, c, t) == \A i, j \in 1..Len(q) : FrameAt(q, c, t, i) /\ FrameAt(q, c, t, j) => i = j
First(q, c, t, types) ==
    \A i, j \in 1..Len(q), u \in types : FrameAt(q, c, t, i) /\ FrameAt(q, c, u, j) => i <= j
-----------------------------------------------------------------------------
\* The places of frames after an append and after the head was taken.
LEMMA AppendPlaces ==
    ASSUME NEW S, NEW q \in Seq(S), NEW m \in S, NEW c, NEW t, NEW n, NEW i \in Nat
    PROVE  /\ FrameAt(Append(q, m), c, t, i) <=>
                  FrameAt(q, c, t, i) \/ (i = Len(q) + 1 /\ m.t = t /\ m.conn = c)
           /\ DataAt(Append(q, m), c, n, i) <=>
                  DataAt(q, c, n, i) \/ (i = Len(q) + 1 /\ m.t = "data" /\ m.conn = c /\ m.n = n)
           /\ Len(Append(q, m)) = Len(q) + 1 /\ Len(q) \in Nat
<1> DEFINE r == Append(q, m)
<1>1. /\ Len(r) = Len(q) + 1 /\ Len(q) \in Nat
      /\ \A j \in 1..Len(q) : r[j] = q[j]
      /\ r[Len(q) + 1] = m
  BY AppendProperties, LenProperties
<1> HIDE DEF r
<1>2. CASE i = Len(q) + 1 BY <1>1, <1>2 DEF FrameAt, DataAt
<1>3. CASE i # Len(q) + 1 BY <1>1, <1>3 DEF FrameAt, DataAt
<1> QED BY <1>1, <1>2, <1>3 DEF r

LEMMA AppendedAt ==
    ASSUME NEW S, NEW q \in Seq(S), NEW m \in S, NEW c, NEW n, m.t = "data", m.conn = c, m.n = n
    PROVE  \A l, i \in Nat : DataAt(Append(q, m), c, l, i) <=>
                                DataAt(q, c, l, i) \/ (i = Len(q) + 1 /\ l = n)
<1> TAKE l, i \in Nat
<1> DEFINE r == Append(q, m)
<1>1. /\ Len(r) = Len(q) + 1 /\ Len(q) \in Nat
      /\ \A j \in 1..Len(q) : r[j] = q[j]
      /\ r[Len(q) + 1] = m
  BY AppendProperties, LenProperties
<1> HIDE DEF r
<1>2. CASE i = Len(q) + 1 BY <1>1, <1>2 DEF FrameAt, DataAt
<1>3. CASE i # Len(q) + 1 BY <1>1, <1>3 DEF FrameAt, DataAt
<1> QED BY <1>1, <1>2, <1>3 DEF r

LEMMA TailPlaces ==
    ASSUME NEW S, NEW q \in Seq(S), q # <<>>, NEW c, NEW t, NEW n, NEW i \in Nat
    PROVE  /\ FrameAt(Tail(q), c, t, i) <=> i # 0 /\ FrameAt(q, c, t, i + 1)
           /\ DataAt(Tail(q), c, n, i) <=> i # 0 /\ DataAt(q, c, n, i + 1)
           /\ Len(Tail(q)) = Len(q) - 1 /\ Len(q) \in Nat \ {0}
<1> DEFINE r == Tail(q)
<1>1. /\ Len(r) = Len(q) - 1 /\ Len(q) \in Nat /\ Len(q) # 0
      /\ \A j \in 1..Len(r) : r[j] = q[j + 1]
  BY HeadTailProperties, LenProperties, EmptySeq
<1> HIDE DEF r
<1>2. i \in 1..Len(r) <=> i # 0 /\ i + 1 \in 1..Len(q) BY <1>1
<1>3. i \in 1..Len(r) => r[i] = q[i + 1] BY <1>1
<1> QED BY <1>1, <1>2, <1>3 DEF FrameAt, DataAt, r

\* Higher numbers than those before do not break the chain.
LEMMA ChainHigher ==
    ASSUME NEW q, NEW c, NEW done, NEW ns \in SUBSET Nat, NEW higher \in SUBSET Nat,
           ns \subseteq higher, \A k \in higher \ ns, l \in ns : l < k, Chain(q, c, done, ns)
    PROVE  Chain(q, c, done, higher)
BY DEF Chain

\* A frame of another kind or connection behind the queue.
LEMMA AppendOther ==
    ASSUME NEW S, NEW q \in Seq(S), NEW m \in S, NEW c, m.t # "data" \/ m.conn # c,
           NEW done, NEW ns \in SUBSET Nat, Chain(q, c, done, ns)
    PROVE  /\ Chain(Append(q, m), c, done, ns)
           /\ Complete(q, c, done, ns, Len(q) + 1) =>
                 Complete(Append(q, m), c, done, ns, Len(Append(q, m)) + 1)
<1> DEFINE r == Append(q, m)
<1>1. Len(r) = Len(q) + 1 /\ Len(q) \in Nat BY AppendPlaces
<1>2. \A n, i \in Nat : DataAt(r, c, n, i) <=> DataAt(q, c, n, i) BY AppendPlaces
<1>3. \A n, i : DataAt(q, c, n, i) => i \in 1..Len(q) BY DEF DataAt, FrameAt
<1> HIDE DEF r
<1>4. \A k, i \in Nat : i <= Len(q) + 2 =>
         (HadBefore(q, c, done, k, i) => HadBefore(r, c, done, k, i))
  BY <1>1, <1>2 DEF HadBefore
<1>5. \A k \in Nat : HadBefore(q, c, done, k, Len(q) + 1) => HadBefore(r, c, done, k, Len(q) + 2)
  BY <1>1, <1>2 DEF HadBefore
<1>6. Chain(r, c, done, ns) BY <1>1, <1>2, <1>3, <1>4 DEF Chain
<1>7. Complete(q, c, done, ns, Len(q) + 1) => Complete(r, c, done, ns, Len(r) + 1)
  BY <1>1, <1>5 DEF Complete
<1> QED BY <1>6, <1>7 DEF r

\* The next number behind a complete queue.
LEMMA AppendNext ==
    ASSUME NEW S, NEW q \in Seq(S), NEW m \in S, NEW c, NEW done, NEW ns \in SUBSET Nat,
           NEW n \in Nat, \A k \in ns : k < n, done \subseteq ns,
           m.t = "data", m.conn = c, m.n = n,
           Chain(q, c, done, ns), Complete(q, c, done, ns, Len(q) + 1)
    PROVE  /\ Chain(Append(q, m), c, done, ns \cup {n})
           /\ Complete(Append(q, m), c, done, ns \cup {n}, Len(Append(q, m)) + 1)
<1> DEFINE r == Append(q, m)
           more == ns \cup {n}
<1>0. \A k : k \in more <=> k \in ns \/ k = n OBVIOUS
<1>1. Len(r) = Len(q) + 1 /\ Len(q) \in Nat BY AppendPlaces
<1>2. \A l, i \in Nat : DataAt(r, c, l, i) <=> DataAt(q, c, l, i) \/ (i = Len(q) + 1 /\ l = n)
  BY AppendedAt
<1>3. \A l, i : DataAt(q, c, l, i) => i \in 1..Len(q) BY DEF DataAt, FrameAt
<1> HIDE DEF r, more
<1>4. \A k, i \in Nat : HadBefore(q, c, done, k, i) => HadBefore(r, c, done, k, i)
  BY <1>1, <1>2 DEF HadBefore
<1>5. \A k \in ns : HadBefore(r, c, done, k, Len(q) + 1) BY <1>1, <1>4 DEF Complete
<1>6. ASSUME NEW i \in 1..Len(r), NEW l \in Nat, DataAt(r, c, l, i)
      PROVE  /\ l \in more
             /\ \A k \in done : k < l
             /\ \A j \in 1..Len(r), x \in Nat : j < i /\ DataAt(r, c, x, j) => x < l
             /\ \A k \in more : k < l => HadBefore(r, c, done, k, i)
  <2>1. CASE i = Len(q) + 1
    <3>1. l = n BY <1>1, <1>2, <1>3, <1>6, <2>1
    <3>2. \A j \in 1..Len(r), x \in Nat : j < i /\ DataAt(r, c, x, j) => x < l
      BY <1>1, <1>2, <2>1, <3>1 DEF Chain
    <3>3. ASSUME NEW k \in more, k < l PROVE HadBefore(r, c, done, k, i)
      <4>1. k \in ns BY <1>0, <3>1, <3>3
      <4> QED BY <1>5, <2>1, <4>1
    <3> QED BY <1>0, <3>1, <3>2, <3>3
  <2>2. CASE i # Len(q) + 1
    <3>1. i \in 1..Len(q) /\ DataAt(q, c, l, i) BY <1>1, <1>2, <1>6, <2>2
    <3>2. l \in ns /\ \A k \in done : k < l BY <3>1 DEF Chain
    <3>3. \A j \in 1..Len(r), x \in Nat : j < i /\ DataAt(r, c, x, j) => x < l
      BY <1>1, <1>2, <3>1 DEF Chain
    <3>4. ASSUME NEW k \in more, k < l PROVE HadBefore(r, c, done, k, i)
      <4>1. k \in ns BY <1>0, <3>2, <3>4
      <4>2. HadBefore(q, c, done, k, i) BY <3>1, <3>4, <4>1 DEF Chain
      <4>3. k \in Nat /\ i \in Nat BY <1>1, <3>1, <4>1
      <4> QED BY <1>4, <4>2, <4>3
    <3> QED BY <1>0, <3>2, <3>3, <3>4
  <2> QED BY <2>1, <2>2
<1>7. Chain(r, c, done, more) BY <1>6 DEF Chain
<1>8. Complete(r, c, done, more, Len(r) + 1)
  <2>1. HadBefore(r, c, done, n, Len(r) + 1) BY <1>1, <1>2 DEF HadBefore
  <2>2. \A k \in ns : HadBefore(r, c, done, k, Len(r) + 1) BY <1>1, <1>5 DEF HadBefore
  <2> QED BY <1>0, <2>1, <2>2 DEF Complete
<1> QED BY <1>7, <1>8 DEF r, more

\* A frame behind the queue does not come between an end and what precedes it; an
\* end that is appended itself comes behind a complete queue.
LEMMA AppendEndsWhole ==
    ASSUME NEW S, NEW q \in Seq(S), NEW m \in S, NEW c, NEW done, NEW ns \in SUBSET Nat,
           EndsWhole(q, c, done, ns),
           m.t = "data.end" /\ m.conn = c => Complete(q, c, done, ns, Len(q) + 1)
    PROVE  EndsWhole(Append(q, m), c, done, ns)
<1> DEFINE r == Append(q, m)
<1>1. Len(r) = Len(q) + 1 /\ Len(q) \in Nat BY AppendPlaces
<1>2. \A n, i \in Nat : DataAt(q, c, n, i) => DataAt(r, c, n, i) BY AppendPlaces
<1>3. \A i \in Nat : FrameAt(r, c, "data.end", i) <=>
         FrameAt(q, c, "data.end", i) \/ (i = Len(q) + 1 /\ m.t = "data.end" /\ m.conn = c)
  BY AppendPlaces
<1>4. \A i : FrameAt(q, c, "data.end", i) => i \in 1..Len(q) BY DEF FrameAt
<1> HIDE DEF r
<1>5. \A k, i \in Nat : HadBefore(q, c, done, k, i) => HadBefore(r, c, done, k, i)
  BY <1>1, <1>2 DEF HadBefore
<1>6. \A i \in Nat : Complete(q, c, done, ns, i) => Complete(r, c, done, ns, i)
  BY <1>5 DEF Complete
<1> QED BY <1>1, <1>3, <1>4, <1>6 DEF EndsWhole, r

\* The head of the queue is another frame: it can go.
LEMMA TailOther ==
    ASSUME NEW S, NEW q \in Seq(S), q # <<>>, NEW c, q[1].t # "data" \/ q[1].conn # c,
           NEW done, NEW ns \in SUBSET Nat
    PROVE  /\ Chain(q, c, done, ns) => Chain(Tail(q), c, done, ns)
           /\ EndsWhole(q, c, done, ns) => EndsWhole(Tail(q), c, done, ns)
           /\ Complete(q, c, done, ns, Len(q) + 1) =>
                 Complete(Tail(q), c, done, ns, Len(Tail(q)) + 1)
<1> DEFINE r == Tail(q)
<1>1. Len(r) = Len(q) - 1 /\ Len(q) \in Nat \ {0} BY TailPlaces
<1>2. \A n, i \in Nat : DataAt(r, c, n, i) <=> i # 0 /\ DataAt(q, c, n, i + 1) BY TailPlaces
<1>3. \A i \in Nat : FrameAt(r, c, "data.end", i) <=> i # 0 /\ FrameAt(q, c, "data.end", i + 1)
  BY TailPlaces
<1>4. \A n : ~DataAt(q, c, n, 1) BY DEF DataAt, FrameAt
<1> HIDE DEF r
<1>5. \A k, i \in Nat : HadBefore(q, c, done, k, i + 1) => HadBefore(r, c, done, k, i)
  <2> SUFFICES ASSUME NEW k \in Nat, NEW i \in Nat, NEW j \in 1..Len(q),
                      j < i + 1, DataAt(q, c, k, j)
               PROVE  \E l \in 1..Len(r) : l < i /\ DataAt(r, c, k, l)
    BY DEF HadBefore
  <2>1. j # 1 BY <1>4
  <2>2. PICK l \in 1..Len(r) : j = l + 1 /\ l < i
    <3>1. j - 1 \in 1..Len(r) /\ j = (j - 1) + 1 /\ j - 1 < i BY <1>1, <2>1
    <3> QED BY <3>1
  <2>3. l \in Nat /\ l # 0 /\ DataAt(q, c, k, l + 1) BY <2>2
  <2>4. DataAt(r, c, k, l) BY <1>2, <2>3
  <2> QED BY <2>2, <2>4
<1>6. Chain(q, c, done, ns) => Chain(r, c, done, ns)
  <2> SUFFICES ASSUME Chain(q, c, done, ns), NEW i \in 1..Len(r), NEW n \in Nat,
                      DataAt(r, c, n, i)
               PROVE  /\ n \in ns
                      /\ \A k \in done : k < n
                      /\ \A j \in 1..Len(r), m \in Nat : j < i /\ DataAt(r, c, m, j) => m < n
                      /\ \A k \in ns : k < n => HadBefore(r, c, done, k, i)
    BY DEF Chain
  <2>1. i + 1 \in 1..Len(q) /\ DataAt(q, c, n, i + 1) BY <1>1, <1>2
  <2>2. \A j \in 1..Len(r), m \in Nat : j < i /\ DataAt(r, c, m, j) => m < n
    <3> SUFFICES ASSUME NEW j \in 1..Len(r), NEW m \in Nat, j < i, DataAt(r, c, m, j) PROVE m < n
      OBVIOUS
    <3>1. j + 1 \in 1..Len(q) /\ j + 1 < i + 1 /\ DataAt(q, c, m, j + 1) BY <1>1, <1>2
    <3> QED BY <2>1, <3>1 DEF Chain
  <2>3. \A k \in ns : k < n => HadBefore(q, c, done, k, i + 1)
    BY <2>1 DEF Chain
  <2> QED BY <1>1, <1>5, <2>1, <2>2, <2>3 DEF Chain
<1>7. \A i \in Nat : Complete(q, c, done, ns, i + 1) => Complete(r, c, done, ns, i)
  BY <1>5 DEF Complete
<1>8. EndsWhole(q, c, done, ns) => EndsWhole(r, c, done, ns)
  BY <1>1, <1>3, <1>7 DEF EndsWhole
<1> QED BY <1>1, <1>6, <1>7, <1>8 DEF r

\* The head of the queue is the next number: it is done.
LEMMA TailNext ==
    ASSUME NEW S, NEW q \in Seq(S), q # <<>>, NEW c, NEW n \in Nat, DataAt(q, c, n, 1),
           NEW done, NEW ns \in SUBSET Nat, Chain(q, c, done, ns)
    PROVE  /\ n \in ns
           /\ \A k \in done : k < n
           /\ \A k \in ns : k < n => k \in done
           /\ Chain(Tail(q), c, done \cup {n}, ns)
           /\ EndsWhole(q, c, done, ns) => EndsWhole(Tail(q), c, done \cup {n}, ns)
           /\ Complete(q, c, done, ns, Len(q) + 1) =>
                 Complete(Tail(q), c, done \cup {n}, ns, Len(Tail(q)) + 1)
<1> DEFINE r == Tail(q)
           more == done \cup {n}
<1>1. Len(r) = Len(q) - 1 /\ Len(q) \in Nat \ {0} BY TailPlaces
<1>2. \A m, i \in Nat : DataAt(r, c, m, i) <=> i # 0 /\ DataAt(q, c, m, i + 1) BY TailPlaces
<1>3. \A i \in Nat : FrameAt(r, c, "data.end", i) <=> i # 0 /\ FrameAt(q, c, "data.end", i + 1)
  BY TailPlaces
<1>4. \A m : DataAt(q, c, m, 1) => m = n BY DEF DataAt
<1>0. \A k : k \in more <=> k \in done \/ k = n OBVIOUS
<1> HIDE DEF r, more
<1>5. /\ n \in ns /\ \A k \in done : k < n
      /\ \A k \in ns : k < n => HadBefore(q, c, done, k, 1)
  BY <1>1 DEF Chain
<1>6. \A k \in ns : k < n => k \in done BY <1>5 DEF HadBefore
<1>7. \A k, i \in Nat : HadBefore(q, c, done, k, i + 1) => HadBefore(r, c, more, k, i)
  <2> SUFFICES ASSUME NEW k \in Nat, NEW i \in Nat, NEW j \in 1..Len(q),
                      j < i + 1, DataAt(q, c, k, j), k # n
               PROVE  \E l \in 1..Len(r) : l < i /\ DataAt(r, c, k, l)
    BY <1>0 DEF HadBefore
  <2>1. j # 1 BY <1>4
  <2>2. PICK l \in 1..Len(r) : j = l + 1 /\ l < i
    <3>1. j - 1 \in 1..Len(r) /\ j = (j - 1) + 1 /\ j - 1 < i BY <1>1, <2>1
    <3> QED BY <3>1
  <2>3. l \in Nat /\ l # 0 /\ DataAt(q, c, k, l + 1) BY <2>2
  <2>4. DataAt(r, c, k, l) BY <1>2, <2>3
  <2> QED BY <2>2, <2>4
<1>8. Chain(r, c, more, ns)
  <2> SUFFICES ASSUME NEW i \in 1..Len(r), NEW l \in Nat, DataAt(r, c, l, i)
               PROVE  /\ l \in ns
                      /\ \A k \in more : k < l
                      /\ \A j \in 1..Len(r), m \in Nat : j < i /\ DataAt(r, c, m, j) => m < l
                      /\ \A k \in ns : k < l =>
                            HadBefore(r, c, more, k, i)
    BY DEF Chain
  <2>1. i + 1 \in 1..Len(q) /\ 1 \in 1..Len(q) /\ 1 < i + 1 /\ DataAt(q, c, l, i + 1) BY <1>1, <1>2
  <2>2. n < l BY <2>1 DEF Chain
  <2>3. \A j \in 1..Len(r), m \in Nat : j < i /\ DataAt(r, c, m, j) => m < l
    <3> SUFFICES ASSUME NEW j \in 1..Len(r), NEW m \in Nat, j < i, DataAt(r, c, m, j) PROVE m < l
      OBVIOUS
    <3>1. j + 1 \in 1..Len(q) /\ j + 1 < i + 1 /\ DataAt(q, c, m, j + 1) BY <1>1, <1>2
    <3> QED BY <2>1, <3>1 DEF Chain
  <2>4. \A k \in ns : k < l => HadBefore(q, c, done, k, i + 1)
    BY <2>1 DEF Chain
  <2>5. l \in ns /\ \A k \in done : k < l BY <2>1 DEF Chain
  <2>6. \A k \in more : k < l BY <1>0, <2>2, <2>5
  <2>7. \A k \in ns : k < l => HadBefore(r, c, more, k, i)
    BY <1>7, <2>4
  <2> QED BY <2>3, <2>5, <2>6, <2>7
<1>9. \A i \in Nat : Complete(q, c, done, ns, i + 1) =>
                        Complete(r, c, more, ns, i)
  <2> SUFFICES ASSUME NEW i \in Nat, Complete(q, c, done, ns, i + 1),
                      NEW k \in ns
               PROVE  HadBefore(r, c, more, k, i)
    BY DEF Complete
  <2>1. HadBefore(q, c, done, k, i + 1) BY DEF Complete
  <2> QED BY <1>7, <2>1
<1>10. EndsWhole(q, c, done, ns) => EndsWhole(r, c, more, ns)
  <2> SUFFICES ASSUME EndsWhole(q, c, done, ns), NEW i \in 1..Len(r),
                      FrameAt(r, c, "data.end", i)
               PROVE  Complete(r, c, more, ns, i)
    BY DEF EndsWhole
  <2>1. i \in Nat /\ i + 1 \in 1..Len(q) /\ FrameAt(q, c, "data.end", i + 1) BY <1>1, <1>3
  <2>2. Complete(q, c, done, ns, i + 1) BY <2>1 DEF EndsWhole
  <2> QED BY <1>9, <2>1, <2>2
<1>11. Complete(q, c, done, ns, Len(q) + 1) =>
          Complete(r, c, more, ns, Len(r) + 1)
  <2>1. Len(r) + 1 \in Nat /\ Len(q) + 1 = (Len(r) + 1) + 1 BY <1>1
  <2> QED BY <1>9, <2>1
<1> QED BY <1>5, <1>6, <1>8, <1>10, <1>11 DEF r, more

-----------------------------------------------------------------------------
\* What a queue has after an append, and after the head was taken.
LEMMA HasNone == \A c, t : ~Has(<<>>, c, t)
BY DEF Has

LEMMA HasAppend ==
    ASSUME NEW S, NEW q \in Seq(S), NEW m \in S, NEW c, NEW t
    PROVE  Has(Append(q, m), c, t) <=> Has(q, c, t) \/ (m.t = t /\ m.conn = c)
<1>1. Len(Append(q, m)) = Len(q) + 1 /\ Len(q) \in Nat BY AppendPlaces
<1>2. \A i \in Nat : FrameAt(Append(q, m), c, t, i) <=>
                       FrameAt(q, c, t, i) \/ (i = Len(q) + 1 /\ m.t = t /\ m.conn = c)
  BY AppendPlaces
<1>3. ASSUME NEW i \in 1..Len(Append(q, m)), FrameAt(Append(q, m), c, t, i)
      PROVE  Has(q, c, t) \/ (m.t = t /\ m.conn = c)
  <2>1. FrameAt(q, c, t, i) \/ (m.t = t /\ m.conn = c) BY <1>1, <1>2, <1>3
  <2>2. FrameAt(q, c, t, i) => i \in 1..Len(q) BY DEF FrameAt
  <2> QED BY <2>1, <2>2 DEF Has
<1>4. ASSUME NEW i \in 1..Len(q), FrameAt(q, c, t, i) PROVE Has(Append(q, m), c, t)
  <2>1. i \in Nat /\ i \in 1..Len(Append(q, m)) BY <1>1
  <2> QED BY <1>2, <1>4, <2>1 DEF Has
<1>5. ASSUME m.t = t, m.conn = c PROVE Has(Append(q, m), c, t)
  <2>1. Len(q) + 1 \in Nat /\ Len(q) + 1 \in 1..Len(Append(q, m)) BY <1>1
  <2> QED BY <1>2, <1>5, <2>1 DEF Has
<1> QED BY <1>3, <1>4, <1>5 DEF Has

LEMMA HasTail ==
    ASSUME NEW S, NEW q \in Seq(S), q # <<>>, NEW c, NEW t
    PROVE  Has(q, c, t) <=> FrameAt(q, c, t, 1) \/ Has(Tail(q), c, t)
<1>1. Len(Tail(q)) = Len(q) - 1 /\ Len(q) \in Nat \ {0} BY TailPlaces
<1>2. \A i \in Nat : FrameAt(Tail(q), c, t, i) <=> i # 0 /\ FrameAt(q, c, t, i + 1) BY TailPlaces
<1>3. ASSUME NEW i \in 1..Len(q), FrameAt(q, c, t, i), i # 1 PROVE Has(Tail(q), c, t)
  <2>1. PICK j \in 1..Len(Tail(q)) : i = j + 1
    <3>1. i - 1 \in 1..Len(Tail(q)) /\ i = (i - 1) + 1 BY <1>1, <1>3
    <3> QED BY <3>1
  <2>2. j \in Nat /\ j # 0 BY <1>1
  <2>3. FrameAt(Tail(q), c, t, j) BY <1>2, <1>3, <2>1, <2>2
  <2> QED BY <2>3 DEF Has
<1>4. ASSUME NEW i \in 1..Len(Tail(q)), FrameAt(Tail(q), c, t, i) PROVE Has(q, c, t)
  <2>1. i \in Nat /\ i + 1 \in 1..Len(q) /\ FrameAt(q, c, t, i + 1) BY <1>1, <1>2, <1>4
  <2> QED BY <2>1 DEF Has
<1> QED BY <1>1, <1>3, <1>4 DEF Has

LEMMA OnceAppend ==
    ASSUME NEW S, NEW q \in Seq(S), NEW m \in S, NEW c, NEW t, Once(q, c, t),
           m.t = t /\ m.conn = c => ~Has(q, c, t)
    PROVE  Once(Append(q, m), c, t)
<1>1. Len(Append(q, m)) = Len(q) + 1 /\ Len(q) \in Nat BY AppendPlaces
<1>2. \A i \in Nat : FrameAt(Append(q, m), c, t, i) <=>
                       FrameAt(q, c, t, i) \/ (i = Len(q) + 1 /\ m.t = t /\ m.conn = c)
  BY AppendPlaces
<1>3. \A i : FrameAt(q, c, t, i) => i \in 1..Len(q) BY DEF FrameAt
<1> QED BY <1>1, <1>2, <1>3 DEF Has, Once

LEMMA OnceTail ==
    ASSUME NEW S, NEW q \in Seq(S), q # <<>>, NEW c, NEW t, Once(q, c, t)
    PROVE  Once(Tail(q), c, t) /\ (FrameAt(q, c, t, 1) => ~Has(Tail(q), c, t))
<1>1. Len(Tail(q)) = Len(q) - 1 /\ Len(q) \in Nat \ {0} BY TailPlaces
<1>2. \A i \in Nat : FrameAt(Tail(q), c, t, i) <=> i # 0 /\ FrameAt(q, c, t, i + 1) BY TailPlaces
<1>3. ASSUME NEW i \in 1..Len(Tail(q)), FrameAt(Tail(q), c, t, i)
      PROVE  i \in Nat /\ i # 0 /\ i + 1 \in 1..Len(q) /\ FrameAt(q, c, t, i + 1)
  BY <1>1, <1>2, <1>3
<1>4. Once(Tail(q), c, t)
  <2> SUFFICES ASSUME NEW i \in 1..Len(Tail(q)), NEW j \in 1..Len(Tail(q)),
                      FrameAt(Tail(q), c, t, i), FrameAt(Tail(q), c, t, j)
               PROVE  i = j
    BY DEF Once
  <2>1. i + 1 = j + 1 BY <1>3 DEF Once
  <2> QED BY <1>1, <2>1
<1>5. ASSUME FrameAt(q, c, t, 1), NEW i \in 1..Len(Tail(q)), FrameAt(Tail(q), c, t, i) PROVE FALSE
  <2>1. 1 \in 1..Len(q) BY <1>1
  <2>2. i + 1 = 1 BY <1>3, <1>5, <2>1 DEF Once
  <2> QED BY <1>3, <1>5, <2>2
<1> QED BY <1>4, <1>5 DEF Has

LEMMA FirstAppend ==
    ASSUME NEW S, NEW q \in Seq(S), NEW m \in S, NEW c, NEW t, NEW types, First(q, c, t, types),
           m.t = t /\ m.conn = c => \A u \in types : ~Has(q, c, u)
    PROVE  First(Append(q, m), c, t, types)
<1>1. Len(Append(q, m)) = Len(q) + 1 /\ Len(q) \in Nat BY AppendPlaces
<1>2. \A u : \A i \in Nat : FrameAt(Append(q, m), c, u, i) <=>
                       FrameAt(q, c, u, i) \/ (i = Len(q) + 1 /\ m.t = u /\ m.conn = c)
  BY AppendPlaces
<1>3. \A u, i : FrameAt(q, c, u, i) => i \in 1..Len(q) BY DEF FrameAt
<1> QED BY <1>1, <1>2, <1>3 DEF Has, First

LEMMA FirstTail ==
    ASSUME NEW S, NEW q \in Seq(S), q # <<>>, NEW c, NEW t, NEW types, First(q, c, t, types)
    PROVE  /\ First(Tail(q), c, t, types)
           /\ \A u \in types : FrameAt(q, c, u, 1) => ~Has(Tail(q), c, t)
<1>1. Len(Tail(q)) = Len(q) - 1 /\ Len(q) \in Nat \ {0} BY TailPlaces
<1>2. \A u : \A i \in Nat : FrameAt(Tail(q), c, u, i) <=> i # 0 /\ FrameAt(q, c, u, i + 1)
  BY TailPlaces
<1>3. ASSUME NEW u, NEW i \in 1..Len(Tail(q)), FrameAt(Tail(q), c, u, i)
      PROVE  i \in Nat /\ i # 0 /\ i + 1 \in 1..Len(q) /\ FrameAt(q, c, u, i + 1)
  BY <1>1, <1>2, <1>3
<1>4. First(Tail(q), c, t, types)
  <2> SUFFICES ASSUME NEW i \in 1..Len(Tail(q)), NEW j \in 1..Len(Tail(q)), NEW u \in types,
                      FrameAt(Tail(q), c, t, i), FrameAt(Tail(q), c, u, j)
               PROVE  i <= j
    BY DEF First
  <2>1. i + 1 <= j + 1 BY <1>3 DEF First
  <2> QED BY <1>1, <2>1
<1>5. ASSUME NEW u \in types, FrameAt(q, c, u, 1), NEW i \in 1..Len(Tail(q)), FrameAt(Tail(q), c, t, i)
      PROVE  FALSE
  <2>1. 1 \in 1..Len(q) BY <1>1
  <2>2. i + 1 <= 1 BY <1>3, <1>5, <2>1 DEF First
  <2> QED BY <1>3, <1>5, <2>2
<1> QED BY <1>4, <1>5 DEF Has

-----------------------------------------------------------------------------
\* The same facts about the whole link.
LEMMA LinkFresh ==
    ASSUME NEW q, NEW c, NEW done, NEW ns, NEW whole \in BOOLEAN,
           \A i \in 1..Len(q) : ~FrameAt(q, c, "data", i), ~Has(q, c, "data.end"), whole => ns \subseteq done
    PROVE  Link(q, c, done, ns, whole)
BY DEF Link, Chain, EndsWhole, Complete, HadBefore, DataAt, Has

LEMMA LinkWeaker ==
    ASSUME NEW q, NEW c, NEW done, NEW ns, NEW whole, NEW weaker, Link(q, c, done, ns, whole),
           weaker => whole
    PROVE  Link(q, c, done, ns, weaker)
BY DEF Link

LEMMA LinkHigher ==
    ASSUME NEW q, NEW c, NEW done, NEW ns \in SUBSET Nat, NEW whole, NEW n \in Nat,
           \A k \in ns : k < n, Link(q, c, done, ns, whole), ~Has(q, c, "data.end")
    PROVE  Link(q, c, done, ns \cup {n}, FALSE)
<1> DEFINE more == ns \cup {n}
<1>1. more \in SUBSET Nat /\ ns \subseteq more /\ \A k \in more \ ns, l \in ns : l < k OBVIOUS
<1> HIDE DEF more
<1>2. Chain(q, c, done, more) BY <1>1, ChainHigher DEF Link
<1> QED BY <1>2 DEF Link, EndsWhole, Has, more

LEMMA LinkAppendOther ==
    ASSUME NEW S, NEW q \in Seq(S), NEW m \in S, NEW c, NEW done, NEW ns \in SUBSET Nat, NEW whole,
           m.conn # c \/ m.t \notin {"data", "data.end"}, Link(q, c, done, ns, whole)
    PROVE  Link(Append(q, m), c, done, ns, whole)
<1>1. Chain(Append(q, m), c, done, ns) BY AppendOther DEF Link
<1>2. EndsWhole(Append(q, m), c, done, ns) BY AppendEndsWhole DEF Link
<1>3. whole => Complete(Append(q, m), c, done, ns, Len(Append(q, m)) + 1) BY AppendOther DEF Link
<1> QED BY <1>1, <1>2, <1>3 DEF Link

LEMMA LinkAppendEnd ==
    ASSUME NEW S, NEW q \in Seq(S), NEW m \in S, NEW c, NEW done, NEW ns \in SUBSET Nat, NEW whole,
           m.t = "data.end", whole, Link(q, c, done, ns, whole)
    PROVE  Link(Append(q, m), c, done, ns, whole)
<1>1. Chain(Append(q, m), c, done, ns) BY AppendOther DEF Link
<1>2. EndsWhole(Append(q, m), c, done, ns) BY AppendEndsWhole DEF Link
<1>3. Complete(Append(q, m), c, done, ns, Len(Append(q, m)) + 1) BY AppendOther DEF Link
<1> QED BY <1>1, <1>2, <1>3 DEF Link

LEMMA LinkAppendNext ==
    ASSUME NEW S, NEW q \in Seq(S), NEW m \in S, NEW c, NEW done, NEW ns \in SUBSET Nat, NEW whole,
           NEW n \in Nat, \A k \in ns : k < n, done \subseteq ns,
           m.t = "data", m.conn = c, m.n = n, whole, ~Has(q, c, "data.end"), Link(q, c, done, ns, whole)
    PROVE  Link(Append(q, m), c, done, ns \cup {n}, whole)
<1> DEFINE r == Append(q, m)
           more == ns \cup {n}
<1>1. Chain(r, c, done, more) /\ Complete(r, c, done, more, Len(r) + 1) BY AppendNext DEF Link
<1>2. ~Has(r, c, "data.end")
  <2>1. Len(r) = Len(q) + 1 /\ Len(q) \in Nat BY AppendPlaces
  <2>2. \A i \in Nat : FrameAt(r, c, "data.end", i) => FrameAt(q, c, "data.end", i)
    BY AppendPlaces
  <2>3. \A i : FrameAt(q, c, "data.end", i) => i \in 1..Len(q) BY DEF FrameAt
  <2> QED BY <2>1, <2>2, <2>3 DEF Has
<1> HIDE DEF r, more
<1> QED BY <1>1, <1>2 DEF Link, EndsWhole, Has, r, more

LEMMA LinkTailOther ==
    ASSUME NEW S, NEW q \in Seq(S), q # <<>>, NEW c, q[1].t # "data" \/ q[1].conn # c,
           NEW done, NEW ns \in SUBSET Nat, NEW whole, Link(q, c, done, ns, whole)
    PROVE  Link(Tail(q), c, done, ns, whole)
BY TailOther DEF Link

LEMMA LinkTailNext ==
    ASSUME NEW S, NEW q \in Seq(S), q # <<>>, NEW c, NEW n \in Nat, DataAt(q, c, n, 1),
           NEW done, NEW ns \in SUBSET Nat, NEW whole, Link(q, c, done, ns, whole)
    PROVE  /\ n \in ns
           /\ \A k \in done : k < n
           /\ \A k \in ns : k < n => k \in done
           /\ Link(Tail(q), c, done \cup {n}, ns, whole)
<1>1. /\ n \in ns
      /\ \A k \in done : k < n
      /\ \A k \in ns : k < n => k \in done
  BY TailNext DEF Link
<1>2. Chain(Tail(q), c, done \cup {n}, ns) BY TailNext DEF Link
<1>3. EndsWhole(Tail(q), c, done \cup {n}, ns) BY TailNext DEF Link
<1>4. whole => Complete(Tail(q), c, done \cup {n}, ns, Len(Tail(q)) + 1) BY TailNext DEF Link
<1> QED BY <1>1, <1>2, <1>3, <1>4 DEF Link

\* The end at the head of the queue: all is done.
LEMMA LinkEnd ==
    ASSUME NEW S, NEW q \in Seq(S), q # <<>>, NEW c, FrameAt(q, c, "data.end", 1),
           NEW done, NEW ns, NEW whole, Link(q, c, done, ns, whole)
    PROVE  ns \subseteq done
<1>1. 1 \in 1..Len(q) BY DEF FrameAt
<1>2. Complete(q, c, done, ns, 1) BY <1>1 DEF Link, EndsWhole
<1> QED BY <1>2 DEF Complete, HadBefore
=============================================================================
