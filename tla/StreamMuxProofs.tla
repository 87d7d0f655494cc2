-------------------------- MODULE StreamMuxProofs ---------------------------
(***************************************************************************)
(* Proofs about the multiplexer: the types, the credit of a stream and the *)
(* bytes behind an EOF, for any number of streams, any window, queue and   *)
(* pipe, any bytes to write and any number of preemptions.                 *)
(*                                                                         *)
(* First, what a pipe and a data queue hold after a frame is added at the  *)
(* end or taken from the head.  The rest of the proof uses these facts     *)
(* alone: it speaks of each stream at each end.                            *)
(***************************************************************************)
EXTENDS StreamMux, SumTheorems, SequenceTheorems

\* Each end has one peer, and is its peer's.
LEMMA MuxPeers ==
    /\ MuxPeer("client") = "server" /\ MuxPeer("server") = "client"
    /\ \A e \in MuxEnds : MuxPeer(e) \in MuxEnds /\ MuxPeer(e) # e /\ MuxPeer(MuxPeer(e)) = e
    /\ \A e, f \in MuxEnds : f = e \/ f = MuxPeer(e)
<1>1. MuxPeer("client") = "server" /\ MuxPeer("server") = "client"
    BY DEF MuxPeer, MuxEnds
<1>q. QED BY <1>1 DEF MuxEnds
-----------------------------------------------------------------------------
(* Sequences of frames: what they hold when one is added or taken *)

\* A value for each element, added up.
MuxTotal(c, q) == SumFunction([i \in DOMAIN q |-> c[q[i]]])

LEMMA MuxTotalAppend ==
    ASSUME NEW S, NEW q \in Seq(S), NEW f \in S, NEW c \in [S -> Nat]
    PROVE  MuxTotal(c, Append(q, f)) = MuxTotal(c, q) + c[f]
<1> DEFINE r == Append(q, f)
           n == Len(q)
           v == [i \in DOMAIN q |-> c[q[i]]]
           w == [i \in DOMAIN r |-> c[r[i]]]
<1>1. /\ n \in Nat /\ DOMAIN q = 1..n /\ DOMAIN r = 1..(n + 1)
      /\ \A i \in 1..n : r[i] = q[i] /\ q[i] \in S
      /\ r[n + 1] = f
    BY AppendProperties, LenProperties
<1> HIDE DEF r, n
<1>2. \A i \in 1..(n + 1) : i = n + 1 \/ i \in 1..n
    BY <1>1
<1>3. DOMAIN v = 1..n /\ \A i \in 1..n : v[i] = c[q[i]]
    BY <1>1
<1>4. DOMAIN w = 1..(n + 1) /\ n + 1 \in 1..(n + 1) /\ \A i \in 1..(n + 1) : w[i] = c[r[i]] /\ r[i] \in S
    BY <1>1, <1>2
<1>5. \A i \in 1..n : i \in 1..(n + 1)
    BY <1>1
<1>6. MuxTotal(c, q) = SumFunction(v) /\ MuxTotal(c, r) = SumFunction(w)
    BY DEF MuxTotal
<1> HIDE DEF v, w
<1>7. /\ \A i \in 1..(n + 1) : w[i] \in Int
      /\ \A i \in 1..n : v[i] = w[i]
      /\ w[n + 1] = c[f]
    BY <1>1, <1>3, <1>4, <1>5
<1>8. SumFunction(w) = SumFunction(v) + w[n + 1]
  <2>1. n \in Nat /\ DOMAIN v = 1..n /\ DOMAIN w = 1..(n + 1)
      BY <1>1, <1>3, <1>4
  <2>q. QED BY ONLY <2>1, <1>7, SumAppend
<1>q. QED BY <1>6, <1>7, <1>8 DEF r

LEMMA MuxTotalTail ==
    ASSUME NEW S, NEW q \in Seq(S), q # <<>>, NEW c \in [S -> Nat]
    PROVE  MuxTotal(c, q) = c[Head(q)] + MuxTotal(c, Tail(q))
<1> DEFINE r == Tail(q)
           n == Len(Tail(q))
           v == [i \in DOMAIN q |-> c[q[i]]]
           w == [i \in DOMAIN r |-> c[r[i]]]
<1>1. /\ n \in Nat /\ DOMAIN q = 1..(n + 1) /\ DOMAIN r = 1..n
      /\ \A i \in 1..n : r[i] = q[i + 1]
      /\ \A i \in 1..(n + 1) : q[i] \in S
      /\ q[1] = Head(q)
    BY HeadTailProperties, LenProperties
<1> HIDE DEF r, n
<1>2. (\A i \in 1..n : i + 1 \in 1..(n + 1)) /\ 1 \in 1..(n + 1)
    BY <1>1
<1>3. DOMAIN v = 1..(n + 1) /\ \A i \in 1..(n + 1) : v[i] = c[q[i]]
    BY <1>1
<1>4. DOMAIN w = 1..n /\ \A i \in 1..n : w[i] = c[r[i]]
    BY <1>1
<1>5. MuxTotal(c, q) = SumFunction(v) /\ MuxTotal(c, r) = SumFunction(w)
    BY DEF MuxTotal
<1> HIDE DEF v, w
<1>6. /\ \A i \in 1..(n + 1) : v[i] \in Int
      /\ \A i \in 1..n : w[i] = v[i + 1]
      /\ v[1] = c[Head(q)]
    BY <1>1, <1>2, <1>3, <1>4
<1>7. SumFunction(v) = v[1] + SumFunction(w)
  <2>1. n \in Nat /\ DOMAIN v = 1..(n + 1) /\ DOMAIN w = 1..n
      BY <1>1, <1>3, <1>4
  <2>q. QED BY ONLY ZenonT(60), <2>1, <1>6, SumTail
<1>q. QED BY <1>5, <1>6, <1>7 DEF r

LEMMA MuxTotalBounds ==
    ASSUME NEW S, NEW q \in Seq(S), NEW c \in [S -> Nat]
    PROVE  /\ MuxTotal(c, q) \in Nat
           /\ \A i \in DOMAIN q : c[q[i]] <= MuxTotal(c, q)
           /\ (\A i \in DOMAIN q : c[q[i]] = 0) => MuxTotal(c, q) = 0
           /\ (\A i \in DOMAIN q : c[q[i]] <= 1) => MuxTotal(c, q) <= Len(q)
<1> DEFINE n == Len(q)
           v == [i \in DOMAIN q |-> c[q[i]]]
<1>1. n \in Nat /\ DOMAIN q = 1..n /\ \A i \in 1..n : q[i] \in S
    BY LenProperties
<1> HIDE DEF n
<1>2. DOMAIN v = 1..n /\ \A i \in 1..n : v[i] \in Nat /\ v[i] = c[q[i]]
    BY <1>1
<1>3. MuxTotal(c, q) = SumFunction(v)
    BY DEF MuxTotal
<1> HIDE DEF v
<1>4. /\ SumFunction(v) \in Nat
      /\ \A i \in 1..n : v[i] <= SumFunction(v)
      /\ (\A i \in 1..n : v[i] = 0) => SumFunction(v) = 0
      /\ (\A i \in 1..n : v[i] <= 1) => SumFunction(v) <= n
    BY ONLY <1>1, <1>2, SumOfNat
<1>q. QED BY <1>1, <1>2, <1>3, <1>4 DEF n

LEMMA MuxTotalEmpty ==
    ASSUME NEW c
    PROVE  MuxTotal(c, <<>>) = 0
<1> DEFINE z == [i \in DOMAIN <<>> |-> c[<<>>[i]]]
<1>1. DOMAIN z = {}
    OBVIOUS
<1>2. MuxTotal(c, <<>>) = SumFunctionOnSet(z, DOMAIN z)
    BY DEF MuxTotal, SumFunction
<1>q. QED BY <1>1, <1>2, SumEmpty

MuxQueueFrame == [s : MuxStreams, n : 1..MuxWindow]
\* What one frame adds to the bytes in a pipe, to the bytes and the frames queued.
MuxCarries(t, s) == [f \in MuxFrame |-> IF f.t = t /\ f.s = s THEN f.n ELSE 0]
MuxHolds(s) == [d \in MuxQueueFrame |-> IF d.s = s THEN d.n ELSE 0]
MuxCounts(s) == [d \in MuxQueueFrame |-> IF d.s = s THEN 1 ELSE 0]

LEMMA MuxTotals ==
    /\ \A t, s : MuxCarries(t, s) \in [MuxFrame -> Nat]
    /\ \A s : MuxHolds(s) \in [MuxQueueFrame -> Nat] /\ MuxCounts(s) \in [MuxQueueFrame -> Nat]
    /\ \A q \in Seq(MuxFrame) : \A t, s : MuxBytesIn(q, t, s) = MuxTotal(MuxCarries(t, s), q)
<1>1. \A t, s : MuxCarries(t, s) \in [MuxFrame -> Nat]
    BY DEF MuxCarries, MuxFrame
<1>2. \A s : MuxHolds(s) \in [MuxQueueFrame -> Nat] /\ MuxCounts(s) \in [MuxQueueFrame -> Nat]
    BY MuxAssumption DEF MuxHolds, MuxCounts, MuxQueueFrame
<1>3. ASSUME NEW q \in Seq(MuxFrame), NEW t, NEW s
      PROVE  MuxBytesIn(q, t, s) = MuxTotal(MuxCarries(t, s), q)
  <2>1. \A i \in DOMAIN q : q[i] \in MuxFrame
      BY LenProperties
  <2>2. \A i \in DOMAIN q : MuxCarries(t, s)[q[i]] = IF q[i].t = t /\ q[i].s = s THEN q[i].n ELSE 0
      BY <2>1 DEF MuxCarries
  <2>3. [i \in DOMAIN q |-> MuxCarries(t, s)[q[i]]]
            = [i \in DOMAIN q |-> IF q[i].t = t /\ q[i].s = s THEN q[i].n ELSE 0]
      BY <2>2
  <2>q. QED BY <2>3 DEF MuxBytesIn, MuxTotal
<1>q. QED BY <1>1, <1>2, <1>3

\* Which frames a sequence holds, and in which order.
MuxHasIn(q, t, s) == \E i \in DOMAIN q : q[i].t = t /\ q[i].s = s
MuxOpenFirstIn(q, s) == \A i, k \in DOMAIN q :
    q[k].t = "open" /\ q[k].s = s /\ q[i].s = s => k <= i
MuxCloseLastIn(q, s) == \A i, k \in DOMAIN q :
    q[k].t = "data" /\ q[i].t = "close" /\ q[k].s = s /\ q[i].s = s => k < i

LEMMA MuxAppendOrder ==
    ASSUME NEW q \in Seq(MuxFrame), NEW f \in MuxFrame
    PROVE  /\ \A t, s : MuxHasIn(Append(q, f), t, s) <=> MuxHasIn(q, t, s) \/ (f.t = t /\ f.s = s)
           /\ \A s : MuxCloseLastIn(q, s) /\ ~(f.t = "data" /\ f.s = s /\ MuxHasIn(q, "close", s))
                         => MuxCloseLastIn(Append(q, f), s)
           /\ \A s : MuxOpenFirstIn(q, s) /\ ~(f.t = "open" /\ f.s = s /\ \E t \in MuxFrameTypes : MuxHasIn(q, t, s))
                         => MuxOpenFirstIn(Append(q, f), s)
<1> DEFINE r == Append(q, f)
           n == Len(q)
<1>1. /\ n \in Nat /\ DOMAIN q = 1..n /\ DOMAIN r = 1..(n + 1)
      /\ \A i \in 1..n : r[i] = q[i] /\ q[i] \in MuxFrame
      /\ r[n + 1] = f
    BY AppendProperties, LenProperties
<1> HIDE DEF r, n
<1>2. /\ \A i \in 1..(n + 1) : i = n + 1 \/ i \in 1..n
      /\ \A i \in 1..n : i \in 1..(n + 1) /\ i < n + 1 /\ i <= n + 1 /\ i \in Nat
      /\ n + 1 \in 1..(n + 1) /\ n + 1 <= n + 1
    BY <1>1
<1>3. ASSUME NEW t, NEW s
      PROVE  MuxHasIn(r, t, s) <=> MuxHasIn(q, t, s) \/ (f.t = t /\ f.s = s)
    BY <1>1, <1>2 DEF MuxHasIn
<1>4. ASSUME NEW s, MuxCloseLastIn(q, s), ~(f.t = "data" /\ f.s = s /\ MuxHasIn(q, "close", s))
      PROVE  MuxCloseLastIn(r, s)
    BY <1>1, <1>2, <1>4 DEF MuxCloseLastIn, MuxHasIn
<1>5. ASSUME NEW s, MuxOpenFirstIn(q, s),
             ~(f.t = "open" /\ f.s = s /\ \E t \in MuxFrameTypes : MuxHasIn(q, t, s))
      PROVE  MuxOpenFirstIn(r, s)
  <2>1. \A i \in 1..n : q[i].t \in MuxFrameTypes
      BY <1>1 DEF MuxFrame
  <2>q. QED BY <1>1, <1>2, <1>5, <2>1 DEF MuxOpenFirstIn, MuxHasIn
<1>q. QED BY <1>3, <1>4, <1>5 DEF r

LEMMA MuxTailOrder ==
    ASSUME NEW q \in Seq(MuxFrame), q # <<>>
    PROVE  /\ Head(q) \in MuxFrame
           /\ \A t, s : MuxHasIn(q, t, s) <=> MuxHasIn(Tail(q), t, s) \/ (Head(q).t = t /\ Head(q).s = s)
           /\ \A s : MuxCloseLastIn(q, s) => MuxCloseLastIn(Tail(q), s)
           /\ \A s : MuxOpenFirstIn(q, s) => MuxOpenFirstIn(Tail(q), s)
           /\ Head(q).t = "close" /\ MuxCloseLastIn(q, Head(q).s) => ~MuxHasIn(q, "data", Head(q).s)
           /\ Head(q).t # "open" /\ MuxOpenFirstIn(q, Head(q).s) => ~MuxHasIn(q, "open", Head(q).s)
           /\ Head(q).t = "open" /\ MuxOpenFirstIn(q, Head(q).s) => ~MuxHasIn(Tail(q), "open", Head(q).s)
<1> DEFINE r == Tail(q)
           n == Len(Tail(q))
           h == Head(q)
<1>1. /\ n \in Nat /\ DOMAIN q = 1..(n + 1) /\ DOMAIN r = 1..n
      /\ \A i \in 1..n : r[i] = q[i + 1]
      /\ \A i \in 1..(n + 1) : q[i] \in MuxFrame
      /\ q[1] = h /\ h \in MuxFrame
    BY HeadTailProperties, LenProperties
<1> HIDE DEF r, n, h
<1>2. /\ \A i \in 1..n : i + 1 \in 1..(n + 1) /\ i + 1 > 1 /\ ~(i + 1 <= 1)
      /\ \A i \in 1..(n + 1) : i = 1 \/ (i - 1 \in 1..n /\ i = (i - 1) + 1)
      /\ \A i \in 1..(n + 1) : ~(i < 1)
      /\ 1 \in 1..(n + 1)
      /\ \A i, k \in 1..n : (i + 1 < k + 1 => i < k) /\ (i + 1 <= k + 1 => i <= k)
    BY <1>1
<1>3. ASSUME NEW t, NEW s
      PROVE  MuxHasIn(q, t, s) <=> MuxHasIn(r, t, s) \/ (h.t = t /\ h.s = s)
  <2>1. MuxHasIn(r, t, s) => MuxHasIn(q, t, s)
      BY <1>1, <1>2 DEF MuxHasIn
  <2>2. h.t = t /\ h.s = s => MuxHasIn(q, t, s)
      BY <1>1, <1>2 DEF MuxHasIn
  <2>3. ASSUME NEW i \in 1..(n + 1), q[i].t = t, q[i].s = s
        PROVE  MuxHasIn(r, t, s) \/ (h.t = t /\ h.s = s)
    <3>1. CASE i = 1
        BY <1>1, <2>3, <3>1
    <3>2. CASE i - 1 \in 1..n /\ i = (i - 1) + 1
      <4>1. r[i - 1] = q[i]
          BY <1>1, <3>2
      <4>q. QED BY <1>1, <2>3, <3>2, <4>1 DEF MuxHasIn
    <3>q. QED BY <1>2, <3>1, <3>2
  <2>q. QED BY <1>1, <2>1, <2>2, <2>3 DEF MuxHasIn
<1>4. ASSUME NEW s, MuxCloseLastIn(q, s)
      PROVE  MuxCloseLastIn(r, s)
  <2> SUFFICES ASSUME NEW i \in 1..n, NEW k \in 1..n, r[k].t = "data", r[i].t = "close", r[k].s = s, r[i].s = s
               PROVE  k < i
      BY <1>1 DEF MuxCloseLastIn
  <2>1. r[k] = q[k + 1] /\ r[i] = q[i + 1] /\ i + 1 \in DOMAIN q /\ k + 1 \in DOMAIN q
      BY <1>1, <1>2
  <2>2. k + 1 < i + 1
      BY <1>4, <2>1 DEF MuxCloseLastIn
  <2>q. QED BY <1>2, <2>2
<1>5. ASSUME NEW s, MuxOpenFirstIn(q, s)
      PROVE  MuxOpenFirstIn(r, s)
    BY <1>1, <1>2, <1>5 DEF MuxOpenFirstIn
<1>6. ASSUME h.t = "close", MuxCloseLastIn(q, h.s)
      PROVE  ~MuxHasIn(q, "data", h.s)
    BY <1>1, <1>2, <1>6 DEF MuxCloseLastIn, MuxHasIn
<1>7. ASSUME h.t # "open", MuxOpenFirstIn(q, h.s)
      PROVE  ~MuxHasIn(q, "open", h.s)
  <2>1. \A k \in 1..(n + 1) : k <= 1 => k = 1
      BY <1>1
  <2>q. QED BY <1>1, <1>2, <1>7, <2>1 DEF MuxOpenFirstIn, MuxHasIn
<1>8. ASSUME h.t = "open", MuxOpenFirstIn(q, h.s)
      PROVE  ~MuxHasIn(r, "open", h.s)
  <2> SUFFICES ASSUME NEW k \in 1..n, r[k].t = "open", r[k].s = h.s
               PROVE  FALSE
      BY <1>1 DEF MuxHasIn
  <2>1. r[k] = q[k + 1] /\ k + 1 \in DOMAIN q /\ 1 \in DOMAIN q /\ q[1].s = h.s
      BY <1>1, <1>2
  <2>2. k + 1 <= 1
      BY <1>8, <2>1 DEF MuxOpenFirstIn
  <2>q. QED BY <1>2, <2>2
<1>q. QED BY <1>1, <1>3, <1>4, <1>5, <1>6, <1>7, <1>8 DEF r, h
-----------------------------------------------------------------------------
(* The pipes and the data queues of a state *)

MuxIn(e, t, s) == MuxBytesIn(muxPipe[e], t, s)

LEMMA MuxPipeFacts ==
    ASSUME MuxTypeOK, NEW e \in MuxEnds
    PROVE  /\ muxPipe[e] \in Seq(MuxFrame)
           /\ \A t, s : MuxIn(e, t, s) \in Nat /\ (~MuxHas(e, t, s) => MuxIn(e, t, s) = 0)
           /\ \A t, s : MuxHas(e, t, s) <=> MuxHasIn(muxPipe[e], t, s)
           /\ \A s : MuxOpenFirst(e, s) <=> MuxOpenFirstIn(muxPipe[e], s)
           /\ \A s : MuxCloseLast(e, s) <=> MuxCloseLastIn(muxPipe[e], s)
<1> DEFINE q == muxPipe[e]
<1>1. q \in Seq(MuxFrame)
    BY DEF MuxTypeOK
<1>2. ASSUME NEW t, NEW s
      PROVE  /\ MuxIn(e, t, s) \in Nat /\ (~MuxHas(e, t, s) => MuxIn(e, t, s) = 0)
             /\ MuxHas(e, t, s) <=> MuxHasIn(muxPipe[e], t, s)
  <2>1. MuxHas(e, t, s) <=> MuxHasIn(q, t, s)
      BY DEF MuxHas, MuxHasIn
  <2>2. MuxIn(e, t, s) = MuxTotal(MuxCarries(t, s), q)
      BY <1>1, MuxTotals DEF MuxIn
  <2> HIDE DEF q
  <2>3. /\ MuxTotal(MuxCarries(t, s), q) \in Nat
        /\ (\A i \in DOMAIN q : MuxCarries(t, s)[q[i]] = 0) => MuxTotal(MuxCarries(t, s), q) = 0
      BY <1>1, MuxTotals, MuxTotalBounds
  <2>4. \A i \in DOMAIN q : q[i] \in MuxFrame
      BY <1>1, LenProperties
  <2>5. ~MuxHasIn(q, t, s) => \A i \in DOMAIN q : MuxCarries(t, s)[q[i]] = 0
      BY <2>4 DEF MuxHasIn, MuxCarries
  <2>q. QED BY <2>1, <2>2, <2>3, <2>5 DEF q
<1>3. ASSUME NEW s
      PROVE  /\ MuxOpenFirst(e, s) <=> MuxOpenFirstIn(muxPipe[e], s)
             /\ MuxCloseLast(e, s) <=> MuxCloseLastIn(muxPipe[e], s)
    BY DEF MuxOpenFirst, MuxOpenFirstIn, MuxCloseLast, MuxCloseLastIn
<1>q. QED BY <1>1, <1>2, <1>3

LEMMA MuxQueueFacts ==
    ASSUME MuxTypeOK, NEW e \in MuxEnds
    PROVE  /\ muxData[e] \in Seq(MuxQueueFrame) /\ Len(muxData[e]) \in Nat /\ Len(muxData[e]) <= MuxQueue
           /\ \A s : /\ MuxBytesQueued(e, s) \in Nat /\ MuxFramesQueued(e, s) \in Nat
                     /\ MuxFramesQueued(e, s) <= Len(muxData[e])
                     /\ MuxFramesQueued(e, s) = 0 => MuxBytesQueued(e, s) = 0
                     /\ MuxBytesQueued(e, s) = MuxTotal(MuxHolds(s), muxData[e])
                     /\ MuxFramesQueued(e, s) = MuxTotal(MuxCounts(s), muxData[e])
<1> DEFINE q == muxData[e]
<1>1. q \in Seq(MuxQueueFrame) /\ Len(q) <= MuxQueue
    BY DEF MuxTypeOK, MuxQueueFrame
<1>2. ASSUME NEW s
      PROVE  /\ MuxBytesQueued(e, s) \in Nat /\ MuxFramesQueued(e, s) \in Nat
             /\ MuxFramesQueued(e, s) <= Len(q)
             /\ MuxFramesQueued(e, s) = 0 => MuxBytesQueued(e, s) = 0
             /\ MuxBytesQueued(e, s) = MuxTotal(MuxHolds(s), q)
             /\ MuxFramesQueued(e, s) = MuxTotal(MuxCounts(s), q)
  <2>1. \A i \in DOMAIN q : q[i] \in MuxQueueFrame
      BY <1>1, LenProperties
  <2>2. \A i \in DOMAIN q : /\ MuxHolds(s)[q[i]] = IF q[i].s = s THEN q[i].n ELSE 0
                            /\ MuxCounts(s)[q[i]] = IF q[i].s = s THEN 1 ELSE 0
      BY <2>1 DEF MuxHolds, MuxCounts
  <2>3. /\ [i \in DOMAIN q |-> MuxHolds(s)[q[i]]] = [i \in DOMAIN q |-> IF q[i].s = s THEN q[i].n ELSE 0]
        /\ [i \in DOMAIN q |-> MuxCounts(s)[q[i]]] = [i \in DOMAIN q |-> IF q[i].s = s THEN 1 ELSE 0]
      BY <2>2
  <2>4. /\ MuxBytesQueued(e, s) = MuxTotal(MuxHolds(s), q)
        /\ MuxFramesQueued(e, s) = MuxTotal(MuxCounts(s), q)
      BY <2>3 DEF MuxBytesQueued, MuxFramesQueued, MuxTotal
  <2> HIDE DEF q
  <2>5. /\ MuxTotal(MuxHolds(s), q) \in Nat
        /\ (\A i \in DOMAIN q : MuxHolds(s)[q[i]] = 0) => MuxTotal(MuxHolds(s), q) = 0
      BY <1>1, MuxTotals, MuxTotalBounds
  <2>6. /\ MuxTotal(MuxCounts(s), q) \in Nat
        /\ \A i \in DOMAIN q : MuxCounts(s)[q[i]] <= MuxTotal(MuxCounts(s), q)
        /\ (\A i \in DOMAIN q : MuxCounts(s)[q[i]] <= 1) => MuxTotal(MuxCounts(s), q) <= Len(q)
      BY <1>1, MuxTotals, MuxTotalBounds
  <2>7. \A i \in DOMAIN q : MuxCounts(s)[q[i]] <= 1 /\ (MuxCounts(s)[q[i]] <= 0 => MuxHolds(s)[q[i]] = 0)
      BY <2>2
  <2>8. MuxTotal(MuxCounts(s), q) = 0 => \A i \in DOMAIN q : MuxHolds(s)[q[i]] = 0
      BY <2>6, <2>7
  <2>q. QED BY <2>4, <2>5, <2>6, <2>7, <2>8
<1>3. Len(q) \in Nat
    BY <1>1, LenProperties
<1>q. QED BY <1>1, <1>2, <1>3

\* What a step leaves alone of a stream in a pipe and in a queue.
MuxPipeSame(f, s) ==
    /\ \A t \in MuxFrameTypes : (MuxHas(f, t, s)' <=> MuxHas(f, t, s)) /\ MuxIn(f, t, s)' = MuxIn(f, t, s)
    /\ MuxCloseLast(f, s) => MuxCloseLast(f, s)'
    /\ MuxOpenFirst(f, s) => MuxOpenFirst(f, s)'
MuxQueueSame(f, s) ==
    MuxBytesQueued(f, s)' = MuxBytesQueued(f, s) /\ MuxFramesQueued(f, s)' = MuxFramesQueued(f, s)

LEMMA MuxSameFrames ==
    ASSUME NEW f \in MuxEnds, NEW s
    PROVE  /\ muxPipe'[f] = muxPipe[f] => MuxPipeSame(f, s)
           /\ muxData'[f] = muxData[f] => MuxQueueSame(f, s)
<1>1. ASSUME muxPipe'[f] = muxPipe[f] PROVE MuxPipeSame(f, s)
    BY <1>1 DEF MuxPipeSame, MuxHas, MuxIn, MuxCloseLast, MuxOpenFirst
<1>2. ASSUME muxData'[f] = muxData[f] PROVE MuxQueueSame(f, s)
    BY <1>2 DEF MuxQueueSame, MuxBytesQueued, MuxFramesQueued
<1>q. QED BY <1>1, <1>2

LEMMA MuxPrimedPipe ==
    ASSUME NEW e
    PROVE  /\ \A t, s : MuxHas(e, t, s)' <=> MuxHasIn(muxPipe'[e], t, s)
           /\ \A t, s : MuxIn(e, t, s)' = MuxBytesIn(muxPipe'[e], t, s)
           /\ \A s : MuxOpenFirst(e, s)' <=> MuxOpenFirstIn(muxPipe'[e], s)
           /\ \A s : MuxCloseLast(e, s)' <=> MuxCloseLastIn(muxPipe'[e], s)
<1>1. ASSUME NEW t, NEW s
      PROVE  (MuxHas(e, t, s)' <=> MuxHasIn(muxPipe'[e], t, s)) /\ MuxIn(e, t, s)' = MuxBytesIn(muxPipe'[e], t, s)
    BY DEF MuxHas, MuxHasIn, MuxIn
<1>2. ASSUME NEW s
      PROVE  /\ MuxOpenFirst(e, s)' <=> MuxOpenFirstIn(muxPipe'[e], s)
             /\ MuxCloseLast(e, s)' <=> MuxCloseLastIn(muxPipe'[e], s)
    BY DEF MuxOpenFirst, MuxOpenFirstIn, MuxCloseLast, MuxCloseLastIn
<1>q. QED BY <1>1, <1>2

\* The writer of e puts a frame into its pipe.
LEMMA MuxSent ==
    ASSUME MuxTypeOK, NEW e \in MuxEnds, NEW t \in MuxFrameTypes, NEW x \in MuxStreams, NEW n \in Nat,
           MuxSend(e, t, x, n)
    PROVE  /\ muxPipe' \in [MuxEnds -> Seq(MuxFrame)]
           /\ \A f \in MuxEnds, s \in MuxStreams : f # e \/ s # x => MuxPipeSame(f, s)
           /\ \A u \in MuxFrameTypes : /\ MuxHas(e, u, x)' <=> MuxHas(e, u, x) \/ u = t
                                       /\ MuxIn(e, u, x)' = MuxIn(e, u, x) + IF u = t THEN n ELSE 0
           /\ MuxCloseLast(e, x) /\ ~(t = "data" /\ MuxHas(e, "close", x)) => MuxCloseLast(e, x)'
           /\ MuxOpenFirst(e, x) /\ (t = "open" => MuxSilent(e, x)) => MuxOpenFirst(e, x)'
<1> DEFINE q == muxPipe[e]
           g == [t |-> t, s |-> x, n |-> n]
<1>1. muxPipe \in [MuxEnds -> Seq(MuxFrame)] /\ q \in Seq(MuxFrame)
    BY DEF MuxTypeOK
<1>2. g \in MuxFrame /\ g.t = t /\ g.s = x /\ g.n = n
    BY DEF MuxFrame
<1>3. Append(q, g) \in Seq(MuxFrame)
    BY <1>1, <1>2, AppendProperties
<1>4. muxPipe'[e] = Append(q, g) /\ \A f \in MuxEnds : f # e => muxPipe'[f] = muxPipe[f]
    BY <1>1 DEF MuxSend
<1>5. muxPipe' \in [MuxEnds -> Seq(MuxFrame)]
    BY <1>1, <1>3 DEF MuxSend
<1>6. /\ \A u, s : MuxHas(e, u, s) <=> MuxHasIn(q, u, s)
      /\ \A u, s : MuxIn(e, u, s) = MuxBytesIn(q, u, s)
      /\ \A s : MuxOpenFirst(e, s) <=> MuxOpenFirstIn(q, s)
      /\ \A s : MuxCloseLast(e, s) <=> MuxCloseLastIn(q, s)
    BY MuxPipeFacts DEF MuxIn
<1>7. /\ \A u, s : MuxHas(e, u, s)' <=> MuxHasIn(Append(q, g), u, s)
      /\ \A u, s : MuxIn(e, u, s)' = MuxBytesIn(Append(q, g), u, s)
      /\ \A s : MuxOpenFirst(e, s)' <=> MuxOpenFirstIn(Append(q, g), s)
      /\ \A s : MuxCloseLast(e, s)' <=> MuxCloseLastIn(Append(q, g), s)
    BY <1>4, MuxPrimedPipe
<1> HIDE DEF q, g
<1>8. \A u, s : MuxBytesIn(Append(q, g), u, s) = MuxBytesIn(q, u, s) + IF u = t /\ s = x THEN n ELSE 0
  <2> SUFFICES ASSUME NEW u, NEW s
               PROVE  MuxBytesIn(Append(q, g), u, s) = MuxBytesIn(q, u, s) + IF u = t /\ s = x THEN n ELSE 0
      OBVIOUS
  <2>1. MuxTotal(MuxCarries(u, s), Append(q, g)) = MuxTotal(MuxCarries(u, s), q) + MuxCarries(u, s)[g]
      BY <1>1, <1>2, MuxTotals, MuxTotalAppend
  <2>2. MuxCarries(u, s)[g] = IF u = t /\ s = x THEN n ELSE 0
      BY <1>2 DEF MuxCarries
  <2>q. QED BY <1>1, <1>3, <2>1, <2>2, MuxTotals
<1>9. /\ \A u, s : MuxHasIn(Append(q, g), u, s) <=> MuxHasIn(q, u, s) \/ (t = u /\ x = s)
      /\ \A s : MuxCloseLastIn(q, s) /\ ~(t = "data" /\ x = s /\ MuxHasIn(q, "close", s))
                    => MuxCloseLastIn(Append(q, g), s)
      /\ \A s : MuxOpenFirstIn(q, s) /\ ~(t = "open" /\ x = s /\ \E u \in MuxFrameTypes : MuxHasIn(q, u, s))
                    => MuxOpenFirstIn(Append(q, g), s)
    BY <1>1, <1>2, MuxAppendOrder
<1>i. \A u, s : MuxBytesIn(q, u, s) \in Nat
    BY MuxPipeFacts DEF MuxIn, q
<1>10. ASSUME NEW f \in MuxEnds, NEW s \in MuxStreams, f # e \/ s # x
       PROVE  MuxPipeSame(f, s)
  <2>1. CASE f # e
      BY <1>4, <2>1, MuxSameFrames
  <2>2. CASE f = e
    <3>1. s # x
        BY <1>10, <2>2
    <3>2. \A u : (MuxHas(e, u, s)' <=> MuxHas(e, u, s)) /\ MuxIn(e, u, s)' = MuxIn(e, u, s)
        BY <1>6, <1>7, <1>8, <1>9, <1>i, <3>1
    <3>3. (MuxCloseLast(e, s) => MuxCloseLast(e, s)') /\ (MuxOpenFirst(e, s) => MuxOpenFirst(e, s)')
        BY <1>6, <1>7, <1>9, <3>1
    <3>q. QED BY <2>2, <3>2, <3>3 DEF MuxPipeSame
  <2>q. QED BY <2>1, <2>2
<1>11. \A u \in MuxFrameTypes : /\ MuxHas(e, u, x)' <=> MuxHas(e, u, x) \/ u = t
                                /\ MuxIn(e, u, x)' = MuxIn(e, u, x) + IF u = t THEN n ELSE 0
    BY <1>6, <1>7, <1>8, <1>9
<1>12. MuxCloseLast(e, x) /\ ~(t = "data" /\ MuxHas(e, "close", x)) => MuxCloseLast(e, x)'
    BY <1>6, <1>7, <1>9
<1>13. MuxOpenFirst(e, x) /\ (t = "open" => MuxSilent(e, x)) => MuxOpenFirst(e, x)'
    BY <1>6, <1>7, <1>9 DEF MuxSilent
<1>q. QED BY <1>5, <1>10, <1>11, <1>12, <1>13

\* The reader at the other end takes the first frame from the pipe of e.
\* A pipe without its head h, of stream x.
MuxShrunk(e, x, h) ==
    /\ muxPipe' \in [MuxEnds -> Seq(MuxFrame)]
    /\ \A f \in MuxEnds, s \in MuxStreams : f # e \/ s # x => MuxPipeSame(f, s)
    /\ \A u \in MuxFrameTypes : /\ MuxHas(e, u, x) <=> MuxHas(e, u, x)' \/ u = h.t
                                /\ MuxIn(e, u, x) = MuxIn(e, u, x)' + IF u = h.t THEN h.n ELSE 0
                                /\ MuxIn(e, u, x)' \in Nat
                                /\ ~MuxHas(e, u, x)' => MuxIn(e, u, x)' = 0
    /\ MuxCloseLast(e, x) => MuxCloseLast(e, x)'
    /\ MuxOpenFirst(e, x) => MuxOpenFirst(e, x)'
    /\ MuxCloseLast(e, x) /\ h.t = "close" => ~MuxHas(e, "data", x)
    /\ MuxOpenFirst(e, x) /\ h.t # "open" => ~MuxHas(e, "open", x)
    /\ MuxOpenFirst(e, x) /\ h.t = "open" => ~MuxHas(e, "open", x)'

LEMMA MuxTaken ==
    ASSUME MuxTypeOK, NEW e \in MuxEnds, muxPipe[e] # <<>>, muxPipe' = [muxPipe EXCEPT ![e] = Tail(@)],
           NEW h \in MuxFrame, h = Head(muxPipe[e]), NEW x \in MuxStreams, x = h.s
    PROVE  MuxShrunk(e, x, h)
<1> DEFINE q == muxPipe[e]
<1>1. muxPipe \in [MuxEnds -> Seq(MuxFrame)] /\ q \in Seq(MuxFrame)
    BY DEF MuxTypeOK
<1>2. h \in MuxFrame /\ h = Head(q) /\ Tail(q) \in Seq(MuxFrame) /\ q # <<>>
    BY <1>1, HeadTailProperties
<1>3. x \in MuxStreams /\ h.t \in MuxFrameTypes /\ h.n \in Nat
    BY <1>2 DEF MuxFrame
<1>4. muxPipe'[e] = Tail(q) /\ \A f \in MuxEnds : f # e => muxPipe'[f] = muxPipe[f]
    BY <1>1
<1>5. muxPipe' \in [MuxEnds -> Seq(MuxFrame)]
    BY <1>1, <1>2
<1>6. /\ \A u, s : MuxHas(e, u, s) <=> MuxHasIn(q, u, s)
      /\ \A u, s : MuxIn(e, u, s) = MuxBytesIn(q, u, s)
      /\ \A s : MuxOpenFirst(e, s) <=> MuxOpenFirstIn(q, s)
      /\ \A s : MuxCloseLast(e, s) <=> MuxCloseLastIn(q, s)
    BY MuxPipeFacts DEF MuxIn
<1>7. /\ \A u, s : MuxHas(e, u, s)' <=> MuxHasIn(Tail(q), u, s)
      /\ \A u, s : MuxIn(e, u, s)' = MuxBytesIn(Tail(q), u, s)
      /\ \A s : MuxOpenFirst(e, s)' <=> MuxOpenFirstIn(Tail(q), s)
      /\ \A s : MuxCloseLast(e, s)' <=> MuxCloseLastIn(Tail(q), s)
    BY <1>4, MuxPrimedPipe
<1> HIDE DEF q
<1>8. \A u, s : /\ MuxBytesIn(q, u, s) = MuxBytesIn(Tail(q), u, s) + IF u = h.t /\ s = x THEN h.n ELSE 0
                /\ MuxBytesIn(Tail(q), u, s) \in Nat
                /\ ~MuxHasIn(Tail(q), u, s) => MuxBytesIn(Tail(q), u, s) = 0
  <2> SUFFICES ASSUME NEW u, NEW s
               PROVE  /\ MuxBytesIn(q, u, s) = MuxBytesIn(Tail(q), u, s) + IF u = h.t /\ s = x THEN h.n ELSE 0
                      /\ MuxBytesIn(Tail(q), u, s) \in Nat
                      /\ ~MuxHasIn(Tail(q), u, s) => MuxBytesIn(Tail(q), u, s) = 0
      OBVIOUS
  <2>1. MuxTotal(MuxCarries(u, s), q) = MuxCarries(u, s)[h] + MuxTotal(MuxCarries(u, s), Tail(q))
      BY <1>1, <1>2, MuxTotals, MuxTotalTail
  <2>2. MuxCarries(u, s)[h] = IF u = h.t /\ s = x THEN h.n ELSE 0
      BY <1>2 DEF MuxCarries
  <2> DEFINE r == Tail(q)
  <2>3. r \in Seq(MuxFrame) /\ \A i \in DOMAIN r : r[i] \in MuxFrame
      BY <1>2, LenProperties
  <2> HIDE DEF r
  <2>4. /\ MuxTotal(MuxCarries(u, s), r) \in Nat
        /\ (\A i \in DOMAIN r : MuxCarries(u, s)[r[i]] = 0) => MuxTotal(MuxCarries(u, s), r) = 0
      BY <2>3, MuxTotals, MuxTotalBounds
  <2>5. ~MuxHasIn(r, u, s) => \A i \in DOMAIN r : MuxCarries(u, s)[r[i]] = 0
      BY <2>3 DEF MuxHasIn, MuxCarries
  <2>6. MuxBytesIn(q, u, s) = MuxTotal(MuxCarries(u, s), q) /\ MuxBytesIn(r, u, s) = MuxTotal(MuxCarries(u, s), r)
      BY <1>1, <2>3, MuxTotals
  <2>7. MuxTotal(MuxCarries(u, s), q) = MuxTotal(MuxCarries(u, s), r) + IF u = h.t /\ s = x THEN h.n ELSE 0
      BY <1>3, <2>1, <2>2, <2>4 DEF r
  <2>q. QED BY <2>4, <2>5, <2>6, <2>7 DEF r
<1>9. /\ \A u, s : MuxHasIn(q, u, s) <=> MuxHasIn(Tail(q), u, s) \/ (h.t = u /\ x = s)
      /\ \A s : MuxCloseLastIn(q, s) => MuxCloseLastIn(Tail(q), s)
      /\ \A s : MuxOpenFirstIn(q, s) => MuxOpenFirstIn(Tail(q), s)
      /\ h.t = "close" /\ MuxCloseLastIn(q, x) => ~MuxHasIn(q, "data", x)
      /\ h.t # "open" /\ MuxOpenFirstIn(q, x) => ~MuxHasIn(q, "open", x)
      /\ h.t = "open" /\ MuxOpenFirstIn(q, x) => ~MuxHasIn(Tail(q), "open", x)
    BY <1>1, <1>2, MuxTailOrder
<1>10. ASSUME NEW f \in MuxEnds, NEW s \in MuxStreams, f # e \/ s # x
       PROVE  MuxPipeSame(f, s)
  <2>1. CASE f # e
      BY <1>4, <2>1, MuxSameFrames
  <2>2. CASE f = e
    <3>1. s # x
        BY <1>10, <2>2
    <3>2. \A u : (MuxHas(e, u, s)' <=> MuxHas(e, u, s)) /\ MuxIn(e, u, s)' = MuxIn(e, u, s)
      <4>1. \A u : MuxHas(e, u, s)' <=> MuxHas(e, u, s)
          BY <1>6, <1>7, <1>9, <3>1
      <4>2. \A u : MuxBytesIn(q, u, s) = MuxBytesIn(Tail(q), u, s)
          BY <1>8, <3>1
      <4>q. QED BY <1>6, <1>7, <4>1, <4>2
    <3>3. (MuxCloseLast(e, s) => MuxCloseLast(e, s)') /\ (MuxOpenFirst(e, s) => MuxOpenFirst(e, s)')
        BY <1>6, <1>7, <1>9, <3>1
    <3>q. QED BY <2>2, <3>2, <3>3 DEF MuxPipeSame
  <2>q. QED BY <2>1, <2>2
<1>11. \A u \in MuxFrameTypes : /\ MuxHas(e, u, x) <=> MuxHas(e, u, x)' \/ u = h.t
                                /\ MuxIn(e, u, x) = MuxIn(e, u, x)' + IF u = h.t THEN h.n ELSE 0
                                /\ MuxIn(e, u, x)' \in Nat
                                /\ ~MuxHas(e, u, x)' => MuxIn(e, u, x)' = 0
    BY <1>6, <1>7, <1>8, <1>9
<1>12. /\ MuxCloseLast(e, x) => MuxCloseLast(e, x)'
       /\ MuxOpenFirst(e, x) => MuxOpenFirst(e, x)'
       /\ MuxCloseLast(e, x) /\ h.t = "close" => ~MuxHas(e, "data", x)
       /\ MuxOpenFirst(e, x) /\ h.t # "open" => ~MuxHas(e, "open", x)
       /\ MuxOpenFirst(e, x) /\ h.t = "open" => ~MuxHas(e, "open", x)'
    BY <1>6, <1>7, <1>9
<1>q. QED BY <1>2, <1>3, <1>5, <1>10, <1>11, <1>12 DEF MuxShrunk

MuxHeldIn(q, s) == SumFunction([i \in DOMAIN q |-> IF q[i].s = s THEN q[i].n ELSE 0])
MuxCountedIn(q, s) == SumFunction([i \in DOMAIN q |-> IF q[i].s = s THEN 1 ELSE 0])

\* poll_write queues a frame.
\* A data queue with a frame of stream x added.
MuxLonger(e, x, n) ==
    /\ muxData' \in [MuxEnds -> Seq([s : MuxStreams, n : 1..MuxWindow])]
    /\ \A f \in MuxEnds : Len(muxData'[f]) <= MuxQueue
    /\ \A f \in MuxEnds, s \in MuxStreams : f # e \/ s # x => MuxQueueSame(f, s)
    /\ MuxBytesQueued(e, x)' = MuxBytesQueued(e, x) + n
    /\ MuxFramesQueued(e, x)' = MuxFramesQueued(e, x) + 1
    /\ MuxFramesQueued(e, x) + 1 <= MuxQueue

LEMMA MuxQueued ==
    ASSUME MuxTypeOK, NEW e \in MuxEnds, NEW x \in MuxStreams, NEW n \in 1..MuxWindow, Len(muxData[e]) < MuxQueue,
           muxData' = [muxData EXCEPT ![e] = Append(@, [s |-> x, n |-> n])]
    PROVE  MuxLonger(e, x, n)
<1> DEFINE q == muxData[e]
           g == [s |-> x, n |-> n]
           r == Append(q, g)
<1>1. /\ q \in Seq(MuxQueueFrame) /\ Len(q) \in Nat
      /\ \A s : MuxFramesQueued(e, s) \in Nat /\ MuxBytesQueued(e, s) \in Nat /\ MuxFramesQueued(e, s) <= Len(q)
      /\ \A s : /\ MuxBytesQueued(e, s) = MuxTotal(MuxHolds(s), q)
                /\ MuxFramesQueued(e, s) = MuxTotal(MuxCounts(s), q)
    BY MuxQueueFacts
<1>2. g \in MuxQueueFrame /\ g.s = x /\ g.n = n
    BY DEF MuxQueueFrame
<1>3. r \in Seq(MuxQueueFrame) /\ Len(r) = Len(q) + 1
    BY <1>1, <1>2, AppendProperties
<1>4. muxData \in [MuxEnds -> Seq(MuxQueueFrame)] /\ \A f \in MuxEnds : Len(muxData[f]) <= MuxQueue
    BY DEF MuxTypeOK, MuxQueueFrame
<1>5. muxData'[e] = r /\ \A f \in MuxEnds : f # e => muxData'[f] = muxData[f]
    BY <1>4
<1>6. muxData' \in [MuxEnds -> Seq(MuxQueueFrame)]
    BY <1>3, <1>4
<1>7. MuxQueue \in Nat
    BY MuxAssumption
<1>8. \A f \in MuxEnds : Len(muxData'[f]) <= MuxQueue
  <2>1. Len(r) <= MuxQueue
      BY <1>1, <1>3, <1>7
  <2> HIDE DEF r
  <2>q. QED BY <1>4, <1>5, <2>1
<1>9. ASSUME NEW s
      PROVE  /\ MuxBytesQueued(e, s)' = MuxBytesQueued(e, s) + IF s = x THEN n ELSE 0
             /\ MuxFramesQueued(e, s)' = MuxFramesQueued(e, s) + IF s = x THEN 1 ELSE 0
  <2>1. \A i \in DOMAIN r : r[i] \in MuxQueueFrame
      BY <1>3, LenProperties
  <2>2. /\ MuxTotal(MuxHolds(s), r) = MuxTotal(MuxHolds(s), q) + MuxHolds(s)[g]
        /\ MuxTotal(MuxCounts(s), r) = MuxTotal(MuxCounts(s), q) + MuxCounts(s)[g]
      BY <1>1, <1>2, MuxTotals, MuxTotalAppend
  <2>3. MuxHolds(s)[g] = (IF s = x THEN n ELSE 0) /\ MuxCounts(s)[g] = (IF s = x THEN 1 ELSE 0)
      BY <1>2 DEF MuxHolds, MuxCounts
  <2> HIDE DEF r, g
  <2>4. \A i \in DOMAIN r : /\ MuxHolds(s)[r[i]] = IF r[i].s = s THEN r[i].n ELSE 0
                            /\ MuxCounts(s)[r[i]] = IF r[i].s = s THEN 1 ELSE 0
      BY <2>1 DEF MuxHolds, MuxCounts
  <2>5. /\ [i \in DOMAIN r |-> MuxHolds(s)[r[i]]] = [i \in DOMAIN r |-> IF r[i].s = s THEN r[i].n ELSE 0]
        /\ [i \in DOMAIN r |-> MuxCounts(s)[r[i]]] = [i \in DOMAIN r |-> IF r[i].s = s THEN 1 ELSE 0]
      BY <2>4
  <2>6. MuxBytesQueued(e, s)' = MuxTotal(MuxHolds(s), r) /\ MuxFramesQueued(e, s)' = MuxTotal(MuxCounts(s), r)
    <3>1. /\ MuxBytesQueued(e, s)' = MuxHeldIn(muxData'[e], s)
          /\ MuxFramesQueued(e, s)' = MuxCountedIn(muxData'[e], s)
        BY DEF MuxBytesQueued, MuxFramesQueued, MuxHeldIn, MuxCountedIn
    <3>2. MuxHeldIn(r, s) = MuxTotal(MuxHolds(s), r) /\ MuxCountedIn(r, s) = MuxTotal(MuxCounts(s), r)
        BY <2>5 DEF MuxTotal, MuxHeldIn, MuxCountedIn
    <3>q. QED BY <1>5, <3>1, <3>2
  <2>q. QED BY <1>1, <2>2, <2>3, <2>6
<1>10. ASSUME NEW f \in MuxEnds, NEW s \in MuxStreams, f # e \/ s # x
       PROVE  MuxQueueSame(f, s)
  <2>1. CASE f # e
      BY <1>5, <2>1, MuxSameFrames
  <2>2. CASE f = e
    <3>1. s # x
        BY <1>10, <2>2
    <3>2. MuxBytesQueued(e, s)' = MuxBytesQueued(e, s) /\ MuxFramesQueued(e, s)' = MuxFramesQueued(e, s)
        BY <1>1, <1>9, <3>1
    <3>q. QED BY <2>2, <3>2 DEF MuxQueueSame
  <2>q. QED BY <2>1, <2>2
<1>11. MuxFramesQueued(e, x) + 1 <= MuxQueue
    BY <1>1, <1>7
<1>q. QED BY <1>6, <1>8, <1>9, <1>10, <1>11 DEF MuxQueueFrame, MuxLonger

\* write_out_data takes the first frame from the queue.
LEMMA MuxHeads ==
    ASSUME MuxTypeOK, NEW e \in MuxEnds
    PROVE  /\ muxData[e] # <<>> => Head(muxData[e]) \in MuxQueueFrame /\ Head(muxData[e]).s \in MuxStreams
           /\ muxPipe[e] # <<>> => Head(muxPipe[e]) \in MuxFrame /\ Head(muxPipe[e]).s \in MuxStreams
<1>1. muxData[e] \in Seq(MuxQueueFrame) /\ muxPipe[e] \in Seq(MuxFrame)
    BY DEF MuxTypeOK, MuxQueueFrame
<1>2. muxData[e] # <<>> => Head(muxData[e]) \in MuxQueueFrame
    BY <1>1, HeadTailProperties
<1>3. muxPipe[e] # <<>> => Head(muxPipe[e]) \in MuxFrame
    BY <1>1, HeadTailProperties
<1>q. QED BY <1>2, <1>3 DEF MuxQueueFrame, MuxFrame

\* A data queue without its head, of stream x.
MuxDrained(e, x, d) ==
    /\ d.n \in 1..MuxWindow
    /\ muxData' \in [MuxEnds -> Seq([s : MuxStreams, n : 1..MuxWindow])]
    /\ \A f \in MuxEnds : Len(muxData'[f]) <= MuxQueue
    /\ \A f \in MuxEnds, s \in MuxStreams : f # e \/ s # x => MuxQueueSame(f, s)
    /\ MuxBytesQueued(e, x) = MuxBytesQueued(e, x)' + d.n
    /\ MuxFramesQueued(e, x) = MuxFramesQueued(e, x)' + 1
    /\ MuxBytesQueued(e, x)' \in Nat /\ MuxFramesQueued(e, x)' \in Nat
    /\ MuxFramesQueued(e, x)' = 0 => MuxBytesQueued(e, x)' = 0

LEMMA MuxUnqueued ==
    ASSUME MuxTypeOK, NEW e \in MuxEnds, muxData[e] # <<>>, muxData' = [muxData EXCEPT ![e] = Tail(@)],
           NEW d \in MuxQueueFrame, d = Head(muxData[e]), NEW x \in MuxStreams, x = d.s
    PROVE  MuxDrained(e, x, d)
<1> DEFINE q == muxData[e]
           r == Tail(q)
<1>1. /\ q \in Seq(MuxQueueFrame) /\ Len(q) \in Nat /\ q # <<>>
      /\ \A s : MuxFramesQueued(e, s) \in Nat /\ MuxBytesQueued(e, s) \in Nat
      /\ \A s : /\ MuxBytesQueued(e, s) = MuxTotal(MuxHolds(s), q)
                /\ MuxFramesQueued(e, s) = MuxTotal(MuxCounts(s), q)
    BY MuxQueueFacts
<1>2. d \in MuxQueueFrame /\ d = Head(q) /\ r \in Seq(MuxQueueFrame) /\ Len(r) = Len(q) - 1
    BY <1>1, HeadTailProperties
<1>3. x \in MuxStreams /\ d.n \in 1..MuxWindow
    BY <1>2 DEF MuxQueueFrame
<1>4. muxData \in [MuxEnds -> Seq(MuxQueueFrame)] /\ \A f \in MuxEnds : Len(muxData[f]) <= MuxQueue
    BY DEF MuxTypeOK, MuxQueueFrame
<1>5. muxData'[e] = r /\ \A f \in MuxEnds : f # e => muxData'[f] = muxData[f]
    BY <1>4
<1>6. muxData' \in [MuxEnds -> Seq(MuxQueueFrame)]
    BY <1>2, <1>4
<1>7. MuxQueue \in Nat /\ MuxWindow \in Nat
    BY MuxAssumption
<1>8. \A f \in MuxEnds : Len(muxData'[f]) <= MuxQueue
  <2>1. Len(r) <= MuxQueue
      BY <1>1, <1>2, <1>4, <1>7
  <2> HIDE DEF r
  <2>q. QED BY <1>4, <1>5, <2>1
<1>9. ASSUME NEW s
      PROVE  /\ MuxBytesQueued(e, s) = MuxBytesQueued(e, s)' + IF s = x THEN d.n ELSE 0
             /\ MuxFramesQueued(e, s) = MuxFramesQueued(e, s)' + IF s = x THEN 1 ELSE 0
             /\ MuxBytesQueued(e, s)' \in Nat /\ MuxFramesQueued(e, s)' \in Nat
             /\ MuxFramesQueued(e, s)' = 0 => MuxBytesQueued(e, s)' = 0
  <2>1. \A i \in DOMAIN r : r[i] \in MuxQueueFrame
      BY <1>2, LenProperties
  <2>2. /\ MuxTotal(MuxHolds(s), q) = MuxHolds(s)[d] + MuxTotal(MuxHolds(s), r)
        /\ MuxTotal(MuxCounts(s), q) = MuxCounts(s)[d] + MuxTotal(MuxCounts(s), r)
      BY <1>1, <1>2, MuxTotals, MuxTotalTail
  <2>3. MuxHolds(s)[d] = (IF s = x THEN d.n ELSE 0) /\ MuxCounts(s)[d] = (IF s = x THEN 1 ELSE 0)
      BY <1>2 DEF MuxHolds, MuxCounts
  <2> HIDE DEF r
  <2>4. \A i \in DOMAIN r : /\ MuxHolds(s)[r[i]] = IF r[i].s = s THEN r[i].n ELSE 0
                            /\ MuxCounts(s)[r[i]] = IF r[i].s = s THEN 1 ELSE 0
      BY <2>1 DEF MuxHolds, MuxCounts
  <2>5. /\ [i \in DOMAIN r |-> MuxHolds(s)[r[i]]] = [i \in DOMAIN r |-> IF r[i].s = s THEN r[i].n ELSE 0]
        /\ [i \in DOMAIN r |-> MuxCounts(s)[r[i]]] = [i \in DOMAIN r |-> IF r[i].s = s THEN 1 ELSE 0]
      BY <2>4
  <2>6. MuxBytesQueued(e, s)' = MuxTotal(MuxHolds(s), r) /\ MuxFramesQueued(e, s)' = MuxTotal(MuxCounts(s), r)
    <3>1. /\ MuxBytesQueued(e, s)' = MuxHeldIn(muxData'[e], s)
          /\ MuxFramesQueued(e, s)' = MuxCountedIn(muxData'[e], s)
        BY DEF MuxBytesQueued, MuxFramesQueued, MuxHeldIn, MuxCountedIn
    <3>2. MuxHeldIn(r, s) = MuxTotal(MuxHolds(s), r) /\ MuxCountedIn(r, s) = MuxTotal(MuxCounts(s), r)
        BY <2>5 DEF MuxTotal, MuxHeldIn, MuxCountedIn
    <3>q. QED BY <1>5, <3>1, <3>2
  <2>7. /\ MuxTotal(MuxHolds(s), r) \in Nat
        /\ (\A i \in DOMAIN r : MuxHolds(s)[r[i]] = 0) => MuxTotal(MuxHolds(s), r) = 0
      BY <1>2, MuxTotals, MuxTotalBounds
  <2>8. /\ MuxTotal(MuxCounts(s), r) \in Nat
        /\ \A i \in DOMAIN r : MuxCounts(s)[r[i]] <= MuxTotal(MuxCounts(s), r)
      BY <1>2, MuxTotals, MuxTotalBounds
  <2>9. \A i \in DOMAIN r : MuxCounts(s)[r[i]] <= 0 => MuxHolds(s)[r[i]] = 0
      BY <2>4
  <2>10. MuxTotal(MuxCounts(s), r) = 0 => \A i \in DOMAIN r : MuxHolds(s)[r[i]] = 0
      BY <2>8, <2>9
  <2>11. d.n \in Nat
      BY <1>3, <1>7
  <2>12. /\ MuxTotal(MuxHolds(s), q) = MuxTotal(MuxHolds(s), r) + IF s = x THEN d.n ELSE 0
         /\ MuxTotal(MuxCounts(s), q) = MuxTotal(MuxCounts(s), r) + IF s = x THEN 1 ELSE 0
      BY <2>2, <2>3, <2>7, <2>8, <2>11
  <2>q. QED BY <1>1, <2>6, <2>7, <2>8, <2>10, <2>12
<1>10. ASSUME NEW f \in MuxEnds, NEW s \in MuxStreams, f # e \/ s # x
       PROVE  MuxQueueSame(f, s)
  <2>1. CASE f # e
      BY <1>5, <2>1, MuxSameFrames
  <2>2. CASE f = e
    <3>1. s # x
        BY <1>10, <2>2
    <3>2. MuxBytesQueued(e, s)' = MuxBytesQueued(e, s) /\ MuxFramesQueued(e, s)' = MuxFramesQueued(e, s)
        BY <1>9, <3>1
    <3>q. QED BY <2>2, <3>2 DEF MuxQueueSame
  <2>q. QED BY <2>1, <2>2
<1>q. QED BY <1>2, <1>3, <1>6, <1>8, <1>9, <1>10 DEF MuxQueueFrame, MuxDrained
-----------------------------------------------------------------------------
(* A step about one stream leaves the others alone *)

MuxSame(s) ==
    /\ muxPreempts' \in Nat /\ muxPreempts <= muxPreempts'
    /\ \A f \in MuxEnds :
        /\ muxAt'[f][s] = muxAt[f][s] /\ muxBook'[f][s] = muxBook[f][s]
        /\ s \in muxControl'[f].refused <=> s \in muxControl[f].refused
        /\ MuxPipeSame(f, s) /\ MuxQueueSame(f, s)
        /\ muxWriter'[f] = [pc |-> "close", s |-> s] => muxWriter[f] = [pc |-> "close", s |-> s]
        /\ muxBook[f][s].opens /\ (muxControl[f].wake \/ muxWriter[f].pc # "select")
               => muxControl'[f].wake \/ muxWriter'[f].pc # "select"
        /\ <<f, s>> \in muxCut => <<f, s>> \in muxCut'

LEMMA MuxSameKeeps ==
    ASSUME MuxTypeOK, NEW s \in MuxStreams, MuxSame(s), MuxStreamInv(s)
    PROVE  MuxStreamInv(s)'
<1> DEFINE o == MuxOpener[s]
<1>0. o \in MuxEnds /\ MuxPeer(o) \in MuxEnds /\ \A f \in MuxEnds : MuxPeer(f) \in MuxEnds
    BY MuxAssumption, MuxPeers
<1>1. /\ {"open", "data", "close", "window"} \subseteq MuxFrameTypes
      /\ \A f \in MuxEnds, t \in MuxFrameTypes : (MuxHas(f, t, s)' <=> MuxHas(f, t, s)) /\ MuxIn(f, t, s)' = MuxIn(f, t, s)
      /\ \A f \in MuxEnds : (MuxCloseLast(f, s) => MuxCloseLast(f, s)') /\ (MuxOpenFirst(f, s) => MuxOpenFirst(f, s)')
      /\ \A f \in MuxEnds : MuxBytesQueued(f, s)' = MuxBytesQueued(f, s) /\ MuxFramesQueued(f, s)' = MuxFramesQueued(f, s)
    BY DEF MuxSame, MuxPipeSame, MuxQueueSame, MuxFrameTypes
<1>2. \A f \in MuxEnds : /\ muxAt'[f][s] = muxAt[f][s] /\ muxBook'[f][s] = muxBook[f][s]
                         /\ s \in muxControl'[f].refused <=> s \in muxControl[f].refused
    BY DEF MuxSame
<1>3. \A f \in MuxEnds : MuxSilent(f, s)' <=> MuxSilent(f, s)
    BY <1>1 DEF MuxSilent
<1>4. MuxComing(s)' <=> MuxComing(s)
    BY <1>0, <1>1, <1>2 DEF MuxComing
<1>5. \A f \in MuxEnds : MuxAccepts(f, s)' <=> MuxAccepts(f, s)
    BY <1>2, <1>4 DEF MuxAccepts
<1>6. \A f \in MuxEnds : MuxOnWay(f, s)' = MuxOnWay(f, s)
    BY <1>1 DEF MuxOnWay, MuxIn
<1>7. \A f \in MuxEnds : MuxCredits(f, s)' = MuxCredits(f, s)
    BY <1>0, <1>1, <1>2, <1>6 DEF MuxCredits, MuxIn
<1>8. muxPreempts \in Nat /\ muxPreempts' \in Nat /\ muxPreempts <= muxPreempts'
    BY MuxAssumption DEF MuxSame, MuxTypeOK
<1>o. MuxOpening(s)'
  <2>1. MuxOpening(s)
      BY DEF MuxStreamInv
  <2>2. /\ muxBook[o][s].opens /\ (muxControl[o].wake \/ muxWriter[o].pc # "select")
               => muxControl'[o].wake \/ muxWriter'[o].pc # "select"
      BY <1>0 DEF MuxSame
  <2>q. QED BY <1>0, <1>1, <1>2, <1>3, <1>4, <2>1, <2>2 DEF MuxOpening
<1>e. ASSUME NEW e \in MuxEnds
      PROVE  (MuxSlot(e, s) /\ MuxClosing(e, s) /\ MuxFresh(e, s) /\ MuxDelivers(e, s) /\ MuxCreditKept(e, s))'
  <2>0. MuxSlot(e, s) /\ MuxClosing(e, s) /\ MuxFresh(e, s) /\ MuxDelivers(e, s) /\ MuxCreditKept(e, s)
      BY DEF MuxStreamInv
  <2>1. MuxSlot(e, s)'
    <3>1. muxPreempts > 0 => muxPreempts' > 0
        BY <1>8
    <3>q. QED BY <1>2, <2>0, <3>1 DEF MuxSlot
  <2>2. MuxClosing(e, s)'
    <3>1. muxWriter'[e] = [pc |-> "close", s |-> s] => muxWriter[e] = [pc |-> "close", s |-> s]
        BY DEF MuxSame
    <3>q. QED BY <1>1, <1>2, <2>0, <3>1 DEF MuxClosing
  <2>3. MuxFresh(e, s)'
      BY <1>0, <1>1, <1>2, <1>3, <2>0 DEF MuxFresh
  <2>4. MuxDelivers(e, s)'
    <3>1. <<e, s>> \in muxCut => <<e, s>> \in muxCut'
        BY DEF MuxSame
    <3>q. QED BY <1>0, <1>2, <1>5, <1>6, <2>0, <3>1 DEF MuxDelivers
  <2>5. MuxCreditKept(e, s)'
      BY <1>0, <1>2, <1>5, <1>7, <1>8, <2>0 DEF MuxCreditKept
  <2>q. QED BY <2>1, <2>2, <2>3, <2>4, <2>5
<1>q. QED BY <1>o, <1>e DEF MuxStreamInv

\* A step about stream x, after which its records at e are r and b.
MuxAbout(e, x, r, b) ==
    /\ muxAt' = [muxAt EXCEPT ![e][x] = r] /\ muxBook' = [muxBook EXCEPT ![e][x] = b]
    /\ muxData' \in [MuxEnds -> Seq([s : MuxStreams, n : 1..MuxWindow])]
    /\ \A f \in MuxEnds : Len(muxData'[f]) <= MuxQueue
    /\ \A f \in MuxEnds, s \in MuxStreams : s # x => MuxQueueSame(f, s)
    /\ muxPipe' \in [MuxEnds -> Seq(MuxFrame)]
    /\ \A f \in MuxEnds, s \in MuxStreams : s # x => MuxPipeSame(f, s)
    /\ muxControl' \in [MuxEnds -> [wake : BOOLEAN, refused : SUBSET MuxStreams]]
    /\ muxWriter' \in [MuxEnds -> [pc : {"flush", "select", "close"}, s : MuxStreams]]
    /\ \A f \in MuxEnds, s \in MuxStreams : s # x => (s \in muxControl'[f].refused <=> s \in muxControl[f].refused)
    /\ \A f \in MuxEnds : muxControl[f].wake => muxControl'[f].wake
    /\ \A f \in MuxEnds : \/ muxWriter'[f] = muxWriter[f]
                          \/ /\ muxWriter'[f].pc # "select"
                             /\ muxWriter'[f].pc = "close" => muxWriter'[f].s = x
    /\ muxCut \subseteq muxCut' /\ muxCut' \subseteq MuxEnds \X MuxStreams
    /\ muxPreempts' \in 0..MuxMaxPreempts /\ muxPreempts <= muxPreempts'

LEMMA MuxStepFrame ==
    ASSUME MuxTypeOK, NEW e \in MuxEnds, NEW x \in MuxStreams, NEW r \in MuxAtType, NEW b \in MuxBookType,
           MuxAbout(e, x, r, b)
    PROVE  /\ MuxTypeOK' /\ \A s \in MuxStreams : s # x => MuxSame(s)
           /\ muxAt'[e][x] = r /\ muxBook'[e][x] = b
           /\ \A f \in MuxEnds : f # e => muxAt'[f][x] = muxAt[f][x] /\ muxBook'[f][x] = muxBook[f][x]
<1>1. /\ muxAt \in [MuxEnds -> [MuxStreams -> MuxAtType]]
      /\ muxBook \in [MuxEnds -> [MuxStreams -> MuxBookType]]
    BY DEF MuxTypeOK
<1>2. /\ muxAt' \in [MuxEnds -> [MuxStreams -> MuxAtType]]
      /\ muxBook' \in [MuxEnds -> [MuxStreams -> MuxBookType]]
    BY <1>1 DEF MuxAbout
<1>3. muxAt'[e][x] = r /\ muxBook'[e][x] = b
    BY <1>1 DEF MuxAbout
<1>4. \A f \in MuxEnds, s \in MuxStreams :
         f # e \/ s # x => muxAt'[f][s] = muxAt[f][s] /\ muxBook'[f][s] = muxBook[f][s]
    BY <1>1 DEF MuxAbout
<1>5. MuxTypeOK'
    BY <1>2 DEF MuxTypeOK, MuxAbout
<1>6. ASSUME NEW s \in MuxStreams, s # x
      PROVE  MuxSame(s)
  <2>1. muxPreempts' \in Nat /\ muxPreempts <= muxPreempts'
      BY MuxAssumption DEF MuxAbout
  <2>2. ASSUME NEW f \in MuxEnds
        PROVE  /\ muxWriter'[f] = [pc |-> "close", s |-> s] => muxWriter[f] = [pc |-> "close", s |-> s]
               /\ muxBook[f][s].opens /\ (muxControl[f].wake \/ muxWriter[f].pc # "select")
                      => muxControl'[f].wake \/ muxWriter'[f].pc # "select"
               /\ <<f, s>> \in muxCut => <<f, s>> \in muxCut'
    <3>1. CASE muxWriter'[f] = muxWriter[f]
        BY <3>1 DEF MuxAbout
    <3>2. CASE muxWriter'[f].pc # "select" /\ (muxWriter'[f].pc = "close" => muxWriter'[f].s = x)
      <4>1. muxWriter'[f] # [pc |-> "close", s |-> s]
          BY <1>6, <3>2
      <4>q. QED BY <3>2, <4>1 DEF MuxAbout
    <3>q. QED BY <3>1, <3>2 DEF MuxAbout
  <2>3. ASSUME NEW f \in MuxEnds
        PROVE  /\ muxAt'[f][s] = muxAt[f][s] /\ muxBook'[f][s] = muxBook[f][s]
               /\ s \in muxControl'[f].refused <=> s \in muxControl[f].refused
               /\ MuxPipeSame(f, s) /\ MuxQueueSame(f, s)
      BY <1>4, <1>6 DEF MuxAbout
  <2>q. QED BY <2>1, <2>2, <2>3 DEF MuxSame
<1>q. QED BY <1>3, <1>4, <1>5, <1>6
-----------------------------------------------------------------------------
(* A stream at its two ends *)

\* The two ends of a stream and what is known of them.
MuxPair(e, p, x) ==
    /\ p \in MuxEnds /\ p # e /\ MuxPeer(e) = p /\ MuxPeer(p) = e
    /\ MuxOpener[x] = e \/ MuxOpener[x] = p
    /\ MuxOpening(x)
    /\ MuxSlot(e, x) /\ MuxClosing(e, x) /\ MuxFresh(e, x) /\ MuxDelivers(e, x) /\ MuxCreditKept(e, x)
    /\ MuxSlot(p, x) /\ MuxClosing(p, x) /\ MuxFresh(p, x) /\ MuxDelivers(p, x) /\ MuxCreditKept(p, x)

LEMMA MuxBoth ==
    ASSUME MuxInv, NEW e \in MuxEnds, NEW x \in MuxStreams, NEW p, p = MuxPeer(e)
    PROVE  MuxPair(e, p, x) /\ MuxTypeOK /\ p \in MuxEnds
<1>1. p \in MuxEnds /\ p # e /\ MuxPeer(e) = p /\ MuxPeer(p) = e
    BY MuxPeers
<1>2. MuxOpener[x] \in MuxEnds
    BY MuxAssumption
<1>3. MuxOpener[x] = e \/ MuxOpener[x] = p
    BY <1>2, MuxPeers
<1>q. QED BY <1>1, <1>3 DEF MuxInv, MuxStreamInv, MuxPair

\* The records of a stream at one end, and the numbers that are added up.
MuxTyped(e, x) ==
    /\ MuxBytesQueued(e, x) \in Nat /\ MuxFramesQueued(e, x) \in Nat
    /\ MuxFramesQueued(e, x) = 0 => MuxBytesQueued(e, x) = 0
    /\ \A t \in MuxFrameTypes : MuxIn(e, t, x) \in Nat /\ (~MuxHas(e, t, x) => MuxIn(e, t, x) = 0)
    /\ muxAt[e][x] \in MuxAtType /\ muxBook[e][x] \in MuxBookType
    /\ muxAt[e][x].left \in Nat /\ muxAt[e][x].sent \in Nat /\ muxAt[e][x].got \in Nat
    /\ muxAt[e][x].n \in 0..MuxWindow /\ muxAt[e][x].credit \in 0..MuxWindow
    /\ muxAt[e][x].flight \in 0..MuxWindow /\ muxAt[e][x].buf \in 0..MuxWindow
    /\ muxBook[e][x].grant \in 0..MuxWindow /\ muxBook[e][x].queued \in 0..MuxQueue
    /\ MuxWindow \in Nat /\ MuxQueue \in Nat /\ MuxWindow > 0 /\ MuxQueue > 0

LEMMA MuxNumbers ==
    ASSUME MuxTypeOK, NEW e \in MuxEnds, NEW x \in MuxStreams
    PROVE  MuxTyped(e, x)
<1>1. muxAt[e][x] \in MuxAtType /\ muxBook[e][x] \in MuxBookType
    BY DEF MuxTypeOK
<1>2. MuxWindow \in Nat /\ MuxQueue \in Nat /\ MuxWindow > 0 /\ MuxQueue > 0
    BY MuxAssumption
<1>3. /\ muxAt[e][x].left \in Nat /\ muxAt[e][x].sent \in Nat /\ muxAt[e][x].got \in Nat
      /\ muxAt[e][x].n \in 0..MuxWindow /\ muxAt[e][x].credit \in 0..MuxWindow
      /\ muxAt[e][x].flight \in 0..MuxWindow /\ muxAt[e][x].buf \in 0..MuxWindow
    BY <1>1 DEF MuxAtType
<1>4. muxBook[e][x].grant \in 0..MuxWindow /\ muxBook[e][x].queued \in 0..MuxQueue
    BY <1>1 DEF MuxBookType
<1>5. /\ MuxBytesQueued(e, x) \in Nat /\ MuxFramesQueued(e, x) \in Nat
      /\ MuxFramesQueued(e, x) = 0 => MuxBytesQueued(e, x) = 0
    BY MuxQueueFacts
<1>6. \A t \in MuxFrameTypes : MuxIn(e, t, x) \in Nat /\ (~MuxHas(e, t, x) => MuxIn(e, t, x) = 0)
    BY MuxPipeFacts
<1>q. QED BY <1>1, <1>2, <1>3, <1>4, <1>5, <1>6 DEF MuxTyped

LEMMA MuxSums ==
    ASSUME NEW e \in MuxEnds, NEW x \in MuxStreams, NEW p, p = MuxPeer(e)
    PROVE  /\ MuxOnWay(e, x) = MuxBytesQueued(e, x) + MuxIn(e, "data", x)
           /\ MuxOnWay(e, x)' = MuxBytesQueued(e, x)' + MuxIn(e, "data", x)'
           /\ MuxCredits(e, x) = muxAt[e][x].credit + MuxOnWay(e, x) + muxAt[p][x].buf + muxBook[p][x].grant
                                 + MuxIn(p, "window", x)
           /\ MuxCredits(e, x)' = muxAt'[e][x].credit + MuxOnWay(e, x)' + muxAt'[p][x].buf + muxBook'[p][x].grant
                                  + MuxIn(p, "window", x)'
BY DEF MuxOnWay, MuxCredits, MuxIn

\* A step about one stream that keeps what is known of it keeps the invariant.
LEMMA MuxKept ==
    ASSUME MuxInv, NEW e \in MuxEnds, NEW x \in MuxStreams, NEW p, p = MuxPeer(e),
           MuxTypeOK', \A s \in MuxStreams : s # x => MuxSame(s), MuxOpening(x)',
           (MuxSlot(e, x) /\ MuxClosing(e, x) /\ MuxFresh(e, x) /\ MuxDelivers(e, x) /\ MuxCreditKept(e, x))',
           (MuxSlot(p, x) /\ MuxClosing(p, x) /\ MuxFresh(p, x) /\ MuxDelivers(p, x) /\ MuxCreditKept(p, x))'
    PROVE  MuxInv'
<1>1. \A f \in MuxEnds : f = e \/ f = p
    BY MuxPeers
<1>2. MuxStreamInv(x)'
    BY <1>1 DEF MuxStreamInv
<1>3. ASSUME NEW s \in MuxStreams
      PROVE  MuxStreamInv(s)'
    BY <1>2, MuxSameKeeps DEF MuxInv
<1>q. QED BY <1>3 DEF MuxInv

\* A step of the owner of stream x at e, after which its records are r and b:
\* the pipes, the queues and the writers stay.
MuxOwnerSets(e, x, r, b) ==
    /\ muxAt' = [muxAt EXCEPT ![e][x] = r] /\ muxBook' = [muxBook EXCEPT ![e][x] = b]
    /\ muxControl' = muxControl \/ MuxWake(e)
    /\ muxPreempts' = muxPreempts \/ MuxMayPreempt
    /\ muxData' = muxData /\ muxPipe' = muxPipe /\ muxWriter' = muxWriter /\ muxCut' = muxCut

\* What such a step leaves as it is.
MuxStill(x) ==
    /\ muxPreempts \in Nat /\ muxPreempts' \in Nat /\ muxPreempts <= muxPreempts'
    /\ muxWriter' = muxWriter /\ muxCut' = muxCut
    /\ \A f \in MuxEnds :
         /\ x \in muxControl'[f].refused <=> x \in muxControl[f].refused
         /\ muxControl[f].wake => muxControl'[f].wake
         /\ \A t \in MuxFrameTypes : (MuxHas(f, t, x)' <=> MuxHas(f, t, x)) /\ MuxIn(f, t, x)' = MuxIn(f, t, x)
         /\ MuxCloseLast(f, x) => MuxCloseLast(f, x)'
         /\ MuxOpenFirst(f, x) => MuxOpenFirst(f, x)'
         /\ MuxSilent(f, x)' <=> MuxSilent(f, x)
         /\ MuxBytesQueued(f, x)' = MuxBytesQueued(f, x) /\ MuxFramesQueued(f, x)' = MuxFramesQueued(f, x)
         /\ MuxOnWay(f, x)' = MuxOnWay(f, x)

LEMMA MuxOwnerFrame ==
    ASSUME MuxTypeOK, NEW e \in MuxEnds, NEW x \in MuxStreams, NEW p, p = MuxPeer(e),
           NEW r \in MuxAtType, NEW b \in MuxBookType, MuxOwnerSets(e, x, r, b)
    PROVE  /\ MuxTypeOK' /\ \A s \in MuxStreams : s # x => MuxSame(s)
           /\ muxAt'[e][x] = r /\ muxBook'[e][x] = b
           /\ muxAt'[p][x] = muxAt[p][x] /\ muxBook'[p][x] = muxBook[p][x]
           /\ MuxStill(x)
<1>1. /\ muxControl \in [MuxEnds -> [wake : BOOLEAN, refused : SUBSET MuxStreams]]
      /\ muxPreempts \in 0..MuxMaxPreempts /\ MuxMaxPreempts \in Nat
    BY MuxAssumption DEF MuxTypeOK
<1>2. /\ muxControl' \in [MuxEnds -> [wake : BOOLEAN, refused : SUBSET MuxStreams]]
      /\ \A f \in MuxEnds : /\ muxControl'[f].refused = muxControl[f].refused
                            /\ muxControl[f].wake => muxControl'[f].wake
  <2>1. CASE muxControl' = muxControl
      BY <1>1, <2>1
  <2>2. CASE MuxWake(e)
      BY <1>1, <2>2 DEF MuxWake
  <2>q. QED BY <2>1, <2>2 DEF MuxOwnerSets
<1>3. muxPreempts' \in 0..MuxMaxPreempts /\ muxPreempts <= muxPreempts' /\ muxPreempts \in Nat /\ muxPreempts' \in Nat
    BY <1>1 DEF MuxMayPreempt, MuxOwnerSets
<1>4. muxData' = muxData /\ muxPipe' = muxPipe /\ muxWriter' = muxWriter /\ muxCut' = muxCut
    BY DEF MuxOwnerSets
<1>5. \A f \in MuxEnds, s \in MuxStreams : MuxPipeSame(f, s) /\ MuxQueueSame(f, s)
    BY <1>4, MuxSameFrames
<1>6. /\ muxData' \in [MuxEnds -> Seq([s : MuxStreams, n : 1..MuxWindow])]
      /\ \A f \in MuxEnds : Len(muxData'[f]) <= MuxQueue
      /\ muxPipe' \in [MuxEnds -> Seq(MuxFrame)]
      /\ muxWriter' \in [MuxEnds -> [pc : {"flush", "select", "close"}, s : MuxStreams]]
      /\ muxCut \subseteq muxCut' /\ muxCut' \subseteq MuxEnds \X MuxStreams
    BY <1>4 DEF MuxTypeOK
<1>7. MuxAbout(e, x, r, b)
    BY <1>2, <1>3, <1>4, <1>5, <1>6 DEF MuxAbout, MuxOwnerSets
<1>8. p \in MuxEnds /\ p # e
    BY MuxPeers
<1>9. /\ MuxTypeOK' /\ \A s \in MuxStreams : s # x => MuxSame(s)
      /\ muxAt'[e][x] = r /\ muxBook'[e][x] = b
      /\ muxAt'[p][x] = muxAt[p][x] /\ muxBook'[p][x] = muxBook[p][x]
    BY <1>7, <1>8, MuxStepFrame
<1>10. ASSUME NEW f \in MuxEnds
       PROVE  /\ \A t \in MuxFrameTypes : (MuxHas(f, t, x)' <=> MuxHas(f, t, x)) /\ MuxIn(f, t, x)' = MuxIn(f, t, x)
              /\ MuxCloseLast(f, x) => MuxCloseLast(f, x)'
              /\ MuxOpenFirst(f, x) => MuxOpenFirst(f, x)'
              /\ MuxSilent(f, x)' <=> MuxSilent(f, x)
              /\ MuxBytesQueued(f, x)' = MuxBytesQueued(f, x) /\ MuxFramesQueued(f, x)' = MuxFramesQueued(f, x)
              /\ MuxOnWay(f, x)' = MuxOnWay(f, x)
  <2>1. /\ \A t \in MuxFrameTypes : (MuxHas(f, t, x)' <=> MuxHas(f, t, x)) /\ MuxIn(f, t, x)' = MuxIn(f, t, x)
        /\ MuxCloseLast(f, x) => MuxCloseLast(f, x)'
        /\ MuxOpenFirst(f, x) => MuxOpenFirst(f, x)'
        /\ MuxBytesQueued(f, x)' = MuxBytesQueued(f, x) /\ MuxFramesQueued(f, x)' = MuxFramesQueued(f, x)
      BY <1>5 DEF MuxPipeSame, MuxQueueSame
  <2>2. MuxSilent(f, x)' <=> MuxSilent(f, x)
      BY <2>1 DEF MuxSilent
  <2>3. MuxOnWay(f, x)' = MuxOnWay(f, x)
      BY <2>1 DEF MuxOnWay, MuxIn, MuxFrameTypes
  <2>q. QED BY <2>1, <2>2, <2>3
<1>q. QED BY <1>2, <1>3, <1>4, <1>9, <1>10 DEF MuxStill


\* What such a step does to the credit of the two directions.
LEMMA MuxOwnerCredits ==
    ASSUME NEW e \in MuxEnds, NEW x \in MuxStreams, NEW p, p = MuxPeer(e), MuxPair(e, p, x),
           MuxTyped(e, x), MuxTyped(p, x), NEW r, NEW b, r.credit \in Nat, r.buf \in Nat, b.grant \in Nat,
           muxAt'[e][x] = r, muxBook'[e][x] = b, muxAt'[p][x] = muxAt[p][x], muxBook'[p][x] = muxBook[p][x],
           MuxStill(x)
    PROVE  /\ MuxCredits(e, x) \in Nat /\ MuxCredits(p, x) \in Nat
           /\ MuxCredits(e, x)' = MuxCredits(e, x) - muxAt[e][x].credit + r.credit
           /\ MuxCredits(p, x)' = MuxCredits(p, x) - (muxAt[e][x].buf + muxBook[e][x].grant) + (r.buf + b.grant)
<1>1. p \in MuxEnds /\ MuxPeer(p) = e
    BY DEF MuxPair
<1>2. /\ MuxOnWay(e, x) = MuxBytesQueued(e, x) + MuxIn(e, "data", x)
      /\ MuxCredits(e, x) = muxAt[e][x].credit + MuxOnWay(e, x) + muxAt[p][x].buf + muxBook[p][x].grant
                            + MuxIn(p, "window", x)
      /\ MuxCredits(e, x)' = r.credit + MuxOnWay(e, x)' + muxAt[p][x].buf + muxBook[p][x].grant
                             + MuxIn(p, "window", x)'
    BY MuxSums
<1>3. /\ MuxOnWay(p, x) = MuxBytesQueued(p, x) + MuxIn(p, "data", x)
      /\ MuxCredits(p, x) = muxAt[p][x].credit + MuxOnWay(p, x) + muxAt[e][x].buf + muxBook[e][x].grant
                            + MuxIn(e, "window", x)
      /\ MuxCredits(p, x)' = muxAt[p][x].credit + MuxOnWay(p, x)' + r.buf + b.grant + MuxIn(e, "window", x)'
    BY <1>1, MuxSums
<1>4. \A f \in {e, p} : /\ MuxIn(f, "data", x) \in Nat /\ MuxIn(f, "window", x) \in Nat /\ MuxBytesQueued(f, x) \in Nat
                        /\ MuxOnWay(f, x)' = MuxOnWay(f, x) /\ MuxIn(f, "window", x)' = MuxIn(f, "window", x)
                        /\ muxAt[f][x].credit \in Nat /\ muxAt[f][x].buf \in Nat /\ muxBook[f][x].grant \in Nat
    BY <1>1 DEF MuxTyped, MuxStill, MuxFrameTypes
<1>5. MuxOnWay(e, x) \in Nat /\ MuxOnWay(p, x) \in Nat
    BY <1>2, <1>3, <1>4
<1>6. /\ MuxCredits(e, x) \in Nat
      /\ MuxCredits(e, x)' = MuxCredits(e, x) - muxAt[e][x].credit + r.credit
    BY <1>2, <1>4, <1>5
<1>7. /\ MuxCredits(p, x) \in Nat
      /\ MuxCredits(p, x)' = MuxCredits(p, x) - (muxAt[e][x].buf + muxBook[e][x].grant) + (r.buf + b.grant)
    BY <1>3, <1>4, <1>5
<1>q. QED BY <1>6, <1>7

LEMMA MuxAcceptedFields ==
    ASSUME NEW a \in MuxAtType, NEW n \in Nat, n <= a.left, n <= a.credit, a.credit + a.flight = MuxWindow
    PROVE  LET r == MuxAccepted(a, n) IN
           /\ r \in MuxAtType /\ n \in 0..MuxWindow
           /\ r.left = a.left - n /\ r.sent = a.sent + n
           /\ r.credit = a.credit - n /\ r.flight = a.flight + n /\ r.credit + r.flight = MuxWindow
           /\ r.own = a.own /\ r.got = a.got /\ r.n = a.n /\ r.slot = a.slot /\ r.buf = a.buf
           /\ r.open = a.open /\ r.gone = a.gone /\ r.eof = a.eof
<1>1. a.left \in Nat /\ a.sent \in Nat /\ a.credit \in 0..MuxWindow /\ a.flight \in 0..MuxWindow /\ MuxWindow \in Nat
    BY MuxAssumption DEF MuxAtType
<1> DEFINE l == a.left - n
           u == a.sent + n
           c == a.credit - n
           f == a.flight + n
<1>2. /\ l \in Nat /\ u \in Nat /\ c \in 0..MuxWindow /\ f \in 0..MuxWindow /\ c + f = MuxWindow
      /\ n \in 0..MuxWindow
    BY <1>1
<1>3. MuxAccepted(a, n) = [a EXCEPT !.left = l, !.sent = u, !.credit = c, !.flight = f]
    BY DEF MuxAccepted
<1> HIDE DEF l, u, c, f
<1> DEFINE r == [a EXCEPT !.left = l, !.sent = u, !.credit = c, !.flight = f]
<1>4. r \in MuxAtType
    BY <1>2 DEF MuxAtType
<1>5. /\ r.left = l /\ r.sent = u /\ r.credit = c /\ r.flight = f
      /\ r.own = a.own /\ r.got = a.got /\ r.n = a.n /\ r.slot = a.slot /\ r.buf = a.buf
      /\ r.open = a.open /\ r.gone = a.gone /\ r.eof = a.eof
    BY DEF MuxAtType
<1> HIDE DEF r
<1>6. MuxAccepted(a, n) = r
    BY <1>3 DEF r
<1>q. QED BY <1>2, <1>4, <1>5, <1>6 DEF l, u, c, f

LEMMA MuxWrittenKeeps ==
    ASSUME MuxInv, NEW e \in MuxEnds, NEW x \in MuxStreams, NEW p, p = MuxPeer(e), MuxWritten(e, x)
    PROVE  MuxInv'
<1> DEFINE a == muxAt[e][x]
           c == [a EXCEPT !.own = "open", !.n = 0]
           r == MuxAccepted(c, a.n)
           b == muxBook[e][x]
<1>h. MuxPair(e, p, x) /\ MuxTypeOK /\ p \in MuxEnds /\ MuxTyped(e, x) /\ MuxTyped(p, x)
    BY MuxBoth, MuxNumbers
<1>g. /\ a.own = "writing" /\ a.slot /\ a.n <= a.credit /\ a.n <= a.left /\ a.credit + a.flight = MuxWindow
      /\ muxPreempts > 0
    BY <1>h DEF MuxWritten, MuxSlot, MuxPair
<1>t. /\ a \in MuxAtType /\ b \in MuxBookType /\ a.n \in Nat /\ a.sent \in Nat /\ a.credit \in Nat /\ b.grant \in Nat
      /\ a.buf \in Nat /\ MuxWindow \in Nat /\ 0 \in 0..MuxWindow
    BY <1>h DEF MuxTyped
<1>1. /\ c \in MuxAtType /\ c.own = "open" /\ c.n = 0
      /\ c.left = a.left /\ c.sent = a.sent /\ c.got = a.got /\ c.slot = a.slot /\ c.credit = a.credit
      /\ c.flight = a.flight /\ c.buf = a.buf /\ c.open = a.open /\ c.gone = a.gone /\ c.eof = a.eof
    BY <1>t DEF MuxAtType
<1>2. MuxOwnerSets(e, x, r, b)
  <2>1. muxBook' = [muxBook EXCEPT ![e][x] = b]
      BY <1>h DEF MuxWritten, MuxTypeOK
  <2>2. muxAt' = [muxAt EXCEPT ![e][x] = r]
      BY DEF MuxWritten
  <2> HIDE DEF r, b
  <2>q. QED BY <2>1, <2>2 DEF MuxWritten, MuxOwnerSets
<1> HIDE DEF c
<1>3. /\ r \in MuxAtType /\ r.own = "open" /\ r.n = 0 /\ r.left = a.left - a.n /\ r.sent = a.sent + a.n /\ r.got = a.got
      /\ r.credit = a.credit - a.n /\ r.credit + r.flight = MuxWindow /\ r.slot = a.slot /\ r.buf = a.buf
      /\ r.open = a.open /\ r.gone = a.gone /\ r.eof = a.eof
  <2>1. a.n <= c.left /\ a.n <= c.credit /\ c.credit + c.flight = MuxWindow
      BY <1>g, <1>1
  <2>q. QED BY <1>t, <1>1, <2>1, MuxAcceptedFields
<1> HIDE DEF r, b
<1>4. /\ MuxTypeOK' /\ \A s \in MuxStreams : s # x => MuxSame(s)
      /\ muxAt'[e][x] = r /\ muxBook'[e][x] = b
      /\ muxAt'[p][x] = muxAt[p][x] /\ muxBook'[p][x] = muxBook[p][x]
      /\ MuxStill(x)
    BY <1>h, <1>t, <1>3, <1>2, MuxOwnerFrame
<1>5. MuxOpening(x)'
    BY <1>h, <1>g, <1>3, <1>4 DEF MuxOpening, MuxComing, MuxFrameTypes, b, MuxPair, MuxStill
<1>6. MuxSlot(e, x)'
    BY <1>h, <1>t, <1>g, <1>3, <1>4 DEF MuxSlot, b, MuxPair
<1>7. MuxSlot(p, x)'
    BY <1>h, <1>4 DEF MuxSlot, MuxPair, MuxStill
<1>8. MuxClosing(e, x)'
    BY <1>h, <1>g, <1>3, <1>4 DEF MuxClosing, MuxFrameTypes, MuxEnded, b, MuxPair, MuxStill
<1>9. MuxClosing(p, x)'
    BY <1>h, <1>4 DEF MuxClosing, MuxFrameTypes, MuxPair, MuxStill
<1>10. MuxFresh(e, x)'
    BY <1>h, <1>g, <1>3, <1>4 DEF MuxFresh, MuxPair, MuxStill
<1>11. MuxFresh(p, x)'
    BY <1>h, <1>g, <1>3, <1>4 DEF MuxFresh, MuxFrameTypes, b, MuxPair, MuxStill
<1>12. MuxDelivers(e, x)'
    BY <1>h, <1>g, <1>3, <1>4 DEF MuxDelivers, MuxAccepts, MuxComing, MuxFrameTypes, b, MuxPair, MuxStill
<1>13. MuxDelivers(p, x)'
    BY <1>h, <1>t, <1>g, <1>3, <1>4 DEF MuxDelivers, MuxAccepts, MuxComing, MuxFrameTypes, b, MuxPair, MuxStill, MuxEnded
<1>c. /\ MuxCredits(e, x) \in Nat /\ MuxCredits(p, x) \in Nat
      /\ MuxCredits(e, x)' = MuxCredits(e, x) - a.credit + r.credit
      /\ MuxCredits(p, x)' = MuxCredits(p, x) - (a.buf + b.grant) + (r.buf + b.grant)
  <2>1. r.credit \in Nat /\ r.buf \in Nat
      BY <1>3 DEF MuxAtType
  <2>q. QED BY <1>h, <1>t, <1>4, <2>1, MuxOwnerCredits DEF b
<1>14. MuxCreditKept(e, x)'
  <2>1. MuxCredits(e, x)' = MuxCredits(e, x) - a.n
      BY <1>c, <1>t, <1>3
  <2>2. MuxCredits(e, x) <= MuxWindow + a.n
      BY <1>h DEF MuxPair, MuxCreditKept
  <2>3. muxPreempts' # 0
      BY <1>g, <1>4 DEF MuxStill
  <2>4. MuxCredits(e, x)' <= MuxWindow + 0
      BY <1>c, <1>t, <2>1, <2>2
  <2>q. QED BY <1>3, <1>4, <2>3, <2>4 DEF MuxCreditKept
<1>15. MuxCreditKept(p, x)'
  <2>1. MuxCredits(p, x)' = MuxCredits(p, x)
      BY <1>c, <1>t, <1>3
  <2>q. QED BY <1>h, <1>g, <1>4, <2>1 DEF MuxCreditKept, MuxPair, MuxStill
<1>q. QED BY <1>4, <1>5, <1>6, <1>7, <1>8, <1>9, <1>10, <1>11, <1>12, <1>13, <1>14, <1>15, MuxKept
\* The owner goes on to end a stream: a Close is owed, held or written.
LEMMA MuxEndsKeeps ==
    ASSUME MuxInv, NEW e \in MuxEnds, NEW x \in MuxStreams, NEW p, p = MuxPeer(e), NEW r \in MuxAtType, NEW b \in MuxBookType,
           MuxOwnerSets(e, x, r, b), muxAt[e][x].own \notin {"none", "writing"}, r.own \in MuxEnded,
           muxAt[e][x].slot <=> r.own \in {"closing", "shutdown", "closed"},
           \A k \in {"left", "sent", "got", "n", "slot", "credit", "flight", "buf", "open", "gone", "eof"} :
               r[k] = muxAt[e][x][k],
           \A k \in {"opens", "ready", "grant", "live", "queued", "creditDone", "closeDone"} : b[k] = muxBook[e][x][k],
           IF muxAt[e][x].own = "open" THEN b.want ELSE b.want = muxBook[e][x].want
    PROVE  MuxInv'
<1> DEFINE a == muxAt[e][x]
           c == muxBook[e][x]
<1>h. MuxPair(e, p, x) /\ MuxTypeOK /\ p \in MuxEnds /\ MuxTyped(e, x) /\ MuxTyped(p, x)
    BY MuxBoth, MuxNumbers
<1>1. r \in MuxAtType /\ b \in MuxBookType
    OBVIOUS
<1>2. MuxOwnerSets(e, x, r, b)
    OBVIOUS
<1>3. /\ r.own \in MuxEnded /\ (a.slot <=> r.own \in {"closing", "shutdown", "closed"})
      /\ r.left = a.left /\ r.sent = a.sent /\ r.got = a.got /\ r.n = a.n /\ r.slot = a.slot
      /\ r.credit = a.credit /\ r.flight = a.flight /\ r.buf = a.buf /\ r.open = a.open /\ r.gone = a.gone
      /\ r.eof = a.eof
      /\ b.opens = c.opens /\ b.ready = c.ready /\ b.grant = c.grant /\ b.live = c.live /\ b.queued = c.queued
      /\ b.creditDone = c.creditDone /\ b.closeDone = c.closeDone
      /\ IF a.own = "open" THEN b.want ELSE b.want = c.want
    OBVIOUS
<1>g. a.own # "none" /\ a.own # "writing" /\ r.own # "none" /\ r.own # "writing"
    BY DEF MuxEnded
<1>4. /\ MuxTypeOK' /\ \A s \in MuxStreams : s # x => MuxSame(s)
      /\ muxAt'[e][x] = r /\ muxBook'[e][x] = b
      /\ muxAt'[p][x] = muxAt[p][x] /\ muxBook'[p][x] = muxBook[p][x]
      /\ MuxStill(x)
    BY <1>h, <1>1, <1>2, MuxOwnerFrame
<1>t. /\ a.credit \in Nat /\ a.buf \in Nat /\ c.grant \in Nat /\ a.n \in Nat /\ a.sent \in Nat /\ a.got \in Nat
      /\ r.credit \in Nat /\ r.buf \in Nat /\ b.grant \in Nat /\ MuxWindow \in Nat
    BY <1>h, <1>1 DEF MuxTyped, MuxAtType, MuxBookType
<1>c. /\ MuxCredits(e, x) \in Nat /\ MuxCredits(p, x) \in Nat
      /\ MuxCredits(e, x)' = MuxCredits(e, x) - a.credit + r.credit
      /\ MuxCredits(p, x)' = MuxCredits(p, x) - (a.buf + c.grant) + (r.buf + b.grant)
    BY <1>h, <1>t, <1>4, MuxOwnerCredits
<1>5. MuxOpening(x)'
    BY <1>h, <1>g, <1>3, <1>4 DEF MuxOpening, MuxComing, MuxFrameTypes, MuxPair, MuxStill
<1>6. MuxSlot(e, x)'
    BY <1>h, <1>g, <1>3, <1>4 DEF MuxSlot, MuxEnded, MuxPair, MuxStill
<1>7. MuxSlot(p, x)'
    BY <1>h, <1>g, <1>3, <1>4 DEF MuxSlot, MuxPair, MuxStill
<1>8. MuxClosing(e, x)'
  <2>1. a.own \in MuxEnded \/ a.own = "open"
      BY <1>h, <1>g DEF MuxTyped, MuxAtType, MuxEnded
  <2>q. QED BY <1>h, <1>g, <1>3, <1>4, <2>1 DEF MuxClosing, MuxFrameTypes, MuxPair, MuxStill, MuxEnded
<1>9. MuxClosing(p, x)'
    BY <1>h, <1>g, <1>3, <1>4 DEF MuxClosing, MuxFrameTypes, MuxPair, MuxStill
<1>10. MuxFresh(e, x)'
    BY <1>h, <1>g, <1>3, <1>4 DEF MuxFresh, MuxFrameTypes, MuxPair, MuxStill
<1>11. MuxFresh(p, x)'
    BY <1>h, <1>g, <1>3, <1>4 DEF MuxFresh, MuxFrameTypes, MuxPair, MuxStill
<1>12. MuxDelivers(e, x)'
    BY <1>h, <1>g, <1>3, <1>4 DEF MuxDelivers, MuxAccepts, MuxComing, MuxFrameTypes, MuxPair, MuxStill
<1>13. MuxDelivers(p, x)'
    BY <1>h, <1>g, <1>3, <1>4 DEF MuxDelivers, MuxAccepts, MuxComing, MuxFrameTypes, MuxEnded, MuxPair, MuxStill
<1>14. MuxCreditKept(e, x)'
  <2>1. MuxCredits(e, x)' = MuxCredits(e, x)
      BY <1>c, <1>t, <1>3
  <2>q. QED BY <1>h, <1>g, <1>3, <1>4, <2>1 DEF MuxCreditKept, MuxAccepts, MuxComing, MuxFrameTypes, MuxPair, MuxStill
<1>15. MuxCreditKept(p, x)'
  <2>1. MuxCredits(p, x)' = MuxCredits(p, x)
      BY <1>c, <1>t, <1>3
  <2>q. QED BY <1>h, <1>g, <1>3, <1>4, <2>1 DEF MuxCreditKept, MuxAccepts, MuxComing, MuxFrameTypes, MuxPair, MuxStill
<1>q. QED BY <1>4, <1>5, <1>6, <1>7, <1>8, <1>9, <1>10, <1>11, <1>12, <1>13, <1>14, <1>15, MuxKept

\* The owner drops a stream: its slot goes and a Close is owed unless one was.
LEMMA MuxDropKeeps ==
    ASSUME MuxInv, NEW e \in MuxEnds, NEW x \in MuxStreams, NEW p, p = MuxPeer(e), NEW r \in MuxAtType, NEW b \in MuxBookType,
           MuxOwnerSets(e, x, r, b), muxAt[e][x].slot, muxAt[e][x].own # "writing", r.own \in {"dropping", "dropped"},
           \A k \in {"left", "got", "n", "credit", "flight", "buf"} : r[k] = 0,
           \A k \in {"slot", "open", "gone", "eof"} : r[k] = FALSE, r.sent = muxAt[e][x].sent,
           \A k \in {"opens", "ready", "grant", "queued", "creditDone", "closeDone"} : b[k] = muxBook[e][x][k],
           IF muxAt[e][x].own = "open" THEN b.want ELSE b.want = muxBook[e][x].want
    PROVE  MuxInv'
<1> DEFINE a == muxAt[e][x]
           c == muxBook[e][x]
<1>h. MuxPair(e, p, x) /\ MuxTypeOK /\ p \in MuxEnds /\ MuxTyped(e, x) /\ MuxTyped(p, x)
    BY MuxBoth, MuxNumbers
<1>1. r \in MuxAtType /\ b \in MuxBookType
    OBVIOUS
<1>2. MuxOwnerSets(e, x, r, b)
    OBVIOUS
<1>3. /\ r.own \in {"dropping", "dropped"} /\ r.left = 0 /\ r.got = 0 /\ r.n = 0 /\ r.credit = 0 /\ r.flight = 0
      /\ r.buf = 0 /\ ~r.slot /\ ~r.open /\ ~r.gone /\ ~r.eof /\ r.sent = a.sent
      /\ b.opens = c.opens /\ b.ready = c.ready /\ b.grant = c.grant /\ b.queued = c.queued /\ b.creditDone = c.creditDone /\ b.closeDone = c.closeDone
      /\ IF a.own = "open" THEN b.want ELSE b.want = c.want
    OBVIOUS
<1>g. a.slot /\ a.own # "none" /\ a.own # "writing" /\ a.n = 0
    BY <1>h DEF MuxSlot, MuxPair
<1>4. /\ MuxTypeOK' /\ \A s \in MuxStreams : s # x => MuxSame(s)
      /\ muxAt'[e][x] = r /\ muxBook'[e][x] = b
      /\ muxAt'[p][x] = muxAt[p][x] /\ muxBook'[p][x] = muxBook[p][x]
      /\ MuxStill(x)
    BY <1>h, <1>1, <1>2, MuxOwnerFrame
<1>t. /\ a.credit \in Nat /\ a.buf \in Nat /\ c.grant \in Nat /\ a.n \in Nat /\ a.sent \in Nat /\ a.got \in Nat
      /\ r.credit \in Nat /\ r.buf \in Nat /\ b.grant \in Nat /\ MuxWindow \in Nat
    BY <1>h, <1>1 DEF MuxTyped, MuxAtType, MuxBookType
<1>c. /\ MuxCredits(e, x) \in Nat /\ MuxCredits(p, x) \in Nat
      /\ MuxCredits(e, x)' = MuxCredits(e, x) - a.credit + r.credit
      /\ MuxCredits(p, x)' = MuxCredits(p, x) - (a.buf + c.grant) + (r.buf + b.grant)
    BY <1>h, <1>t, <1>4, MuxOwnerCredits
<1>5. MuxOpening(x)'
    BY <1>h, <1>g, <1>3, <1>4 DEF MuxOpening, MuxComing, MuxFrameTypes, MuxPair, MuxStill
<1>6. MuxSlot(e, x)'
    BY <1>h, <1>g, <1>3, <1>4 DEF MuxSlot, MuxPair, MuxStill
<1>7. MuxSlot(p, x)'
    BY <1>h, <1>g, <1>3, <1>4 DEF MuxSlot, MuxPair, MuxStill
<1>8. MuxClosing(e, x)'
  <2>1. a.own \in MuxEnded \/ a.own = "open"
      BY <1>h, <1>g DEF MuxTyped, MuxAtType, MuxEnded
  <2>q. QED BY <1>h, <1>g, <1>3, <1>4, <2>1 DEF MuxClosing, MuxFrameTypes, MuxPair, MuxStill, MuxEnded
<1>9. MuxClosing(p, x)'
    BY <1>h, <1>g, <1>3, <1>4 DEF MuxClosing, MuxFrameTypes, MuxPair, MuxStill
<1>10. MuxFresh(e, x)'
    BY <1>h, <1>g, <1>3, <1>4 DEF MuxFresh, MuxFrameTypes, MuxPair, MuxStill
<1>11. MuxFresh(p, x)'
    BY <1>h, <1>g, <1>3, <1>4 DEF MuxFresh, MuxFrameTypes, MuxPair, MuxStill
<1>12. MuxDelivers(e, x)'
    BY <1>h, <1>g, <1>3, <1>4 DEF MuxDelivers, MuxAccepts, MuxComing, MuxOpening, MuxFrameTypes, MuxPair, MuxStill
<1>13. MuxDelivers(p, x)'
    BY <1>h, <1>g, <1>3, <1>4 DEF MuxDelivers, MuxAccepts, MuxComing, MuxFrameTypes, MuxEnded, MuxPair, MuxStill
<1>14. MuxCreditKept(e, x)'
  <2>1. MuxCredits(e, x)' <= MuxCredits(e, x)
      BY <1>c, <1>t, <1>3
  <2>2. MuxCredits(e, x) <= MuxWindow + 0
      BY <1>h, <1>g DEF MuxPair, MuxCreditKept
  <2>3. MuxCredits(e, x)' <= MuxWindow + 0
      BY <1>c, <1>t, <1>3, <2>1, <2>2
  <2>q. QED BY <1>3, <1>4, <2>3 DEF MuxCreditKept
<1>15. MuxCreditKept(p, x)'
  <2>1. MuxCredits(p, x)' <= MuxCredits(p, x) /\ MuxCredits(p, x)' \in Int
      BY <1>c, <1>t, <1>3
  <2>2. MuxCredits(p, x) <= MuxWindow + muxAt[p][x].n /\ muxAt[p][x].n \in Nat
      BY <1>h DEF MuxPair, MuxCreditKept, MuxTyped
  <2>3. MuxCredits(p, x)' <= MuxWindow + muxAt[p][x].n
      BY <1>c, <1>t, <2>1, <2>2
  <2>4. muxAt[p][x].slot => ~MuxAccepts(e, x)'
      BY <1>h, <1>g, <1>3, <1>4 DEF MuxAccepts, MuxComing, MuxOpening, MuxPair, MuxStill, MuxFrameTypes
  <2>q. QED BY <1>h, <1>4, <2>3, <2>4 DEF MuxCreditKept, MuxPair
<1>q. QED BY <1>4, <1>5, <1>6, <1>7, <1>8, <1>9, <1>10, <1>11, <1>12, <1>13, <1>14, <1>15, MuxKept

\* poll_read takes bytes from the buffer and grants them back.
LEMMA MuxReceiveKeeps ==
    ASSUME MuxInv, NEW e \in MuxEnds, NEW x \in MuxStreams, NEW p, p = MuxPeer(e), MuxReceive(e, x)
    PROVE  MuxInv'
<1>n. PICK n \in 1..muxAt[e][x].buf :
          /\ muxAt' = [muxAt EXCEPT ![e][x] = [muxAt[e][x] EXCEPT !.buf = @ - n, !.got = @ + n]]
          /\ MuxConsumed(e, x, n)
    BY DEF MuxReceive
<1> DEFINE a == muxAt[e][x]
           c == muxBook[e][x]
           r == [a EXCEPT !.buf = @ - n, !.got = @ + n]
           b == [c EXCEPT !.grant = @ + n]
<1>h. MuxPair(e, p, x) /\ MuxTypeOK /\ p \in MuxEnds /\ MuxTyped(e, x) /\ MuxTyped(p, x)
    BY MuxBoth, MuxNumbers
<1>g. a.own \in {"open", "shutdown", "closed"} /\ a.slot /\ a.own # "none" /\ a.own # "writing" /\ a.n = 0
    BY <1>h DEF MuxReceive, MuxReading, MuxSlot, MuxPair
<1>u. a.buf + c.grant <= MuxWindow
  <2> DEFINE q == muxAt[p][x]
  <2>1. /\ MuxCredits(p, x) <= MuxWindow + q.n /\ q.n <= q.credit
        /\ q.n \in Nat /\ q.credit \in Nat /\ a.buf \in Nat /\ c.grant \in Nat /\ MuxWindow \in Nat
    <3>1. IF q.own = "writing" THEN q.n <= q.credit ELSE q.n = 0
        BY <1>h DEF MuxPair, MuxSlot
    <3>2. q.n \in Nat /\ q.credit \in Nat /\ a.buf \in Nat /\ c.grant \in Nat /\ MuxWindow \in Nat
        BY <1>h DEF MuxTyped
    <3>3. MuxCredits(p, x) <= MuxWindow + q.n
        BY <1>h DEF MuxPair, MuxCreditKept
    <3>q. QED BY <3>1, <3>2, <3>3
  <2>2. /\ MuxCredits(p, x) = q.credit + MuxOnWay(p, x) + a.buf + c.grant + MuxIn(e, "window", x)
        /\ MuxOnWay(p, x) = MuxBytesQueued(p, x) + MuxIn(p, "data", x)
      BY <1>h, MuxSums DEF MuxPair
  <2>3. MuxIn(e, "window", x) \in Nat /\ MuxBytesQueued(p, x) \in Nat /\ MuxIn(p, "data", x) \in Nat
      BY <1>h DEF MuxTyped, MuxFrameTypes
  <2> HIDE DEF q, a, c
  <2>q. QED BY <2>1, <2>2, <2>3
<1>v. /\ a.buf - n \in 0..MuxWindow /\ a.got + n \in Nat /\ c.grant + n \in 0..MuxWindow /\ n \in Nat /\ n > 0
      /\ a.buf > 0 /\ a \in MuxAtType /\ c \in MuxBookType
    BY <1>h, <1>u DEF MuxTyped
<1>1. r \in MuxAtType /\ b \in MuxBookType
  <2> DEFINE y == a.buf - n
             z == a.got + n
             w == c.grant + n
  <2>1. r = [a EXCEPT !.buf = y, !.got = z] /\ b = [c EXCEPT !.grant = w]
      OBVIOUS
  <2> HIDE DEF y, z, w, r, b
  <2>2. y \in 0..MuxWindow /\ z \in Nat /\ w \in 0..MuxWindow
      BY <1>v DEF y, z, w
  <2>3. r \in MuxAtType
      BY <1>v, <2>1, <2>2 DEF MuxAtType
  <2>4. b \in MuxBookType
      BY <1>v, <2>1, <2>2 DEF MuxBookType
  <2>q. QED BY <2>3, <2>4
<1>2. MuxOwnerSets(e, x, r, b)
  <2>1. muxAt' = [muxAt EXCEPT ![e][x] = r]
      BY <1>n
  <2>2. muxBook' = [muxBook EXCEPT ![e][x] = b]
      BY <1>n DEF MuxConsumed
  <2> HIDE DEF r, b
  <2>q. QED BY <2>1, <2>2 DEF MuxReceive, MuxOwnerSets
<1>3. /\ r.buf = a.buf - n /\ r.got = a.got + n /\ b.grant = c.grant + n
      /\ r.left = a.left /\ r.sent = a.sent /\ r.n = a.n /\ r.slot = a.slot /\ r.credit = a.credit
      /\ r.flight = a.flight /\ r.open = a.open /\ r.gone = a.gone /\ r.eof = a.eof /\ r.own = a.own
      /\ b.opens = c.opens /\ b.ready = c.ready /\ b.creditHold = c.creditHold /\ b.live = c.live /\ b.queued = c.queued
      /\ b.want = c.want /\ b.hold = c.hold /\ b.flag = c.flag /\ b.creditDone = c.creditDone /\ b.closeDone = c.closeDone
    BY <1>v DEF MuxAtType, MuxBookType
<1> HIDE DEF r, b
<1>4. /\ MuxTypeOK' /\ \A s \in MuxStreams : s # x => MuxSame(s)
      /\ muxAt'[e][x] = r /\ muxBook'[e][x] = b
      /\ muxAt'[p][x] = muxAt[p][x] /\ muxBook'[p][x] = muxBook[p][x]
      /\ MuxStill(x)
    BY <1>h, <1>1, <1>2, MuxOwnerFrame
<1>t. /\ a.credit \in Nat /\ a.buf \in Nat /\ c.grant \in Nat /\ a.n \in Nat /\ a.sent \in Nat /\ a.got \in Nat
      /\ r.credit \in Nat /\ r.buf \in Nat /\ b.grant \in Nat /\ MuxWindow \in Nat
    BY <1>h, <1>1 DEF MuxTyped, MuxAtType, MuxBookType
<1>c. /\ MuxCredits(e, x) \in Nat /\ MuxCredits(p, x) \in Nat
      /\ MuxCredits(e, x)' = MuxCredits(e, x) - a.credit + r.credit
      /\ MuxCredits(p, x)' = MuxCredits(p, x) - (a.buf + c.grant) + (r.buf + b.grant)
    BY <1>h, <1>t, <1>4, MuxOwnerCredits
<1>5. MuxOpening(x)'
    BY <1>h, <1>g, <1>3, <1>4 DEF MuxOpening, MuxComing, MuxFrameTypes, MuxPair, MuxStill
<1>6. MuxSlot(e, x)'
  <2>1. /\ a.slot /\ a.credit + a.flight = MuxWindow /\ c.live /\ ~c.creditDone
        /\ a.eof => ~a.open /\ a.buf = 0
        /\ a.own \in {"open", "writing", "closing", "shutdown", "closed"}
      BY <1>h, <1>g DEF MuxSlot, MuxPair
  <2>2. ~a.eof
      BY <1>v, <2>1
  <2>q. QED BY <1>g, <1>3, <1>4, <2>1, <2>2 DEF MuxSlot
<1>7. MuxSlot(p, x)'
    BY <1>h, <1>g, <1>3, <1>4 DEF MuxSlot, MuxPair, MuxStill
<1>8. MuxClosing(e, x)'
    BY <1>h, <1>g, <1>3, <1>4 DEF MuxClosing, MuxFrameTypes, MuxEnded, MuxPair, MuxStill
<1>9. MuxClosing(p, x)'
    BY <1>h, <1>g, <1>3, <1>4 DEF MuxClosing, MuxFrameTypes, MuxPair, MuxStill
<1>10. MuxFresh(e, x)'
    BY <1>h, <1>g, <1>3, <1>4 DEF MuxFresh, MuxFrameTypes, MuxPair, MuxStill
<1>11. MuxFresh(p, x)'
    BY <1>h, <1>g, <1>v, <1>3, <1>4 DEF MuxFresh, MuxFrameTypes, MuxPair, MuxStill
<1>12. MuxDelivers(e, x)'
    BY <1>h, <1>g, <1>t, <1>v, <1>3, <1>4 DEF MuxDelivers, MuxAccepts, MuxComing, MuxFrameTypes, MuxPair, MuxStill
<1>13. MuxDelivers(p, x)'
    BY <1>h, <1>g, <1>3, <1>4 DEF MuxDelivers, MuxAccepts, MuxComing, MuxFrameTypes, MuxEnded, MuxPair, MuxStill
<1>14. MuxCreditKept(e, x)'
  <2>1. MuxCredits(e, x)' = MuxCredits(e, x)
      BY <1>c, <1>t, <1>3
  <2>q. QED BY <1>h, <1>g, <1>3, <1>4, <2>1 DEF MuxCreditKept, MuxAccepts, MuxComing, MuxFrameTypes, MuxPair, MuxStill
<1>15. MuxCreditKept(p, x)'
  <2>1. MuxCredits(p, x)' = MuxCredits(p, x)
      BY <1>c, <1>t, <1>v, <1>3
  <2>q. QED BY <1>h, <1>g, <1>3, <1>4, <2>1 DEF MuxCreditKept, MuxAccepts, MuxComing, MuxFrameTypes, MuxPair, MuxStill
<1>q. QED BY <1>4, <1>5, <1>6, <1>7, <1>8, <1>9, <1>10, <1>11, <1>12, <1>13, <1>14, <1>15, MuxKept

\* Writes fail after the peer closed, and the owner gives up on them.
LEMMA MuxBrokenKeeps ==
    ASSUME MuxInv, NEW e \in MuxEnds, NEW x \in MuxStreams, NEW p, p = MuxPeer(e), MuxBroken(e, x)
    PROVE  MuxInv'
<1> DEFINE a == muxAt[e][x]
           c == muxBook[e][x]
           r == [a EXCEPT !.left = 0]
           b == c
<1>h. MuxPair(e, p, x) /\ MuxTypeOK /\ p \in MuxEnds /\ MuxTyped(e, x) /\ MuxTyped(p, x)
    BY MuxBoth, MuxNumbers
<1>g. a.own \in {"open", "shutdown", "closed"} /\ a.slot /\ a.own # "none" /\ a.own # "writing" /\ a.n = 0 /\ a.own = "open"
    BY <1>h DEF MuxBroken, MuxReading, MuxSlot, MuxPair
<1>1. r \in MuxAtType /\ b \in MuxBookType
    BY <1>h DEF MuxTyped, MuxAtType
<1>2. MuxOwnerSets(e, x, r, b)
  <2>1. muxBook' = [muxBook EXCEPT ![e][x] = b]
      BY <1>h DEF MuxBroken, MuxTypeOK
  <2>2. muxAt' = [muxAt EXCEPT ![e][x] = r]
      BY DEF MuxBroken
  <2> HIDE DEF r, b
  <2>q. QED BY <2>1, <2>2 DEF MuxBroken, MuxOwnerSets
<1>3. /\ r.left = 0 /\ b = c
      /\ r.sent = a.sent /\ r.got = a.got /\ r.n = a.n /\ r.slot = a.slot /\ r.credit = a.credit
      /\ r.flight = a.flight /\ r.buf = a.buf /\ r.open = a.open /\ r.gone = a.gone /\ r.eof = a.eof
      /\ r.own = a.own
    BY <1>h DEF MuxTyped, MuxAtType
<1> HIDE DEF r, b
<1>4. /\ MuxTypeOK' /\ \A s \in MuxStreams : s # x => MuxSame(s)
      /\ muxAt'[e][x] = r /\ muxBook'[e][x] = b
      /\ muxAt'[p][x] = muxAt[p][x] /\ muxBook'[p][x] = muxBook[p][x]
      /\ MuxStill(x)
    BY <1>h, <1>1, <1>2, MuxOwnerFrame
<1>t. /\ a.credit \in Nat /\ a.buf \in Nat /\ c.grant \in Nat /\ a.n \in Nat /\ a.sent \in Nat /\ a.got \in Nat
      /\ r.credit \in Nat /\ r.buf \in Nat /\ b.grant \in Nat /\ MuxWindow \in Nat
    BY <1>h, <1>1 DEF MuxTyped, MuxAtType, MuxBookType
<1>c. /\ MuxCredits(e, x) \in Nat /\ MuxCredits(p, x) \in Nat
      /\ MuxCredits(e, x)' = MuxCredits(e, x) - a.credit + r.credit
      /\ MuxCredits(p, x)' = MuxCredits(p, x) - (a.buf + c.grant) + (r.buf + b.grant)
    BY <1>h, <1>t, <1>4, MuxOwnerCredits
<1>5. MuxOpening(x)'
    BY <1>h, <1>g, <1>3, <1>4 DEF MuxOpening, MuxComing, MuxFrameTypes, MuxPair, MuxStill
<1>6. MuxSlot(e, x)'
  <2>1. /\ a.slot /\ a.credit + a.flight = MuxWindow /\ c.live /\ ~c.creditDone
        /\ a.eof => ~a.open /\ a.buf = 0
        /\ a.own \in {"open", "writing", "closing", "shutdown", "closed"}
      BY <1>h, <1>g DEF MuxSlot, MuxPair
  <2>q. QED BY <1>g, <1>3, <1>4, <2>1 DEF MuxSlot
<1>7. MuxSlot(p, x)'
    BY <1>h, <1>g, <1>3, <1>4 DEF MuxSlot, MuxPair, MuxStill
<1>8. MuxClosing(e, x)'
    BY <1>h, <1>g, <1>3, <1>4 DEF MuxClosing, MuxFrameTypes, MuxEnded, MuxPair, MuxStill
<1>9. MuxClosing(p, x)'
    BY <1>h, <1>g, <1>3, <1>4 DEF MuxClosing, MuxFrameTypes, MuxPair, MuxStill
<1>10. MuxFresh(e, x)'
    BY <1>h, <1>g, <1>3, <1>4 DEF MuxFresh, MuxFrameTypes, MuxPair, MuxStill
<1>11. MuxFresh(p, x)'
    BY <1>h, <1>g, <1>3, <1>4 DEF MuxFresh, MuxFrameTypes, MuxPair, MuxStill
<1>12. MuxDelivers(e, x)'
    BY <1>h, <1>g, <1>3, <1>4 DEF MuxDelivers, MuxAccepts, MuxComing, MuxFrameTypes, MuxPair, MuxStill
<1>13. MuxDelivers(p, x)'
    BY <1>h, <1>g, <1>3, <1>4 DEF MuxDelivers, MuxAccepts, MuxComing, MuxFrameTypes, MuxEnded, MuxPair, MuxStill
<1>14. MuxCreditKept(e, x)'
  <2>1. MuxCredits(e, x)' = MuxCredits(e, x)
      BY <1>c, <1>t, <1>3
  <2>q. QED BY <1>h, <1>g, <1>3, <1>4, <2>1 DEF MuxCreditKept, MuxAccepts, MuxComing, MuxFrameTypes, MuxPair, MuxStill
<1>15. MuxCreditKept(p, x)'
  <2>1. MuxCredits(p, x)' = MuxCredits(p, x)
      BY <1>c, <1>t, <1>3
  <2>q. QED BY <1>h, <1>g, <1>3, <1>4, <2>1 DEF MuxCreditKept, MuxAccepts, MuxComing, MuxFrameTypes, MuxPair, MuxStill
<1>q. QED BY <1>4, <1>5, <1>6, <1>7, <1>8, <1>9, <1>10, <1>11, <1>12, <1>13, <1>14, <1>15, MuxKept

\* poll_read finds nothing more to come.
LEMMA MuxEofKeeps ==
    ASSUME MuxInv, NEW e \in MuxEnds, NEW x \in MuxStreams, NEW p, p = MuxPeer(e), MuxEof(e, x)
    PROVE  MuxInv'
<1> DEFINE a == muxAt[e][x]
           c == muxBook[e][x]
           r == [a EXCEPT !.eof = TRUE]
           b == c
<1>h. MuxPair(e, p, x) /\ MuxTypeOK /\ p \in MuxEnds /\ MuxTyped(e, x) /\ MuxTyped(p, x)
    BY MuxBoth, MuxNumbers
<1>g. a.own \in {"open", "shutdown", "closed"} /\ a.slot /\ a.own # "none" /\ a.own # "writing" /\ a.n = 0 /\ a.buf = 0 /\ ~a.open
    BY <1>h DEF MuxEof, MuxReading, MuxSlot, MuxPair
<1>1. r \in MuxAtType /\ b \in MuxBookType
    BY <1>h DEF MuxTyped, MuxAtType
<1>2. MuxOwnerSets(e, x, r, b)
  <2>1. muxBook' = [muxBook EXCEPT ![e][x] = b]
      BY <1>h DEF MuxEof, MuxTypeOK
  <2>2. muxAt' = [muxAt EXCEPT ![e][x] = r]
      BY DEF MuxEof
  <2> HIDE DEF r, b
  <2>q. QED BY <2>1, <2>2 DEF MuxEof, MuxOwnerSets
<1>3. /\ r.eof = TRUE /\ b = c
      /\ r.left = a.left /\ r.sent = a.sent /\ r.got = a.got /\ r.n = a.n /\ r.slot = a.slot
      /\ r.credit = a.credit /\ r.flight = a.flight /\ r.buf = a.buf /\ r.open = a.open /\ r.gone = a.gone
      /\ r.own = a.own
    BY <1>h DEF MuxTyped, MuxAtType
<1> HIDE DEF r, b
<1>4. /\ MuxTypeOK' /\ \A s \in MuxStreams : s # x => MuxSame(s)
      /\ muxAt'[e][x] = r /\ muxBook'[e][x] = b
      /\ muxAt'[p][x] = muxAt[p][x] /\ muxBook'[p][x] = muxBook[p][x]
      /\ MuxStill(x)
    BY <1>h, <1>1, <1>2, MuxOwnerFrame
<1>t. /\ a.credit \in Nat /\ a.buf \in Nat /\ c.grant \in Nat /\ a.n \in Nat /\ a.sent \in Nat /\ a.got \in Nat
      /\ r.credit \in Nat /\ r.buf \in Nat /\ b.grant \in Nat /\ MuxWindow \in Nat
    BY <1>h, <1>1 DEF MuxTyped, MuxAtType, MuxBookType
<1>c. /\ MuxCredits(e, x) \in Nat /\ MuxCredits(p, x) \in Nat
      /\ MuxCredits(e, x)' = MuxCredits(e, x) - a.credit + r.credit
      /\ MuxCredits(p, x)' = MuxCredits(p, x) - (a.buf + c.grant) + (r.buf + b.grant)
    BY <1>h, <1>t, <1>4, MuxOwnerCredits
<1>5. MuxOpening(x)'
    BY <1>h, <1>g, <1>3, <1>4 DEF MuxOpening, MuxComing, MuxFrameTypes, MuxPair, MuxStill
<1>6. MuxSlot(e, x)'
    BY ZenonT(60), <1>h, <1>g, <1>3, <1>4 DEF MuxSlot, MuxPair, MuxStill
<1>7. MuxSlot(p, x)'
    BY <1>h, <1>g, <1>3, <1>4 DEF MuxSlot, MuxPair, MuxStill
<1>8. MuxClosing(e, x)'
    BY <1>h, <1>g, <1>3, <1>4 DEF MuxClosing, MuxFrameTypes, MuxEnded, MuxPair, MuxStill
<1>9. MuxClosing(p, x)'
    BY <1>h, <1>g, <1>3, <1>4 DEF MuxClosing, MuxFrameTypes, MuxPair, MuxStill
<1>10. MuxFresh(e, x)'
    BY <1>h, <1>g, <1>3, <1>4 DEF MuxFresh, MuxFrameTypes, MuxPair, MuxStill
<1>11. MuxFresh(p, x)'
    BY <1>h, <1>g, <1>3, <1>4 DEF MuxFresh, MuxFrameTypes, MuxPair, MuxStill
<1>12. MuxDelivers(e, x)'
    BY <1>h, <1>g, <1>3, <1>4 DEF MuxDelivers, MuxAccepts, MuxComing, MuxFrameTypes, MuxPair, MuxStill
<1>13. MuxDelivers(p, x)'
    BY <1>h, <1>g, <1>3, <1>4 DEF MuxDelivers, MuxAccepts, MuxComing, MuxFrameTypes, MuxEnded, MuxPair, MuxStill
<1>14. MuxCreditKept(e, x)'
  <2>1. MuxCredits(e, x)' = MuxCredits(e, x)
      BY <1>c, <1>t, <1>3
  <2>q. QED BY <1>h, <1>g, <1>3, <1>4, <2>1 DEF MuxCreditKept, MuxAccepts, MuxComing, MuxFrameTypes, MuxPair, MuxStill
<1>15. MuxCreditKept(p, x)'
  <2>1. MuxCredits(p, x)' = MuxCredits(p, x)
      BY <1>c, <1>t, <1>3
  <2>q. QED BY <1>h, <1>g, <1>3, <1>4, <2>1 DEF MuxCreditKept, MuxAccepts, MuxComing, MuxFrameTypes, MuxPair, MuxStill
<1>q. QED BY <1>4, <1>5, <1>6, <1>7, <1>8, <1>9, <1>10, <1>11, <1>12, <1>13, <1>14, <1>15, MuxKept

\* Mux::open is refused at the cap.
LEMMA MuxOpenRefusedKeeps ==
    ASSUME MuxInv, NEW e \in MuxEnds, NEW x \in MuxStreams, NEW p, p = MuxPeer(e), MuxOpen(e, x), ~MuxAdmits(e)
    PROVE  MuxInv'
<1> DEFINE a == muxAt[e][x]
           c == muxBook[e][x]
           r == [a EXCEPT !.own = "dropped"]
           b == c
<1>h. MuxPair(e, p, x) /\ MuxTypeOK /\ p \in MuxEnds /\ MuxTyped(e, x) /\ MuxTyped(p, x)
    BY MuxBoth, MuxNumbers
<1>g. a.own = "none" /\ MuxOpener[x] = e /\ ~a.slot /\ a.n = 0 /\ c.queued = 0 /\ ~c.want /\ ~c.opens
  <2>1. a.own = "none" /\ MuxOpener[x] = e
      BY DEF MuxOpen
  <2>2. c = MuxNoBook
      BY <1>h, <2>1 DEF MuxPair, MuxFresh
  <2>q. QED BY <1>h, <2>1, <2>2 DEF MuxSlot, MuxPair, MuxNoBook
<1>1. r \in MuxAtType /\ b \in MuxBookType
    BY <1>h DEF MuxTyped, MuxAtType
<1>2. MuxOwnerSets(e, x, r, b)
  <2>1. muxBook' = [muxBook EXCEPT ![e][x] = b]
      BY <1>h DEF MuxOpen, MuxTypeOK
  <2>2. muxAt' = [muxAt EXCEPT ![e][x] = r]
      BY DEF MuxOpen
  <2> HIDE DEF r, b
  <2>q. QED BY <2>1, <2>2 DEF MuxOpen, MuxOwnerSets
<1>3. /\ r.own = "dropped" /\ b = c
      /\ r.left = a.left /\ r.sent = a.sent /\ r.got = a.got /\ r.n = a.n /\ r.slot = a.slot
      /\ r.credit = a.credit /\ r.flight = a.flight /\ r.buf = a.buf /\ r.open = a.open /\ r.gone = a.gone
      /\ r.eof = a.eof
    BY <1>h DEF MuxTyped, MuxAtType
<1> HIDE DEF r, b
<1>4. /\ MuxTypeOK' /\ \A s \in MuxStreams : s # x => MuxSame(s)
      /\ muxAt'[e][x] = r /\ muxBook'[e][x] = b
      /\ muxAt'[p][x] = muxAt[p][x] /\ muxBook'[p][x] = muxBook[p][x]
      /\ MuxStill(x)
    BY <1>h, <1>1, <1>2, MuxOwnerFrame
<1>t. /\ a.credit \in Nat /\ a.buf \in Nat /\ c.grant \in Nat /\ a.n \in Nat /\ a.sent \in Nat /\ a.got \in Nat
      /\ r.credit \in Nat /\ r.buf \in Nat /\ b.grant \in Nat /\ MuxWindow \in Nat
    BY <1>h, <1>1 DEF MuxTyped, MuxAtType, MuxBookType
<1>c. /\ MuxCredits(e, x) \in Nat /\ MuxCredits(p, x) \in Nat
      /\ MuxCredits(e, x)' = MuxCredits(e, x) - a.credit + r.credit
      /\ MuxCredits(p, x)' = MuxCredits(p, x) - (a.buf + c.grant) + (r.buf + b.grant)
    BY <1>h, <1>t, <1>4, MuxOwnerCredits
<1>5. MuxOpening(x)'
    BY <1>h, <1>g, <1>3, <1>4 DEF MuxOpening, MuxComing, MuxFrameTypes, MuxPair, MuxStill
<1>6. MuxSlot(e, x)'
    BY <1>h, <1>g, <1>3, <1>4 DEF MuxSlot, MuxPair, MuxStill
<1>7. MuxSlot(p, x)'
    BY <1>h, <1>g, <1>3, <1>4 DEF MuxSlot, MuxPair, MuxStill
<1>8. MuxClosing(e, x)'
    BY <1>h, <1>g, <1>3, <1>4 DEF MuxClosing, MuxFresh, MuxSilent, MuxFrameTypes, MuxEnded, MuxPair, MuxStill
<1>9. MuxClosing(p, x)'
    BY <1>h, <1>g, <1>3, <1>4 DEF MuxClosing, MuxFrameTypes, MuxPair, MuxStill
<1>10. MuxFresh(e, x)'
    BY <1>h, <1>g, <1>3, <1>4 DEF MuxFresh, MuxFrameTypes, MuxPair, MuxStill
<1>11. MuxFresh(p, x)'
    BY <1>h, <1>g, <1>3, <1>4 DEF MuxFresh, MuxFrameTypes, MuxPair, MuxStill
<1>12. MuxDelivers(e, x)'
    BY <1>h, <1>g, <1>3, <1>4 DEF MuxDelivers, MuxAccepts, MuxComing, MuxFrameTypes, MuxPair, MuxStill
<1>13. MuxDelivers(p, x)'
    BY <1>h, <1>g, <1>3, <1>4 DEF MuxDelivers, MuxAccepts, MuxComing, MuxFresh, MuxSilent, MuxFrameTypes, MuxEnded, MuxPair, MuxStill
<1>14. MuxCreditKept(e, x)'
  <2>1. MuxCredits(e, x)' = MuxCredits(e, x)
      BY <1>c, <1>t, <1>3
  <2>q. QED BY <1>h, <1>g, <1>3, <1>4, <2>1 DEF MuxCreditKept, MuxAccepts, MuxComing, MuxFrameTypes, MuxPair, MuxStill
<1>15. MuxCreditKept(p, x)'
  <2>1. MuxCredits(p, x)' = MuxCredits(p, x)
      BY <1>c, <1>t, <1>3
  <2>q. QED BY <1>h, <1>g, <1>3, <1>4, <2>1 DEF MuxCreditKept, MuxAccepts, MuxComing, MuxFrameTypes, MuxPair, MuxStill
<1>q. QED BY <1>4, <1>5, <1>6, <1>7, <1>8, <1>9, <1>10, <1>11, <1>12, <1>13, <1>14, <1>15, MuxKept

LEMMA MuxInsertedFields ==
    ASSUME NEW e \in MuxEnds, NEW x \in MuxStreams
    PROVE  LET r == MuxInserted(e, x) IN
           /\ r \in MuxAtType
           /\ r.own = "open" /\ r.left = MuxBytes[e][x] /\ r.slot /\ r.credit = MuxWindow /\ r.open /\ r.sent = 0
           /\ r.got = 0 /\ r.n = 0 /\ r.flight = 0 /\ r.buf = 0 /\ ~r.gone /\ ~r.eof
<1>1. MuxBytes[e][x] \in Nat /\ MuxWindow \in Nat
    BY MuxAssumption
<1> DEFINE z == MuxNoStream
           r == [z EXCEPT !.own = "open", !.left = MuxBytes[e][x], !.slot = TRUE, !.credit = MuxWindow, !.open = TRUE]
<1>2. 0 \in 0..MuxWindow /\ MuxWindow \in 0..MuxWindow
    BY <1>1
<1>3. /\ z \in MuxAtType /\ z.sent = 0 /\ z.got = 0 /\ z.n = 0 /\ z.flight = 0 /\ z.buf = 0 /\ ~z.gone /\ ~z.eof
    BY <1>2 DEF MuxNoStream, MuxAtType
<1>4. MuxInserted(e, x) = r
    BY DEF MuxInserted
<1> HIDE DEF z
<1>5. r \in MuxAtType
    BY <1>1, <1>2, <1>3 DEF MuxAtType
<1>6. /\ r.own = "open" /\ r.left = MuxBytes[e][x] /\ r.slot /\ r.credit = MuxWindow /\ r.open /\ r.sent = 0
      /\ r.got = 0 /\ r.n = 0 /\ r.flight = 0 /\ r.buf = 0 /\ ~r.gone /\ ~r.eof
    BY <1>3 DEF MuxAtType
<1> HIDE DEF r
<1>q. QED BY <1>4, <1>5, <1>6

LEMMA MuxRecordFields ==
    ASSUME NEW local \in BOOLEAN
    PROVE  LET b == MuxRecord(local) IN
           /\ b \in MuxBookType /\ b.opens = local /\ b.ready = ~local
           /\ b.live /\ ~b.creditDone /\ b.queued = 0 /\ ~b.want /\ b.grant = 0 /\ ~b.hold /\ ~b.closeDone
<1> DEFINE z == MuxNoBook
           b == [z EXCEPT !.opens = local, !.ready = ~local, !.creditHold = TRUE, !.live = TRUE,
                          !.creditDone = FALSE, !.closeDone = FALSE]
<1>1. 0 \in 0..MuxWindow /\ 0 \in 0..MuxQueue
    BY MuxAssumption
<1>2. z \in MuxBookType /\ z.queued = 0 /\ ~z.want /\ z.grant = 0 /\ ~z.hold
    BY <1>1 DEF MuxNoBook, MuxBookType
<1>3. MuxRecord(local) = b
    BY DEF MuxRecord
<1> HIDE DEF z
<1>4. b \in MuxBookType
    BY <1>2 DEF MuxBookType
<1>5. /\ b.opens = local /\ b.ready = ~local
      /\ b.live /\ ~b.creditDone /\ b.queued = 0 /\ ~b.want /\ b.grant = 0 /\ ~b.hold /\ ~b.closeDone
    BY <1>2 DEF MuxBookType
<1> HIDE DEF b
<1>q. QED BY <1>3, <1>4, <1>5

\* Mux::open inserts the stream and leaves its Open to the writer.
LEMMA MuxOpenKeeps ==
    ASSUME MuxInv, NEW e \in MuxEnds, NEW x \in MuxStreams, NEW p, p = MuxPeer(e), MuxOpen(e, x), MuxAdmits(e)
    PROVE  MuxInv'
<1> DEFINE a == muxAt[e][x]
           c == muxBook[e][x]
           r == MuxInserted(e, x)
           b == MuxRecord(TRUE)
<1>h. MuxPair(e, p, x) /\ MuxTypeOK /\ p \in MuxEnds /\ MuxTyped(e, x) /\ MuxTyped(p, x)
    BY MuxBoth, MuxNumbers
<1>g. a.own = "none" /\ MuxOpener[x] = e
    BY DEF MuxOpen
<1>f. /\ ~a.slot /\ a.n = 0 /\ a.credit = 0 /\ a.buf = 0 /\ a.got = 0 /\ a.sent = 0
      /\ c.queued = 0 /\ ~c.want /\ ~c.opens /\ c.grant = 0
      /\ muxAt[p][x].own = "none" /\ x \notin muxControl[p].refused /\ MuxSilent(e, x) /\ MuxSilent(p, x)
      /\ muxBook[p][x].queued = 0 /\ muxBook[p][x].grant = 0 /\ ~muxAt[p][x].slot /\ muxAt[p][x].n = 0
      /\ muxAt[p][x].credit = 0 /\ muxAt[p][x].buf = 0 /\ muxAt[p][x].got = 0 /\ muxAt[p][x].sent = 0
  <2>1. c = MuxNoBook /\ muxAt[p][x].own = "none" /\ a.sent = 0
        /\ x \notin muxControl[p].refused /\ MuxSilent(e, x) /\ MuxSilent(p, x)
      BY <1>h, <1>g DEF MuxPair, MuxFresh
  <2>2. muxBook[p][x] = MuxNoBook /\ muxAt[p][x].sent = 0
      BY <1>h, <2>1 DEF MuxPair, MuxFresh
  <2>3. /\ ~a.slot /\ a.n = 0 /\ a.credit = 0 /\ a.buf = 0 /\ a.got = 0
      BY <1>h, <1>g DEF MuxSlot, MuxPair
  <2>4. /\ ~muxAt[p][x].slot /\ muxAt[p][x].n = 0
        /\ muxAt[p][x].credit = 0 /\ muxAt[p][x].buf = 0 /\ muxAt[p][x].got = 0
      BY <1>h, <2>1 DEF MuxSlot, MuxPair
  <2>q. QED BY <2>1, <2>2, <2>3, <2>4 DEF MuxNoBook
<1>z. /\ MuxOnWay(e, x) = 0 /\ MuxOnWay(p, x) = 0 /\ MuxIn(e, "window", x) = 0 /\ MuxIn(p, "window", x) = 0
      /\ MuxFramesQueued(e, x) = 0
  <2>1. MuxFramesQueued(e, x) = 0 /\ MuxFramesQueued(p, x) = 0
      BY <1>h, <1>f DEF MuxPair, MuxClosing
  <2>2. \A f \in {e, p} : MuxIn(f, "data", x) = 0 /\ MuxIn(f, "window", x) = 0
      BY <1>h, <1>f DEF MuxTyped, MuxSilent, MuxFrameTypes
  <2>q. QED BY <1>h, <2>1, <2>2, MuxSums DEF MuxTyped
<1>3. /\ r \in MuxAtType /\ b \in MuxBookType
      /\ r.own = "open" /\ r.left = MuxBytes[e][x] /\ r.slot /\ r.credit = MuxWindow /\ r.open /\ r.sent = 0
      /\ r.got = 0 /\ r.n = 0 /\ r.flight = 0 /\ r.buf = 0 /\ ~r.gone /\ ~r.eof
      /\ b.opens /\ ~b.ready /\ b.live /\ ~b.creditDone /\ b.queued = 0 /\ ~b.want /\ b.grant = 0
      /\ ~b.hold /\ ~b.closeDone
  <2>1. MuxBytes[e][x] \in Nat /\ MuxWindow \in Nat
      BY MuxAssumption
  <2>q. QED BY <2>1, MuxInsertedFields, MuxRecordFields
<1>1. r \in MuxAtType /\ b \in MuxBookType
    BY <1>3
<1>2. MuxOwnerSets(e, x, r, b) /\ muxControl'[e].wake
  <2>1. muxBook' = [muxBook EXCEPT ![e][x] = b] /\ muxAt' = [muxAt EXCEPT ![e][x] = r] /\ MuxWake(e)
      BY DEF MuxOpen
  <2>2. muxControl'[e].wake
      BY <1>h, <2>1 DEF MuxWake, MuxTypeOK
  <2> HIDE DEF r, b
  <2>q. QED BY <2>1, <2>2 DEF MuxOpen, MuxOwnerSets
<1> HIDE DEF r, b
<1>4. /\ MuxTypeOK' /\ \A s \in MuxStreams : s # x => MuxSame(s)
      /\ muxAt'[e][x] = r /\ muxBook'[e][x] = b
      /\ muxAt'[p][x] = muxAt[p][x] /\ muxBook'[p][x] = muxBook[p][x]
      /\ MuxStill(x)
    BY <1>h, <1>1, <1>2, MuxOwnerFrame
<1>t. /\ a.credit \in Nat /\ a.buf \in Nat /\ c.grant \in Nat /\ a.n \in Nat /\ a.sent \in Nat /\ a.got \in Nat
      /\ r.credit \in Nat /\ r.buf \in Nat /\ b.grant \in Nat /\ MuxWindow \in Nat
    BY <1>h, <1>1 DEF MuxTyped, MuxAtType, MuxBookType
<1>c. /\ MuxCredits(e, x) \in Nat /\ MuxCredits(p, x) \in Nat
      /\ MuxCredits(e, x)' = MuxCredits(e, x) - a.credit + r.credit
      /\ MuxCredits(p, x)' = MuxCredits(p, x) - (a.buf + c.grant) + (r.buf + b.grant)
    BY <1>h, <1>t, <1>4, MuxOwnerCredits
<1>5. MuxOpening(x)'
    BY <1>h, <1>g, <1>f, <1>z, <1>3, <1>4, <1>2 DEF MuxOpening, MuxComing, MuxFrameTypes, MuxPair, MuxStill
<1>6. MuxSlot(e, x)'
    BY <1>h, <1>g, <1>f, <1>z, <1>3, <1>4, <1>t DEF MuxSlot, MuxPair, MuxStill
<1>7. MuxSlot(p, x)'
    BY <1>h, <1>g, <1>f, <1>z, <1>3, <1>4 DEF MuxSlot, MuxPair, MuxStill
<1>8. MuxClosing(e, x)'
    BY <1>h, <1>g, <1>f, <1>z, <1>3, <1>4 DEF MuxClosing, MuxSilent, MuxFrameTypes, MuxEnded, MuxPair, MuxStill
<1>9. MuxClosing(p, x)'
    BY <1>h, <1>g, <1>f, <1>z, <1>3, <1>4 DEF MuxClosing, MuxFrameTypes, MuxPair, MuxStill
<1>10. MuxFresh(e, x)'
    BY <1>h, <1>g, <1>f, <1>z, <1>3, <1>4 DEF MuxFresh, MuxFrameTypes, MuxPair, MuxStill
<1>11. MuxFresh(p, x)'
    BY <1>h, <1>g, <1>f, <1>z, <1>3, <1>4 DEF MuxFresh, MuxSilent, MuxFrameTypes, MuxPair, MuxStill
<1>12. MuxDelivers(e, x)'
    BY <1>h, <1>g, <1>f, <1>z, <1>3, <1>4 DEF MuxDelivers, MuxAccepts, MuxComing, MuxFrameTypes, MuxPair, MuxStill
<1>13. MuxDelivers(p, x)'
    BY <1>h, <1>g, <1>f, <1>z, <1>3, <1>4 DEF MuxDelivers, MuxAccepts, MuxComing, MuxFrameTypes, MuxEnded, MuxPair, MuxStill
<1>14. MuxCreditKept(e, x)'
  <2>1. MuxCredits(e, x)' = MuxWindow
    <3>1. MuxCredits(e, x) = 0
        BY <1>h, <1>f, <1>z, MuxSums DEF MuxTyped
    <3>q. QED BY <1>c, <1>f, <1>t, <1>3, <3>1
  <2>q. QED BY <1>t, <1>3, <1>4, <2>1 DEF MuxCreditKept
<1>15. MuxCreditKept(p, x)'
  <2>1. MuxCredits(p, x)' = MuxCredits(p, x)
      BY <1>c, <1>f, <1>t, <1>3
  <2>q. QED BY <1>h, <1>f, <1>4, <2>1 DEF MuxCreditKept, MuxPair
<1>q. QED BY <1>4, <1>5, <1>6, <1>7, <1>8, <1>9, <1>10, <1>11, <1>12, <1>13, <1>14, <1>15, MuxKept

\* The step of queue_close as a step of the owner.
LEMMA MuxQueueCloseSets ==
    ASSUME MuxTypeOK, NEW e \in MuxEnds, NEW x \in MuxStreams, NEW at \in MuxAtType, MuxQueueClose(e, x, at),
           muxData' = muxData, muxPipe' = muxPipe, muxWriter' = muxWriter, muxCut' = muxCut
    PROVE  \E h \in BOOLEAN, w \in {at.own, IF at.slot THEN "closing" ELSE "dropping"} :
               MuxOwnerSets(e, x, [at EXCEPT !.own = w], [muxBook[e][x] EXCEPT !.want = TRUE, !.hold = h, !.live = at.slot])
<1> DEFINE c == muxBook[e][x]
<1>0. c \in MuxBookType /\ c.hold \in BOOLEAN
    BY DEF MuxTypeOK, MuxBookType
<1>1. CASE /\ muxAt' = [muxAt EXCEPT ![e][x] = at]
           /\ muxBook' = [muxBook EXCEPT ![e][x] = [@ EXCEPT !.want = TRUE, !.hold = TRUE, !.live = at.slot]]
           /\ MuxWake(e) /\ UNCHANGED muxPreempts
  <2>1. [at EXCEPT !.own = at.own] = at
      BY DEF MuxAtType
  <2>2. MuxOwnerSets(e, x, [at EXCEPT !.own = at.own], [c EXCEPT !.want = TRUE, !.hold = TRUE, !.live = at.slot])
      BY <1>1, <2>1 DEF MuxOwnerSets
  <2>q. QED BY <2>2
<1>2. CASE /\ MuxMayPreempt
           /\ muxAt' = [muxAt EXCEPT ![e][x] = [at EXCEPT !.own = IF at.slot THEN "closing" ELSE "dropping"]]
           /\ muxBook' = [muxBook EXCEPT ![e][x] = [@ EXCEPT !.want = TRUE, !.live = at.slot]]
           /\ UNCHANGED muxControl
  <2>1. [c EXCEPT !.want = TRUE, !.hold = c.hold, !.live = at.slot] = [c EXCEPT !.want = TRUE, !.live = at.slot]
      BY <1>0 DEF MuxBookType
  <2>2. MuxOwnerSets(e, x, [at EXCEPT !.own = IF at.slot THEN "closing" ELSE "dropping"],
                     [c EXCEPT !.want = TRUE, !.hold = c.hold, !.live = at.slot])
      BY <1>2, <2>1 DEF MuxOwnerSets
  <2>q. QED BY <1>0, <2>2
<1>q. QED BY <1>1, <1>2 DEF MuxQueueClose

LEMMA MuxShutdownKeeps ==
    ASSUME MuxInv, NEW e \in MuxEnds, NEW x \in MuxStreams, NEW p, p = MuxPeer(e), MuxShutdown(e, x)
    PROVE  MuxInv'
<1> DEFINE a == muxAt[e][x]
           c == muxBook[e][x]
           at == [a EXCEPT !.own = "shutdown"]
<1>h. MuxPair(e, p, x) /\ MuxTypeOK /\ MuxTyped(e, x)
    BY MuxBoth, MuxNumbers
<1>g. a.own = "open" /\ a.slot /\ c.live /\ a \in MuxAtType /\ c \in MuxBookType
    BY <1>h DEF MuxShutdown, MuxSlot, MuxPair, MuxTyped
<1>1. at \in MuxAtType /\ at.slot /\ at.own = "shutdown"
    BY <1>g DEF MuxAtType
<1>2. PICK h \in BOOLEAN, w \in {at.own, IF at.slot THEN "closing" ELSE "dropping"} :
          MuxOwnerSets(e, x, [at EXCEPT !.own = w], [c EXCEPT !.want = TRUE, !.hold = h, !.live = at.slot])
  <2>1. /\ MuxQueueClose(e, x, at)
        /\ muxData' = muxData /\ muxPipe' = muxPipe /\ muxWriter' = muxWriter /\ muxCut' = muxCut
      BY DEF MuxShutdown
  <2> HIDE DEF at
  <2>q. QED BY <1>h, <1>1, <2>1, MuxQueueCloseSets
<1> DEFINE r == [a EXCEPT !.own = w]
           b == [c EXCEPT !.want = TRUE, !.hold = h, !.live = TRUE]
<1>3. w \in {"shutdown", "closing"}
    BY <1>1, <1>2
<1>4. MuxOwnerSets(e, x, r, b)
  <2>1. [at EXCEPT !.own = w] = r
      BY <1>g DEF MuxAtType
  <2>2. at.slot = TRUE
      BY <1>g DEF MuxAtType
  <2> HIDE DEF at, r
  <2>q. QED BY <1>2, <2>1, <2>2
<1>5. /\ r \in MuxAtType /\ r.own = w
      /\ \A k \in {"left", "sent", "got", "n", "slot", "credit", "flight", "buf", "open", "gone", "eof"} : r[k] = a[k]
  <2>1. r \in MuxAtType /\ r.own = w
      BY <1>g, <1>3 DEF MuxAtType
  <2>2. ASSUME NEW k \in {"left", "sent", "got", "n", "slot", "credit", "flight", "buf", "open", "gone", "eof"}
        PROVE  r[k] = a[k]
      BY <1>g DEF MuxAtType
  <2>q. QED BY <2>1, <2>2
<1>6. /\ b \in MuxBookType /\ b.want = TRUE /\ b.live = TRUE
      /\ \A k \in {"opens", "ready", "grant", "queued", "creditDone", "closeDone"} : b[k] = c[k]
  <2>1. b \in MuxBookType /\ b.want = TRUE /\ b.live = TRUE
      BY <1>g DEF MuxBookType
  <2>2. ASSUME NEW k \in {"opens", "ready", "grant", "queued", "creditDone", "closeDone"}
        PROVE  b[k] = c[k]
      BY <1>g DEF MuxBookType
  <2>q. QED BY <2>1, <2>2
<1> HIDE DEF r, b
<1>7. /\ \A k \in {"opens", "ready", "grant", "live", "queued", "creditDone", "closeDone"} : b[k] = c[k]
      /\ r.own \in MuxEnded /\ (a.slot <=> r.own \in {"closing", "shutdown", "closed"})
      /\ a.own \notin {"none", "writing"} /\ IF a.own = "open" THEN b.want ELSE b.want = c.want
    BY <1>h, <1>g, <1>3, <1>5, <1>6 DEF MuxEnded, MuxTyped, MuxBookType
<1>q. QED BY <1>4, <1>5, <1>6, <1>7, MuxEndsKeeps

LEMMA MuxHeldKeeps ==
    ASSUME MuxInv, NEW e \in MuxEnds, NEW x \in MuxStreams, NEW p, p = MuxPeer(e), MuxHeld(e, x)
    PROVE  MuxInv'
<1> DEFINE a == muxAt[e][x]
           c == muxBook[e][x]
           w == IF a.own = "closing" THEN "shutdown" ELSE "dropped"
           r == [a EXCEPT !.own = w]
           b == [c EXCEPT !.want = c.want, !.hold = TRUE, !.live = c.live]
<1>h. MuxPair(e, p, x) /\ MuxTypeOK /\ MuxTyped(e, x)
    BY MuxBoth, MuxNumbers
<1>g. a.own \in {"closing", "dropping"} /\ a \in MuxAtType /\ c \in MuxBookType /\ c.want \in BOOLEAN /\ c.live \in BOOLEAN
    BY <1>h DEF MuxHeld, MuxTyped, MuxBookType
<1>3. w \in {"shutdown", "dropped"} /\ (w = "shutdown" <=> a.own = "closing")
    BY <1>g
<1>4. MuxOwnerSets(e, x, r, b)
  <2>1. b = [c EXCEPT !.hold = TRUE]
      BY <1>g DEF MuxBookType
  <2>2. muxAt' = [muxAt EXCEPT ![e][x] = r]
      BY DEF MuxHeld
  <2>3. muxBook' = [muxBook EXCEPT ![e][x] = [c EXCEPT !.hold = TRUE]]
      BY DEF MuxHeld
  <2> HIDE DEF r, b
  <2>q. QED BY <2>1, <2>2, <2>3 DEF MuxHeld, MuxOwnerSets
<1> HIDE DEF w
<1>5. /\ r \in MuxAtType /\ r.own = w
      /\ \A k \in {"left", "sent", "got", "n", "slot", "credit", "flight", "buf", "open", "gone", "eof"} : r[k] = a[k]
  <2>1. r \in MuxAtType /\ r.own = w
      BY <1>g, <1>3 DEF MuxAtType
  <2>2. ASSUME NEW k \in {"left", "sent", "got", "n", "slot", "credit", "flight", "buf", "open", "gone", "eof"}
        PROVE  r[k] = a[k]
      BY <1>g DEF MuxAtType
  <2>q. QED BY <2>1, <2>2
<1>6. /\ b \in MuxBookType /\ b.want = c.want /\ b.live = c.live
      /\ \A k \in {"opens", "ready", "grant", "queued", "creditDone", "closeDone"} : b[k] = c[k]
  <2>1. b \in MuxBookType /\ b.want = c.want /\ b.live = c.live
      BY <1>g DEF MuxBookType
  <2>2. ASSUME NEW k \in {"opens", "ready", "grant", "queued", "creditDone", "closeDone"}
        PROVE  b[k] = c[k]
      BY <1>g DEF MuxBookType
  <2>q. QED BY <2>1, <2>2
<1> HIDE DEF r, b
<1>7. /\ \A k \in {"opens", "ready", "grant", "live", "queued", "creditDone", "closeDone"} : b[k] = c[k]
      /\ r.own \in MuxEnded
      /\ a.own \notin {"none", "writing"} /\ IF a.own = "open" THEN b.want ELSE b.want = c.want
    BY <1>g, <1>3, <1>5, <1>6 DEF MuxEnded
<1>8. a.slot <=> r.own \in {"closing", "shutdown", "closed"}
    BY <1>h, <1>g, <1>3, <1>5 DEF MuxPair, MuxSlot
<1>q. QED BY <1>4, <1>5, <1>6, <1>7, <1>8, MuxEndsKeeps

LEMMA MuxShutdownEndsKeeps ==
    ASSUME MuxInv, NEW e \in MuxEnds, NEW x \in MuxStreams, NEW p, p = MuxPeer(e), MuxShutdownEnds(e, x)
    PROVE  MuxInv'
<1> DEFINE a == muxAt[e][x]
           c == muxBook[e][x]
           r == [a EXCEPT !.own = "closed"]
<1>h. MuxPair(e, p, x) /\ MuxTypeOK /\ MuxTyped(e, x)
    BY MuxBoth, MuxNumbers
<1>g. a.own = "shutdown" /\ a.slot /\ a \in MuxAtType /\ c \in MuxBookType
    BY <1>h DEF MuxShutdownEnds, MuxTyped, MuxPair, MuxSlot
<1>4. MuxOwnerSets(e, x, r, c)
  <2>1. muxBook' = [muxBook EXCEPT ![e][x] = c]
      BY <1>h DEF MuxShutdownEnds, MuxTypeOK
  <2>2. muxAt' = [muxAt EXCEPT ![e][x] = r]
      BY DEF MuxShutdownEnds
  <2> HIDE DEF r, c
  <2>q. QED BY <2>1, <2>2 DEF MuxShutdownEnds, MuxOwnerSets
<1>5. /\ r \in MuxAtType /\ r.own = "closed"
      /\ \A k \in {"left", "sent", "got", "n", "slot", "credit", "flight", "buf", "open", "gone", "eof"} : r[k] = a[k]
  <2>1. r \in MuxAtType /\ r.own = "closed"
      BY <1>g DEF MuxAtType
  <2>2. ASSUME NEW k \in {"left", "sent", "got", "n", "slot", "credit", "flight", "buf", "open", "gone", "eof"}
        PROVE  r[k] = a[k]
      BY <1>g DEF MuxAtType
  <2>q. QED BY <2>1, <2>2
<1> HIDE DEF r
<1>7. /\ \A k \in {"opens", "ready", "grant", "live", "queued", "creditDone", "closeDone"} : c[k] = c[k]
      /\ r.own \in MuxEnded /\ (a.slot <=> r.own \in {"closing", "shutdown", "closed"})
      /\ a.own \notin {"none", "writing"} /\ IF a.own = "open" THEN c.want ELSE c.want = c.want
    BY <1>g, <1>5 DEF MuxEnded
<1>q. QED BY <1>g, <1>4, <1>5, <1>7, MuxEndsKeeps

LEMMA MuxReleasedFields ==
    ASSUME MuxTypeOK, NEW e \in MuxEnds, NEW x \in MuxStreams
    PROVE  LET r == MuxReleased(e, x) IN
           /\ r \in MuxAtType /\ r.own = "dropped" /\ r.sent = muxAt[e][x].sent
           /\ \A k \in {"left", "got", "n", "credit", "flight", "buf"} : r[k] = 0
           /\ \A k \in {"slot", "open", "gone", "eof"} : r[k] = FALSE
<1>1. muxAt[e][x].sent \in Nat
    BY MuxNumbers DEF MuxTyped
<1> DEFINE z == MuxNoStream
           r == [z EXCEPT !.own = "dropped", !.sent = muxAt[e][x].sent]
<1>2. 0 \in 0..MuxWindow
    BY MuxAssumption
<1>3. /\ z \in MuxAtType
      /\ \A k \in {"left", "got", "n", "credit", "flight", "buf"} : z[k] = 0
      /\ \A k \in {"slot", "open", "gone", "eof"} : z[k] = FALSE
    BY <1>2 DEF MuxNoStream, MuxAtType
<1>4. MuxReleased(e, x) = r
    BY DEF MuxReleased
<1> HIDE DEF z
<1>5. r \in MuxAtType /\ r.own = "dropped" /\ r.sent = muxAt[e][x].sent
    BY <1>1, <1>3 DEF MuxAtType
<1>6. \A k \in {"left", "got", "n", "credit", "flight", "buf", "slot", "open", "gone", "eof"} : r[k] = z[k]
    BY <1>3 DEF MuxAtType
<1> HIDE DEF r
<1>q. QED BY <1>3, <1>4, <1>5, <1>6

LEMMA MuxDropStepKeeps ==
    ASSUME MuxInv, NEW e \in MuxEnds, NEW x \in MuxStreams, NEW p, p = MuxPeer(e), MuxDrop(e, x)
    PROVE  MuxInv'
<1> DEFINE a == muxAt[e][x]
           c == muxBook[e][x]
           at == MuxReleased(e, x)
<1>h. MuxPair(e, p, x) /\ MuxTypeOK /\ MuxTyped(e, x)
    BY MuxBoth, MuxNumbers
<1>g. a.own # "writing" /\ a.slot /\ a \in MuxAtType /\ c \in MuxBookType /\ c.want \in BOOLEAN /\ c.hold \in BOOLEAN
    BY <1>h DEF MuxDrop, MuxSlot, MuxPair, MuxTyped, MuxBookType
<1>1. /\ at \in MuxAtType /\ at.own = "dropped" /\ at.sent = a.sent
      /\ \A k \in {"left", "got", "n", "credit", "flight", "buf"} : at[k] = 0
      /\ \A k \in {"slot", "open", "gone", "eof"} : at[k] = FALSE
    BY <1>h, MuxReleasedFields
<1>2. CASE a.own = "open" /\ MuxQueueClose(e, x, at)
  <2>1. PICK h \in BOOLEAN, w \in {at.own, IF at.slot THEN "closing" ELSE "dropping"} :
            MuxOwnerSets(e, x, [at EXCEPT !.own = w], [c EXCEPT !.want = TRUE, !.hold = h, !.live = at.slot])
    <3>1. muxData' = muxData /\ muxPipe' = muxPipe /\ muxWriter' = muxWriter /\ muxCut' = muxCut
        BY DEF MuxDrop
    <3> HIDE DEF at
    <3>q. QED BY <1>h, <1>1, <1>2, <3>1, MuxQueueCloseSets
  <2> HIDE DEF at
  <2> DEFINE r == [at EXCEPT !.own = w]
             b == [c EXCEPT !.want = TRUE, !.hold = h, !.live = FALSE]
  <2>2. w \in {"dropped", "dropping"} /\ at.slot = FALSE
      BY <1>1, <2>1
  <2>3. MuxOwnerSets(e, x, r, b)
    <3> HIDE DEF r
    <3>q. QED BY <2>1, <2>2 DEF r
  <2>4. /\ r \in MuxAtType /\ r.own = w
        /\ \A k \in {"left", "sent", "got", "n", "slot", "credit", "flight", "buf", "open", "gone", "eof"} : r[k] = at[k]
    <3>1. r \in MuxAtType /\ r.own = w
        BY <1>1, <2>2 DEF MuxAtType
    <3>2. ASSUME NEW k \in {"left", "sent", "got", "n", "slot", "credit", "flight", "buf", "open", "gone", "eof"}
          PROVE  r[k] = at[k]
        BY <1>1 DEF MuxAtType
    <3>q. QED BY <3>1, <3>2
  <2>5. /\ b \in MuxBookType /\ b.want = TRUE
        /\ \A k \in {"opens", "ready", "grant", "queued", "creditDone", "closeDone"} : b[k] = c[k]
    <3>1. b \in MuxBookType /\ b.want = TRUE
        BY <1>g DEF MuxBookType
    <3>2. ASSUME NEW k \in {"opens", "ready", "grant", "queued", "creditDone", "closeDone"}
          PROVE  b[k] = c[k]
        BY <1>g DEF MuxBookType
    <3>q. QED BY <3>1, <3>2
  <2> HIDE DEF r, b
  <2>6. /\ r.own \in {"dropping", "dropped"} /\ r.sent = a.sent
        /\ \A k \in {"left", "got", "n", "credit", "flight", "buf"} : r[k] = 0
        /\ \A k \in {"slot", "open", "gone", "eof"} : r[k] = FALSE
        /\ IF a.own = "open" THEN b.want ELSE b.want = c.want
      BY <1>1, <1>2, <2>2, <2>4, <2>5
  <2>q. QED BY <1>g, <2>3, <2>4, <2>5, <2>6, MuxDropKeeps
<1>3. CASE /\ a.own \in {"shutdown", "closed"}
           /\ muxAt' = [muxAt EXCEPT ![e][x] = at]
           /\ muxBook' = [muxBook EXCEPT ![e][x].live = FALSE]
           /\ MuxWake(e) /\ UNCHANGED muxPreempts
  <2> DEFINE b == [c EXCEPT !.want = c.want, !.hold = c.hold, !.live = FALSE]
  <2>1. b = [c EXCEPT !.live = FALSE]
      BY <1>g DEF MuxBookType
  <2>2. muxBook' = [muxBook EXCEPT ![e][x] = [c EXCEPT !.live = FALSE]]
      BY <1>3
  <2>3. MuxOwnerSets(e, x, at, b)
    <3> HIDE DEF at, b
    <3>q. QED BY <1>3, <2>1, <2>2 DEF MuxDrop, MuxOwnerSets
  <2>5. /\ b \in MuxBookType /\ b.want = c.want
        /\ \A k \in {"opens", "ready", "grant", "queued", "creditDone", "closeDone"} : b[k] = c[k]
    <3>1. b \in MuxBookType /\ b.want = c.want
        BY <1>g DEF MuxBookType
    <3>2. ASSUME NEW k \in {"opens", "ready", "grant", "queued", "creditDone", "closeDone"}
          PROVE  b[k] = c[k]
        BY <1>g DEF MuxBookType
    <3>q. QED BY <3>1, <3>2
  <2> HIDE DEF at, b
  <2>6. at.own \in {"dropping", "dropped"} /\ IF a.own = "open" THEN b.want ELSE b.want = c.want
      BY <1>1, <1>3, <2>5
  <2>q. QED BY <1>g, <1>1, <2>3, <2>5, <2>6, MuxDropKeeps
<1>q. QED BY <1>2, <1>3 DEF MuxDrop
-----------------------------------------------------------------------------
(* The writer *)

\* What an end that neither sends nor queues keeps of a stream.
MuxQuiet(f, x) ==
    /\ \A t \in MuxFrameTypes : (MuxHas(f, t, x)' <=> MuxHas(f, t, x)) /\ MuxIn(f, t, x)' = MuxIn(f, t, x)
    /\ MuxCloseLast(f, x) => MuxCloseLast(f, x)'
    /\ MuxOpenFirst(f, x) => MuxOpenFirst(f, x)'
    /\ MuxSilent(f, x)' <=> MuxSilent(f, x)
    /\ MuxBytesQueued(f, x)' = MuxBytesQueued(f, x) /\ MuxFramesQueued(f, x)' = MuxFramesQueued(f, x)
    /\ MuxOnWay(f, x)' = MuxOnWay(f, x)

LEMMA MuxQuietFacts ==
    ASSUME NEW f \in MuxEnds, NEW x \in MuxStreams, MuxPipeSame(f, x), MuxQueueSame(f, x)
    PROVE  MuxQuiet(f, x)
<1>1. /\ \A t \in MuxFrameTypes : (MuxHas(f, t, x)' <=> MuxHas(f, t, x)) /\ MuxIn(f, t, x)' = MuxIn(f, t, x)
      /\ MuxCloseLast(f, x) => MuxCloseLast(f, x)'
      /\ MuxOpenFirst(f, x) => MuxOpenFirst(f, x)'
      /\ MuxBytesQueued(f, x)' = MuxBytesQueued(f, x) /\ MuxFramesQueued(f, x)' = MuxFramesQueued(f, x)
    BY DEF MuxPipeSame, MuxQueueSame
<1>2. MuxSilent(f, x)' <=> MuxSilent(f, x)
    BY <1>1 DEF MuxSilent
<1>3. MuxOnWay(f, x)' = MuxOnWay(f, x)
    BY <1>1 DEF MuxOnWay, MuxIn, MuxFrameTypes
<1>q. QED BY <1>1, <1>2, <1>3 DEF MuxQuiet

\* The writer of e sends a frame of stream x, after which its book there is b.
MuxSends(e, x, t, n, b) ==
    /\ MuxSend(e, t, x, n) /\ muxBook' = [muxBook EXCEPT ![e][x] = b]
    /\ muxControl' = muxControl \/ muxControl' = [muxControl EXCEPT ![e].refused = @ \ {x}]
    /\ muxWriter' = muxWriter \/ muxWriter' = [muxWriter EXCEPT ![e].pc = "flush"]
    /\ muxAt' = muxAt /\ muxData' = muxData /\ muxCut' = muxCut /\ muxPreempts' = muxPreempts

\* What that leaves of the stream at both ends.
MuxGrown(e, p, x, t, n) ==
    /\ \A u \in MuxFrameTypes : /\ MuxHas(e, u, x)' <=> MuxHas(e, u, x) \/ u = t
                                /\ MuxIn(e, u, x)' = MuxIn(e, u, x) + IF u = t THEN n ELSE 0
    /\ MuxCloseLast(e, x) /\ ~(t = "data" /\ MuxHas(e, "close", x)) => MuxCloseLast(e, x)'
    /\ MuxOpenFirst(e, x) /\ (t = "open" => MuxSilent(e, x)) => MuxOpenFirst(e, x)'
    /\ MuxBytesQueued(e, x)' = MuxBytesQueued(e, x) /\ MuxFramesQueued(e, x)' = MuxFramesQueued(e, x)
    /\ MuxQuiet(p, x)
    /\ muxAt'[e][x] = muxAt[e][x] /\ muxAt'[p][x] = muxAt[p][x] /\ muxBook'[p][x] = muxBook[p][x]
    /\ muxCut' = muxCut /\ muxPreempts' = muxPreempts
    /\ muxControl'[p] = muxControl[p] /\ muxControl'[e].wake = muxControl[e].wake
    /\ x \in muxControl'[e].refused => x \in muxControl[e].refused
    /\ muxWriter'[p] = muxWriter[p] /\ (muxWriter'[e] = muxWriter[e] \/ muxWriter'[e].pc = "flush")

LEMMA MuxSendsFrame ==
    ASSUME MuxTypeOK, NEW e \in MuxEnds, NEW x \in MuxStreams, NEW p, p = MuxPeer(e), NEW t \in MuxFrameTypes,
           NEW n \in Nat, NEW b \in MuxBookType, MuxSends(e, x, t, n, b)
    PROVE  /\ MuxTypeOK' /\ \A s \in MuxStreams : s # x => MuxSame(s)
           /\ muxBook'[e][x] = b /\ MuxGrown(e, p, x, t, n)
<1>0. p \in MuxEnds /\ p # e /\ muxAt[e][x] \in MuxAtType
    BY MuxPeers DEF MuxTypeOK
<1>1. /\ muxAt' = muxAt /\ muxData' = muxData /\ muxCut' = muxCut /\ muxPreempts' = muxPreempts
      /\ MuxSend(e, t, x, n) /\ muxBook' = [muxBook EXCEPT ![e][x] = b]
    BY DEF MuxSends
<1>2. /\ muxPipe' \in [MuxEnds -> Seq(MuxFrame)]
      /\ \A f \in MuxEnds, s \in MuxStreams : f # e \/ s # x => MuxPipeSame(f, s)
      /\ \A u \in MuxFrameTypes : /\ MuxHas(e, u, x)' <=> MuxHas(e, u, x) \/ u = t
                                  /\ MuxIn(e, u, x)' = MuxIn(e, u, x) + IF u = t THEN n ELSE 0
      /\ MuxCloseLast(e, x) /\ ~(t = "data" /\ MuxHas(e, "close", x)) => MuxCloseLast(e, x)'
      /\ MuxOpenFirst(e, x) /\ (t = "open" => MuxSilent(e, x)) => MuxOpenFirst(e, x)'
    BY <1>1, MuxSent
<1>3. \A f \in MuxEnds, s \in MuxStreams : MuxQueueSame(f, s)
    BY <1>1, MuxSameFrames
<1>4. /\ muxControl' \in [MuxEnds -> [wake : BOOLEAN, refused : SUBSET MuxStreams]]
      /\ \A f \in MuxEnds : /\ muxControl'[f].wake = muxControl[f].wake
                            /\ \A s \in MuxStreams : s # x => (s \in muxControl'[f].refused <=> s \in muxControl[f].refused)
      /\ muxControl'[p] = muxControl[p] /\ muxControl'[e].wake = muxControl[e].wake
      /\ x \in muxControl'[e].refused => x \in muxControl[e].refused
  <2>1. muxControl \in [MuxEnds -> [wake : BOOLEAN, refused : SUBSET MuxStreams]]
      BY DEF MuxTypeOK
  <2>2. CASE muxControl' = muxControl
      BY <2>1, <2>2
  <2>3. CASE muxControl' = [muxControl EXCEPT ![e].refused = @ \ {x}]
      BY <1>0, <2>1, <2>3
  <2>q. QED BY <2>2, <2>3 DEF MuxSends
<1>5. /\ muxWriter' \in [MuxEnds -> [pc : {"flush", "select", "close"}, s : MuxStreams]]
      /\ \A f \in MuxEnds : muxWriter'[f] = muxWriter[f] \/ (f = e /\ muxWriter'[f].pc = "flush")
  <2>1. muxWriter \in [MuxEnds -> [pc : {"flush", "select", "close"}, s : MuxStreams]]
      BY DEF MuxTypeOK
  <2>2. CASE muxWriter' = muxWriter
      BY <2>1, <2>2
  <2>3. CASE muxWriter' = [muxWriter EXCEPT ![e].pc = "flush"]
      BY <2>1, <2>3
  <2>q. QED BY <2>2, <2>3 DEF MuxSends
<1>6. /\ muxAt' = [muxAt EXCEPT ![e][x] = muxAt[e][x]]
      /\ muxData' \in [MuxEnds -> Seq([s : MuxStreams, n : 1..MuxWindow])]
      /\ \A f \in MuxEnds : Len(muxData'[f]) <= MuxQueue
      /\ muxCut \subseteq muxCut' /\ muxCut' \subseteq MuxEnds \X MuxStreams
      /\ muxPreempts' \in 0..MuxMaxPreempts /\ muxPreempts <= muxPreempts'
  <2>1. /\ muxAt \in [MuxEnds -> [MuxStreams -> MuxAtType]] /\ muxPreempts \in Nat
        /\ muxPreempts \in 0..MuxMaxPreempts
      BY MuxAssumption DEF MuxTypeOK
  <2>2. muxAt' = [muxAt EXCEPT ![e][x] = muxAt[e][x]]
      BY <1>1, <2>1
  <2>3. muxPreempts' \in 0..MuxMaxPreempts /\ muxPreempts <= muxPreempts'
      BY <1>1, <2>1
  <2>q. QED BY <1>1, <2>2, <2>3 DEF MuxTypeOK
<1>7. MuxAbout(e, x, muxAt[e][x], b)
    BY <1>1, <1>2, <1>3, <1>4, <1>5, <1>6 DEF MuxAbout
<1>8. /\ MuxTypeOK' /\ \A s \in MuxStreams : s # x => MuxSame(s)
      /\ muxAt'[e][x] = muxAt[e][x] /\ muxBook'[e][x] = b
      /\ muxAt'[p][x] = muxAt[p][x] /\ muxBook'[p][x] = muxBook[p][x]
    BY <1>0, <1>7, MuxStepFrame
<1>9. MuxQuiet(p, x)
    BY <1>0, <1>2, <1>3, MuxQuietFacts
<1>10. MuxGrown(e, p, x, t, n)
  <2>1. MuxBytesQueued(e, x)' = MuxBytesQueued(e, x) /\ MuxFramesQueued(e, x)' = MuxFramesQueued(e, x)
      BY <1>3 DEF MuxQueueSame
  <2>2. muxWriter'[p] = muxWriter[p] /\ (muxWriter'[e] = muxWriter[e] \/ muxWriter'[e].pc = "flush")
      BY <1>0, <1>5
  <2>q. QED BY <1>1, <1>2, <1>4, <1>8, <1>9, <2>1, <2>2 DEF MuxGrown
<1>q. QED BY <1>8, <1>10

LEMMA MuxGrownSums ==
    ASSUME NEW e \in MuxEnds, NEW x \in MuxStreams, NEW p, p = MuxPeer(e), MuxPair(e, p, x), MuxTyped(e, x), MuxTyped(p, x),
           NEW t \in MuxFrameTypes, NEW n \in Nat, NEW b, b.grant \in Nat, muxBook'[e][x] = b, MuxGrown(e, p, x, t, n),
           t # "data"
    PROVE  /\ MuxOnWay(e, x)' = MuxOnWay(e, x) /\ MuxOnWay(p, x)' = MuxOnWay(p, x)
           /\ MuxCredits(e, x)' = MuxCredits(e, x)
           /\ b.grant + (IF t = "window" THEN n ELSE 0) = muxBook[e][x].grant => MuxCredits(p, x)' = MuxCredits(p, x)
<1> DEFINE w == IF t = "window" THEN n ELSE 0
<1>1. p \in MuxEnds /\ MuxPeer(p) = e
    BY DEF MuxPair
<1>2. /\ MuxOnWay(e, x) = MuxBytesQueued(e, x) + MuxIn(e, "data", x)
      /\ MuxOnWay(e, x)' = MuxBytesQueued(e, x)' + MuxIn(e, "data", x)'
      /\ MuxCredits(e, x) = muxAt[e][x].credit + MuxOnWay(e, x) + muxAt[p][x].buf + muxBook[p][x].grant
                            + MuxIn(p, "window", x)
      /\ MuxCredits(e, x)' = muxAt'[e][x].credit + MuxOnWay(e, x)' + muxAt'[p][x].buf + muxBook'[p][x].grant
                             + MuxIn(p, "window", x)'
    BY MuxSums
<1>3. /\ MuxOnWay(p, x) = MuxBytesQueued(p, x) + MuxIn(p, "data", x)
      /\ MuxCredits(p, x) = muxAt[p][x].credit + MuxOnWay(p, x) + muxAt[e][x].buf + muxBook[e][x].grant
                            + MuxIn(e, "window", x)
      /\ MuxCredits(p, x)' = muxAt'[p][x].credit + MuxOnWay(p, x)' + muxAt'[e][x].buf + b.grant + MuxIn(e, "window", x)'
    BY <1>1, MuxSums
<1>4. /\ MuxIn(e, "data", x)' = MuxIn(e, "data", x) + 0 /\ MuxIn(e, "window", x)' = MuxIn(e, "window", x) + w
      /\ MuxIn(p, "window", x)' = MuxIn(p, "window", x) /\ MuxBytesQueued(e, x)' = MuxBytesQueued(e, x)
      /\ MuxOnWay(p, x)' = MuxOnWay(p, x) /\ w \in Nat
      /\ muxAt'[e][x] = muxAt[e][x] /\ muxAt'[p][x] = muxAt[p][x] /\ muxBook'[p][x] = muxBook[p][x]
    BY DEF MuxGrown, MuxQuiet, MuxFrameTypes
<1>5. \A f \in {e, p} : /\ MuxIn(f, "data", x) \in Nat /\ MuxIn(f, "window", x) \in Nat /\ MuxBytesQueued(f, x) \in Nat
                        /\ muxAt[f][x].credit \in Nat /\ muxAt[f][x].buf \in Nat /\ muxBook[f][x].grant \in Nat
    BY <1>1 DEF MuxTyped, MuxFrameTypes
<1> HIDE DEF w
<1>6. MuxOnWay(e, x) \in Nat /\ MuxOnWay(p, x) \in Nat /\ MuxOnWay(e, x)' = MuxOnWay(e, x)
    BY <1>2, <1>3, <1>4, <1>5
<1>7. MuxCredits(e, x)' = MuxCredits(e, x)
    BY <1>2, <1>4, <1>6
<1>8. b.grant + w = muxBook[e][x].grant => MuxCredits(p, x)' = MuxCredits(p, x)
    BY <1>3, <1>4, <1>5, <1>6
<1>q. QED BY <1>4, <1>6, <1>7, <1>8 DEF w

\* What the writer may make of the book of a stream, whether it sends a frame
\* or not: it grants credit, ends a record, or sends what was owed.
MuxTidies(e, x, b) ==
    LET a == muxAt[e][x]  c == muxBook[e][x] IN
    /\ b.queued = c.queued /\ ~b.opens /\ (b.want => c.want) /\ (b.hold => c.hold)
    /\ a.slot => b.live /\ ~b.creditDone
    /\ b.creditDone => b.grant = 0
    /\ a.own \in MuxEnded /\ ~b.want => c.queued = 0
    /\ b.closeDone => ~b.want /\ (c.closeDone \/ c.hold)
    /\ a.own = "none" => b = c
MuxOwes(e, x, t, n, b) ==
    LET a == muxAt[e][x]  c == muxBook[e][x] IN
    /\ b.grant + (IF t = "window" THEN n ELSE 0) = c.grant
    /\ IF t = "open" THEN c.opens ELSE ~c.opens
    /\ t = "close" => a.own \in MuxEnded \cup {"none"} /\ ~b.want
    /\ t = "window" => n > 0
    /\ a.own = "none" => t = "close" /\ x \in muxControl[e].refused

\* A frame other than data.
LEMMA MuxSendsKeeps ==
    ASSUME MuxInv, NEW e \in MuxEnds, NEW x \in MuxStreams, NEW p, p = MuxPeer(e), NEW t \in MuxFrameTypes, t # "data",
           NEW n \in Nat, NEW b \in MuxBookType, MuxSends(e, x, t, n, b), MuxTidies(e, x, b), MuxOwes(e, x, t, n, b)
    PROVE  MuxInv'
<1> DEFINE a == muxAt[e][x]
           c == muxBook[e][x]
<1>h. MuxPair(e, p, x) /\ MuxTypeOK /\ p \in MuxEnds /\ MuxTyped(e, x) /\ MuxTyped(p, x)
    BY MuxBoth, MuxNumbers
<1>1. /\ b.queued = c.queued /\ ~b.opens /\ (b.want => c.want) /\ (b.hold => c.hold)
      /\ a.slot => b.live /\ ~b.creditDone
      /\ b.creditDone => b.grant = 0
      /\ a.own \in MuxEnded /\ ~b.want => c.queued = 0
      /\ b.closeDone => ~b.want /\ (c.closeDone \/ c.hold)
      /\ a.own = "none" => b = c
    BY DEF MuxTidies
<1>2. /\ b.grant + (IF t = "window" THEN n ELSE 0) = c.grant
      /\ IF t = "open" THEN c.opens ELSE ~c.opens
      /\ t = "close" => a.own \in MuxEnded \cup {"none"} /\ ~b.want
      /\ t = "window" => n > 0
      /\ a.own = "none" => t = "close" /\ x \in muxControl[e].refused
      /\ t \in {"open", "close", "window"}
    BY DEF MuxOwes, MuxFrameTypes
<1>4. /\ MuxTypeOK' /\ \A s \in MuxStreams : s # x => MuxSame(s)
      /\ muxBook'[e][x] = b /\ MuxGrown(e, p, x, t, n)
    BY <1>h, MuxSendsFrame
<1>t. b.grant \in Nat /\ c.grant \in Nat /\ n \in Nat
    BY <1>h DEF MuxTyped, MuxBookType
<1>c. /\ MuxOnWay(e, x)' = MuxOnWay(e, x) /\ MuxOnWay(p, x)' = MuxOnWay(p, x)
      /\ MuxCredits(e, x)' = MuxCredits(e, x) /\ MuxCredits(p, x)' = MuxCredits(p, x)
    BY <1>h, <1>t, <1>2, <1>4, MuxGrownSums
\* The Open is the opener's first frame, and a stream that was seen sends on.
<1>s. /\ MuxComing(x)' <=> MuxComing(x)
      /\ MuxOpener[x] = p => ~MuxComing(x) /\ t # "open"
  <2>1. CASE MuxOpener[x] = e
    <3>1. MuxHas(e, "open", x)' <=> MuxHas(e, "open", x) \/ t = "open"
        BY <1>4 DEF MuxGrown, MuxFrameTypes
    <3>q. QED BY <1>h, <1>1, <1>2, <1>4, <2>1, <3>1 DEF MuxComing, MuxPair
  <2>2. CASE MuxOpener[x] = p
    <3>1. MuxHas(p, "open", x)' <=> MuxHas(p, "open", x)
        BY <1>4 DEF MuxGrown, MuxQuiet, MuxFrameTypes
    <3>2. ~MuxComing(x)
        BY <1>h, <1>2, <2>2 DEF MuxOpening, MuxPair
    <3>3. t # "open"
        BY <1>h, <1>2, <2>2 DEF MuxOpening, MuxPair
    <3>q. QED BY <1>4, <2>2, <3>1, <3>2, <3>3 DEF MuxComing, MuxGrown
  <2>q. QED BY <1>h, <2>1, <2>2 DEF MuxPair
<1>v. (MuxAccepts(e, x)' <=> MuxAccepts(e, x)) /\ (MuxAccepts(p, x)' <=> MuxAccepts(p, x))
    BY <1>4, <1>s DEF MuxAccepts, MuxGrown
<1>5. MuxOpening(x)'
  <2>1. CASE MuxOpener[x] = e
    <3>1. MuxOpenFirst(e, x)'
        BY <1>h, <1>2, <1>4, <2>1 DEF MuxOpening, MuxGrown, MuxPair
    <3>q. QED BY <1>h, <1>1, <1>4, <1>s, <2>1, <3>1 DEF MuxOpening, MuxGrown, MuxQuiet, MuxFrameTypes, MuxPair
  <2>2. CASE MuxOpener[x] = p
    <3>1. MuxOpenFirst(p, x)'
        BY <1>h, <1>4, <2>2 DEF MuxOpening, MuxGrown, MuxQuiet, MuxPair
    <3>2. ~MuxHas(e, "open", x)'
        BY <1>h, <1>4, <1>s, <2>2 DEF MuxOpening, MuxGrown, MuxFrameTypes, MuxPair
    <3>q. QED BY <1>h, <1>1, <1>4, <1>s, <2>2, <3>1, <3>2 DEF MuxOpening, MuxGrown, MuxQuiet, MuxFrameTypes, MuxPair
  <2>q. QED BY <1>h, <2>1, <2>2 DEF MuxPair
<1>6. MuxSlot(e, x)'
    BY <1>h, <1>1, <1>4 DEF MuxSlot, MuxGrown, MuxPair
<1>7. MuxSlot(p, x)'
    BY <1>h, <1>4 DEF MuxSlot, MuxGrown, MuxPair
<1>8. MuxClosing(e, x)'
  <2>1. MuxCloseLast(e, x)'
      BY <1>h, <1>2, <1>4 DEF MuxClosing, MuxGrown, MuxPair
  <2>2. MuxHas(e, "close", x)' <=> MuxHas(e, "close", x) \/ t = "close"
      BY <1>4 DEF MuxGrown, MuxFrameTypes
  <2>3. muxWriter'[e] = [pc |-> "close", s |-> x] => muxWriter[e] = [pc |-> "close", s |-> x]
      BY <1>4 DEF MuxGrown
  <2>q. QED BY <1>h, <1>1, <1>2, <1>4, <2>1, <2>2, <2>3 DEF MuxClosing, MuxGrown, MuxPair
<1>9. MuxClosing(p, x)'
    BY <1>h, <1>4 DEF MuxClosing, MuxGrown, MuxQuiet, MuxFrameTypes, MuxPair
<1>10. MuxFresh(e, x)'
  <2>1. muxAt[e][x].own = "none" => MuxOpener[x] = p
      BY <1>h, <1>2 DEF MuxOpening, MuxPair
  <2>q. QED BY <1>h, <1>1, <1>2, <1>4, <2>1 DEF MuxFresh, MuxGrown, MuxQuiet, MuxFrameTypes, MuxPair
<1>11. MuxFresh(p, x)'
  <2>1. muxAt[p][x].own = "none" => t # "window"
      BY <1>h, <1>t, <1>2 DEF MuxFresh, MuxPair
  <2>2. muxAt[p][x].own = "none" => MuxOpener[x] = e
      BY <1>h, <1>2 DEF MuxFresh, MuxPair
  <2>3. muxAt[p][x].own = "none" => b.grant = 0
      BY <1>h, <1>t, <1>2, <2>1 DEF MuxFresh, MuxPair
  <2>q. QED BY <1>h, <1>4, <2>1, <2>2, <2>3 DEF MuxFresh, MuxGrown, MuxQuiet, MuxFrameTypes, MuxPair
<1>12. MuxDelivers(e, x)'
    BY <1>h, <1>4, <1>c, <1>v DEF MuxDelivers, MuxGrown, MuxPair
<1>13. MuxDelivers(p, x)'
    BY <1>h, <1>4, <1>c, <1>v DEF MuxDelivers, MuxGrown, MuxPair
<1>14. MuxCreditKept(e, x)'
    BY <1>h, <1>4, <1>c, <1>v DEF MuxCreditKept, MuxGrown, MuxPair
<1>15. MuxCreditKept(p, x)'
    BY <1>h, <1>4, <1>c, <1>v DEF MuxCreditKept, MuxGrown, MuxPair
<1>q. QED BY <1>4, <1>5, <1>6, <1>7, <1>8, <1>9, <1>10, <1>11, <1>12, <1>13, <1>14, <1>15, MuxKept

\* No frame: the book alone changes.
LEMMA MuxTidiesKeeps ==
    ASSUME MuxInv, NEW e \in MuxEnds, NEW x \in MuxStreams, NEW p, p = MuxPeer(e), NEW b \in MuxBookType,
           MuxOwnerSets(e, x, muxAt[e][x], b), MuxTidies(e, x, b), ~muxBook[e][x].opens, b.grant = muxBook[e][x].grant
    PROVE  MuxInv'
<1> DEFINE a == muxAt[e][x]
           c == muxBook[e][x]
           r == muxAt[e][x]
<1>h. MuxPair(e, p, x) /\ MuxTypeOK /\ p \in MuxEnds /\ MuxTyped(e, x) /\ MuxTyped(p, x)
    BY MuxBoth, MuxNumbers
<1>1. a \in MuxAtType /\ b \in MuxBookType
    BY <1>h DEF MuxTyped
<1>2. MuxOwnerSets(e, x, r, b)
    OBVIOUS
<1>3. /\ b.queued = c.queued /\ ~b.opens /\ ~c.opens /\ (b.want => c.want) /\ (b.hold => c.hold) /\ b.grant = c.grant
      /\ a.slot => b.live /\ ~b.creditDone
      /\ b.creditDone => b.grant = 0
      /\ a.own \in MuxEnded /\ ~b.want => c.queued = 0
      /\ b.closeDone => ~b.want /\ (c.closeDone \/ c.hold)
      /\ a.own = "none" => b = c
    BY DEF MuxTidies
<1>4. /\ MuxTypeOK' /\ \A s \in MuxStreams : s # x => MuxSame(s)
      /\ muxAt'[e][x] = r /\ muxBook'[e][x] = b
      /\ muxAt'[p][x] = muxAt[p][x] /\ muxBook'[p][x] = muxBook[p][x]
      /\ MuxStill(x)
    BY <1>h, <1>1, <1>2, MuxOwnerFrame
<1>t. /\ a.credit \in Nat /\ a.buf \in Nat /\ c.grant \in Nat /\ a.n \in Nat /\ a.sent \in Nat /\ a.got \in Nat
      /\ r.credit \in Nat /\ r.buf \in Nat /\ b.grant \in Nat /\ MuxWindow \in Nat
    BY <1>h, <1>1 DEF MuxTyped, MuxAtType, MuxBookType
<1>c. /\ MuxCredits(e, x) \in Nat /\ MuxCredits(p, x) \in Nat
      /\ MuxCredits(e, x)' = MuxCredits(e, x) - a.credit + r.credit
      /\ MuxCredits(p, x)' = MuxCredits(p, x) - (a.buf + c.grant) + (r.buf + b.grant)
    BY <1>h, <1>t, <1>4, MuxOwnerCredits
<1>5. MuxOpening(x)'
    BY <1>h, <1>3, <1>4 DEF MuxOpening, MuxComing, MuxFrameTypes, MuxPair, MuxStill
<1>6. MuxSlot(e, x)'
    BY <1>h, <1>3, <1>4 DEF MuxSlot, MuxPair, MuxStill
<1>7. MuxSlot(p, x)'
    BY <1>h, <1>3, <1>4 DEF MuxSlot, MuxPair, MuxStill
<1>8. MuxClosing(e, x)'
    BY <1>h, <1>3, <1>4 DEF MuxClosing, MuxFrameTypes, MuxEnded, MuxPair, MuxStill
<1>9. MuxClosing(p, x)'
    BY <1>h, <1>3, <1>4 DEF MuxClosing, MuxFrameTypes, MuxPair, MuxStill
<1>10. MuxFresh(e, x)'
    BY <1>h, <1>3, <1>4 DEF MuxFresh, MuxFrameTypes, MuxPair, MuxStill
<1>11. MuxFresh(p, x)'
    BY <1>h, <1>3, <1>4 DEF MuxFresh, MuxFrameTypes, MuxPair, MuxStill
<1>12. MuxDelivers(e, x)'
    BY <1>h, <1>3, <1>4 DEF MuxDelivers, MuxAccepts, MuxComing, MuxFrameTypes, MuxPair, MuxStill
<1>13. MuxDelivers(p, x)'
    BY <1>h, <1>3, <1>4 DEF MuxDelivers, MuxAccepts, MuxComing, MuxFrameTypes, MuxEnded, MuxPair, MuxStill
<1>14. MuxCreditKept(e, x)'
  <2>1. MuxCredits(e, x)' = MuxCredits(e, x)
      BY <1>c, <1>t, <1>3
  <2>q. QED BY <1>h, <1>3, <1>4, <2>1 DEF MuxCreditKept, MuxAccepts, MuxComing, MuxFrameTypes, MuxPair, MuxStill
<1>15. MuxCreditKept(p, x)'
  <2>1. MuxCredits(p, x)' = MuxCredits(p, x)
      BY <1>c, <1>t, <1>3
  <2>q. QED BY <1>h, <1>3, <1>4, <2>1 DEF MuxCreditKept, MuxAccepts, MuxComing, MuxFrameTypes, MuxPair, MuxStill
<1>q. QED BY <1>4, <1>5, <1>6, <1>7, <1>8, <1>9, <1>10, <1>11, <1>12, <1>13, <1>14, <1>15, MuxKept

\* Fields of the book after the writer's steps.
LEMMA MuxNoBookFields ==
    /\ MuxNoBook \in MuxBookType /\ ~MuxNoBook.opens /\ MuxNoBook.ready /\ MuxNoBook.grant = 0 /\ MuxNoBook.queued = 0
    /\ ~MuxNoBook.want /\ ~MuxNoBook.hold /\ MuxNoBook.closeDone /\ ~MuxNoBook.live /\ ~MuxNoBook.creditHold
    /\ MuxNoBook.creditDone /\ ~MuxNoBook.flag
<1>1. 0 \in 0..MuxWindow /\ 0 \in 0..MuxQueue
    BY MuxAssumption
<1>q. QED BY <1>1 DEF MuxNoBook, MuxBookType

\* A step of the writer finds the Open written, or writes it.
LEMMA MuxReadyStream ==
    ASSUME MuxInv, NEW e \in MuxEnds, NEW x \in MuxStreams, muxBook[e][x].ready
    PROVE  ~muxBook[e][x].opens
<1> DEFINE p == MuxPeer(e)
<1>1. MuxPair(e, p, x)
    BY MuxBoth
<1> HIDE DEF p
<1>q. QED BY <1>1 DEF MuxPair, MuxOpening

LEMMA MuxWriteOpenKeeps ==
    ASSUME MuxInv, NEW e \in MuxEnds, NEW x \in MuxStreams, NEW p, p = MuxPeer(e), MuxWriteOpen(e, x)
    PROVE  MuxInv'
<1> DEFINE a == muxAt[e][x]
           c == muxBook[e][x]
           b == [c EXCEPT !.opens = FALSE, !.ready = TRUE]
<1>h. MuxPair(e, p, x) /\ MuxTypeOK /\ p \in MuxEnds /\ MuxTyped(e, x) /\ MuxTyped(p, x)
    BY MuxBoth, MuxNumbers
<1>1. c.opens /\ c \in MuxBookType /\ c.grant \in Nat
    BY <1>h DEF MuxWriteOpen, MuxTyped
<1>2. /\ b \in MuxBookType /\ ~b.opens /\ b.queued = c.queued /\ b.want = c.want /\ b.hold = c.hold /\ b.live = c.live
      /\ b.creditDone = c.creditDone /\ b.closeDone = c.closeDone /\ b.grant = c.grant
    BY <1>1 DEF MuxBookType
<1>3. MuxSends(e, x, "open", 0, b)
    BY DEF MuxWriteOpen, MuxSends
<1> HIDE DEF b
<1>4. a.own # "none"
    BY <1>h, <1>1, MuxNoBookFields DEF MuxPair, MuxFresh
<1>5. MuxTidies(e, x, b)
    BY <1>h, <1>2, <1>4 DEF MuxTidies, MuxPair, MuxSlot, MuxClosing
<1>6. MuxOwes(e, x, "open", 0, b)
    BY <1>1, <1>2, <1>4 DEF MuxOwes
<1>q. QED BY <1>2, <1>3, <1>5, <1>6, MuxSendsKeeps DEF MuxFrameTypes

LEMMA MuxWriteCreditKeeps ==
    ASSUME MuxInv, NEW e \in MuxEnds, NEW x \in MuxStreams, NEW p, p = MuxPeer(e), MuxWriteCredit(e, x)
    PROVE  MuxInv'
<1> DEFINE a == muxAt[e][x]
           c == muxBook[e][x]
           z == [c EXCEPT !.grant = 0, !.creditHold = c.live, !.creditDone = ~c.live]
           b == MuxMark(z)
<1>h. MuxPair(e, p, x) /\ MuxTypeOK /\ p \in MuxEnds /\ MuxTyped(e, x) /\ MuxTyped(p, x)
    BY MuxBoth, MuxNumbers
<1>1. /\ c.creditHold /\ c.ready /\ (c.grant > 0 \/ ~c.live) /\ c \in MuxBookType /\ c.grant \in Nat
      /\ c.live \in BOOLEAN /\ c.closeDone \in BOOLEAN /\ 0 \in 0..MuxWindow
    BY <1>h DEF MuxWriteCredit, MuxHasCredit, MuxTyped, MuxBookType
<1>2. ~c.opens
    BY <1>1, MuxReadyStream
<1>3. a.own # "none"
    BY <1>h, <1>1, MuxNoBookFields DEF MuxPair, MuxFresh
<1>4. /\ z \in MuxBookType /\ z.opens = c.opens /\ z.queued = c.queued /\ z.want = c.want /\ z.hold = c.hold
      /\ z.live = c.live /\ z.creditDone = ~c.live /\ z.closeDone = c.closeDone /\ z.grant = 0
    BY <1>1 DEF MuxBookType
<1> HIDE DEF z
<1>5. b = IF z.creditDone /\ z.closeDone THEN MuxNoBook ELSE z
    BY DEF MuxMark
<1>6. c.closeDone => c.queued = 0 /\ ~c.want
    BY <1>h, <1>3 DEF MuxPair, MuxClosing
<1>7. a.slot => c.live /\ ~c.creditDone
    BY <1>h DEF MuxPair, MuxSlot
<1>8. /\ b \in MuxBookType /\ ~b.opens /\ b.queued = c.queued /\ (b.want => c.want) /\ (b.hold => c.hold)
      /\ b.grant = 0 /\ (a.slot => b.live /\ ~b.creditDone) /\ (b.closeDone => c.closeDone) /\ (~b.want => ~c.want)
    BY <1>2, <1>4, <1>5, <1>6, <1>7, MuxNoBookFields
<1>9. MuxTidies(e, x, b)
  <2>1. a.own \in MuxEnded /\ ~c.want => c.queued = 0
      BY <1>h DEF MuxPair, MuxClosing
  <2> HIDE DEF b
  <2>q. QED BY <1>3, <1>6, <1>8, <2>1 DEF MuxTidies
<1>10. /\ muxBook' = [muxBook EXCEPT ![e][x] = b] /\ muxAt' = muxAt /\ muxData' = muxData /\ muxControl' = muxControl
       /\ muxWriter' = muxWriter /\ muxCut' = muxCut /\ muxPreempts' = muxPreempts
    BY DEF MuxWriteCredit, z
<1>11. IF c.grant > 0 THEN MuxSend(e, "window", x, c.grant) ELSE muxPipe' = muxPipe
    BY DEF MuxWriteCredit
<1> HIDE DEF b
<1>12. CASE c.grant > 0
  <2>1. MuxSends(e, x, "window", c.grant, b)
      BY <1>10, <1>11, <1>12 DEF MuxSends
  <2>2. MuxOwes(e, x, "window", c.grant, b)
      BY <1>1, <1>2, <1>3, <1>8, <1>12 DEF MuxOwes
  <2>q. QED BY <1>1, <1>8, <1>9, <2>1, <2>2, MuxSendsKeeps DEF MuxFrameTypes
<1>13. CASE ~(c.grant > 0)
  <2>1. b.grant = c.grant
      BY <1>1, <1>8, <1>13
  <2>2. muxAt' = [muxAt EXCEPT ![e][x] = muxAt[e][x]]
      BY <1>h, <1>10 DEF MuxTypeOK
  <2>3. MuxOwnerSets(e, x, muxAt[e][x], b)
      BY <1>10, <1>11, <1>13, <2>2 DEF MuxOwnerSets
  <2>q. QED BY <1>2, <1>8, <1>9, <2>1, <2>3, MuxTidiesKeeps
<1>q. QED BY <1>12, <1>13

LEMMA MuxWriteCloseKeeps ==
    ASSUME MuxInv, NEW e \in MuxEnds, NEW x \in MuxStreams, NEW p, p = MuxPeer(e), MuxWriteClose(e, x)
    PROVE  MuxInv'
<1> DEFINE a == muxAt[e][x]
           c == muxBook[e][x]
           z == [c EXCEPT !.want = FALSE, !.hold = FALSE, !.closeDone = TRUE, !.flag = @ \/ c.want]
           b == MuxMark(z)
<1>h. MuxPair(e, p, x) /\ MuxTypeOK /\ p \in MuxEnds /\ MuxTyped(e, x) /\ MuxTyped(p, x)
    BY MuxBoth, MuxNumbers
<1>1. /\ c.hold /\ c.ready /\ (c.want => c.queued = 0) /\ c \in MuxBookType /\ c.grant \in Nat
    BY <1>h DEF MuxWriteClose, MuxCloseReady, MuxTyped
<1>0. c.want \in BOOLEAN /\ c.flag \in BOOLEAN /\ c.creditDone \in BOOLEAN /\ (c.flag \/ c.want) \in BOOLEAN
    BY <1>1 DEF MuxBookType
<1>2. ~c.opens
    BY <1>1, MuxReadyStream
<1>3. a.own \in MuxEnded /\ a.own # "none"
    BY <1>h, <1>1 DEF MuxPair, MuxClosing, MuxEnded
<1>4. /\ z \in MuxBookType /\ z.opens = c.opens /\ z.queued = c.queued /\ ~z.want /\ ~z.hold
      /\ z.live = c.live /\ z.creditDone = c.creditDone /\ z.closeDone /\ z.grant = c.grant
    BY <1>0, <1>1 DEF MuxBookType
<1> HIDE DEF z
<1>5. b = IF z.creditDone /\ z.closeDone THEN MuxNoBook ELSE z
    BY DEF MuxMark
<1>6. c.queued = 0
    BY <1>h, <1>1, <1>3 DEF MuxPair, MuxClosing
<1>7. (a.slot => c.live /\ ~c.creditDone)
    BY <1>h DEF MuxPair, MuxSlot
<1>g. c.creditDone => c.grant = 0
    BY <1>h, <1>3 DEF MuxPair, MuxSlot
<1>8. /\ b \in MuxBookType /\ ~b.opens /\ b.queued = c.queued /\ ~b.want /\ ~b.hold
      /\ b.grant = c.grant /\ (a.slot => b.live /\ ~b.creditDone) /\ (b.creditDone => b.grant = 0)
    BY <1>2, <1>4, <1>5, <1>6, <1>7, <1>g, MuxNoBookFields
<1> HIDE DEF b
<1>9. MuxTidies(e, x, b)
    BY <1>1, <1>3, <1>6, <1>8 DEF MuxTidies
<1>10. /\ muxBook' = [muxBook EXCEPT ![e][x] = b] /\ muxAt' = muxAt /\ muxData' = muxData /\ muxControl' = muxControl
       /\ muxWriter' = muxWriter /\ muxCut' = muxCut /\ muxPreempts' = muxPreempts
    BY DEF MuxWriteClose, z, b
<1>11. IF c.want THEN MuxSend(e, "close", x, 0) ELSE muxPipe' = muxPipe
    BY DEF MuxWriteClose
<1>12. CASE c.want
  <2>1. MuxSends(e, x, "close", 0, b)
      BY <1>10, <1>11, <1>12 DEF MuxSends
  <2>2. MuxOwes(e, x, "close", 0, b)
      BY <1>1, <1>2, <1>3, <1>8, <1>12 DEF MuxOwes
  <2>q. QED BY <1>1, <1>8, <1>9, <2>1, <2>2, MuxSendsKeeps DEF MuxFrameTypes
<1>13. CASE ~c.want
  <2>2. muxAt' = [muxAt EXCEPT ![e][x] = muxAt[e][x]]
      BY <1>h, <1>10 DEF MuxTypeOK
  <2>3. MuxOwnerSets(e, x, muxAt[e][x], b)
      BY <1>10, <1>11, <1>13, <2>2 DEF MuxOwnerSets
  <2>q. QED BY <1>2, <1>8, <1>9, <2>3, MuxTidiesKeeps
<1>q. QED BY <1>12, <1>13

LEMMA MuxEmitCloseKeeps ==
    ASSUME MuxInv, NEW e \in MuxEnds, NEW p, p = MuxPeer(e), MuxEmitClose(e)
    PROVE  MuxInv'
<1> DEFINE x == muxWriter[e].s
           a == muxAt[e][x]
           c == muxBook[e][x]
           b == [c EXCEPT !.flag = @ \/ c.hold]
<1>0. x \in MuxStreams /\ muxWriter[e] = [pc |-> "close", s |-> x]
    BY DEF MuxEmitClose, MuxInv, MuxTypeOK
<1>b. /\ MuxSend(e, "close", x, 0)
      /\ muxBook' = [muxBook EXCEPT ![e][x].flag = @ \/ muxBook[e][x].hold]
      /\ muxWriter' = [muxWriter EXCEPT ![e].pc = "flush"]
    BY DEF MuxEmitClose
<1> HIDE DEF x
<1>h. MuxPair(e, p, x) /\ MuxTypeOK /\ p \in MuxEnds /\ MuxTyped(e, x) /\ MuxTyped(p, x)
    BY <1>0, MuxBoth, MuxNumbers
<1>1. c \in MuxBookType /\ (c.flag \/ c.hold) \in BOOLEAN /\ c.grant \in Nat
    BY <1>h DEF MuxTyped, MuxBookType
<1>2. /\ b \in MuxBookType /\ b.opens = c.opens /\ b.queued = c.queued /\ b.want = c.want /\ b.hold = c.hold /\ b.live = c.live
      /\ b.creditDone = c.creditDone /\ b.closeDone = c.closeDone /\ b.grant = c.grant
    BY <1>1 DEF MuxBookType
<1>3. a.own \in MuxEnded /\ ~c.want /\ ~c.opens /\ a.own # "none"
    BY <1>h, <1>0 DEF MuxPair, MuxClosing, MuxEnded
<1>4. muxBook' = [muxBook EXCEPT ![e][x] = b]
    BY <1>b
<1> HIDE DEF b
<1>5. MuxSends(e, x, "close", 0, b)
    BY <1>4, <1>b DEF MuxEmitClose, MuxSends
<1>6. MuxTidies(e, x, b)
    BY <1>h, <1>2, <1>3 DEF MuxTidies, MuxPair, MuxSlot, MuxClosing
<1>7. MuxOwes(e, x, "close", 0, b)
    BY <1>1, <1>2, <1>3 DEF MuxOwes
<1>q. QED BY <1>0, <1>2, <1>5, <1>6, <1>7, MuxSendsKeeps DEF MuxFrameTypes

\* The reader refused an Open: its Close goes out.
MuxRefuses(e, x) ==
    /\ x \in muxControl[e].refused /\ MuxSend(e, "close", x, 0)
    /\ muxControl' = [muxControl EXCEPT ![e].refused = @ \ {x}]
    /\ muxWriter' = [muxWriter EXCEPT ![e].pc = "flush"]
    /\ UNCHANGED <<muxBook, muxData, muxAt, muxCut, muxPreempts>>

LEMMA MuxRefusesKeeps ==
    ASSUME MuxInv, NEW e \in MuxEnds, NEW x \in MuxStreams, NEW p, p = MuxPeer(e), MuxRefuses(e, x)
    PROVE  MuxInv'
<1> DEFINE a == muxAt[e][x]
           b == muxBook[e][x]
<1>h. MuxPair(e, p, x) /\ MuxTypeOK /\ p \in MuxEnds /\ MuxTyped(e, x) /\ MuxTyped(p, x)
    BY MuxBoth, MuxNumbers
<1>1. x \in muxControl[e].refused /\ b \in MuxBookType /\ b.grant \in Nat
    BY <1>h DEF MuxTyped, MuxRefuses
<1>2. a.own = "none"
    BY <1>h, <1>1 DEF MuxPair, MuxOpening
<1>3. b = MuxNoBook
    BY <1>h, <1>2 DEF MuxPair, MuxFresh
<1>4. MuxSends(e, x, "close", 0, b)
  <2>1. muxBook' = [muxBook EXCEPT ![e][x] = b]
      BY <1>h DEF MuxRefuses, MuxTypeOK
  <2> HIDE DEF b
  <2>q. QED BY <2>1 DEF MuxRefuses, MuxSends
<1>5. MuxTidies(e, x, b)
    BY <1>h, <1>2, <1>3, MuxNoBookFields DEF MuxTidies, MuxPair, MuxSlot, MuxClosing
<1>6. MuxOwes(e, x, "close", 0, b)
    BY <1>1, <1>2, <1>3, MuxNoBookFields DEF MuxOwes
<1>q. QED BY <1>1, <1>4, <1>5, <1>6, MuxSendsKeeps DEF MuxFrameTypes

\* Neither end of a stream is concerned when a writer goes to wait, or wakes.
LEMMA MuxWritersOnly ==
    ASSUME MuxInv, NEW e \in MuxEnds, UNCHANGED <<muxAt, muxBook, muxData, muxPipe, muxCut, muxPreempts>>,
           \/ /\ muxWriter' = [muxWriter EXCEPT ![e].pc = "select"] /\ muxControl' = muxControl
              /\ \A s \in MuxStreams : ~muxBook[e][s].opens
           \/ /\ muxWriter' = [muxWriter EXCEPT ![e].pc = "flush"]
              /\ muxControl' = [muxControl EXCEPT ![e].wake = FALSE]
    PROVE  MuxInv'
<1>1. /\ MuxTypeOK
      /\ muxControl \in [MuxEnds -> [wake : BOOLEAN, refused : SUBSET MuxStreams]]
      /\ muxWriter \in [MuxEnds -> [pc : {"flush", "select", "close"}, s : MuxStreams]]
    BY DEF MuxInv, MuxTypeOK
<1>0. muxPreempts \in Nat /\ MuxMaxPreempts \in Nat
  <2>1. muxPreempts \in 0..MuxMaxPreempts /\ MuxMaxPreempts \in Nat
      BY MuxAssumption DEF MuxInv, MuxTypeOK
  <2>q. QED BY <2>1
<1>2. /\ muxControl' \in [MuxEnds -> [wake : BOOLEAN, refused : SUBSET MuxStreams]]
      /\ muxWriter' \in [MuxEnds -> [pc : {"flush", "select", "close"}, s : MuxStreams]]
      /\ \A f \in MuxEnds : /\ muxControl'[f].refused = muxControl[f].refused
                            /\ \/ muxWriter'[f] = muxWriter[f] /\ muxControl'[f] = muxControl[f]
                               \/ muxWriter'[f].pc = "flush"
                               \/ muxWriter'[f].pc = "select" /\ \A s \in MuxStreams : ~muxBook[f][s].opens
  <2>1. CASE /\ muxWriter' = [muxWriter EXCEPT ![e].pc = "select"] /\ muxControl' = muxControl
             /\ \A s \in MuxStreams : ~muxBook[e][s].opens
    <3>1. /\ muxWriter' \in [MuxEnds -> [pc : {"flush", "select", "close"}, s : MuxStreams]]
          /\ muxWriter'[e].pc = "select" /\ \A f \in MuxEnds : f # e => muxWriter'[f] = muxWriter[f]
        BY ONLY <1>1, <2>1
    <3>q. QED BY ONLY <1>1, <2>1, <3>1
  <2>2. CASE /\ muxWriter' = [muxWriter EXCEPT ![e].pc = "flush"]
             /\ muxControl' = [muxControl EXCEPT ![e].wake = FALSE]
    <3>1. /\ muxWriter' \in [MuxEnds -> [pc : {"flush", "select", "close"}, s : MuxStreams]]
          /\ muxWriter'[e].pc = "flush" /\ \A f \in MuxEnds : f # e => muxWriter'[f] = muxWriter[f]
        BY ONLY <1>1, <2>2, e \in MuxEnds
    <3>2. /\ muxControl' \in [MuxEnds -> [wake : BOOLEAN, refused : SUBSET MuxStreams]]
          /\ \A f \in MuxEnds : /\ muxControl'[f].refused = muxControl[f].refused
                                /\ f # e => muxControl'[f] = muxControl[f]
        BY ONLY <1>1, <2>2, e \in MuxEnds
    <3>q. QED BY ONLY <3>1, <3>2
  <2>q. QED BY <2>1, <2>2
<1>3. MuxTypeOK'
    BY <1>1, <1>2 DEF MuxTypeOK
<1>4. ASSUME NEW s \in MuxStreams
      PROVE  MuxStreamInv(s)'
  <2>1. ASSUME NEW f \in MuxEnds
        PROVE  /\ muxAt'[f][s] = muxAt[f][s] /\ muxBook'[f][s] = muxBook[f][s]
               /\ s \in muxControl'[f].refused <=> s \in muxControl[f].refused
               /\ muxWriter'[f] = [pc |-> "close", s |-> s] => muxWriter[f] = [pc |-> "close", s |-> s]
               /\ muxBook[f][s].opens /\ (muxControl[f].wake \/ muxWriter[f].pc # "select")
                      => muxControl'[f].wake \/ muxWriter'[f].pc # "select"
               /\ <<f, s>> \in muxCut => <<f, s>> \in muxCut'
      BY <1>2
  <2>2. \A f \in MuxEnds : MuxPipeSame(f, s) /\ MuxQueueSame(f, s)
      BY MuxSameFrames
  <2>3. muxPreempts' \in Nat /\ muxPreempts <= muxPreempts'
      BY <1>0
  <2>4. MuxSame(s)
      BY <2>1, <2>2, <2>3 DEF MuxSame
  <2>q. QED BY <1>1, <2>4, MuxSameKeeps DEF MuxInv
<1>q. QED BY <1>3, <1>4 DEF MuxInv

\* The writer takes a frame from the data queue and sends it.
MuxEmits(e, d) ==
    /\ muxWriter[e].pc = "select" /\ ~muxControl[e].wake /\ muxData[e] # <<>> /\ d = Head(muxData[e])
    /\ MuxEmit(e, d) /\ muxData' = [muxData EXCEPT ![e] = Tail(@)]
    /\ UNCHANGED <<muxControl, muxAt, muxCut, muxPreempts>>

LEMMA MuxEmitsKeeps ==
    ASSUME MuxInv, NEW e \in MuxEnds, NEW p, p = MuxPeer(e), NEW d, NEW x, x = d.s, MuxEmits(e, d)
    PROVE  MuxInv'
<1> DEFINE a == muxAt[e][x]
           c == muxBook[e][x]
           last == c.queued = 1 /\ c.want
           b == [c EXCEPT !.queued = @ - 1, !.want = @ /\ ~last]
<1>0. MuxTypeOK
    BY DEF MuxInv
<1>1. /\ muxWriter[e].pc = "select" /\ ~muxControl[e].wake
      /\ muxControl' = muxControl /\ muxAt' = muxAt /\ muxCut' = muxCut /\ muxPreempts' = muxPreempts
    BY DEF MuxEmits
<1>2. /\ MuxSend(e, "data", x, d.n) /\ muxBook' = [muxBook EXCEPT ![e][x] = b]
      /\ muxWriter' = [muxWriter EXCEPT ![e] = [pc |-> IF last THEN "close" ELSE "flush", s |-> x]]
    BY DEF MuxEmits, MuxEmit
<1>3. /\ x \in MuxStreams /\ d.n \in 1..MuxWindow
      /\ muxData' \in [MuxEnds -> Seq([s : MuxStreams, n : 1..MuxWindow])]
      /\ \A f \in MuxEnds : Len(muxData'[f]) <= MuxQueue
      /\ \A f \in MuxEnds, s \in MuxStreams : f # e \/ s # x => MuxQueueSame(f, s)
      /\ MuxBytesQueued(e, x) = MuxBytesQueued(e, x)' + d.n
      /\ MuxFramesQueued(e, x) = MuxFramesQueued(e, x)' + 1
      /\ MuxBytesQueued(e, x)' \in Nat /\ MuxFramesQueued(e, x)' \in Nat
  <2>1. /\ muxData[e] # <<>> /\ muxData' = [muxData EXCEPT ![e] = Tail(@)] /\ d = Head(muxData[e])
        /\ x = d.s /\ e \in MuxEnds
      BY DEF MuxEmits
  <2>2. d \in MuxQueueFrame /\ x \in MuxStreams
      BY <1>0, <2>1, MuxHeads
  <2>3. MuxDrained(e, x, d)
      BY ONLY <1>0, <2>1, <2>2, MuxUnqueued
  <2>q. QED BY <2>2, <2>3 DEF MuxDrained
<1>n. d.n \in Nat
    BY <1>3, MuxAssumption
<1>h. MuxPair(e, p, x) /\ MuxTypeOK /\ p \in MuxEnds /\ MuxTyped(e, x) /\ MuxTyped(p, x)
    BY <1>3, MuxBoth, MuxNumbers
<1>4. /\ muxPipe' \in [MuxEnds -> Seq(MuxFrame)]
      /\ \A f \in MuxEnds, s \in MuxStreams : f # e \/ s # x => MuxPipeSame(f, s)
      /\ \A u \in MuxFrameTypes : /\ MuxHas(e, u, x)' <=> MuxHas(e, u, x) \/ u = "data"
                                  /\ MuxIn(e, u, x)' = MuxIn(e, u, x) + IF u = "data" THEN d.n ELSE 0
      /\ MuxCloseLast(e, x) /\ ~("data" = "data" /\ MuxHas(e, "close", x)) => MuxCloseLast(e, x)'
      /\ MuxOpenFirst(e, x) /\ ("data" = "open" => MuxSilent(e, x)) => MuxOpenFirst(e, x)'
  <2>1. "data" \in MuxFrameTypes
      BY DEF MuxFrameTypes
  <2>q. QED BY <1>0, <1>n, <1>2, <1>3, <2>1, MuxSent
<1>k. p \in MuxEnds /\ p # e /\ MuxQuiet(p, x)
  <2>1. p \in MuxEnds /\ p # e
      BY <1>h DEF MuxPair
  <2>q. QED BY <1>3, <1>4, <2>1, MuxQuietFacts
\* A queued frame belongs to a stream that has not ended, or that owes its Close.
<1>g. /\ c.queued = MuxFramesQueued(e, x) /\ c.queued \in 1..MuxQueue /\ c \in MuxBookType
      /\ a.own # "none" /\ (a.own \in MuxEnded => c.want) /\ (c.want => a.own \in MuxEnded)
      /\ ~MuxHas(e, "close", x) /\ ~c.opens /\ ~c.closeDone /\ c.want \in BOOLEAN
  <2>1. c.queued = MuxFramesQueued(e, x) /\ c.queued \in 0..MuxQueue /\ c \in MuxBookType /\ c.want \in BOOLEAN
      BY <1>h DEF MuxPair, MuxClosing, MuxTyped, MuxBookType
  <2>2. c.queued > 0
      BY <1>3, <2>1
  <2>3. a.own # "none"
      BY <1>h, <2>2, MuxNoBookFields DEF MuxPair, MuxFresh
  <2>4. (a.own \in MuxEnded => c.want) /\ (c.want => a.own \in MuxEnded)
      BY <1>h, <2>2 DEF MuxPair, MuxClosing
  <2>5. ~MuxHas(e, "close", x) /\ ~c.closeDone
      BY <1>h, <2>3, <2>4 DEF MuxPair, MuxClosing
  <2>6. ~c.opens
      BY <1>h, <1>1 DEF MuxPair, MuxOpening
  <2>q. QED BY <2>1, <2>2, <2>3, <2>4, <2>5, <2>6
<1>b. /\ b \in MuxBookType /\ b.queued = c.queued - 1 /\ (b.want <=> c.want /\ ~(c.queued = 1))
      /\ b.opens = c.opens /\ b.ready = c.ready /\ b.grant = c.grant /\ b.live = c.live /\ b.hold = c.hold
      /\ b.creditDone = c.creditDone /\ b.closeDone = c.closeDone
  <2> DEFINE y == c.queued - 1
             z == c.want /\ ~last
  <2>1. y \in 0..MuxQueue /\ z \in BOOLEAN
      BY <1>g, MuxAssumption
  <2>2. b = [c EXCEPT !.queued = y, !.want = z]
      OBVIOUS
  <2>3. z <=> c.want /\ ~(c.queued = 1)
      OBVIOUS
  <2> HIDE DEF y, z, b
  <2>4. b \in MuxBookType
      BY <1>g, <2>1, <2>2 DEF MuxBookType
  <2>5. /\ b.queued = y /\ b.want = z
        /\ b.opens = c.opens /\ b.ready = c.ready /\ b.grant = c.grant /\ b.live = c.live /\ b.hold = c.hold
        /\ b.creditDone = c.creditDone /\ b.closeDone = c.closeDone
      BY <1>g, <2>2 DEF MuxBookType
  <2>q. QED BY <2>3, <2>4, <2>5 DEF y
<1>y. /\ muxWriter' \in [MuxEnds -> [pc : {"flush", "select", "close"}, s : MuxStreams]]
      /\ \A f \in MuxEnds : f # e => muxWriter'[f] = muxWriter[f]
      /\ muxWriter'[e].pc # "select" /\ muxWriter'[e].s = x
      /\ muxWriter'[e].pc = "close" => c.queued = 1 /\ c.want
  <2>1. muxWriter \in [MuxEnds -> [pc : {"flush", "select", "close"}, s : MuxStreams]]
      BY <1>0 DEF MuxTypeOK
  <2> DEFINE k == IF last THEN "close" ELSE "flush"
  <2>2. k \in {"flush", "close"} /\ (k = "close" => last)
      OBVIOUS
  <2>3. muxWriter' = [muxWriter EXCEPT ![e] = [pc |-> k, s |-> x]]
      BY <1>2
  <2> HIDE DEF k
  <2>q. QED BY <1>3, <2>1, <2>2, <2>3
<1> HIDE DEF b
<1>z. MuxAbout(e, x, a, b)
  <2>1. /\ muxAt \in [MuxEnds -> [MuxStreams -> MuxAtType]]
        /\ muxPreempts \in 0..MuxMaxPreempts /\ MuxMaxPreempts \in Nat
        /\ muxControl \in [MuxEnds -> [wake : BOOLEAN, refused : SUBSET MuxStreams]]
        /\ muxCut \subseteq MuxEnds \X MuxStreams
      BY <1>0, MuxAssumption DEF MuxTypeOK
  <2>2. muxAt' = [muxAt EXCEPT ![e][x] = a]
      BY <1>1, <2>1
  <2>3. muxPreempts' \in 0..MuxMaxPreempts /\ muxPreempts <= muxPreempts'
      BY <1>1, <2>1
  <2>4. \A f \in MuxEnds : \/ muxWriter'[f] = muxWriter[f]
                            \/ /\ muxWriter'[f].pc # "select"
                               /\ muxWriter'[f].pc = "close" => muxWriter'[f].s = x
      BY <1>y
  <2>5. /\ \A f \in MuxEnds, s \in MuxStreams : s # x => (s \in muxControl'[f].refused <=> s \in muxControl[f].refused)
        /\ \A f \in MuxEnds : muxControl[f].wake => muxControl'[f].wake
        /\ muxControl' \in [MuxEnds -> [wake : BOOLEAN, refused : SUBSET MuxStreams]]
        /\ muxCut \subseteq muxCut' /\ muxCut' \subseteq MuxEnds \X MuxStreams
      BY <1>1, <2>1
  <2>6. /\ \A f \in MuxEnds, s \in MuxStreams : s # x => MuxQueueSame(f, s)
        /\ \A f \in MuxEnds, s \in MuxStreams : s # x => MuxPipeSame(f, s)
      BY <1>3, <1>4
  <2>q. QED BY ONLY <1>2, <1>3, <1>4, <1>y, <2>2, <2>3, <2>4, <2>5, <2>6 DEF MuxAbout
<1>m. /\ MuxTypeOK' /\ \A s \in MuxStreams : s # x => MuxSame(s)
      /\ muxAt'[e][x] = a /\ muxBook'[e][x] = b
      /\ muxAt'[p][x] = muxAt[p][x] /\ muxBook'[p][x] = muxBook[p][x]
  <2>1. a \in MuxAtType
      BY <1>h DEF MuxTyped
  <2>q. QED BY <1>0, <1>3, <1>k, <1>b, <1>z, <2>1, MuxStepFrame
<1>c. /\ MuxOnWay(e, x)' = MuxOnWay(e, x) /\ MuxOnWay(p, x)' = MuxOnWay(p, x)
      /\ MuxCredits(e, x)' = MuxCredits(e, x) /\ MuxCredits(p, x)' = MuxCredits(p, x)
  <2>1. /\ MuxIn(e, "data", x)' = MuxIn(e, "data", x) + d.n /\ MuxIn(e, "window", x)' = MuxIn(e, "window", x) + 0
        /\ MuxIn(e, "data", x) \in Nat /\ MuxIn(e, "window", x) \in Nat
        /\ MuxIn(p, "window", x)' = MuxIn(p, "window", x) /\ MuxOnWay(p, x)' = MuxOnWay(p, x)
      BY <1>4, <1>k, <1>h DEF MuxQuiet, MuxTyped, MuxFrameTypes
  <2>2. MuxOnWay(e, x)' = MuxOnWay(e, x)
    <3>1. /\ MuxOnWay(e, x) = MuxBytesQueued(e, x) + MuxIn(e, "data", x)
          /\ MuxOnWay(e, x)' = MuxBytesQueued(e, x)' + MuxIn(e, "data", x)'
        BY <1>3, MuxSums
    <3>q. QED BY <1>n, <1>3, <2>1, <3>1
  <2>3. MuxCredits(e, x)' = MuxCredits(e, x)
    <3>1. /\ MuxCredits(e, x) = muxAt[e][x].credit + MuxOnWay(e, x) + muxAt[p][x].buf + muxBook[p][x].grant
                                + MuxIn(p, "window", x)
          /\ MuxCredits(e, x)' = muxAt'[e][x].credit + MuxOnWay(e, x)' + muxAt'[p][x].buf + muxBook'[p][x].grant
                                 + MuxIn(p, "window", x)'
        BY <1>3, MuxSums
    <3>q. QED BY <1>m, <2>1, <2>2, <3>1
  <2>4. MuxCredits(p, x)' = MuxCredits(p, x)
    <3>0. MuxPeer(p) = e
        BY <1>h DEF MuxPair
    <3>1. /\ MuxCredits(p, x) = muxAt[p][x].credit + MuxOnWay(p, x) + muxAt[e][x].buf + muxBook[e][x].grant
                                + MuxIn(e, "window", x)
          /\ MuxCredits(p, x)' = muxAt'[p][x].credit + MuxOnWay(p, x)' + muxAt'[e][x].buf + muxBook'[e][x].grant
                                 + MuxIn(e, "window", x)'
        BY <1>3, <1>k, <3>0, MuxSums
    <3>2. MuxIn(e, "window", x)' = MuxIn(e, "window", x)
        BY <2>1
    <3>q. QED BY <1>b, <1>m, <2>1, <3>1, <3>2
  <2>q. QED BY <2>1, <2>2, <2>3, <2>4
<1>s. /\ MuxComing(x)' <=> MuxComing(x)
      /\ MuxOpener[x] = p => ~MuxComing(x)
  <2>1. (MuxHas(e, "open", x)' <=> MuxHas(e, "open", x)) /\ (MuxHas(p, "open", x)' <=> MuxHas(p, "open", x))
      BY <1>4, <1>k DEF MuxQuiet, MuxFrameTypes
  <2>2. MuxOpener[x] = p => ~MuxComing(x)
      BY <1>h, <1>g DEF MuxPair, MuxOpening
  <2>q. QED BY <1>h, <1>b, <1>m, <2>1, <2>2 DEF MuxComing, MuxPair
<1>v. (MuxAccepts(e, x)' <=> MuxAccepts(e, x)) /\ (MuxAccepts(p, x)' <=> MuxAccepts(p, x))
    BY <1>m, <1>s DEF MuxAccepts
<1>w. muxControl' = muxControl /\ muxCut' = muxCut /\ muxPreempts' = muxPreempts /\ muxWriter'[p] = muxWriter[p]
    BY <1>1, <1>k, <1>y
<1>5. MuxOpening(x)'
  <2>1. MuxOpenFirst(e, x) => MuxOpenFirst(e, x)'
      BY <1>4
  <2>2. MuxHas(e, "open", x)' <=> MuxHas(e, "open", x)
      BY <1>4 DEF MuxFrameTypes
  <2>3. CASE MuxOpener[x] = e
      BY <1>h, <1>k, <1>b, <1>m, <1>g, <1>s, <1>w, <2>1, <2>3 DEF MuxOpening, MuxQuiet, MuxFrameTypes, MuxPair
  <2>4. CASE MuxOpener[x] = p
      BY <1>h, <1>k, <1>b, <1>m, <1>g, <1>s, <1>w, <2>2, <2>4 DEF MuxOpening, MuxQuiet, MuxFrameTypes, MuxPair
  <2>q. QED BY <1>h, <2>3, <2>4 DEF MuxPair
<1>6. MuxSlot(e, x)'
    BY <1>h, <1>b, <1>m, <1>w DEF MuxSlot, MuxPair
<1>7. MuxSlot(p, x)'
    BY <1>h, <1>m, <1>w DEF MuxSlot, MuxPair
<1>8. MuxClosing(e, x)'
  <2>1. MuxCloseLast(e, x)' /\ ~MuxHas(e, "close", x)'
      BY <1>h, <1>4, <1>g DEF MuxClosing, MuxFrameTypes, MuxPair
  <2>2. b.queued = MuxFramesQueued(e, x)'
      BY <1>3, <1>b, <1>g
  <2>3. a.own \in MuxEnded /\ ~b.want => b.queued = 0
      BY <1>b, <1>g
  <2>4. muxWriter'[e] = [pc |-> "close", s |-> x] => a.own \in MuxEnded /\ ~b.want /\ ~b.opens
      BY <1>b, <1>y, <1>g
  <2>q. QED BY <1>h, <1>b, <1>m, <1>g, <2>1, <2>2, <2>3, <2>4 DEF MuxClosing, MuxPair
<1>9. MuxClosing(p, x)'
    BY <1>h, <1>k, <1>m, <1>w DEF MuxClosing, MuxQuiet, MuxFrameTypes, MuxPair
<1>10. MuxFresh(e, x)'
    BY <1>m, <1>g DEF MuxFresh
<1>11. MuxFresh(p, x)'
    BY <1>h, <1>4, <1>k, <1>b, <1>m, <1>g, <1>w DEF MuxFresh, MuxQuiet, MuxFrameTypes, MuxPair
<1>12. MuxDelivers(e, x)'
    BY <1>h, <1>m, <1>c, <1>v, <1>w DEF MuxDelivers, MuxPair
<1>13. MuxDelivers(p, x)'
    BY <1>h, <1>m, <1>c, <1>v, <1>w DEF MuxDelivers, MuxPair
<1>14. MuxCreditKept(e, x)'
    BY <1>h, <1>m, <1>c, <1>v, <1>w DEF MuxCreditKept, MuxPair
<1>15. MuxCreditKept(p, x)'
    BY <1>h, <1>m, <1>c, <1>v, <1>w DEF MuxCreditKept, MuxPair
<1>q. QED BY <1>3, <1>m, <1>5, <1>6, <1>7, <1>8, <1>9, <1>10, <1>11, <1>12, <1>13, <1>14, <1>15, MuxKept
-----------------------------------------------------------------------------
(* poll_write *)

\* The owner of stream x queues n bytes, after which its record is r.
MuxWrites(e, x, n, r) ==
    /\ muxAt[e][x].own = "open" /\ n \in 1..muxAt[e][x].left /\ n <= muxAt[e][x].credit
    /\ ~muxAt[e][x].eof /\ Len(muxData[e]) < MuxQueue
    /\ muxBook' = [muxBook EXCEPT ![e][x].queued = @ + 1]
    /\ muxData' = [muxData EXCEPT ![e] = Append(@, [s |-> x, n |-> n])]
    /\ muxAt' = [muxAt EXCEPT ![e][x] = r]
    /\ UNCHANGED <<muxControl, muxWriter, muxPipe, muxCut>>
MuxCounted(a, n, r) ==
    /\ r.own \in {"open", "writing"} /\ r.sent + r.n = a.sent + n /\ r.credit + n = a.credit + r.n
    /\ r.credit + r.flight = MuxWindow /\ r.got = a.got /\ r.slot = a.slot /\ r.buf = a.buf
    /\ r.open = a.open /\ r.gone = a.gone /\ r.eof = a.eof
    /\ IF r.own = "writing" THEN r.n <= r.credit /\ r.n <= r.left /\ muxPreempts' > 0 ELSE r.n = 0

LEMMA MuxWritesKeeps ==
    ASSUME MuxInv, NEW e \in MuxEnds, NEW x \in MuxStreams, NEW p, p = MuxPeer(e), NEW n, NEW r \in MuxAtType,
           MuxWrites(e, x, n, r), MuxCounted(muxAt[e][x], n, r), muxPreempts' = muxPreempts \/ MuxMayPreempt
    PROVE  MuxInv'
<1> DEFINE a == muxAt[e][x]
           c == muxBook[e][x]
           b == [c EXCEPT !.queued = @ + 1]
<1>h. MuxPair(e, p, x) /\ MuxTypeOK /\ p \in MuxEnds /\ MuxTyped(e, x) /\ MuxTyped(p, x)
    BY MuxBoth, MuxNumbers
<1>0. /\ a.own = "open" /\ n \in 1..a.left /\ n <= a.credit /\ ~a.eof
      /\ muxControl' = muxControl /\ muxWriter' = muxWriter /\ muxPipe' = muxPipe /\ muxCut' = muxCut
      /\ muxAt' = [muxAt EXCEPT ![e][x] = r]
    BY DEF MuxWrites
<1>t. /\ n \in 1..MuxWindow /\ n \in Nat /\ a.credit \in Nat /\ a.buf \in Nat /\ c.grant \in Nat /\ a.sent \in Nat
      /\ a.got \in Nat /\ MuxWindow \in Nat /\ c \in MuxBookType /\ c.queued \in Nat
    BY <1>h, <1>0 DEF MuxTyped
<1>1. MuxLonger(e, x, n)
    BY <1>h, <1>t, MuxQueued DEF MuxWrites
<1>g. /\ a.slot /\ a.n = 0 /\ ~c.want /\ ~c.hold /\ ~c.closeDone /\ c.queued = MuxFramesQueued(e, x)
      /\ ~MuxHas(e, "close", x) /\ muxWriter[e] # [pc |-> "close", s |-> x]
  <2>1. a.own \notin MuxEnded \cup {"none"}
      BY <1>0 DEF MuxEnded
  <2>2. a.slot /\ a.n = 0
      BY <1>h, <1>0 DEF MuxPair, MuxSlot
  <2>q. QED BY <1>h, <2>1, <2>2 DEF MuxPair, MuxClosing
<1>f. /\ MuxBytesQueued(e, x)' = MuxBytesQueued(e, x) + n /\ MuxFramesQueued(e, x)' = MuxFramesQueued(e, x) + 1
      /\ MuxFramesQueued(e, x) + 1 <= MuxQueue
    BY <1>1 DEF MuxLonger
<1>b. /\ b \in MuxBookType /\ b.queued = c.queued + 1 /\ b.want = c.want
      /\ b.opens = c.opens /\ b.ready = c.ready /\ b.grant = c.grant /\ b.live = c.live /\ b.hold = c.hold
      /\ b.creditDone = c.creditDone /\ b.closeDone = c.closeDone
  <2> DEFINE y == c.queued + 1
  <2>1. y \in 0..MuxQueue
      BY <1>t, <1>f, <1>g, MuxAssumption
  <2>2. b = [c EXCEPT !.queued = y]
      OBVIOUS
  <2> HIDE DEF y, b
  <2>3. b \in MuxBookType
      BY <1>t, <2>1, <2>2 DEF MuxBookType
  <2>4. /\ b.queued = y /\ b.want = c.want
        /\ b.opens = c.opens /\ b.ready = c.ready /\ b.grant = c.grant /\ b.live = c.live /\ b.hold = c.hold
        /\ b.creditDone = c.creditDone /\ b.closeDone = c.closeDone
      BY <1>t, <2>2 DEF MuxBookType
  <2>q. QED BY <2>3, <2>4 DEF y
<1>2. muxBook' = [muxBook EXCEPT ![e][x] = b]
    BY DEF MuxWrites
<1>k. p \in MuxEnds /\ p # e /\ MuxQuiet(p, x) /\ MuxPipeSame(e, x)
  <2>1. p \in MuxEnds /\ p # e
      BY <1>h DEF MuxPair
  <2>2. MuxPipeSame(p, x) /\ MuxPipeSame(e, x)
      BY <1>0, <2>1, MuxSameFrames
  <2>3. MuxQueueSame(p, x)
      BY <1>1, <2>1 DEF MuxLonger
  <2>q. QED BY <2>1, <2>2, <2>3, MuxQuietFacts
<1> HIDE DEF b
<1>w. /\ muxPreempts' \in 0..MuxMaxPreempts /\ muxPreempts \in Nat /\ muxPreempts' \in Nat /\ muxPreempts <= muxPreempts'
      /\ muxControl' = muxControl /\ muxCut' = muxCut /\ muxWriter' = muxWriter
  <2>1. muxPreempts \in 0..MuxMaxPreempts /\ MuxMaxPreempts \in Nat
      BY <1>h, MuxAssumption DEF MuxTypeOK
  <2>q. QED BY <1>0, <2>1 DEF MuxMayPreempt
<1>z. MuxAbout(e, x, r, b)
  <2>1. /\ muxControl' \in [MuxEnds -> [wake : BOOLEAN, refused : SUBSET MuxStreams]]
        /\ muxWriter' \in [MuxEnds -> [pc : {"flush", "select", "close"}, s : MuxStreams]]
        /\ muxPipe' \in [MuxEnds -> Seq(MuxFrame)]
        /\ muxCut \subseteq muxCut' /\ muxCut' \subseteq MuxEnds \X MuxStreams
      BY <1>h, <1>0 DEF MuxTypeOK
  <2>2. \A f \in MuxEnds, s \in MuxStreams : s # x => MuxPipeSame(f, s)
      BY <1>0, MuxSameFrames
  <2>3. /\ muxData' \in [MuxEnds -> Seq([s : MuxStreams, n : 1..MuxWindow])]
        /\ \A f \in MuxEnds : Len(muxData'[f]) <= MuxQueue
        /\ \A f \in MuxEnds, s \in MuxStreams : s # x => MuxQueueSame(f, s)
      BY <1>1 DEF MuxLonger
  <2>q. QED BY ONLY <1>0, <1>2, <1>w, <2>1, <2>2, <2>3 DEF MuxAbout
<1>m. /\ MuxTypeOK' /\ \A s \in MuxStreams : s # x => MuxSame(s)
      /\ muxAt'[e][x] = r /\ muxBook'[e][x] = b
      /\ muxAt'[p][x] = muxAt[p][x] /\ muxBook'[p][x] = muxBook[p][x]
    BY <1>h, <1>k, <1>b, <1>z, MuxStepFrame
<1>3. /\ r.own \in {"open", "writing"} /\ r.own # "none" /\ r.own \notin MuxEnded
      /\ r.sent + r.n = a.sent + n /\ r.credit + n = a.credit + r.n
      /\ r.credit + r.flight = MuxWindow /\ r.got = a.got /\ r.slot = a.slot /\ r.buf = a.buf
      /\ r.open = a.open /\ r.gone = a.gone /\ r.eof = a.eof
      /\ IF r.own = "writing" THEN r.n <= r.credit /\ r.n <= r.left /\ muxPreempts' > 0 ELSE r.n = 0
      /\ r.sent \in Nat /\ r.n \in Nat /\ r.credit \in Nat
  <2>1. r.sent \in Nat /\ r.n \in 0..MuxWindow /\ r.credit \in 0..MuxWindow
      BY DEF MuxAtType
  <2>2. r.n \in Nat /\ r.credit \in Nat
      BY <1>t, <2>1
  <2>q. QED BY <2>1, <2>2 DEF MuxCounted, MuxEnded
<1>4. /\ (MuxHas(e, "open", x)' <=> MuxHas(e, "open", x)) /\ (MuxHas(e, "data", x)' <=> MuxHas(e, "data", x))
      /\ (MuxHas(e, "close", x)' <=> MuxHas(e, "close", x)) /\ (MuxHas(e, "window", x)' <=> MuxHas(e, "window", x))
      /\ MuxIn(e, "data", x)' = MuxIn(e, "data", x) /\ MuxIn(e, "window", x)' = MuxIn(e, "window", x)
      /\ (MuxCloseLast(e, x) => MuxCloseLast(e, x)') /\ (MuxOpenFirst(e, x) => MuxOpenFirst(e, x)')
      /\ MuxSilent(e, x)' <=> MuxSilent(e, x)
    BY <1>k DEF MuxPipeSame, MuxFrameTypes, MuxSilent
<1>c. /\ MuxOnWay(e, x)' = MuxOnWay(e, x) + n /\ MuxOnWay(p, x)' = MuxOnWay(p, x)
      /\ MuxCredits(e, x)' = MuxCredits(e, x) + r.n /\ MuxCredits(p, x)' = MuxCredits(p, x)
      /\ MuxOnWay(e, x) \in Nat /\ MuxCredits(e, x) \in Nat
  <2>1. /\ MuxIn(e, "data", x) \in Nat /\ MuxIn(p, "window", x) \in Nat /\ MuxBytesQueued(e, x) \in Nat
        /\ muxAt[p][x].buf \in Nat /\ muxBook[p][x].grant \in Nat
        /\ MuxIn(p, "window", x)' = MuxIn(p, "window", x) /\ MuxOnWay(p, x)' = MuxOnWay(p, x)
      BY <1>k, <1>h DEF MuxQuiet, MuxTyped, MuxFrameTypes
  <2>2. MuxOnWay(e, x)' = MuxOnWay(e, x) + n /\ MuxOnWay(e, x) \in Nat
    <3>1. /\ MuxOnWay(e, x) = MuxBytesQueued(e, x) + MuxIn(e, "data", x)
          /\ MuxOnWay(e, x)' = MuxBytesQueued(e, x)' + MuxIn(e, "data", x)'
        BY MuxSums
    <3>q. QED BY <1>t, <1>f, <1>4, <2>1, <3>1
  <2>3. MuxCredits(e, x)' = MuxCredits(e, x) + r.n /\ MuxCredits(e, x) \in Nat
    <3>1. /\ MuxCredits(e, x) = muxAt[e][x].credit + MuxOnWay(e, x) + muxAt[p][x].buf + muxBook[p][x].grant
                                + MuxIn(p, "window", x)
          /\ MuxCredits(e, x)' = muxAt'[e][x].credit + MuxOnWay(e, x)' + muxAt'[p][x].buf + muxBook'[p][x].grant
                                 + MuxIn(p, "window", x)'
        BY MuxSums
    <3>2. MuxCredits(e, x)' = r.credit + MuxOnWay(e, x) + n + muxAt[p][x].buf + muxBook[p][x].grant + MuxIn(p, "window", x)
        BY <1>t, <1>3, <1>m, <2>1, <2>2, <3>1
    <3>q. QED BY <1>t, <1>3, <2>1, <2>2, <3>1, <3>2
  <2>4. MuxCredits(p, x)' = MuxCredits(p, x)
    <3>0. MuxPeer(p) = e
        BY <1>h DEF MuxPair
    <3>1. /\ MuxCredits(p, x) = muxAt[p][x].credit + MuxOnWay(p, x) + muxAt[e][x].buf + muxBook[e][x].grant
                                + MuxIn(e, "window", x)
          /\ MuxCredits(p, x)' = muxAt'[p][x].credit + MuxOnWay(p, x)' + muxAt'[e][x].buf + muxBook'[e][x].grant
                                 + MuxIn(e, "window", x)'
        BY <1>k, <3>0, MuxSums
    <3>q. QED BY <1>b, <1>3, <1>4, <1>m, <2>1, <3>1
  <2>q. QED BY <2>1, <2>2, <2>3, <2>4
<1>s. MuxComing(x)' <=> MuxComing(x)
  <2>1. MuxHas(p, "open", x)' <=> MuxHas(p, "open", x)
      BY <1>k DEF MuxQuiet, MuxFrameTypes
  <2>q. QED BY <1>h, <1>b, <1>4, <1>m, <2>1 DEF MuxComing, MuxPair
<1>v. (MuxAccepts(e, x)' <=> MuxAccepts(e, x)) /\ (MuxAccepts(p, x)' <=> MuxAccepts(p, x))
    BY <1>3, <1>m, <1>s DEF MuxAccepts
<1>5. MuxOpening(x)'
    BY <1>h, <1>0, <1>3, <1>4, <1>b, <1>k, <1>m, <1>s, <1>w DEF MuxOpening, MuxQuiet, MuxFrameTypes, MuxPair
<1>6. MuxSlot(e, x)'
    BY <1>h, <1>3, <1>b, <1>m, <1>w, <1>g DEF MuxSlot, MuxPair
<1>7. MuxSlot(p, x)'
    BY <1>h, <1>m, <1>w DEF MuxSlot, MuxPair
<1>8. MuxClosing(e, x)'
  <2>1. b.queued = MuxFramesQueued(e, x)'
      BY <1>f, <1>b, <1>g
  <2>q. QED BY <1>h, <1>3, <1>4, <1>b, <1>m, <1>g, <1>w, <2>1 DEF MuxClosing, MuxPair
<1>9. MuxClosing(p, x)'
    BY <1>h, <1>k, <1>m, <1>w DEF MuxClosing, MuxQuiet, MuxFrameTypes, MuxPair
<1>10. MuxFresh(e, x)'
    BY <1>m, <1>3 DEF MuxFresh
<1>11. MuxFresh(p, x)'
    BY <1>h, <1>0, <1>3, <1>4, <1>b, <1>k, <1>m, <1>w DEF MuxFresh, MuxQuiet, MuxFrameTypes, MuxPair
<1>12. MuxDelivers(e, x)'
  <2>1. MuxDelivers(e, x)
      BY <1>h DEF MuxPair
  <2>2. MuxPeer(e) = p
      OBVIOUS
  <2>q. QED BY <1>3, <1>c, <1>m, <1>v, <1>w, <2>1, <2>2 DEF MuxDelivers
<1>13. MuxDelivers(p, x)'
  <2>1. MuxDelivers(p, x) /\ MuxPeer(p) = e
      BY <1>h DEF MuxPair
  <2> DEFINE q == muxAt[p][x]
  <2>2. q.got \in Nat /\ q.buf \in Nat
      BY <1>h DEF MuxTyped
  <2>3. a.own \notin MuxEnded \cup {"none"}
      BY <1>0 DEF MuxEnded
  <2>4. ~(q.slot /\ ~q.open /\ <<p, x>> \notin muxCut)
      BY <2>1, <2>3 DEF MuxDelivers
  <2>5. MuxAccepts(p, x) => q.got + q.buf + MuxOnWay(e, x) = a.sent
      BY <1>g, <1>t, <2>1 DEF MuxDelivers
  <2>6. MuxAccepts(p, x) => q.got + q.buf + MuxOnWay(e, x)' = r.sent + r.n
      BY <1>3, <1>c, <1>t, <2>2, <2>5
  <2>q. QED BY <1>m, <1>v, <1>w, <2>1, <2>4, <2>6 DEF MuxDelivers
<1>14. MuxCreditKept(e, x)'
  <2>1. MuxCreditKept(e, x)
      BY <1>h DEF MuxPair
  <2>2. MuxCredits(e, x)' <= MuxWindow + r.n
    <3>1. MuxCredits(e, x) <= MuxWindow + 0
        BY <1>g, <2>1 DEF MuxCreditKept
    <3>q. QED BY <1>3, <1>c, <1>t, <3>1
  <2>3. muxPreempts' = 0 => muxPreempts = 0 /\ r.n = 0
      BY <1>3, <1>w
  <2>4. muxPreempts' = 0 => MuxCredits(e, x)' = MuxCredits(e, x)
      BY <1>c, <2>3
  <2>q. QED BY <1>3, <1>m, <1>v, <2>1, <2>2, <2>3, <2>4 DEF MuxCreditKept
<1>15. MuxCreditKept(p, x)'
  <2>1. MuxCreditKept(p, x) /\ MuxPeer(p) = e
      BY <1>h DEF MuxPair
  <2>2. muxPreempts' = 0 => muxPreempts = 0
      BY <1>w
  <2>q. QED BY <1>c, <1>m, <1>v, <2>1, <2>2 DEF MuxCreditKept
<1>q. QED BY <1>m, <1>5, <1>6, <1>7, <1>8, <1>9, <1>10, <1>11, <1>12, <1>13, <1>14, <1>15, MuxKept

LEMMA MuxWriteKeeps ==
    ASSUME MuxInv, NEW e \in MuxEnds, NEW x \in MuxStreams, NEW p, p = MuxPeer(e), MuxWrite(e, x)
    PROVE  MuxInv'
<1> DEFINE a == muxAt[e][x]
<1>h. MuxPair(e, p, x) /\ MuxTypeOK /\ MuxTyped(e, x)
    BY MuxBoth, MuxNumbers
<1>1. PICK n \in 1..a.left :
        /\ a.own = "open" /\ ~a.gone /\ ~a.eof
        /\ n <= a.credit /\ Len(muxData[e]) < MuxQueue
        /\ muxBook' = [muxBook EXCEPT ![e][x].queued = @ + 1]
        /\ muxData' = [muxData EXCEPT ![e] = Append(@, [s |-> x, n |-> n])]
        /\ \/ /\ muxAt' = [muxAt EXCEPT ![e][x] = MuxAccepted(@, n)]
              /\ UNCHANGED muxPreempts
           \/ /\ MuxMayPreempt
              /\ muxAt' = [muxAt EXCEPT ![e][x] = [@ EXCEPT !.own = "writing", !.n = n]]
        /\ UNCHANGED <<muxControl, muxWriter, muxPipe, muxCut>>
    BY DEF MuxWrite
<1>2. /\ a \in MuxAtType /\ a.left \in Nat /\ a.credit \in 0..MuxWindow /\ a.sent \in Nat /\ MuxWindow \in Nat
      /\ n \in Nat /\ n \in 0..MuxWindow /\ n <= a.left /\ n <= a.credit
  <2>1. /\ a \in MuxAtType /\ a.left \in Nat /\ a.credit \in 0..MuxWindow /\ a.sent \in Nat /\ MuxWindow \in Nat
      BY <1>h DEF MuxTyped
  <2>2. n \in 1..a.left /\ n <= a.credit
      BY <1>1
  <2> HIDE DEF a
  <2>q. QED BY ONLY <2>1, <2>2
<1>3. a.slot /\ a.n = 0 /\ a.credit + a.flight = MuxWindow
    BY <1>h, <1>1 DEF MuxPair, MuxSlot
<1>4. CASE muxAt' = [muxAt EXCEPT ![e][x] = MuxAccepted(@, n)] /\ UNCHANGED muxPreempts
  <2> DEFINE r == MuxAccepted(a, n)
  <2>1. /\ r \in MuxAtType /\ r.left = a.left - n /\ r.sent = a.sent + n
        /\ r.credit = a.credit - n /\ r.credit + r.flight = MuxWindow
        /\ r.own = a.own /\ r.got = a.got /\ r.n = a.n /\ r.slot = a.slot /\ r.buf = a.buf
        /\ r.open = a.open /\ r.gone = a.gone /\ r.eof = a.eof
      BY ZenonT(60), <1>2, <1>3, MuxAcceptedFields
  <2>2. muxAt' = [muxAt EXCEPT ![e][x] = r]
      BY <1>4
  <2> HIDE DEF r
  <2>3. MuxWrites(e, x, n, r)
      BY <1>1, <1>2, <2>2 DEF MuxWrites
  <2>4. r.sent + r.n = a.sent + n /\ r.credit + n = a.credit + r.n
    <3>1. a.credit \in Nat
        BY <1>2
    <3>q. QED BY <1>2, <1>3, <2>1, <3>1
  <2>5. MuxCounted(a, n, r)
      BY <1>1, <1>3, <2>1, <2>4 DEF MuxCounted
  <2>q. QED BY <1>4, <2>1, <2>3, <2>5, MuxWritesKeeps
<1>5. CASE MuxMayPreempt /\ muxAt' = [muxAt EXCEPT ![e][x] = [@ EXCEPT !.own = "writing", !.n = n]]
  <2> DEFINE r == [a EXCEPT !.own = "writing", !.n = n]
  <2>1. /\ r \in MuxAtType /\ r.own = "writing" /\ r.n = n /\ r.left = a.left /\ r.sent = a.sent /\ r.credit = a.credit
        /\ r.flight = a.flight /\ r.got = a.got /\ r.slot = a.slot /\ r.buf = a.buf
        /\ r.open = a.open /\ r.gone = a.gone /\ r.eof = a.eof
      BY <1>2 DEF MuxAtType
  <2>2. muxAt' = [muxAt EXCEPT ![e][x] = r]
      BY <1>5
  <2> HIDE DEF r
  <2>3. MuxWrites(e, x, n, r)
      BY <1>1, <1>2, <2>2 DEF MuxWrites
  <2>4. muxPreempts' > 0
    <3>1. muxPreempts \in 0..MuxMaxPreempts /\ MuxMaxPreempts \in Nat
        BY <1>h, MuxAssumption DEF MuxTypeOK
    <3>q. QED BY <1>5, <3>1 DEF MuxMayPreempt
  <2>5. MuxCounted(a, n, r)
      BY <1>2, <1>3, <2>1, <2>4 DEF MuxCounted
  <2>q. QED BY <1>5, <2>1, <2>3, <2>5, MuxWritesKeeps
<1>q. QED BY <1>1, <1>4, <1>5
-----------------------------------------------------------------------------
(* The reader *)

\* The reader of e takes frame h of stream x from the pipe of its peer p, after
\* which its records of the stream are r and b.
MuxReads(e, p, x, h, r, b) ==
    /\ muxPipe[p] # <<>> /\ h = Head(muxPipe[p]) /\ x = h.s
    /\ muxPipe' = [muxPipe EXCEPT ![p] = Tail(@)]
    /\ muxAt' = [muxAt EXCEPT ![e][x] = r] /\ muxBook' = [muxBook EXCEPT ![e][x] = b]
    /\ muxControl' = muxControl \/ muxControl' = [muxControl EXCEPT ![e].refused = @ \cup {x}]
    /\ muxCut' = muxCut \/ muxCut' = muxCut \cup {<<e, x>>}
    /\ muxData' = muxData /\ muxWriter' = muxWriter /\ muxPreempts' = muxPreempts

\* What that leaves of the stream at both ends.
MuxPassed(e, p, x, h, r, b) ==
    /\ muxAt'[e][x] = r /\ muxBook'[e][x] = b /\ muxAt'[p][x] = muxAt[p][x] /\ muxBook'[p][x] = muxBook[p][x]
    /\ muxPreempts' = muxPreempts /\ muxWriter' = muxWriter /\ muxControl'[p] = muxControl[p]
    /\ muxControl'[e].wake = muxControl[e].wake
    /\ muxCut \subseteq muxCut' /\ (<<p, x>> \in muxCut' <=> <<p, x>> \in muxCut)
    /\ MuxQuiet(e, x) /\ MuxShrunk(p, x, h)
    /\ MuxBytesQueued(p, x)' = MuxBytesQueued(p, x) /\ MuxFramesQueued(p, x)' = MuxFramesQueued(p, x)
    /\ h.t \in MuxFrameTypes /\ h.n \in Nat

LEMMA MuxReadsFrame ==
    ASSUME MuxTypeOK, NEW e \in MuxEnds, NEW p, p = MuxPeer(e), NEW x \in MuxStreams, NEW h \in MuxFrame,
           NEW r \in MuxAtType, NEW b \in MuxBookType, MuxReads(e, p, x, h, r, b)
    PROVE  /\ MuxTypeOK' /\ \A s \in MuxStreams : s # x => MuxSame(s)
           /\ MuxPassed(e, p, x, h, r, b)
<1>0. p \in MuxEnds /\ p # e
    BY MuxPeers
<1>1. /\ muxPipe[p] # <<>> /\ h = Head(muxPipe[p]) /\ x = h.s
      /\ muxPipe' = [muxPipe EXCEPT ![p] = Tail(@)]
      /\ muxAt' = [muxAt EXCEPT ![e][x] = r] /\ muxBook' = [muxBook EXCEPT ![e][x] = b]
      /\ muxData' = muxData /\ muxWriter' = muxWriter /\ muxPreempts' = muxPreempts
    BY DEF MuxReads
<1>2. MuxShrunk(p, x, h)
    BY <1>0, <1>1, MuxTaken
<1>3. /\ muxPipe' \in [MuxEnds -> Seq(MuxFrame)]
      /\ \A f \in MuxEnds, s \in MuxStreams : f # p \/ s # x => MuxPipeSame(f, s)
    BY <1>2 DEF MuxShrunk
<1>4. \A f \in MuxEnds, s \in MuxStreams : MuxQueueSame(f, s)
    BY <1>1, MuxSameFrames
<1>5. /\ muxControl' \in [MuxEnds -> [wake : BOOLEAN, refused : SUBSET MuxStreams]]
      /\ \A f \in MuxEnds : /\ muxControl'[f].wake = muxControl[f].wake
                            /\ \A s \in MuxStreams : s # x => (s \in muxControl'[f].refused <=> s \in muxControl[f].refused)
      /\ muxControl'[p] = muxControl[p]
  <2>1. muxControl \in [MuxEnds -> [wake : BOOLEAN, refused : SUBSET MuxStreams]]
      BY DEF MuxTypeOK
  <2>2. CASE muxControl' = muxControl
      BY <2>1, <2>2
  <2>3. CASE muxControl' = [muxControl EXCEPT ![e].refused = @ \cup {x}]
      BY <1>0, <2>1, <2>3
  <2>q. QED BY <2>2, <2>3 DEF MuxReads
<1>6. muxCut \subseteq muxCut' /\ muxCut' \subseteq MuxEnds \X MuxStreams /\ (<<p, x>> \in muxCut' <=> <<p, x>> \in muxCut)
  <2>1. muxCut \subseteq MuxEnds \X MuxStreams /\ <<p, x>> # <<e, x>>
      BY <1>0 DEF MuxTypeOK
  <2>q. QED BY <2>1 DEF MuxReads
<1>7. /\ muxData' \in [MuxEnds -> Seq([s : MuxStreams, n : 1..MuxWindow])]
      /\ \A f \in MuxEnds : Len(muxData'[f]) <= MuxQueue
      /\ muxWriter' \in [MuxEnds -> [pc : {"flush", "select", "close"}, s : MuxStreams]]
    BY <1>1 DEF MuxTypeOK
<1>8. muxPreempts' \in 0..MuxMaxPreempts /\ muxPreempts <= muxPreempts'
  <2>1. muxPreempts \in 0..MuxMaxPreempts /\ MuxMaxPreempts \in Nat
      BY MuxAssumption DEF MuxTypeOK
  <2>q. QED BY <1>1, <2>1
<1>9. MuxAbout(e, x, r, b)
    BY ONLY <1>1, <1>3, <1>4, <1>5, <1>6, <1>7, <1>8 DEF MuxAbout
<1>10. /\ MuxTypeOK' /\ \A s \in MuxStreams : s # x => MuxSame(s)
       /\ muxAt'[e][x] = r /\ muxBook'[e][x] = b
       /\ muxAt'[p][x] = muxAt[p][x] /\ muxBook'[p][x] = muxBook[p][x]
    BY <1>0, <1>9, MuxStepFrame
<1>11. MuxQuiet(e, x)
    BY <1>0, <1>3, <1>4, MuxQuietFacts
<1>12. MuxBytesQueued(p, x)' = MuxBytesQueued(p, x) /\ MuxFramesQueued(p, x)' = MuxFramesQueued(p, x)
    BY <1>0, <1>4 DEF MuxQueueSame
<1>13. h.t \in MuxFrameTypes /\ h.n \in Nat
    BY DEF MuxFrame
<1>14. MuxPassed(e, p, x, h, r, b)
    BY <1>0, <1>1, <1>2, <1>5, <1>6, <1>10, <1>11, <1>12, <1>13 DEF MuxPassed
<1>q. QED BY <1>10, <1>14

\* The Open comes first: the stream was coming if this is its Open, and is not
\* coming any more.
MuxCame(e, p, x, h) ==
    /\ MuxComing(x) <=> h.t = "open"
    /\ ~MuxComing(x)' /\ (h.t = "open" => MuxOpener[x] = p)
    /\ MuxHas(p, h.t, x)

LEMMA MuxReadsComing ==
    ASSUME NEW e \in MuxEnds, NEW p, NEW x \in MuxStreams, MuxPair(e, p, x), NEW h, NEW r, NEW b,
           MuxPassed(e, p, x, h, r, b), b.opens => muxBook[e][x].opens
    PROVE  MuxCame(e, p, x, h)
<1>1. /\ \A u \in MuxFrameTypes : MuxHas(p, u, x) <=> MuxHas(p, u, x)' \/ u = h.t
      /\ h.t \in MuxFrameTypes /\ "open" \in MuxFrameTypes
    BY DEF MuxPassed, MuxShrunk, MuxFrameTypes
<1>2. /\ MuxOpenFirst(p, x) /\ h.t # "open" => ~MuxHas(p, "open", x)
      /\ MuxOpenFirst(p, x) /\ h.t = "open" => ~MuxHas(p, "open", x)'
    BY DEF MuxPassed, MuxShrunk
<1>3. MuxHas(p, h.t, x) /\ ~MuxSilent(p, x)
    BY <1>1 DEF MuxSilent
<1>4. /\ muxBook'[e][x] = b /\ muxBook'[p][x] = muxBook[p][x]
      /\ MuxHas(e, "open", x)' <=> MuxHas(e, "open", x)
    BY <1>1 DEF MuxPassed, MuxQuiet
<1>5. CASE MuxOpener[x] = p
  <2>1. MuxPeer(p) = e /\ MuxOpenFirst(p, x) /\ (muxBook[p][x].opens => MuxSilent(p, x))
      BY <1>5 DEF MuxPair, MuxOpening
  <2>2. ~muxBook[p][x].opens
      BY <1>3, <2>1
  <2>3. MuxHas(p, "open", x) <=> h.t = "open"
      BY <1>1, <1>2, <2>1
  <2>4. ~MuxHas(p, "open", x)'
      BY <1>1, <1>2, <2>1
  <2>q. QED BY <1>3, <1>4, <1>5, <2>2, <2>3, <2>4 DEF MuxCame, MuxComing
<1>6. CASE MuxOpener[x] = e
  <2>1. MuxPeer(e) = p /\ ~MuxHas(p, "open", x) /\ (MuxComing(x) => MuxSilent(p, x))
      BY <1>6 DEF MuxPair, MuxOpening
  <2>2. ~MuxComing(x) /\ h.t # "open"
      BY <1>1, <1>3, <2>1
  <2>3. ~MuxComing(x)'
      BY <1>4, <1>6, <2>2 DEF MuxComing
  <2>q. QED BY <1>3, <2>2, <2>3 DEF MuxCame
<1>q. QED BY <1>5, <1>6 DEF MuxPair

\* The bytes on their way and the credit of the two directions.
MuxCharged(e, p, x, h, r, b) ==
    LET d == IF h.t = "data" THEN h.n ELSE 0
        w == IF h.t = "window" THEN h.n ELSE 0
    IN  /\ MuxOnWay(e, x)' = MuxOnWay(e, x) /\ MuxOnWay(p, x) = MuxOnWay(p, x)' + d
        /\ MuxOnWay(e, x) \in Nat /\ MuxOnWay(p, x) \in Nat /\ MuxOnWay(p, x)' \in Nat
        /\ MuxCredits(e, x) \in Nat /\ MuxCredits(p, x) \in Nat /\ MuxCredits(e, x)' \in Nat /\ MuxCredits(p, x)' \in Nat
        /\ MuxCredits(e, x) + r.credit = MuxCredits(e, x)' + muxAt[e][x].credit + w
        /\ muxAt[e][x].credit + w <= MuxCredits(e, x)
        /\ MuxCredits(p, x) + r.buf + b.grant = MuxCredits(p, x)' + muxAt[e][x].buf + muxBook[e][x].grant + d

LEMMA MuxReadsCredits ==
    ASSUME NEW e \in MuxEnds, NEW p, NEW x \in MuxStreams, MuxPair(e, p, x), NEW h, NEW r \in MuxAtType, NEW b \in MuxBookType,
           MuxTyped(e, x), MuxTyped(p, x), MuxPassed(e, p, x, h, r, b)
    PROVE  MuxCharged(e, p, x, h, r, b)
<1> DEFINE d == IF h.t = "data" THEN h.n ELSE 0
           w == IF h.t = "window" THEN h.n ELSE 0
           a == muxAt[e][x]
           c == muxBook[e][x]
           q == muxAt[p][x]
           g == muxBook[p][x]
<1>0. p \in MuxEnds /\ MuxPeer(p) = e /\ MuxPeer(e) = p
    BY DEF MuxPair
<1>1. /\ MuxIn(p, "data", x) = MuxIn(p, "data", x)' + d /\ MuxIn(p, "window", x) = MuxIn(p, "window", x)' + w
      /\ MuxIn(p, "data", x)' \in Nat /\ MuxIn(p, "window", x)' \in Nat /\ d \in Nat /\ w \in Nat
  <2>1. /\ \A u \in MuxFrameTypes : /\ MuxIn(p, u, x) = MuxIn(p, u, x)' + IF u = h.t THEN h.n ELSE 0
                                    /\ MuxIn(p, u, x)' \in Nat
        /\ h.n \in Nat
      BY DEF MuxPassed, MuxShrunk
  <2>2. "data" \in MuxFrameTypes /\ "window" \in MuxFrameTypes
      BY DEF MuxFrameTypes
  <2>3. MuxIn(p, "data", x) = MuxIn(p, "data", x)' + IF "data" = h.t THEN h.n ELSE 0
      BY <2>1, <2>2
  <2>4. MuxIn(p, "window", x) = MuxIn(p, "window", x)' + IF "window" = h.t THEN h.n ELSE 0
      BY <2>1, <2>2
  <2>q. QED BY <2>1, <2>2, <2>3, <2>4
<1>2. /\ MuxOnWay(e, x)' = MuxOnWay(e, x) /\ MuxIn(e, "window", x)' = MuxIn(e, "window", x)
      /\ MuxBytesQueued(p, x)' = MuxBytesQueued(p, x)
      /\ muxAt'[e][x] = r /\ muxBook'[e][x] = b /\ muxAt'[p][x] = q /\ muxBook'[p][x] = g
    BY DEF MuxPassed, MuxQuiet, MuxFrameTypes
<1>3. \A f \in {e, p} : /\ MuxIn(f, "data", x) \in Nat /\ MuxIn(f, "window", x) \in Nat /\ MuxBytesQueued(f, x) \in Nat
                        /\ muxAt[f][x].credit \in Nat /\ muxAt[f][x].buf \in Nat /\ muxBook[f][x].grant \in Nat
    BY DEF MuxTyped, MuxFrameTypes
<1>4. r.credit \in Nat /\ r.buf \in Nat /\ b.grant \in Nat
  <2>1. r.credit \in 0..MuxWindow /\ r.buf \in 0..MuxWindow /\ b.grant \in 0..MuxWindow /\ MuxWindow \in Nat
      BY MuxAssumption DEF MuxAtType, MuxBookType
  <2>q. QED BY <2>1
<1>5. /\ MuxOnWay(e, x) = MuxBytesQueued(e, x) + MuxIn(e, "data", x)
      /\ MuxCredits(e, x) = a.credit + MuxOnWay(e, x) + q.buf + g.grant + MuxIn(p, "window", x)
      /\ MuxCredits(e, x)' = r.credit + MuxOnWay(e, x)' + q.buf + g.grant + MuxIn(p, "window", x)'
    BY <1>0, <1>2, MuxSums
<1>6. /\ MuxOnWay(p, x) = MuxBytesQueued(p, x) + MuxIn(p, "data", x)
      /\ MuxOnWay(p, x)' = MuxBytesQueued(p, x)' + MuxIn(p, "data", x)'
      /\ MuxCredits(p, x) = q.credit + MuxOnWay(p, x) + a.buf + c.grant + MuxIn(e, "window", x)
      /\ MuxCredits(p, x)' = q.credit + MuxOnWay(p, x)' + r.buf + b.grant + MuxIn(e, "window", x)'
    BY <1>0, <1>2, MuxSums
<1>t. /\ a.credit \in Nat /\ a.buf \in Nat /\ c.grant \in Nat /\ q.credit \in Nat /\ q.buf \in Nat /\ g.grant \in Nat
      /\ MuxIn(e, "data", x) \in Nat /\ MuxIn(e, "window", x) \in Nat /\ MuxBytesQueued(e, x) \in Nat
      /\ MuxBytesQueued(p, x) \in Nat
    BY <1>3
<1> HIDE DEF d, w, a, c, q, g
<1>7. /\ MuxOnWay(e, x) \in Nat /\ MuxOnWay(p, x)' \in Nat /\ MuxOnWay(p, x) \in Nat
      /\ MuxOnWay(p, x) = MuxOnWay(p, x)' + d
    BY <1>1, <1>2, <1>5, <1>6, <1>t
<1>8. /\ MuxCredits(e, x) \in Nat /\ MuxCredits(e, x)' \in Nat
      /\ MuxCredits(e, x) + r.credit = MuxCredits(e, x)' + a.credit + w
      /\ a.credit + w <= MuxCredits(e, x)
    BY <1>1, <1>2, <1>4, <1>5, <1>7, <1>t
<1>9. /\ MuxCredits(p, x) \in Nat /\ MuxCredits(p, x)' \in Nat
      /\ MuxCredits(p, x) + r.buf + b.grant = MuxCredits(p, x)' + a.buf + c.grant + d
    BY <1>1, <1>2, <1>4, <1>6, <1>7, <1>t
<1>q. QED BY <1>2, <1>7, <1>8, <1>9 DEF MuxCharged, d, w, a, c

\* A frame other than an Open changes what the end takes of the stream; the rest
\* of what is known of it stays.
MuxHeard(e, p, x, h, r) ==
    /\ r.own = muxAt[e][x].own /\ r.sent = muxAt[e][x].sent /\ r.n = muxAt[e][x].n
    /\ r.got = muxAt[e][x].got /\ r.slot = muxAt[e][x].slot /\ (r.open => muxAt[e][x].open)
    /\ (r.buf = muxAt[e][x].buf \/ h.t = "data")
    /\ (~r.open /\ muxAt[e][x].open => h.t # "window")

LEMMA MuxHeardKeeps ==
    ASSUME MuxInv, NEW e \in MuxEnds, NEW p, p = MuxPeer(e), NEW x \in MuxStreams, NEW h \in MuxFrame,
           NEW r \in MuxAtType, MuxReads(e, p, x, h, r, muxBook[e][x]), muxControl' = muxControl,
           h.t # "open", MuxHeard(e, p, x, h, r),
           MuxSlot(e, x)', MuxDelivers(e, x)', MuxCreditKept(e, x)', MuxCreditKept(p, x)'
    PROVE  MuxInv'
<1> DEFINE a == muxAt[e][x]
           b == muxBook[e][x]
<1>h. MuxPair(e, p, x) /\ MuxTypeOK /\ p \in MuxEnds /\ MuxTyped(e, x) /\ MuxTyped(p, x)
    BY MuxBoth, MuxNumbers
<1>b. b \in MuxBookType
    BY <1>h DEF MuxTyped
<1>4. /\ MuxTypeOK' /\ \A s \in MuxStreams : s # x => MuxSame(s)
      /\ MuxPassed(e, p, x, h, r, b)
    BY <1>h, <1>b, MuxReadsFrame
<1>s. MuxCame(e, p, x, h)
    BY <1>h, <1>b, <1>4, MuxReadsComing
<1>c. MuxCharged(e, p, x, h, r, b)
    BY <1>h, <1>b, <1>4, MuxReadsCredits
<1>m. /\ muxAt'[e][x] = r /\ muxBook'[e][x] = b /\ muxAt'[p][x] = muxAt[p][x] /\ muxBook'[p][x] = muxBook[p][x]
      /\ muxPreempts' = muxPreempts /\ muxWriter' = muxWriter /\ muxControl'[p] = muxControl[p]
      /\ muxControl'[e].wake = muxControl[e].wake
      /\ muxCut \subseteq muxCut' /\ (<<p, x>> \in muxCut' <=> <<p, x>> \in muxCut)
      /\ MuxFramesQueued(p, x)' = MuxFramesQueued(p, x)
    BY <1>4 DEF MuxPassed
<1>k. /\ (MuxHas(e, "open", x)' <=> MuxHas(e, "open", x)) /\ (MuxHas(e, "data", x)' <=> MuxHas(e, "data", x))
      /\ (MuxHas(e, "close", x)' <=> MuxHas(e, "close", x)) /\ (MuxHas(e, "window", x)' <=> MuxHas(e, "window", x))
      /\ (MuxHas(p, "open", x)' => MuxHas(p, "open", x)) /\ (MuxHas(p, "data", x)' => MuxHas(p, "data", x))
      /\ (MuxHas(p, "close", x)' => MuxHas(p, "close", x)) /\ (MuxHas(p, "window", x)' => MuxHas(p, "window", x))
      /\ (MuxSilent(p, x) => MuxSilent(p, x)')
      /\ (MuxCloseLast(e, x) => MuxCloseLast(e, x)') /\ (MuxOpenFirst(e, x) => MuxOpenFirst(e, x)')
      /\ (MuxCloseLast(p, x) => MuxCloseLast(p, x)') /\ (MuxOpenFirst(p, x) => MuxOpenFirst(p, x)')
      /\ (MuxSilent(e, x)' <=> MuxSilent(e, x)) /\ MuxFramesQueued(e, x)' = MuxFramesQueued(e, x)
    BY <1>4 DEF MuxPassed, MuxQuiet, MuxShrunk, MuxFrameTypes, MuxSilent
<1>n. ~MuxComing(x)' /\ MuxHas(p, h.t, x) /\ h.t \in {"open", "data", "close", "window"}
      /\ (MuxComing(x) <=> h.t = "open") /\ (h.t = "open" => MuxOpener[x] = p)
    BY <1>s, <1>4 DEF MuxCame, MuxPassed, MuxFrameTypes
<1>3. /\ r.own = a.own /\ r.sent = a.sent /\ r.n = a.n /\ r.got = a.got /\ r.slot = a.slot /\ (r.open => a.open)
      /\ (r.buf = a.buf \/ h.t = "data")
    BY DEF MuxHeard
<1>v. MuxAccepts(p, x)' <=> MuxAccepts(p, x)
    BY <1>m, <1>n DEF MuxAccepts
<1>5. MuxOpening(x)'
    BY <1>h, <1>3, <1>m, <1>k, <1>n DEF MuxOpening, MuxPair
<1>6. MuxSlot(e, x)'
    OBVIOUS
<1>7. MuxSlot(p, x)'
    BY <1>h, <1>m DEF MuxSlot, MuxPair
<1>8. MuxClosing(e, x)'
    BY <1>h, <1>3, <1>m, <1>k, <1>n DEF MuxClosing, MuxPair
<1>9. MuxClosing(p, x)'
    BY <1>h, <1>3, <1>m, <1>k, <1>n DEF MuxClosing, MuxPair
<1>10. MuxFresh(e, x)'
  <2>1. a.own = "none" => MuxOpener[x] # e
      BY <1>h, <1>n DEF MuxPair, MuxFresh, MuxSilent, MuxFrameTypes
  <2>q. QED BY <1>h, <1>3, <1>m, <1>k, <2>1 DEF MuxFresh, MuxPair
<1>11. MuxFresh(p, x)'
  <2>1. muxAt[p][x].own = "none" => h.t = "close"
      BY <1>h, <1>n DEF MuxPair, MuxFresh
  <2>2. muxAt[p][x].own = "none" => MuxOpener[x] # p
      BY <1>h, <1>n DEF MuxPair, MuxFresh, MuxSilent, MuxFrameTypes
  <2>q. QED BY <1>h, <1>3, <1>m, <1>k, <2>1, <2>2 DEF MuxFresh, MuxPair
<1>12. MuxDelivers(e, x)'
    OBVIOUS
<1>13. MuxDelivers(p, x)'
  <2>1. MuxOnWay(e, x)' = MuxOnWay(e, x)
      BY <1>c DEF MuxCharged
  <2>q. QED BY <1>h, <1>3, <1>m, <1>v, <2>1 DEF MuxDelivers, MuxPair
<1>14. MuxCreditKept(e, x)'
    OBVIOUS
<1>15. MuxCreditKept(p, x)'
    OBVIOUS
<1>q. QED BY <1>4, <1>5, <1>6, <1>7, <1>8, <1>9, <1>10, <1>11, <1>12, <1>13, <1>14, <1>15, MuxKept

\* Data of a stream that takes it is buffered.
LEMMA MuxDataKeeps ==
    ASSUME MuxInv, NEW e \in MuxEnds, NEW p, p = MuxPeer(e), NEW x \in MuxStreams, NEW h \in MuxFrame,
           NEW r \in MuxAtType, MuxReads(e, p, x, h, r, muxBook[e][x]), muxControl' = muxControl,
           h.t = "data", muxCut' = muxCut, muxAt[e][x].slot, muxAt[e][x].open, r.buf = muxAt[e][x].buf + h.n,
           \A k \in {"own", "left", "sent", "got", "n", "slot", "credit", "flight", "open", "gone", "eof"} : r[k] = muxAt[e][x][k]
    PROVE  MuxInv'
<1> DEFINE a == muxAt[e][x]
           b == muxBook[e][x]
<1>h. MuxPair(e, p, x) /\ MuxTypeOK /\ p \in MuxEnds /\ MuxTyped(e, x) /\ MuxTyped(p, x)
    BY MuxBoth, MuxNumbers
<1>b. b \in MuxBookType
    BY <1>h DEF MuxTyped
<1>4. /\ MuxTypeOK' /\ \A s \in MuxStreams : s # x => MuxSame(s)
      /\ MuxPassed(e, p, x, h, r, b)
    BY <1>h, <1>b, MuxReadsFrame
<1>s. MuxCame(e, p, x, h)
    BY <1>h, <1>b, <1>4, MuxReadsComing
<1>c. MuxCharged(e, p, x, h, r, b)
    BY <1>h, <1>b, <1>4, MuxReadsCredits
<1>m. /\ muxAt'[e][x] = r /\ muxBook'[e][x] = b /\ muxAt'[p][x] = muxAt[p][x] /\ muxBook'[p][x] = muxBook[p][x]
      /\ muxPreempts' = muxPreempts /\ muxWriter' = muxWriter /\ muxControl'[p] = muxControl[p]
      /\ muxControl'[e].wake = muxControl[e].wake
      /\ muxCut \subseteq muxCut' /\ (<<p, x>> \in muxCut' <=> <<p, x>> \in muxCut)
      /\ MuxFramesQueued(p, x)' = MuxFramesQueued(p, x)
    BY <1>4 DEF MuxPassed
<1>n. ~MuxComing(x)' /\ MuxHas(p, h.t, x) /\ h.t \in {"open", "data", "close", "window"}
      /\ (MuxComing(x) <=> h.t = "open") /\ (h.t = "open" => MuxOpener[x] = p)
    BY <1>s, <1>4 DEF MuxCame, MuxPassed, MuxFrameTypes
<1>t. /\ a.credit \in Nat /\ a.buf \in Nat /\ b.grant \in Nat /\ a.n \in Nat /\ MuxWindow \in Nat /\ h.n \in Nat
      /\ a.got \in Nat /\ a.flight \in Nat /\ muxAt[p][x].n \in Nat /\ muxAt[p][x].sent \in Nat
    BY <1>h DEF MuxTyped, MuxFrame
<1>f. r.credit \in Nat /\ r.buf \in Nat
  <2>1. r.credit \in 0..MuxWindow /\ r.buf \in 0..MuxWindow
      BY DEF MuxAtType
  <2>q. QED BY <1>t, <2>1
<1>o. /\ MuxDelivers(e, x) /\ MuxCreditKept(e, x) /\ MuxCreditKept(p, x) /\ MuxSlot(e, x) /\ MuxSlot(p, x)
      /\ MuxPeer(e) = p /\ MuxPeer(p) = e
    BY <1>h DEF MuxPair
<1>v. MuxAccepts(p, x)' <=> MuxAccepts(p, x)
  <2>1. h.t # "open"
      OBVIOUS
  <2>q. QED BY <1>m, <1>n, <2>1 DEF MuxAccepts
<1>w. /\ MuxOnWay(p, x) = MuxOnWay(p, x)' + (IF h.t = "data" THEN h.n ELSE 0)
      /\ MuxOnWay(p, x) \in Nat /\ MuxOnWay(p, x)' \in Nat
      /\ MuxCredits(e, x) \in Nat /\ MuxCredits(p, x) \in Nat /\ MuxCredits(e, x)' \in Nat /\ MuxCredits(p, x)' \in Nat
      /\ MuxCredits(e, x) + r.credit = MuxCredits(e, x)' + a.credit + (IF h.t = "window" THEN h.n ELSE 0)
      /\ a.credit + (IF h.t = "window" THEN h.n ELSE 0) <= MuxCredits(e, x)
      /\ MuxCredits(p, x) + r.buf + b.grant = MuxCredits(p, x)' + a.buf + b.grant + (IF h.t = "data" THEN h.n ELSE 0)
    BY <1>c DEF MuxCharged
<1>3. /\ r.buf = a.buf + h.n
      /\ r.left = a.left /\ r.sent = a.sent /\ r.got = a.got /\ r.n = a.n /\ r.slot = a.slot
      /\ r.credit = a.credit /\ r.flight = a.flight /\ r.open = a.open /\ r.gone = a.gone /\ r.eof = a.eof
      /\ r.own = a.own
    OBVIOUS
<1>6. MuxSlot(e, x)'
    BY <1>3, <1>m, <1>o DEF MuxSlot
<1>u. MuxAccepts(e, x) /\ MuxAccepts(e, x)'
    BY <1>3, <1>m DEF MuxAccepts
<1>12. MuxDelivers(e, x)'
  <2>1. a.got + a.buf + MuxOnWay(p, x) = muxAt[p][x].sent + muxAt[p][x].n
      BY <1>o, <1>u DEF MuxDelivers
  <2>2. MuxOnWay(p, x) = MuxOnWay(p, x)' + h.n /\ MuxOnWay(p, x)' \in Nat
      BY <1>w
  <2>3. r.got = a.got /\ r.buf = a.buf + h.n
      BY <1>3
  <2>4. r.got + r.buf + MuxOnWay(p, x)' = a.got + a.buf + MuxOnWay(p, x)
      BY ONLY <1>t, <2>2, <2>3
  <2>5. r.got + r.buf + MuxOnWay(p, x)' = muxAt[p][x].sent + muxAt[p][x].n
      BY <2>1, <2>4
  <2>q. QED BY <1>3, <1>m, <1>o, <2>5 DEF MuxDelivers
<1>14. MuxCreditKept(e, x)'
  <2>1. MuxCredits(e, x)' = MuxCredits(e, x)
    <3>1. MuxCredits(e, x) + a.credit = MuxCredits(e, x)' + a.credit + 0
        BY <1>3, <1>w
    <3>2. MuxCredits(e, x) \in Nat /\ MuxCredits(e, x)' \in Nat /\ a.credit \in Nat
        BY <1>t, <1>w
    <3> HIDE DEF a
    <3>q. QED BY ONLY <3>1, <3>2
  <2>q. QED BY <1>3, <1>m, <1>o, <1>v, <2>1 DEF MuxCreditKept
<1>15. MuxCreditKept(p, x)'
  <2>1. MuxCredits(p, x)' = MuxCredits(p, x)
      BY <1>3, <1>t, <1>w
  <2>q. QED BY <1>m, <1>o, <1>u, <2>1 DEF MuxCreditKept
<1>q. QED
  <2>1. h.t # "open" /\ MuxHeard(e, p, x, h, r)
      BY DEF MuxHeard
  <2> HIDE DEF a, b
  <2>q. QED BY <1>6, <1>12, <1>14, <1>15, <2>1, MuxHeardKeeps

\* A Close, or data that does not fit, ends what the stream takes.
LEMMA MuxClosedKeeps ==
    ASSUME MuxInv, NEW e \in MuxEnds, NEW p, p = MuxPeer(e), NEW x \in MuxStreams, NEW h \in MuxFrame,
           NEW r \in MuxAtType, MuxReads(e, p, x, h, r, muxBook[e][x]), muxControl' = muxControl,
           h.t \in {"data", "close"}, muxAt[e][x].slot, ~r.open,
           \A k \in {"own", "left", "sent", "got", "n", "slot", "credit", "flight", "buf", "eof"} : r[k] = muxAt[e][x][k],
           muxCut' = IF h.t = "data" /\ muxAt[e][x].open THEN muxCut \cup {<<e, x>>} ELSE muxCut
    PROVE  MuxInv'
<1> DEFINE a == muxAt[e][x]
           b == muxBook[e][x]
<1>h. MuxPair(e, p, x) /\ MuxTypeOK /\ p \in MuxEnds /\ MuxTyped(e, x) /\ MuxTyped(p, x)
    BY MuxBoth, MuxNumbers
<1>b. b \in MuxBookType
    BY <1>h DEF MuxTyped
<1>4. /\ MuxTypeOK' /\ \A s \in MuxStreams : s # x => MuxSame(s)
      /\ MuxPassed(e, p, x, h, r, b)
    BY <1>h, <1>b, MuxReadsFrame
<1>s. MuxCame(e, p, x, h)
    BY <1>h, <1>b, <1>4, MuxReadsComing
<1>c. MuxCharged(e, p, x, h, r, b)
    BY <1>h, <1>b, <1>4, MuxReadsCredits
<1>m. /\ muxAt'[e][x] = r /\ muxBook'[e][x] = b /\ muxAt'[p][x] = muxAt[p][x] /\ muxBook'[p][x] = muxBook[p][x]
      /\ muxPreempts' = muxPreempts /\ muxWriter' = muxWriter /\ muxControl'[p] = muxControl[p]
      /\ muxControl'[e].wake = muxControl[e].wake
      /\ muxCut \subseteq muxCut' /\ (<<p, x>> \in muxCut' <=> <<p, x>> \in muxCut)
      /\ MuxFramesQueued(p, x)' = MuxFramesQueued(p, x)
    BY <1>4 DEF MuxPassed
<1>n. ~MuxComing(x)' /\ MuxHas(p, h.t, x) /\ h.t \in {"open", "data", "close", "window"}
      /\ (MuxComing(x) <=> h.t = "open") /\ (h.t = "open" => MuxOpener[x] = p)
    BY <1>s, <1>4 DEF MuxCame, MuxPassed, MuxFrameTypes
<1>t. /\ a.credit \in Nat /\ a.buf \in Nat /\ b.grant \in Nat /\ a.n \in Nat /\ MuxWindow \in Nat /\ h.n \in Nat
      /\ a.got \in Nat /\ a.flight \in Nat /\ muxAt[p][x].n \in Nat /\ muxAt[p][x].sent \in Nat
    BY <1>h DEF MuxTyped, MuxFrame
<1>f. r.credit \in Nat /\ r.buf \in Nat
  <2>1. r.credit \in 0..MuxWindow /\ r.buf \in 0..MuxWindow
      BY DEF MuxAtType
  <2>q. QED BY <1>t, <2>1
<1>o. /\ MuxDelivers(e, x) /\ MuxCreditKept(e, x) /\ MuxCreditKept(p, x) /\ MuxSlot(e, x) /\ MuxSlot(p, x)
      /\ MuxPeer(e) = p /\ MuxPeer(p) = e
    BY <1>h DEF MuxPair
<1>v. MuxAccepts(p, x)' <=> MuxAccepts(p, x)
  <2>1. h.t # "open"
      OBVIOUS
  <2>q. QED BY <1>m, <1>n, <2>1 DEF MuxAccepts
<1>w. /\ MuxOnWay(p, x) = MuxOnWay(p, x)' + (IF h.t = "data" THEN h.n ELSE 0)
      /\ MuxOnWay(p, x) \in Nat /\ MuxOnWay(p, x)' \in Nat
      /\ MuxCredits(e, x) \in Nat /\ MuxCredits(p, x) \in Nat /\ MuxCredits(e, x)' \in Nat /\ MuxCredits(p, x)' \in Nat
      /\ MuxCredits(e, x) + r.credit = MuxCredits(e, x)' + a.credit + (IF h.t = "window" THEN h.n ELSE 0)
      /\ a.credit + (IF h.t = "window" THEN h.n ELSE 0) <= MuxCredits(e, x)
      /\ MuxCredits(p, x) + r.buf + b.grant = MuxCredits(p, x)' + a.buf + b.grant + (IF h.t = "data" THEN h.n ELSE 0)
    BY <1>c DEF MuxCharged
<1>3. /\ ~r.open
      /\ r.left = a.left /\ r.sent = a.sent /\ r.got = a.got /\ r.n = a.n /\ r.slot = a.slot
      /\ r.credit = a.credit /\ r.flight = a.flight /\ r.buf = a.buf /\ r.eof = a.eof /\ r.own = a.own
    OBVIOUS
<1>6. MuxSlot(e, x)'
    BY <1>3, <1>m, <1>o DEF MuxSlot
<1>u. ~MuxAccepts(e, x)'
    BY <1>3, <1>m, <1>n DEF MuxAccepts
<1>12. MuxDelivers(e, x)'
  <2>1. CASE a.open /\ h.t = "close"
    <3>1. ~MuxHas(p, "data", x) /\ MuxHas(p, "close", x)
        BY <1>h, <1>n, <1>4, <2>1 DEF MuxPassed, MuxShrunk, MuxPair, MuxClosing
    <3>2. muxAt[p][x].own \in MuxEnded \cup {"none"} /\ ~muxBook[p][x].want
        BY <1>h, <3>1 DEF MuxPair, MuxClosing
    <3>3. muxBook[p][x].queued = 0
        BY <1>h, <3>2, MuxNoBookFields DEF MuxPair, MuxClosing, MuxFresh
    <3>4. MuxOnWay(p, x) = 0
      <4>1. MuxBytesQueued(p, x) = 0
          BY <1>h, <3>3 DEF MuxPair, MuxClosing, MuxTyped
      <4>2. MuxIn(p, "data", x) = 0
          BY <1>h, <3>1 DEF MuxTyped, MuxFrameTypes
      <4>3. MuxOnWay(p, x) = MuxBytesQueued(p, x) + MuxIn(p, "data", x)
          BY <1>h, MuxSums
      <4>q. QED BY <4>1, <4>2, <4>3
    <3>5. muxAt[p][x].n = 0
        BY <1>o, <3>2 DEF MuxSlot, MuxEnded
    <3>6. a.got + a.buf + MuxOnWay(p, x) = muxAt[p][x].sent + muxAt[p][x].n
        BY <1>o, <2>1 DEF MuxDelivers, MuxAccepts
    <3>7. r.got + r.buf = muxAt[p][x].sent /\ MuxOnWay(p, x)' = 0
        BY <1>3, <1>t, <1>w, <2>1, <3>4, <3>5, <3>6
    <3>q. QED BY <1>m, <1>o, <1>u, <3>2, <3>7 DEF MuxDelivers
  <2>2. CASE a.open /\ h.t = "data"
    <3>1. <<e, x>> \in muxCut'
        BY <2>2
    <3>q. QED BY <1>m, <1>o, <1>u, <3>1 DEF MuxDelivers
  <2>3. CASE ~a.open
    <3>1. muxCut' = muxCut
        BY <2>3
    <3>2. MuxOnWay(p, x) = 0 => MuxOnWay(p, x)' = 0
        BY <1>t, <1>w
    <3>q. QED BY <1>3, <1>m, <1>o, <1>u, <2>3, <3>1, <3>2 DEF MuxDelivers
  <2>q. QED BY <2>1, <2>2, <2>3
<1>14. MuxCreditKept(e, x)'
  <2>1. MuxCredits(e, x)' = MuxCredits(e, x)
    <3>1. h.t # "window"
        OBVIOUS
    <3>2. MuxCredits(e, x) + a.credit = MuxCredits(e, x)' + a.credit + 0
        BY <1>3, <1>w, <3>1
    <3>3. MuxCredits(e, x) \in Nat /\ MuxCredits(e, x)' \in Nat /\ a.credit \in Nat
        BY <1>t, <1>w
    <3> HIDE DEF a
    <3>q. QED BY ONLY <3>2, <3>3
  <2>q. QED BY <1>3, <1>m, <1>o, <1>v, <2>1 DEF MuxCreditKept
<1>15. MuxCreditKept(p, x)'
  <2>1. MuxCredits(p, x)' <= MuxCredits(p, x)
      BY <1>3, <1>t, <1>w
  <2>2. MuxCredits(p, x) <= MuxWindow + muxAt[p][x].n
      BY <1>o DEF MuxCreditKept
  <2>3. MuxCredits(p, x)' <= MuxWindow + muxAt[p][x].n
      BY <1>t, <1>w, <2>1, <2>2
  <2>q. QED BY <1>m, <1>o, <1>u, <2>3 DEF MuxCreditKept
<1>q. QED
  <2>1. h.t # "open" /\ MuxHeard(e, p, x, h, r)
      BY DEF MuxHeard
  <2> HIDE DEF a, b
  <2>q. QED BY <1>6, <1>12, <1>14, <1>15, <2>1, MuxHeardKeeps

\* A frame of a stream without a slot is dropped.
LEMMA MuxStrayKeeps ==
    ASSUME MuxInv, NEW e \in MuxEnds, NEW p, p = MuxPeer(e), NEW x \in MuxStreams, NEW h \in MuxFrame,
           NEW r \in MuxAtType, MuxReads(e, p, x, h, r, muxBook[e][x]), muxControl' = muxControl,
           h.t # "open", muxCut' = muxCut, ~muxAt[e][x].slot, r = muxAt[e][x]
    PROVE  MuxInv'
<1> DEFINE a == muxAt[e][x]
           b == muxBook[e][x]
<1>h. MuxPair(e, p, x) /\ MuxTypeOK /\ p \in MuxEnds /\ MuxTyped(e, x) /\ MuxTyped(p, x)
    BY MuxBoth, MuxNumbers
<1>b. b \in MuxBookType
    BY <1>h DEF MuxTyped
<1>4. /\ MuxTypeOK' /\ \A s \in MuxStreams : s # x => MuxSame(s)
      /\ MuxPassed(e, p, x, h, r, b)
    BY <1>h, <1>b, MuxReadsFrame
<1>s. MuxCame(e, p, x, h)
    BY <1>h, <1>b, <1>4, MuxReadsComing
<1>c. MuxCharged(e, p, x, h, r, b)
    BY <1>h, <1>b, <1>4, MuxReadsCredits
<1>m. /\ muxAt'[e][x] = r /\ muxBook'[e][x] = b /\ muxAt'[p][x] = muxAt[p][x] /\ muxBook'[p][x] = muxBook[p][x]
      /\ muxPreempts' = muxPreempts /\ muxWriter' = muxWriter /\ muxControl'[p] = muxControl[p]
      /\ muxControl'[e].wake = muxControl[e].wake
      /\ muxCut \subseteq muxCut' /\ (<<p, x>> \in muxCut' <=> <<p, x>> \in muxCut)
      /\ MuxFramesQueued(p, x)' = MuxFramesQueued(p, x)
    BY <1>4 DEF MuxPassed
<1>n. ~MuxComing(x)' /\ MuxHas(p, h.t, x) /\ h.t \in {"open", "data", "close", "window"}
      /\ (MuxComing(x) <=> h.t = "open") /\ (h.t = "open" => MuxOpener[x] = p)
    BY <1>s, <1>4 DEF MuxCame, MuxPassed, MuxFrameTypes
<1>t. /\ a.credit \in Nat /\ a.buf \in Nat /\ b.grant \in Nat /\ a.n \in Nat /\ MuxWindow \in Nat /\ h.n \in Nat
      /\ a.got \in Nat /\ a.flight \in Nat /\ muxAt[p][x].n \in Nat /\ muxAt[p][x].sent \in Nat
    BY <1>h DEF MuxTyped, MuxFrame
<1>f. r.credit \in Nat /\ r.buf \in Nat
  <2>1. r.credit \in 0..MuxWindow /\ r.buf \in 0..MuxWindow
      BY DEF MuxAtType
  <2>q. QED BY <1>t, <2>1
<1>o. /\ MuxDelivers(e, x) /\ MuxCreditKept(e, x) /\ MuxCreditKept(p, x) /\ MuxSlot(e, x) /\ MuxSlot(p, x)
      /\ MuxPeer(e) = p /\ MuxPeer(p) = e
    BY <1>h DEF MuxPair
<1>v. MuxAccepts(p, x)' <=> MuxAccepts(p, x)
  <2>1. h.t # "open"
      OBVIOUS
  <2>q. QED BY <1>m, <1>n, <2>1 DEF MuxAccepts
<1>w. /\ MuxOnWay(p, x) = MuxOnWay(p, x)' + (IF h.t = "data" THEN h.n ELSE 0)
      /\ MuxOnWay(p, x) \in Nat /\ MuxOnWay(p, x)' \in Nat
      /\ MuxCredits(e, x) \in Nat /\ MuxCredits(p, x) \in Nat /\ MuxCredits(e, x)' \in Nat /\ MuxCredits(p, x)' \in Nat
      /\ MuxCredits(e, x) + r.credit = MuxCredits(e, x)' + a.credit + (IF h.t = "window" THEN h.n ELSE 0)
      /\ a.credit + (IF h.t = "window" THEN h.n ELSE 0) <= MuxCredits(e, x)
      /\ MuxCredits(p, x) + r.buf + b.grant = MuxCredits(p, x)' + a.buf + b.grant + (IF h.t = "data" THEN h.n ELSE 0)
    BY <1>c DEF MuxCharged
<1>3. r = a /\ ~a.slot
    OBVIOUS
<1>6. MuxSlot(e, x)'
    BY <1>3, <1>m, <1>o DEF MuxSlot
<1>u. ~MuxAccepts(e, x)'
    BY <1>3, <1>m, <1>n DEF MuxAccepts
<1>12. MuxDelivers(e, x)'
    BY <1>3, <1>m, <1>o, <1>u DEF MuxDelivers
<1>14. MuxCreditKept(e, x)'
  <2>1. MuxCredits(e, x)' <= MuxCredits(e, x)
      BY <1>3, <1>t, <1>w
  <2>2. MuxCredits(e, x) <= MuxWindow + a.n
      BY <1>o DEF MuxCreditKept
  <2>3. MuxCredits(e, x)' <= MuxWindow + a.n
      BY <1>t, <1>w, <2>1, <2>2
  <2>q. QED BY <1>3, <1>m, <2>3 DEF MuxCreditKept
<1>15. MuxCreditKept(p, x)'
  <2>1. MuxCredits(p, x)' <= MuxCredits(p, x)
      BY <1>3, <1>t, <1>w
  <2>2. MuxCredits(p, x) <= MuxWindow + muxAt[p][x].n
      BY <1>o DEF MuxCreditKept
  <2>3. MuxCredits(p, x)' <= MuxWindow + muxAt[p][x].n
      BY <1>t, <1>w, <2>1, <2>2
  <2>q. QED BY <1>m, <1>o, <1>u, <2>3 DEF MuxCreditKept
<1>q. QED
  <2>1. h.t # "open" /\ MuxHeard(e, p, x, h, r)
      BY DEF MuxHeard
  <2> HIDE DEF a, b
  <2>q. QED BY <1>6, <1>12, <1>14, <1>15, <2>1, MuxHeardKeeps

\* Credit comes back: no more than is in flight.
LEMMA MuxWindowKeeps ==
    ASSUME MuxInv, NEW e \in MuxEnds, NEW p, p = MuxPeer(e), NEW x \in MuxStreams, NEW h \in MuxFrame,
           NEW r \in MuxAtType, MuxReads(e, p, x, h, r, muxBook[e][x]), muxControl' = muxControl,
           h.t = "window", muxCut' = muxCut, muxAt[e][x].slot,
           \A k \in {"own", "left", "sent", "got", "n", "slot", "buf", "open", "gone", "eof"} : r[k] = muxAt[e][x][k],
           r.credit + r.flight = MuxWindow, muxAt[e][x].credit <= r.credit, r.credit <= muxAt[e][x].credit + h.n,
           h.n <= muxAt[e][x].flight => r.credit = muxAt[e][x].credit + h.n
    PROVE  MuxInv'
<1> DEFINE a == muxAt[e][x]
           b == muxBook[e][x]
<1>h. MuxPair(e, p, x) /\ MuxTypeOK /\ p \in MuxEnds /\ MuxTyped(e, x) /\ MuxTyped(p, x)
    BY MuxBoth, MuxNumbers
<1>b. b \in MuxBookType
    BY <1>h DEF MuxTyped
<1>4. /\ MuxTypeOK' /\ \A s \in MuxStreams : s # x => MuxSame(s)
      /\ MuxPassed(e, p, x, h, r, b)
    BY <1>h, <1>b, MuxReadsFrame
<1>s. MuxCame(e, p, x, h)
    BY <1>h, <1>b, <1>4, MuxReadsComing
<1>c. MuxCharged(e, p, x, h, r, b)
    BY <1>h, <1>b, <1>4, MuxReadsCredits
<1>m. /\ muxAt'[e][x] = r /\ muxBook'[e][x] = b /\ muxAt'[p][x] = muxAt[p][x] /\ muxBook'[p][x] = muxBook[p][x]
      /\ muxPreempts' = muxPreempts /\ muxWriter' = muxWriter /\ muxControl'[p] = muxControl[p]
      /\ muxControl'[e].wake = muxControl[e].wake
      /\ muxCut \subseteq muxCut' /\ (<<p, x>> \in muxCut' <=> <<p, x>> \in muxCut)
      /\ MuxFramesQueued(p, x)' = MuxFramesQueued(p, x)
    BY <1>4 DEF MuxPassed
<1>n. ~MuxComing(x)' /\ MuxHas(p, h.t, x) /\ h.t \in {"open", "data", "close", "window"}
      /\ (MuxComing(x) <=> h.t = "open") /\ (h.t = "open" => MuxOpener[x] = p)
    BY <1>s, <1>4 DEF MuxCame, MuxPassed, MuxFrameTypes
<1>t. /\ a.credit \in Nat /\ a.buf \in Nat /\ b.grant \in Nat /\ a.n \in Nat /\ MuxWindow \in Nat /\ h.n \in Nat
      /\ a.got \in Nat /\ a.flight \in Nat /\ muxAt[p][x].n \in Nat /\ muxAt[p][x].sent \in Nat
    BY <1>h DEF MuxTyped, MuxFrame
<1>f. r.credit \in Nat /\ r.buf \in Nat
  <2>1. r.credit \in 0..MuxWindow /\ r.buf \in 0..MuxWindow
      BY DEF MuxAtType
  <2>q. QED BY <1>t, <2>1
<1>o. /\ MuxDelivers(e, x) /\ MuxCreditKept(e, x) /\ MuxCreditKept(p, x) /\ MuxSlot(e, x) /\ MuxSlot(p, x)
      /\ MuxPeer(e) = p /\ MuxPeer(p) = e
    BY <1>h DEF MuxPair
<1>v. MuxAccepts(p, x)' <=> MuxAccepts(p, x)
  <2>1. h.t # "open"
      OBVIOUS
  <2>q. QED BY <1>m, <1>n, <2>1 DEF MuxAccepts
<1>w. /\ MuxOnWay(p, x) = MuxOnWay(p, x)' + (IF h.t = "data" THEN h.n ELSE 0)
      /\ MuxOnWay(p, x) \in Nat /\ MuxOnWay(p, x)' \in Nat
      /\ MuxCredits(e, x) \in Nat /\ MuxCredits(p, x) \in Nat /\ MuxCredits(e, x)' \in Nat /\ MuxCredits(p, x)' \in Nat
      /\ MuxCredits(e, x) + r.credit = MuxCredits(e, x)' + a.credit + (IF h.t = "window" THEN h.n ELSE 0)
      /\ a.credit + (IF h.t = "window" THEN h.n ELSE 0) <= MuxCredits(e, x)
      /\ MuxCredits(p, x) + r.buf + b.grant = MuxCredits(p, x)' + a.buf + b.grant + (IF h.t = "data" THEN h.n ELSE 0)
    BY <1>c DEF MuxCharged
<1>3. /\ r.credit + r.flight = MuxWindow /\ a.credit <= r.credit /\ r.credit <= a.credit + h.n
      /\ h.n <= a.flight => r.credit = a.credit + h.n
      /\ r.left = a.left /\ r.sent = a.sent /\ r.got = a.got /\ r.n = a.n /\ r.slot = a.slot
      /\ r.buf = a.buf /\ r.open = a.open /\ r.gone = a.gone /\ r.eof = a.eof /\ r.own = a.own
    OBVIOUS
<1>6. MuxSlot(e, x)'
  <2>1. a.n <= a.credit => a.n <= r.credit
      BY <1>3, <1>f, <1>t
  <2>q. QED BY <1>3, <1>m, <1>o, <2>1 DEF MuxSlot
<1>u. MuxAccepts(e, x)' <=> MuxAccepts(e, x)
    BY <1>3, <1>m, <1>n DEF MuxAccepts
<1>12. MuxDelivers(e, x)'
  <2>1. MuxOnWay(p, x)' = MuxOnWay(p, x)
      BY <1>t, <1>w
  <2>q. QED BY <1>3, <1>m, <1>o, <1>u, <2>1 DEF MuxDelivers
<1>14. MuxCreditKept(e, x)'
  <2>1. MuxCredits(e, x)' + a.credit + h.n = MuxCredits(e, x) + r.credit /\ a.credit + h.n <= MuxCredits(e, x)
      BY <1>w
  <2>2. MuxCredits(e, x) <= MuxWindow + a.n
      BY <1>o DEF MuxCreditKept
  <2>3. MuxCredits(e, x)' <= MuxWindow + a.n
      BY <1>3, <1>f, <1>t, <1>w, <2>1, <2>2
  <2>4. muxPreempts = 0 => MuxCredits(e, x)' = MuxCredits(e, x)
    <3>1. muxPreempts = 0 => a.n = 0
        BY <1>o DEF MuxSlot
    <3>2. a.credit + a.flight = MuxWindow
        BY <1>o DEF MuxSlot
    <3>3. muxPreempts = 0 => h.n <= a.flight
        BY <1>t, <1>w, <2>1, <2>2, <3>1, <3>2
    <3>q. QED BY <1>3, <1>t, <1>w, <2>1, <3>3
  <2>q. QED BY <1>3, <1>m, <1>o, <1>v, <2>3, <2>4 DEF MuxCreditKept
<1>15. MuxCreditKept(p, x)'
  <2>1. MuxCredits(p, x)' = MuxCredits(p, x)
      BY <1>3, <1>t, <1>w
  <2>q. QED BY <1>m, <1>o, <1>u, <2>1 DEF MuxCreditKept
<1>q. QED
  <2>1. h.t # "open" /\ MuxHeard(e, p, x, h, r)
      BY DEF MuxHeard
  <2> HIDE DEF a, b
  <2>q. QED BY <1>6, <1>12, <1>14, <1>15, <2>1, MuxHeardKeeps

\* The reader admits a stream that the peer opened.
LEMMA MuxAdmittedKeeps ==
    ASSUME MuxInv, NEW e \in MuxEnds, NEW p, p = MuxPeer(e), NEW x \in MuxStreams, NEW h \in MuxFrame,
           MuxReads(e, p, x, h, MuxInserted(e, x), MuxRecord(FALSE)), muxControl' = muxControl, muxCut' = muxCut, h.t = "open"
    PROVE  MuxInv'
<1> DEFINE a == muxAt[e][x]
           c == muxBook[e][x]
           r == MuxInserted(e, x)
           b == MuxRecord(FALSE)
<1>h. MuxPair(e, p, x) /\ MuxTypeOK /\ p \in MuxEnds /\ MuxTyped(e, x) /\ MuxTyped(p, x)
    BY MuxBoth, MuxNumbers
<1>3. /\ r \in MuxAtType /\ b \in MuxBookType
      /\ r.own = "open" /\ r.left = MuxBytes[e][x] /\ r.slot /\ r.credit = MuxWindow /\ r.open /\ r.sent = 0
      /\ r.got = 0 /\ r.n = 0 /\ r.flight = 0 /\ r.buf = 0 /\ ~r.gone /\ ~r.eof
      /\ ~b.opens /\ b.ready /\ b.live /\ ~b.creditDone /\ b.queued = 0 /\ ~b.want /\ b.grant = 0
      /\ ~b.hold /\ ~b.closeDone
    BY MuxInsertedFields, MuxRecordFields
<1>b. r \in MuxAtType /\ b \in MuxBookType /\ ~b.opens
    BY <1>3
<1> HIDE DEF r, b
<1>r. MuxReads(e, p, x, h, r, b)
    BY DEF r, b
<1>4. /\ MuxTypeOK' /\ \A s \in MuxStreams : s # x => MuxSame(s)
      /\ MuxPassed(e, p, x, h, r, b)
    BY <1>h, <1>b, <1>r, MuxReadsFrame
<1>s. MuxCame(e, p, x, h)
    BY <1>h, <1>b, <1>4, MuxReadsComing
<1>c. MuxCharged(e, p, x, h, r, b)
    BY <1>h, <1>b, <1>4, MuxReadsCredits
<1>m. /\ muxAt'[e][x] = r /\ muxBook'[e][x] = b /\ muxAt'[p][x] = muxAt[p][x] /\ muxBook'[p][x] = muxBook[p][x]
      /\ muxPreempts' = muxPreempts /\ muxWriter' = muxWriter /\ muxControl'[p] = muxControl[p]
      /\ muxControl'[e].wake = muxControl[e].wake
      /\ muxCut \subseteq muxCut' /\ (<<p, x>> \in muxCut' <=> <<p, x>> \in muxCut)
      /\ MuxFramesQueued(p, x)' = MuxFramesQueued(p, x)
    BY <1>4 DEF MuxPassed
<1>k. /\ (MuxHas(e, "open", x)' <=> MuxHas(e, "open", x)) /\ (MuxHas(e, "data", x)' <=> MuxHas(e, "data", x))
      /\ (MuxHas(e, "close", x)' <=> MuxHas(e, "close", x)) /\ (MuxHas(e, "window", x)' <=> MuxHas(e, "window", x))
      /\ (MuxHas(p, "open", x)' => MuxHas(p, "open", x)) /\ (MuxHas(p, "data", x)' => MuxHas(p, "data", x))
      /\ (MuxHas(p, "close", x)' => MuxHas(p, "close", x)) /\ (MuxHas(p, "window", x)' => MuxHas(p, "window", x))
      /\ (MuxSilent(p, x) => MuxSilent(p, x)')
      /\ (MuxCloseLast(e, x) => MuxCloseLast(e, x)') /\ (MuxOpenFirst(e, x) => MuxOpenFirst(e, x)')
      /\ (MuxCloseLast(p, x) => MuxCloseLast(p, x)') /\ (MuxOpenFirst(p, x) => MuxOpenFirst(p, x)')
      /\ (MuxSilent(e, x)' <=> MuxSilent(e, x)) /\ MuxFramesQueued(e, x)' = MuxFramesQueued(e, x)
    BY <1>4 DEF MuxPassed, MuxQuiet, MuxShrunk, MuxFrameTypes, MuxSilent
<1>n. ~MuxComing(x)' /\ MuxHas(p, h.t, x) /\ h.t \in {"open", "data", "close", "window"}
      /\ (MuxComing(x) <=> h.t = "open") /\ (h.t = "open" => MuxOpener[x] = p)
    BY <1>s, <1>4 DEF MuxCame, MuxPassed, MuxFrameTypes
<1>f. /\ muxAt[e][x].own = "none" /\ x \notin muxControl[e].refused /\ MuxSilent(e, x) /\ MuxOpener[x] = p
      /\ (muxAt[p][x].slot => muxAt[p][x].open) /\ muxAt[p][x].own # "none"
  <2>1. /\ MuxOpener[x] = p /\ MuxComing(x)
      BY <1>n
  <2>2. muxAt[e][x].own = "none" /\ x \notin muxControl[e].refused /\ MuxSilent(e, x) /\ (muxAt[p][x].slot => muxAt[p][x].open)
      BY <1>h, <2>1 DEF MuxPair, MuxOpening
  <2>3. muxAt[p][x].own # "none"
      BY <1>h, <1>n DEF MuxPair, MuxFresh
  <2>q. QED BY <2>1, <2>2, <2>3
<1>g. /\ ~a.slot /\ a.n = 0 /\ a.credit = 0 /\ a.buf = 0 /\ a.got = 0 /\ a.sent = 0
      /\ c = MuxNoBook /\ ~c.opens /\ c.queued = 0 /\ c.grant = 0 /\ ~c.want
      /\ muxAt[p][x].buf = 0 /\ muxBook[p][x].grant = 0 /\ ~MuxHas(p, "window", x)
  <2>1. /\ c = MuxNoBook /\ a.sent = 0 /\ muxAt[p][x].buf = 0 /\ muxBook[p][x].grant = 0 /\ ~MuxHas(p, "window", x)
      BY <1>h, <1>f DEF MuxPair, MuxFresh
  <2>2. ~a.slot /\ a.n = 0 /\ a.credit = 0 /\ a.buf = 0 /\ a.got = 0
      BY <1>h, <1>f DEF MuxPair, MuxSlot
  <2>q. QED BY <2>1, <2>2, MuxNoBookFields
<1>e. /\ ~MuxHas(e, "open", x) /\ ~MuxHas(e, "data", x) /\ ~MuxHas(e, "close", x) /\ ~MuxHas(e, "window", x)
    BY <1>f DEF MuxSilent, MuxFrameTypes
<1>w. /\ MuxOnWay(e, x)' = MuxOnWay(e, x) /\ MuxOnWay(p, x)' = MuxOnWay(p, x)
      /\ MuxCredits(e, x) \in Nat /\ MuxCredits(p, x) \in Nat /\ MuxCredits(e, x)' \in Nat /\ MuxCredits(p, x)' \in Nat
      /\ MuxCredits(e, x) + r.credit = MuxCredits(e, x)' + a.credit + 0
      /\ MuxCredits(p, x) + r.buf + b.grant = MuxCredits(p, x)' + a.buf + c.grant + 0
  <2>1. MuxOnWay(p, x) = MuxOnWay(p, x)' + 0 /\ MuxOnWay(p, x)' \in Nat
      BY <1>c DEF MuxCharged
  <2>2. MuxOnWay(p, x)' = MuxOnWay(p, x)
      BY <2>1
  <2>q. QED BY <1>c, <2>2 DEF MuxCharged
<1>z. MuxFramesQueued(e, x) = 0 /\ MuxOnWay(e, x) = 0 /\ MuxIn(p, "window", x) = 0 /\ MuxWindow \in Nat
  <2>1. MuxFramesQueued(e, x) = 0
      BY <1>h, <1>g DEF MuxPair, MuxClosing
  <2>2. MuxIn(e, "data", x) = 0 /\ MuxIn(p, "window", x) = 0 /\ MuxBytesQueued(e, x) = 0 /\ MuxWindow \in Nat
      BY <1>h, <1>e, <1>g, <2>1 DEF MuxTyped, MuxFrameTypes
  <2>3. MuxOnWay(e, x) = MuxBytesQueued(e, x) + MuxIn(e, "data", x)
      BY <1>h, MuxSums
  <2>q. QED BY <2>1, <2>2, <2>3
<1>x. MuxCredits(e, x) = 0
  <2>1. MuxCredits(e, x) = a.credit + MuxOnWay(e, x) + muxAt[p][x].buf + muxBook[p][x].grant + MuxIn(p, "window", x)
      BY <1>h, MuxSums
  <2>q. QED BY <1>g, <1>z, <2>1
<1>v. (MuxAccepts(p, x)' <=> MuxAccepts(p, x)) /\ MuxAccepts(e, x) /\ MuxAccepts(e, x)'
  <2>1. p # e
      BY <1>h DEF MuxPair
  <2>q. QED BY <1>f, <1>m, <1>n, <1>3, <2>1 DEF MuxAccepts
<1>y. muxControl' = muxControl /\ muxCut' = muxCut
    OBVIOUS
<1>5. MuxOpening(x)'
    BY <1>h, <1>3, <1>m, <1>k, <1>n, <1>f, <1>g, <1>y DEF MuxOpening, MuxPair
<1>6. MuxSlot(e, x)'
  <2>1. MuxWindow + 0 = MuxWindow
      BY <1>z
  <2>q. QED BY <1>3, <1>m, <2>1 DEF MuxSlot
<1>7. MuxSlot(p, x)'
    BY <1>h, <1>m DEF MuxSlot, MuxPair
<1>8. MuxClosing(e, x)'
  <2>1. muxWriter[e] # [pc |-> "close", s |-> x]
      BY <1>h, <1>f DEF MuxPair, MuxClosing, MuxEnded
  <2>2. MuxCloseLast(e, x)'
      BY <1>h, <1>k DEF MuxPair, MuxClosing
  <2>3. ~MuxHas(e, "close", x)' /\ MuxFramesQueued(e, x)' = 0
      BY <1>e, <1>k, <1>z
  <2>q. QED BY <1>3, <1>m, <2>1, <2>2, <2>3 DEF MuxClosing
<1>9. MuxClosing(p, x)'
    BY <1>h, <1>m, <1>k DEF MuxClosing, MuxPair
<1>10. MuxFresh(e, x)'
    BY <1>3, <1>m DEF MuxFresh
<1>11. MuxFresh(p, x)'
    BY <1>f, <1>m DEF MuxFresh
<1>12. MuxDelivers(e, x)'
  <2>1. a.got + a.buf + MuxOnWay(p, x) = muxAt[p][x].sent + muxAt[p][x].n /\ MuxPeer(e) = p
      BY <1>h, <1>v DEF MuxDelivers, MuxPair
  <2>2. r.got + r.buf + MuxOnWay(p, x)' = muxAt[p][x].sent + muxAt[p][x].n
      BY <1>3, <1>g, <1>w, <2>1
  <2>q. QED BY <1>3, <1>m, <2>1, <2>2 DEF MuxDelivers
<1>13. MuxDelivers(p, x)'
  <2>1. MuxDelivers(p, x) /\ MuxPeer(p) = e
      BY <1>h DEF MuxPair
  <2>q. QED BY <1>3, <1>f, <1>g, <1>m, <1>v, <1>w, <2>1 DEF MuxDelivers
<1>14. MuxCreditKept(e, x)'
  <2>1. MuxCredits(e, x)' = MuxWindow + 0
    <3>1. 0 + MuxWindow = MuxCredits(e, x)' + 0 + 0 /\ MuxCredits(e, x)' \in Nat
        BY <1>3, <1>g, <1>w, <1>x
    <3>q. QED BY ONLY <1>z, <3>1
  <2>2. MuxCredits(e, x)' <= MuxWindow + 0 /\ MuxCredits(e, x)' = MuxWindow
      BY <1>z, <2>1
  <2>q. QED BY <1>3, <1>m, <2>2 DEF MuxCreditKept
<1>15. MuxCreditKept(p, x)'
  <2>1. MuxCredits(p, x)' = MuxCredits(p, x)
    <3>1. MuxCredits(p, x) + 0 + 0 = MuxCredits(p, x)' + 0 + 0 + 0 /\ MuxCredits(p, x) \in Nat /\ MuxCredits(p, x)' \in Nat
        BY <1>3, <1>g, <1>w
    <3>q. QED BY ONLY <3>1
  <2>2. MuxCreditKept(p, x) /\ MuxPeer(p) = e
      BY <1>h DEF MuxPair
  <2>q. QED BY <1>m, <1>v, <2>1, <2>2 DEF MuxCreditKept
<1>q. QED BY <1>4, <1>5, <1>6, <1>7, <1>8, <1>9, <1>10, <1>11, <1>12, <1>13, <1>14, <1>15, MuxKept

\* The reader refuses a stream at the cap, and leaves a Close to the writer.
LEMMA MuxRefusedKeeps ==
    ASSUME MuxInv, NEW e \in MuxEnds, NEW p, p = MuxPeer(e), NEW x \in MuxStreams, NEW h \in MuxFrame,
           MuxReads(e, p, x, h, muxAt[e][x], muxBook[e][x]), muxCut' = muxCut, h.t = "open"
    PROVE  MuxInv'
<1> DEFINE a == muxAt[e][x]
           c == muxBook[e][x]
           r == muxAt[e][x]
           b == muxBook[e][x]
<1>h. MuxPair(e, p, x) /\ MuxTypeOK /\ p \in MuxEnds /\ MuxTyped(e, x) /\ MuxTyped(p, x)
    BY MuxBoth, MuxNumbers
<1>b. r \in MuxAtType /\ b \in MuxBookType
    BY <1>h DEF MuxTyped
<1>4. /\ MuxTypeOK' /\ \A s \in MuxStreams : s # x => MuxSame(s)
      /\ MuxPassed(e, p, x, h, r, b)
    BY <1>h, <1>b, MuxReadsFrame
<1>s. MuxCame(e, p, x, h)
    BY <1>h, <1>b, <1>4, MuxReadsComing
<1>c. MuxCharged(e, p, x, h, r, b)
    BY <1>h, <1>b, <1>4, MuxReadsCredits
<1>m. /\ muxAt'[e][x] = r /\ muxBook'[e][x] = b /\ muxAt'[p][x] = muxAt[p][x] /\ muxBook'[p][x] = muxBook[p][x]
      /\ muxPreempts' = muxPreempts /\ muxWriter' = muxWriter /\ muxControl'[p] = muxControl[p]
      /\ muxControl'[e].wake = muxControl[e].wake
      /\ muxCut \subseteq muxCut' /\ (<<p, x>> \in muxCut' <=> <<p, x>> \in muxCut)
      /\ MuxFramesQueued(p, x)' = MuxFramesQueued(p, x)
    BY <1>4 DEF MuxPassed
<1>k. /\ (MuxHas(e, "open", x)' <=> MuxHas(e, "open", x)) /\ (MuxHas(e, "data", x)' <=> MuxHas(e, "data", x))
      /\ (MuxHas(e, "close", x)' <=> MuxHas(e, "close", x)) /\ (MuxHas(e, "window", x)' <=> MuxHas(e, "window", x))
      /\ (MuxHas(p, "open", x)' => MuxHas(p, "open", x)) /\ (MuxHas(p, "data", x)' => MuxHas(p, "data", x))
      /\ (MuxHas(p, "close", x)' => MuxHas(p, "close", x)) /\ (MuxHas(p, "window", x)' => MuxHas(p, "window", x))
      /\ (MuxSilent(p, x) => MuxSilent(p, x)')
      /\ (MuxCloseLast(e, x) => MuxCloseLast(e, x)') /\ (MuxOpenFirst(e, x) => MuxOpenFirst(e, x)')
      /\ (MuxCloseLast(p, x) => MuxCloseLast(p, x)') /\ (MuxOpenFirst(p, x) => MuxOpenFirst(p, x)')
      /\ (MuxSilent(e, x)' <=> MuxSilent(e, x)) /\ MuxFramesQueued(e, x)' = MuxFramesQueued(e, x)
    BY <1>4 DEF MuxPassed, MuxQuiet, MuxShrunk, MuxFrameTypes, MuxSilent
<1>n. ~MuxComing(x)' /\ MuxHas(p, h.t, x) /\ h.t \in {"open", "data", "close", "window"}
      /\ (MuxComing(x) <=> h.t = "open") /\ (h.t = "open" => MuxOpener[x] = p)
    BY <1>s, <1>4 DEF MuxCame, MuxPassed, MuxFrameTypes
<1>f. /\ muxAt[e][x].own = "none" /\ x \notin muxControl[e].refused /\ MuxSilent(e, x) /\ MuxOpener[x] = p
      /\ (muxAt[p][x].slot => muxAt[p][x].open) /\ muxAt[p][x].own # "none"
  <2>1. /\ MuxOpener[x] = p /\ MuxComing(x)
      BY <1>n
  <2>2. muxAt[e][x].own = "none" /\ x \notin muxControl[e].refused /\ MuxSilent(e, x) /\ (muxAt[p][x].slot => muxAt[p][x].open)
      BY <1>h, <2>1 DEF MuxPair, MuxOpening
  <2>3. muxAt[p][x].own # "none"
      BY <1>h, <1>n DEF MuxPair, MuxFresh
  <2>q. QED BY <2>1, <2>2, <2>3
<1>g. /\ ~a.slot /\ a.n = 0 /\ a.credit = 0 /\ a.buf = 0 /\ a.got = 0 /\ a.sent = 0
      /\ c = MuxNoBook /\ ~c.opens /\ c.queued = 0 /\ c.grant = 0 /\ ~c.want
      /\ muxAt[p][x].buf = 0 /\ muxBook[p][x].grant = 0 /\ ~MuxHas(p, "window", x)
  <2>1. /\ c = MuxNoBook /\ a.sent = 0 /\ muxAt[p][x].buf = 0 /\ muxBook[p][x].grant = 0 /\ ~MuxHas(p, "window", x)
      BY <1>h, <1>f DEF MuxPair, MuxFresh
  <2>2. ~a.slot /\ a.n = 0 /\ a.credit = 0 /\ a.buf = 0 /\ a.got = 0
      BY <1>h, <1>f DEF MuxPair, MuxSlot
  <2>q. QED BY <2>1, <2>2, MuxNoBookFields
<1>e. /\ ~MuxHas(e, "open", x) /\ ~MuxHas(e, "data", x) /\ ~MuxHas(e, "close", x) /\ ~MuxHas(e, "window", x)
    BY <1>f DEF MuxSilent, MuxFrameTypes
<1>w. /\ MuxOnWay(e, x)' = MuxOnWay(e, x) /\ MuxOnWay(p, x)' = MuxOnWay(p, x)
      /\ MuxCredits(e, x) \in Nat /\ MuxCredits(p, x) \in Nat /\ MuxCredits(e, x)' \in Nat /\ MuxCredits(p, x)' \in Nat
      /\ MuxCredits(e, x) + r.credit = MuxCredits(e, x)' + a.credit + 0
      /\ MuxCredits(p, x) + r.buf + b.grant = MuxCredits(p, x)' + a.buf + c.grant + 0
  <2>1. MuxOnWay(p, x) = MuxOnWay(p, x)' + 0 /\ MuxOnWay(p, x)' \in Nat
      BY <1>c DEF MuxCharged
  <2>2. MuxOnWay(p, x)' = MuxOnWay(p, x)
      BY <2>1
  <2>q. QED BY <1>c, <2>2 DEF MuxCharged
<1>v. (MuxAccepts(p, x)' <=> MuxAccepts(p, x)) /\ ~MuxAccepts(e, x)'
    BY <1>g, <1>m, <1>n DEF MuxAccepts, MuxPair
<1>5. MuxOpening(x)'
    BY <1>h, <1>m, <1>k, <1>n, <1>f, <1>g DEF MuxOpening, MuxPair
<1>6. MuxSlot(e, x)'
    BY <1>h, <1>m DEF MuxSlot, MuxPair
<1>7. MuxSlot(p, x)'
    BY <1>h, <1>m DEF MuxSlot, MuxPair
<1>8. MuxClosing(e, x)'
    BY <1>h, <1>m, <1>k DEF MuxClosing, MuxPair
<1>9. MuxClosing(p, x)'
    BY <1>h, <1>m, <1>k DEF MuxClosing, MuxPair
<1>10. MuxFresh(e, x)'
  <2>1. p # e
      BY <1>h DEF MuxPair
  <2>q. QED BY <1>h, <1>f, <1>m, <1>k, <2>1 DEF MuxFresh, MuxPair
<1>11. MuxFresh(p, x)'
    BY <1>f, <1>m DEF MuxFresh
<1>12. MuxDelivers(e, x)'
    BY <1>g, <1>m, <1>v DEF MuxDelivers
<1>13. MuxDelivers(p, x)'
  <2>1. MuxDelivers(p, x) /\ MuxPeer(p) = e
      BY <1>h DEF MuxPair
  <2>q. QED BY <1>f, <1>m, <1>v, <1>w, <2>1 DEF MuxDelivers
<1>14. MuxCreditKept(e, x)'
  <2>1. MuxCredits(e, x)' = MuxCredits(e, x)
    <3>1. MuxCredits(e, x) + 0 = MuxCredits(e, x)' + 0 + 0 /\ MuxCredits(e, x) \in Nat /\ MuxCredits(e, x)' \in Nat
        BY <1>g, <1>w
    <3>q. QED BY ONLY <3>1
  <2>2. MuxCreditKept(e, x)
      BY <1>h DEF MuxPair
  <2>q. QED BY <1>g, <1>m, <2>1, <2>2 DEF MuxCreditKept
<1>15. MuxCreditKept(p, x)'
  <2>1. MuxCredits(p, x)' = MuxCredits(p, x)
    <3>1. MuxCredits(p, x) + 0 + 0 = MuxCredits(p, x)' + 0 + 0 + 0 /\ MuxCredits(p, x) \in Nat /\ MuxCredits(p, x)' \in Nat
        BY <1>g, <1>w
    <3>q. QED BY ONLY <3>1
  <2>2. MuxCreditKept(p, x) /\ MuxPeer(p) = e
      BY <1>h DEF MuxPair
  <2>q. QED BY <1>m, <1>v, <2>1, <2>2 DEF MuxCreditKept
<1>q. QED BY <1>4, <1>5, <1>6, <1>7, <1>8, <1>9, <1>10, <1>11, <1>12, <1>13, <1>14, <1>15, MuxKept

\* close_peer, on data that does not fit and on a Close.
LEMMA MuxClosedPeerKeeps ==
    ASSUME MuxInv, NEW e \in MuxEnds, NEW p, p = MuxPeer(e), NEW x \in MuxStreams, NEW h \in MuxFrame,
           muxPipe[p] # <<>>, h = Head(muxPipe[p]), x = h.s, muxPipe' = [muxPipe EXCEPT ![p] = Tail(@)],
           MuxClosedPeer(e, x), UNCHANGED <<muxBook, muxControl, muxData, muxWriter, muxPreempts>>,
           h.t \in {"data", "close"},
           muxCut' = IF h.t = "data" /\ muxAt[e][x].slot /\ muxAt[e][x].open THEN muxCut \cup {<<e, x>>} ELSE muxCut
    PROVE  MuxInv'
<1> DEFINE a == muxAt[e][x]
           r == [a EXCEPT !.gone = TRUE, !.open = FALSE]
<1>0. MuxTypeOK
    BY DEF MuxInv
<1>1. a \in MuxAtType /\ MuxTypeOK
    BY <1>0, MuxNumbers DEF MuxTyped
<1>2. muxBook' = [muxBook EXCEPT ![e][x] = muxBook[e][x]]
    BY <1>1 DEF MuxTypeOK
<1>3. CASE a.slot
  <2>1. /\ r \in MuxAtType /\ ~r.open
        /\ r.own = a.own /\ r.left = a.left /\ r.sent = a.sent /\ r.got = a.got /\ r.n = a.n /\ r.slot = a.slot
        /\ r.credit = a.credit /\ r.flight = a.flight /\ r.buf = a.buf /\ r.eof = a.eof
      BY <1>1 DEF MuxAtType
  <2>2. muxAt' = [muxAt EXCEPT ![e][x] = r]
    <3>1. muxAt' = [muxAt EXCEPT ![e][x] = [@ EXCEPT !.gone = TRUE, !.open = FALSE]]
        BY <1>3 DEF MuxClosedPeer
    <3>q. QED BY <1>1, <3>1 DEF MuxTypeOK
  <2> HIDE DEF r
  <2>3. MuxReads(e, p, x, h, r, muxBook[e][x])
      BY <1>2, <2>2 DEF MuxReads
  <2>4. \A k \in {"own", "left", "sent", "got", "n", "slot", "credit", "flight", "buf", "eof"} : r[k] = a[k]
      BY <2>1
  <2>5. muxCut' = IF h.t = "data" /\ a.open THEN muxCut \cup {<<e, x>>} ELSE muxCut
      BY <1>3
  <2>q. QED BY ZenonT(60), <1>3, <2>1, <2>3, <2>4, <2>5, MuxClosedKeeps
<1>4. CASE ~a.slot
  <2>1. muxAt' = [muxAt EXCEPT ![e][x] = a]
      BY <1>1, <1>4 DEF MuxClosedPeer, MuxTypeOK
  <2>2. muxCut' = muxCut
      BY <1>4
  <2> HIDE DEF r
  <2>3. MuxReads(e, p, x, h, a, muxBook[e][x])
      BY <1>2, <2>1, <2>2 DEF MuxReads
  <2>q. QED BY <1>1, <1>4, <2>2, <2>3, MuxStrayKeeps
<1>q. QED BY <1>3, <1>4

\* grant_send_credit gives back what the frame says, as far as it is in flight.
LEMMA MuxGrantedFields ==
    ASSUME NEW a \in MuxAtType, NEW n \in Nat, a.credit + a.flight = MuxWindow
    PROVE  LET r == MuxGranted(a, n) IN
           /\ r \in MuxAtType
           /\ r.own = a.own /\ r.left = a.left /\ r.sent = a.sent /\ r.got = a.got /\ r.n = a.n /\ r.slot = a.slot
           /\ r.buf = a.buf /\ r.open = a.open /\ r.gone = a.gone /\ r.eof = a.eof
           /\ r.credit + r.flight = MuxWindow /\ a.credit <= r.credit /\ r.credit <= a.credit + n
           /\ n <= a.flight => r.credit = a.credit + n
<1> DEFINE take == IF a.flight < n THEN a.flight ELSE n
           c == IF a.credit + take < MuxWindow THEN a.credit + take ELSE MuxWindow
           f == a.flight - take
           r == [a EXCEPT !.flight = f, !.credit = c]
<1>1. a.credit \in 0..MuxWindow /\ a.flight \in 0..MuxWindow /\ MuxWindow \in Nat
    BY MuxAssumption DEF MuxAtType
<1>2. /\ c \in 0..MuxWindow /\ f \in 0..MuxWindow /\ c + f = MuxWindow /\ a.credit <= c /\ c <= a.credit + n
      /\ n <= a.flight => c = a.credit + n
  <2>1. take \in Nat /\ take <= a.flight /\ take <= n /\ (n <= a.flight => take = n)
      BY <1>1
  <2>2. c = a.credit + take
      BY <1>1, <2>1
  <2> HIDE DEF take, c
  <2>q. QED BY <1>1, <2>1, <2>2
<1>3. MuxGranted(a, n) = r
    BY DEF MuxGranted
<1> HIDE DEF c, f, take
<1>4. /\ r \in MuxAtType /\ r.credit = c /\ r.flight = f
      /\ r.own = a.own /\ r.left = a.left /\ r.sent = a.sent /\ r.got = a.got /\ r.n = a.n /\ r.slot = a.slot
      /\ r.buf = a.buf /\ r.open = a.open /\ r.gone = a.gone /\ r.eof = a.eof
    BY <1>2 DEF MuxAtType
<1> HIDE DEF r
<1>q. QED BY <1>2, <1>3, <1>4

\* The reader takes a frame, of whichever type.
LEMMA MuxReadKeeps ==
    ASSUME MuxInv, NEW e \in MuxEnds, NEW p, p = MuxPeer(e), MuxRead(e)
    PROVE  MuxInv'
<1> DEFINE h == Head(muxPipe[p])
           x == h.s
           a == muxAt[e][x]
           b == muxBook[e][x]
<1>1. /\ muxPipe[p] # <<>> /\ muxPipe' = [muxPipe EXCEPT ![p] = Tail(@)]
      /\ muxData' = muxData /\ muxWriter' = muxWriter /\ muxPreempts' = muxPreempts
      /\ \/ /\ h.t = "open" /\ muxAt' = [muxAt EXCEPT ![e][x] = MuxInserted(e, x)]
            /\ muxBook' = [muxBook EXCEPT ![e][x] = MuxRecord(FALSE)] /\ muxControl' = muxControl /\ muxCut' = muxCut
         \/ /\ h.t = "open" /\ muxControl' = [muxControl EXCEPT ![e].refused = @ \cup {x}]
            /\ muxAt' = muxAt /\ muxBook' = muxBook /\ muxCut' = muxCut
         \/ /\ h.t = "data" /\ a.slot /\ a.open /\ MuxFits(e, x, h.n) /\ muxAt' = [muxAt EXCEPT ![e][x].buf = @ + h.n]
            /\ muxBook' = muxBook /\ muxControl' = muxControl /\ muxCut' = muxCut
         \/ /\ h.t \in {"data", "close"} /\ MuxClosedPeer(e, x)
            /\ muxCut' = IF h.t = "data" /\ a.slot /\ a.open THEN muxCut \cup {<<e, x>>} ELSE muxCut
            /\ muxBook' = muxBook /\ muxControl' = muxControl
         \/ /\ h.t = "window" /\ muxAt' = IF a.slot THEN [muxAt EXCEPT ![e][x] = MuxGranted(a, h.n)] ELSE muxAt
            /\ muxBook' = muxBook /\ muxControl' = muxControl /\ muxCut' = muxCut
    BY DEF MuxRead
<1>2. MuxTypeOK /\ p \in MuxEnds
    BY MuxPeers DEF MuxInv
<1>3. h \in MuxFrame /\ x \in MuxStreams
    BY <1>1, <1>2, MuxHeads
<1> HIDE DEF h
<1>4. h.n \in Nat
    BY <1>3 DEF MuxFrame
<1> HIDE DEF x
<1>5. a \in MuxAtType /\ MuxSlot(e, x)
    BY <1>2, <1>3 DEF MuxInv, MuxTypeOK, MuxStreamInv
<1>6. muxBook' = muxBook => muxBook' = [muxBook EXCEPT ![e][x] = b]
    BY <1>2, <1>3 DEF MuxTypeOK
<1>7. muxAt' = muxAt => muxAt' = [muxAt EXCEPT ![e][x] = a]
    BY <1>2, <1>3 DEF MuxTypeOK
<1>8. h = Head(muxPipe[p]) /\ x = h.s
    BY DEF h, x
<1>9. CASE /\ h.t = "open" /\ muxAt' = [muxAt EXCEPT ![e][x] = MuxInserted(e, x)]
           /\ muxBook' = [muxBook EXCEPT ![e][x] = MuxRecord(FALSE)] /\ muxControl' = muxControl /\ muxCut' = muxCut
  <2>1. MuxReads(e, p, x, h, MuxInserted(e, x), MuxRecord(FALSE))
      BY <1>1, <1>8, <1>9 DEF MuxReads
  <2>q. QED BY <1>3, <1>9, <2>1, MuxAdmittedKeeps
<1>10. CASE /\ h.t = "open" /\ muxControl' = [muxControl EXCEPT ![e].refused = @ \cup {x}]
            /\ muxAt' = muxAt /\ muxBook' = muxBook /\ muxCut' = muxCut
  <2>1. MuxReads(e, p, x, h, a, b)
      BY <1>1, <1>6, <1>7, <1>8, <1>10 DEF MuxReads
  <2>q. QED BY <1>3, <1>10, <2>1, MuxRefusedKeeps
<1>11. CASE /\ h.t = "data" /\ a.slot /\ a.open /\ MuxFits(e, x, h.n) /\ muxAt' = [muxAt EXCEPT ![e][x].buf = @ + h.n]
            /\ muxBook' = muxBook /\ muxControl' = muxControl /\ muxCut' = muxCut
  <2> DEFINE m == a.buf + h.n
             r == [a EXCEPT !.buf = m]
  <2>1. m \in 0..MuxWindow
    <3>1. a.buf \in 0..MuxWindow /\ MuxWindow \in Nat /\ a.buf + h.n <= MuxWindow
        BY <1>5, <1>11, MuxAssumption DEF MuxAtType, MuxFits
    <3>q. QED BY <1>4, <3>1
  <2>2. muxAt' = [muxAt EXCEPT ![e][x] = r]
      BY <1>2, <1>3, <1>11 DEF MuxTypeOK
  <2> HIDE DEF m
  <2>3. /\ r \in MuxAtType /\ r.buf = m
        /\ r.own = a.own /\ r.left = a.left /\ r.sent = a.sent /\ r.got = a.got /\ r.n = a.n /\ r.slot = a.slot
        /\ r.credit = a.credit /\ r.flight = a.flight /\ r.open = a.open /\ r.gone = a.gone /\ r.eof = a.eof
      BY <1>5, <2>1 DEF MuxAtType
  <2> HIDE DEF r
  <2>4. MuxReads(e, p, x, h, r, b)
      BY <1>1, <1>6, <1>8, <1>11, <2>2 DEF MuxReads
  <2>5. \A k \in {"own", "left", "sent", "got", "n", "slot", "credit", "flight", "open", "gone", "eof"} : r[k] = a[k]
      BY <2>3
  <2>6. r.buf = a.buf + h.n
      BY <2>3 DEF m
  <2>q. QED BY <1>3, <1>11, <2>3, <2>4, <2>5, <2>6, MuxDataKeeps
<1>12. CASE /\ h.t \in {"data", "close"} /\ MuxClosedPeer(e, x)
            /\ muxCut' = IF h.t = "data" /\ a.slot /\ a.open THEN muxCut \cup {<<e, x>>} ELSE muxCut
            /\ muxBook' = muxBook /\ muxControl' = muxControl
    BY <1>1, <1>3, <1>8, <1>12, MuxClosedPeerKeeps
<1>13. CASE /\ h.t = "window" /\ muxAt' = IF a.slot THEN [muxAt EXCEPT ![e][x] = MuxGranted(a, h.n)] ELSE muxAt
            /\ muxBook' = muxBook /\ muxControl' = muxControl /\ muxCut' = muxCut
  <2>1. CASE ~a.slot
    <3>1. MuxReads(e, p, x, h, a, b)
        BY <1>1, <1>6, <1>7, <1>8, <1>13, <2>1 DEF MuxReads
    <3>2. h.t # "open" /\ muxControl' = muxControl /\ muxCut' = muxCut
        BY <1>13
    <3>q. QED BY <1>3, <1>5, <2>1, <3>1, <3>2, MuxStrayKeeps
  <2>2. CASE a.slot
    <3> DEFINE r == MuxGranted(a, h.n)
    <3>1. a.credit + a.flight = MuxWindow
        BY <1>5, <2>2 DEF MuxSlot
    <3>2. /\ r \in MuxAtType
          /\ r.own = a.own /\ r.left = a.left /\ r.sent = a.sent /\ r.got = a.got /\ r.n = a.n /\ r.slot = a.slot
          /\ r.buf = a.buf /\ r.open = a.open /\ r.gone = a.gone /\ r.eof = a.eof
          /\ r.credit + r.flight = MuxWindow /\ a.credit <= r.credit /\ r.credit <= a.credit + h.n
          /\ h.n <= a.flight => r.credit = a.credit + h.n
        BY <1>4, <1>5, <3>1, MuxGrantedFields
    <3>3. MuxReads(e, p, x, h, r, b)
        BY <1>1, <1>6, <1>8, <1>13, <2>2 DEF MuxReads
    <3> HIDE DEF r
    <3>4. \A k \in {"own", "left", "sent", "got", "n", "slot", "buf", "open", "gone", "eof"} : r[k] = a[k]
        BY <3>2
    <3>q. QED BY <1>3, <1>13, <2>2, <3>2, <3>3, <3>4, MuxWindowKeeps
  <2>q. QED BY <2>1, <2>2
<1>q. QED BY <1>1, <1>9, <1>10, <1>11, <1>12, <1>13

\* The writer wakes, sends the Close of a refused stream or a frame of data.
LEMMA MuxSelectKeeps ==
    ASSUME MuxInv, NEW e \in MuxEnds, NEW p, p = MuxPeer(e), MuxSelect(e)
    PROVE  MuxInv'
<1>0. MuxTypeOK
    BY DEF MuxInv
<1>1. /\ muxWriter[e].pc = "select" /\ muxAt' = muxAt /\ muxCut' = muxCut /\ muxPreempts' = muxPreempts
    BY DEF MuxSelect
<1>2. CASE /\ muxControl' = [muxControl EXCEPT ![e].wake = FALSE]
           /\ muxWriter' = [muxWriter EXCEPT ![e].pc = "flush"]
           /\ UNCHANGED <<muxBook, muxData, muxPipe>>
    BY <1>1, <1>2, MuxWritersOnly
<1>3. CASE \E s \in muxControl[e].refused : MuxRefuses(e, s)
  <2>1. PICK s \in muxControl[e].refused : MuxRefuses(e, s)
      BY <1>3
  <2>2. s \in MuxStreams
    <3>1. muxControl[e] \in [wake : BOOLEAN, refused : SUBSET MuxStreams]
        BY <1>0 DEF MuxTypeOK
    <3>2. muxControl[e].refused \in SUBSET MuxStreams
        BY <3>1
    <3>q. QED BY <2>1, <3>2
  <2>q. QED BY <2>1, <2>2, MuxRefusesKeeps
<1>4. CASE MuxEmits(e, Head(muxData[e]))
  <2> DEFINE d == Head(muxData[e])
  <2>1. MuxEmits(e, d)
      BY <1>4
  <2> HIDE DEF d
  <2>q. QED BY <2>1, MuxEmitsKeeps
<1>5. \/ /\ muxControl' = [muxControl EXCEPT ![e].wake = FALSE]
         /\ muxWriter' = [muxWriter EXCEPT ![e].pc = "flush"]
         /\ UNCHANGED <<muxBook, muxData, muxPipe>>
      \/ \E s \in muxControl[e].refused : MuxRefuses(e, s)
      \/ MuxEmits(e, Head(muxData[e]))
  <2>1. CASE /\ muxControl[e].wake
             /\ muxControl' = [muxControl EXCEPT ![e].wake = FALSE]
             /\ muxWriter' = [muxWriter EXCEPT ![e].pc = "flush"]
             /\ UNCHANGED <<muxBook, muxData, muxPipe>>
      BY <2>1
  <2>2. CASE /\ \E s \in muxControl[e].refused :
                  /\ MuxRoom(e) /\ MuxSend(e, "close", s, 0)
                  /\ muxControl' = [muxControl EXCEPT ![e].refused = @ \ {s}]
             /\ muxWriter' = [muxWriter EXCEPT ![e].pc = "flush"]
             /\ UNCHANGED <<muxBook, muxData>>
      BY <1>1, <2>2 DEF MuxRefuses
  <2>3. CASE /\ muxControl[e] = [wake |-> FALSE, refused |-> {}] /\ muxData[e] # <<>>
             /\ MuxEmit(e, Head(muxData[e]))
             /\ muxData' = [muxData EXCEPT ![e] = Tail(@)]
             /\ UNCHANGED muxControl
    <3>1. ~muxControl[e].wake
        BY <2>3
    <3>q. QED BY <1>1, <2>3, <3>1 DEF MuxEmits
  <2>q. QED BY <2>1, <2>2, <2>3 DEF MuxSelect
<1>q. QED BY <1>2, <1>3, <1>4, <1>5

LEMMA MuxFlushedKeeps ==
    ASSUME MuxInv, NEW e \in MuxEnds, MuxFlushed(e)
    PROVE  MuxInv'
<1>1. /\ UNCHANGED <<muxAt, muxBook, muxData, muxPipe, muxCut, muxPreempts>> /\ muxControl' = muxControl
      /\ muxWriter' = [muxWriter EXCEPT ![e].pc = "select"]
      /\ \A s \in MuxStreams : ~muxBook[e][s].opens
    BY DEF MuxFlushed
<1>q. QED BY <1>1, MuxWritersOnly
-----------------------------------------------------------------------------
(* The invariant holds of every behaviour *)

LEMMA MuxNoStreamFields ==
    /\ MuxNoStream \in MuxAtType /\ MuxNoStream.own = "none" /\ MuxNoStream.left = 0 /\ MuxNoStream.sent = 0
    /\ MuxNoStream.got = 0 /\ MuxNoStream.n = 0 /\ ~MuxNoStream.slot /\ MuxNoStream.credit = 0
    /\ MuxNoStream.flight = 0 /\ MuxNoStream.buf = 0 /\ ~MuxNoStream.open /\ ~MuxNoStream.gone /\ ~MuxNoStream.eof
<1>1. 0 \in 0..MuxWindow
    BY MuxAssumption
<1>q. QED BY <1>1 DEF MuxNoStream, MuxAtType

LEMMA MuxInitTyped == MuxInit => MuxTypeOK
<1> SUFFICES ASSUME MuxInit PROVE MuxTypeOK
    OBVIOUS
<1>1. /\ muxAt \in [MuxEnds -> [MuxStreams -> MuxAtType]]
      /\ muxBook \in [MuxEnds -> [MuxStreams -> MuxBookType]]
    BY MuxNoStreamFields, MuxNoBookFields DEF MuxInit
<1>2. /\ muxData \in [MuxEnds -> Seq([s : MuxStreams, n : 1..MuxWindow])]
      /\ muxPipe \in [MuxEnds -> Seq(MuxFrame)]
    BY DEF MuxInit
<1>3. MuxQueue \in Nat /\ MuxMaxPreempts \in Nat
    BY MuxAssumption
<1>4. \A e \in MuxEnds : Len(muxData[e]) <= MuxQueue
    BY <1>3 DEF MuxInit
<1>5. muxControl \in [MuxEnds -> [wake : BOOLEAN, refused : SUBSET MuxStreams]]
    BY DEF MuxInit
<1>6. (CHOOSE s \in MuxStreams : TRUE) \in MuxStreams
    BY MuxAssumption
<1>7. muxWriter \in [MuxEnds -> [pc : {"flush", "select", "close"}, s : MuxStreams]]
    BY <1>6 DEF MuxInit
<1>8. muxCut \subseteq MuxEnds \X MuxStreams /\ muxPreempts \in 0..MuxMaxPreempts
    BY <1>3 DEF MuxInit
<1>q. QED BY <1>1, <1>2, <1>4, <1>5, <1>7, <1>8 DEF MuxTypeOK

LEMMA MuxInitHolds == MuxInit => MuxInv
<1> SUFFICES ASSUME MuxInit PROVE MuxInv
    OBVIOUS
<1>1. MuxTypeOK
    BY MuxInitTyped
<1>2. ASSUME NEW s \in MuxStreams
      PROVE  MuxStreamInv(s)
  <2>1. ASSUME NEW e \in MuxEnds
        PROVE  /\ muxAt[e][s] = MuxNoStream /\ muxBook[e][s] = MuxNoBook /\ muxPipe[e] = <<>> /\ muxData[e] = <<>>
               /\ muxControl[e].refused = {} /\ muxWriter[e].pc = "flush"
      BY DEF MuxInit
  <2>2. ASSUME NEW e \in MuxEnds
        PROVE  /\ \A t : ~MuxHas(e, t, s)
               /\ MuxSilent(e, s) /\ MuxOpenFirst(e, s) /\ MuxCloseLast(e, s)
    <3>1. DOMAIN muxPipe[e] = {}
        BY <2>1
    <3>q. QED BY <3>1 DEF MuxHas, MuxSilent, MuxOpenFirst, MuxCloseLast
  <2>3. ASSUME NEW e \in MuxEnds
        PROVE  MuxFramesQueued(e, s) = 0 /\ MuxOnWay(e, s) = 0 /\ MuxBytesIn(muxPipe[e], "window", s) = 0
    <3>1. MuxTyped(e, s)
        BY <1>1, MuxNumbers
    <3>2. MuxIn(e, "data", s) = 0 /\ MuxIn(e, "window", s) = 0
        BY <2>2, <3>1 DEF MuxTyped, MuxFrameTypes
    <3>3. MuxFramesQueued(e, s) = 0
      <4> DEFINE z == [i \in DOMAIN muxData[e] |-> IF muxData[e][i].s = s THEN 1 ELSE 0]
      <4>1. DOMAIN z = {}
          BY <2>1
      <4>2. MuxFramesQueued(e, s) = SumFunctionOnSet(z, DOMAIN z)
          BY DEF MuxFramesQueued, SumFunction
      <4> HIDE DEF z
      <4>q. QED BY <4>1, <4>2, SumEmpty
    <3>4. MuxBytesQueued(e, s) = 0
        BY <3>1, <3>3 DEF MuxTyped
    <3>q. QED BY <3>2, <3>3, <3>4 DEF MuxOnWay, MuxIn
  <2>4. MuxOpener[s] \in MuxEnds /\ MuxPeer(MuxOpener[s]) \in MuxEnds
      BY MuxAssumption, MuxPeers
  <2>5. MuxOpening(s) /\ ~MuxComing(s)
      BY <2>1, <2>2, <2>4, MuxNoStreamFields, MuxNoBookFields DEF MuxOpening, MuxComing
  <2>6. MuxWindow \in Nat
      BY MuxAssumption
  <2>7. ASSUME NEW e \in MuxEnds
        PROVE  /\ MuxSlot(e, s) /\ MuxClosing(e, s) /\ MuxFresh(e, s)
               /\ MuxDelivers(e, s) /\ MuxCreditKept(e, s)
    <3>p. MuxPeer(e) \in MuxEnds
        BY MuxPeers
    <3>1. MuxSlot(e, s)
        BY <2>1, MuxNoStreamFields, MuxNoBookFields DEF MuxSlot
    <3>2. MuxClosing(e, s)
      <4>1. muxWriter[e] # [pc |-> "close", s |-> s]
          BY <2>1
      <4>q. QED BY <2>1, <2>2, <2>3, <4>1, MuxNoStreamFields, MuxNoBookFields DEF MuxClosing, MuxEnded
    <3>3. MuxFresh(e, s)
        BY <2>1, <2>2, <3>p, MuxNoStreamFields, MuxNoBookFields DEF MuxFresh
    <3>4. MuxDelivers(e, s)
        BY <2>1, <2>5, <3>p, MuxNoStreamFields DEF MuxDelivers, MuxAccepts
    <3>5. MuxCreditKept(e, s)
      <4>1. MuxCredits(e, s) = 0
          BY <2>1, <2>3, <3>p, MuxNoStreamFields, MuxNoBookFields DEF MuxCredits
      <4>q. QED BY <2>1, <2>6, <4>1, MuxNoStreamFields DEF MuxCreditKept
    <3>q. QED BY <3>1, <3>2, <3>3, <3>4, <3>5
  <2>q. QED BY <2>5, <2>7 DEF MuxStreamInv
<1>q. QED BY <1>1, <1>2 DEF MuxInv

\* Every step keeps the invariant.
LEMMA MuxStepKeeps == MuxInv /\ [MuxNext]_muxVars => MuxInv'
<1> SUFFICES ASSUME MuxInv, [MuxNext]_muxVars PROVE MuxInv'
    OBVIOUS
<1>1. CASE UNCHANGED muxVars
  <2>1. /\ muxAt' = muxAt /\ muxBook' = muxBook /\ muxData' = muxData /\ muxControl' = muxControl
        /\ muxWriter' = muxWriter /\ muxPipe' = muxPipe /\ muxCut' = muxCut /\ muxPreempts' = muxPreempts
      BY <1>1 DEF muxVars
  <2>2. MuxTypeOK'
      BY <2>1 DEF MuxInv, MuxTypeOK
  <2>3. muxPreempts' \in Nat /\ muxPreempts <= muxPreempts'
    <3>1. muxPreempts \in 0..MuxMaxPreempts /\ MuxMaxPreempts \in Nat
        BY MuxAssumption DEF MuxInv, MuxTypeOK
    <3>q. QED BY <2>1, <3>1
  <2>4. ASSUME NEW s \in MuxStreams
        PROVE  MuxStreamInv(s)'
    <3>1. \A f \in MuxEnds : MuxPipeSame(f, s) /\ MuxQueueSame(f, s)
        BY <2>1, MuxSameFrames
    <3>2. MuxSame(s)
        BY <2>1, <2>3, <3>1 DEF MuxSame
    <3>q. QED BY <3>2, MuxSameKeeps DEF MuxInv
  <2>q. QED BY <2>2, <2>4 DEF MuxInv
<1>2. ASSUME NEW e \in MuxEnds, MuxWriterStep(e)
      PROVE  MuxInv'
  <2> DEFINE p == MuxPeer(e)
  <2>1. CASE MuxFlushed(e)
      BY <2>1, MuxFlushedKeeps
  <2>2. CASE MuxSelect(e)
      BY <2>2, MuxSelectKeeps
  <2>3. CASE MuxEmitClose(e)
      BY <2>3, MuxEmitCloseKeeps
  <2>4. ASSUME NEW s \in MuxStreams, MuxWriteOpen(e, s)
        PROVE  MuxInv'
      BY <2>4, MuxWriteOpenKeeps
  <2>5. ASSUME NEW s \in MuxStreams, MuxWriteCredit(e, s)
        PROVE  MuxInv'
      BY <2>5, MuxWriteCreditKeeps
  <2>6. ASSUME NEW s \in MuxStreams, MuxWriteClose(e, s)
        PROVE  MuxInv'
      BY <2>6, MuxWriteCloseKeeps
  <2>q. QED BY <1>2, <2>1, <2>2, <2>3, <2>4, <2>5, <2>6 DEF MuxWriterStep
<1>3. ASSUME NEW e \in MuxEnds, NEW s \in MuxStreams, MuxOwnerStep(e, s)
      PROVE  MuxInv'
  <2>1. CASE MuxOpen(e, s)
      BY <2>1, MuxOpenKeeps, MuxOpenRefusedKeeps
  <2>2. CASE MuxWrite(e, s)
      BY <2>2, MuxWriteKeeps
  <2>3. CASE MuxWritten(e, s)
      BY <2>3, MuxWrittenKeeps
  <2>4. CASE MuxBroken(e, s)
      BY <2>4, MuxBrokenKeeps
  <2>5. CASE MuxReceive(e, s)
      BY <2>5, MuxReceiveKeeps
  <2>6. CASE MuxEof(e, s)
      BY <2>6, MuxEofKeeps
  <2>7. CASE MuxShutdown(e, s)
      BY <2>7, MuxShutdownKeeps
  <2>8. CASE MuxHeld(e, s)
      BY <2>8, MuxHeldKeeps
  <2>9. CASE MuxShutdownEnds(e, s)
      BY <2>9, MuxShutdownEndsKeeps
  <2>q. QED BY <1>3, <2>1, <2>2, <2>3, <2>4, <2>5, <2>6, <2>7, <2>8, <2>9 DEF MuxOwnerStep
<1>4. ASSUME NEW e \in MuxEnds, MuxRead(e)
      PROVE  MuxInv'
    BY <1>4, MuxReadKeeps
<1>5. ASSUME NEW e \in MuxEnds, NEW s \in MuxStreams, MuxDrop(e, s)
      PROVE  MuxInv'
    BY <1>5, MuxDropStepKeeps
<1>q. QED BY <1>1, <1>2, <1>3, <1>4, <1>5 DEF MuxNext

\* The multiplexer keeps the inductive invariant (mux.rs, both ends).
THEOREM MuxInvariant == MuxSpec => []MuxInv
<1>q. QED BY MuxInitHolds, MuxStepKeeps, PTL DEF MuxSpec

\* Every record, queue, frame and window of the multiplexer stays within its
\* type: no credit, buffer or grant leaves 0..INITIAL_WINDOW and the outbound
\* queue never exceeds WRITER_DATA_QUEUE.
THEOREM MuxTypes == MuxSpec => []MuxTypeOK
<1>1. MuxInv => MuxTypeOK
    BY DEF MuxInv
<1>q. QED BY <1>1, MuxInvariant, PTL

\* The credit of a stream is conserved (grant_send_credit, note_consumed,
\* take_credits): the window is neither lost by coalescing nor exceeded, except
\* that a preemption in poll_write can lose some.
THEOREM MuxCreditTheorem == MuxSpec => []MuxCreditConserved
<1>1. ASSUME MuxInv, NEW e \in MuxEnds, NEW s \in MuxStreams,
             muxAt[e][s].slot, muxAt[MuxPeer(e)][s].slot, muxAt[MuxPeer(e)][s].open
      PROVE  IF muxPreempts = 0 THEN MuxCredits(e, s) = MuxWindow
             ELSE MuxCredits(e, s) <= MuxWindow + muxAt[e][s].n
  <2>1. MuxCreditKept(e, s)
      BY <1>1 DEF MuxInv, MuxStreamInv
  <2>2. MuxAccepts(MuxPeer(e), s)
      BY <1>1 DEF MuxAccepts
  <2>q. QED BY <1>1, <2>1, <2>2 DEF MuxCreditKept
<1>2. MuxInv => MuxCreditConserved
    BY <1>1 DEF MuxCreditConserved
<1>q. QED BY <1>2, MuxInvariant, PTL

\* Whoever reads EOF has read all that the peer's writes accepted, unless the
\* aggregate cap cut the stream (poll_read, close_peer, take_ready_closes).
THEOREM MuxEofTheorem == MuxSpec => []MuxEofAfterAll
<1>1. ASSUME MuxInv, NEW e \in MuxEnds, NEW s \in MuxStreams, muxAt[e][s].eof, <<e, s>> \notin muxCut
      PROVE  muxAt[e][s].got = muxAt[MuxPeer(e)][s].sent
  <2>0. MuxTypeOK /\ MuxSlot(e, s) /\ MuxDelivers(e, s)
      BY <1>1 DEF MuxInv, MuxStreamInv
  <2>1. muxAt[e][s].slot /\ ~muxAt[e][s].open /\ muxAt[e][s].buf = 0
      BY <1>1, <2>0 DEF MuxSlot
  <2>2. muxAt[e][s].got + muxAt[e][s].buf = muxAt[MuxPeer(e)][s].sent
      BY <1>1, <2>0, <2>1 DEF MuxDelivers
  <2>3. muxAt[e][s].got \in Nat
      BY <2>0, MuxNumbers DEF MuxTyped
  <2>q. QED BY <2>1, <2>2, <2>3
<1>2. MuxInv => MuxEofAfterAll
    BY <1>1 DEF MuxEofAfterAll
<1>q. QED BY <1>2, MuxInvariant, PTL
=============================================================================
