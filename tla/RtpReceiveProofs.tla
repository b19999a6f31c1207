-------------------------- MODULE RtpReceiveProofs --------------------------
(***************************************************************************)
(* The queue is sorted and what is played goes forward, wherever the       *)
(* sequence numbers and timestamps wrap, for any lengths of packets,       *)
(* buffers and queue, any jitter and any number of sources.                *)
(*                                                                         *)
(* The code tells earlier from later by half a range.  That is sound for   *)
(* a stretch of packets shorter than half the range (HalfRange), starting  *)
(* anywhere, and for timestamps likewise (HalfClock); the theorems assume  *)
(* no more.                                                                *)
(***************************************************************************)
EXTENDS RtpReceive, SequenceTheorems, WellFoundedInduction, TLAPS

HalfRange == Final - First < SeqWrap \div 2

HalfClock == (Final - First) * PacketLen < TsWrap \div 2

-----------------------------------------------------------------------------
(* Remainders. *)

\* Quotient and remainder.
LEMMA DivMod ==
    ASSUME NEW W \in Nat, W > 0, NEW x \in Int
    PROVE  x % W \in 0 .. W - 1 /\ x \div W \in Int /\ x = W * (x \div W) + (x % W)
OBVIOUS

\* A number has one remainder.
LEMMA OneRemainder ==
    ASSUME NEW W \in Nat, W > 0, NEW q \in Int, NEW r \in 0 .. W - 1
    PROVE  (W * q + r) % W = r
<1> DEFINE x == W * q + r
           d == x \div W
           m == x % W
<1>1. x \in Int /\ d \in Int /\ m \in 0 .. W - 1 /\ x = W * d + m
  OBVIOUS
<1>2. CASE d > q
  <2>1. d = q + 1 + (d - q - 1) /\ d - q - 1 \in Nat
    BY <1>1, <1>2
  <2>2. W * d = W * q + W + W * (d - q - 1) /\ W * (d - q - 1) >= 0
    BY <1>1, <2>1
  <2> HIDE DEF d, m
  <2> QED BY <1>1, <2>2
<1>3. CASE d < q
  <2>1. q = d + 1 + (q - d - 1) /\ q - d - 1 \in Nat
    BY <1>1, <1>3
  <2>2. W * q = W * d + W + W * (q - d - 1) /\ W * (q - d - 1) >= 0
    BY <1>1, <2>1
  <2> HIDE DEF d, m
  <2> QED BY <1>1, <2>2
<1>4. CASE d = q
  BY <1>1, <1>4
<1> QED BY <1>1, <1>2, <1>3, <1>4

\* Of two numbers less than half a range apart, the difference of the remainders
\* tells which is the later.
LEMMA HalfTells ==
    ASSUME NEW W \in Nat, W > 0, NEW a \in Int, NEW b \in Int,
           a - b < W \div 2, b - a < W \div 2
    PROVE  /\ ((a % W) - (b % W)) % W < W \div 2 <=> a >= b
           /\ a % W = b % W <=> a = b
<1> DEFINE h == W \div 2
           c == (a \div W) - (b \div W)
<1>1. h \in Nat /\ h + h <= W
  OBVIOUS
<1>2. /\ a % W \in 0 .. W - 1 /\ b % W \in 0 .. W - 1 /\ a \div W \in Int /\ b \div W \in Int
      /\ a = W * (a \div W) + (a % W) /\ b = W * (b \div W) + (b % W)
  BY DivMod
<1>3. c \in Int /\ a - b = W * c + ((a % W) - (b % W))
  <2>1. \A u, v \in Int : W * (u - v) = W * u - W * v
    OBVIOUS
  <2>2. W * c = W * (a \div W) - W * (b \div W)
    BY <1>2, <2>1
  <2> QED BY <1>2, <2>2
<1>4. (a % W) - (b % W) = W * (-c) + (a - b)
  <2>1. W * (-c) = -(W * c)
    BY <1>3
  <2> QED BY <1>2, <1>3, <2>1
<1>5. CASE a >= b
  <2>1. a - b \in 0 .. W - 1
    BY <1>1, <1>5
  <2>2. (W * (-c) + (a - b)) % W = a - b
    <3>1. -c \in Int
      BY <1>3
    <3> HIDE DEF c, h
    <3> QED BY <2>1, <3>1, OneRemainder
  <2>3. ((a % W) - (b % W)) % W = a - b
    BY <1>4, <2>2
  <2>4. a % W = b % W => a = b
    <3>1. 0 % W = 0
      <4>1. (W * 0 + 0) % W = 0
        BY OneRemainder
      <4> QED BY <4>1
    <3> QED BY <1>2, <2>3, <3>1
  <2> QED BY <1>5, <2>3, <2>4
<1>6. CASE a < b
  <2>1. a - b + W \in 0 .. W - 1 /\ a - b + W >= h
    BY <1>1, <1>6
  <2>2. (a % W) - (b % W) = W * (-c - 1) + (a - b + W)
    <3>1. W * (-c - 1) = W * (-c) - W
      BY <1>3
    <3> QED BY <1>3, <1>4, <3>1
  <2>3. (W * (-c - 1) + (a - b + W)) % W = a - b + W
    <3>1. -c - 1 \in Int
      BY <1>3
    <3> HIDE DEF c, h
    <3> QED BY <2>1, <3>1, OneRemainder
  <2>4. ((a % W) - (b % W)) % W = a - b + W
    BY <2>2, <2>3
  <2>5. a % W # b % W
    <3>1. 0 % W = 0
      <4>1. (W * 0 + 0) % W = 0
        BY OneRemainder
      <4> QED BY <4>1
    <3> QED BY <1>1, <1>2, <1>6, <2>1, <2>4, <3>1
  <2> QED BY <1>1, <1>6, <2>1, <2>4, <2>5
<1> QED BY <1>5, <1>6

\* Sequence numbers of a stretch compare as the packets' own numbers.
LEMMA SeqTells ==
    ASSUME HalfRange, NEW p \in Packets, NEW q \in Packets
    PROVE  /\ RTP_SEQ_IS_GREATER(seq(p), seq(q)) <=> p.n >= q.n
           /\ seq(p) = seq(q) <=> p.n = q.n
<1>1. p.n \in Int /\ q.n \in Int /\ SeqWrap \in Nat /\ SeqWrap > 0
  BY ReceiveConstants DEF Packets
<1>2. p.n - q.n < SeqWrap \div 2 /\ q.n - p.n < SeqWrap \div 2
  BY ReceiveConstants, <1>1 DEF Packets, HalfRange
<1>3. /\ ((p.n % SeqWrap) - (q.n % SeqWrap)) % SeqWrap < SeqWrap \div 2 <=> p.n >= q.n
      /\ p.n % SeqWrap = q.n % SeqWrap <=> p.n = q.n
  BY <1>1, <1>2, HalfTells
<1> QED BY <1>3 DEF RTP_SEQ_IS_GREATER, seq

-----------------------------------------------------------------------------
(* The queue. *)

\* A bounded set of numbers has a largest one.
LEMMA MaxIsIn ==
    ASSUME NEW N \in Nat, NEW S, S \subseteq 0 .. N, S # {}
    PROVE  Max(S) \in S /\ \A y \in S : Max(S) >= y
<1> DEFINE R == {ss \in Nat \X Nat : ss[1] < ss[2]}
           T == {N - x : x \in S}
<1>1. IsWellFoundedOn(R, Nat)
  BY NatLessThanWellFounded, Zenon DEF OpToRel
<1>2. T \subseteq Nat /\ T # {}
  <2>1. \A x \in S : N - x \in Nat
    OBVIOUS
  <2>2. PICK x \in S : TRUE
    OBVIOUS
  <2>3. N - x \in T
    OBVIOUS
  <2> QED BY <2>1, <2>3
<1>3. PICK z \in T : \A y \in T : ~(<<y, z>> \in R)
  BY <1>1, <1>2, WFMin
<1>4. PICK x \in S : z = N - x
  OBVIOUS
<1>5. ASSUME NEW y \in S, ~(x >= y) PROVE FALSE
  <2>1. N - y \in T /\ N - y \in Nat /\ z \in Nat /\ N - y < z
    BY <1>2, <1>4, <1>5
  <2>2. <<N - y, z>> \in R
    BY <2>1
  <2> HIDE DEF R, T
  <2> QED BY <1>3, <2>1, <2>2
<1>6. \A y \in S : x >= y
  BY <1>5
<1> QED BY <1>6 DEF Max

Ordered(q) == \A i, j \in 1 .. Len(q) : i < j => q[i].n < q[j].n

\* Every packet of r is one of q, or p.
Within(r, q, p) ==
    \A i \in 1 .. Len(r) : r[i] = p \/ \E j \in 1 .. Len(q) : r[i] = q[j]

\* rtp_putq keeps the queue in order and drops a packet whose number it has.
LEMMA PutInOrder ==
    ASSUME HalfRange, NEW q \in Seq(Packets), Ordered(q), NEW p \in Packets
    PROVE  LET r == rtp_putq(q, p) IN r \in Seq(Packets) /\ Ordered(r) /\ Within(r, q, p)
<1> DEFINE Stops == {i \in 1 .. Len(q) : \/ seq(q[i]) = seq(p)
                                         \/ RTP_SEQ_IS_GREATER(seq(p), seq(q[i]))}
           at == IF Stops = {} THEN 0 ELSE Max(Stops)
<1>1. \A i \in 1 .. Len(q) : q[i] \in Packets
  OBVIOUS
<1>2. \A i \in 1 .. Len(q) : i \in Stops <=> q[i].n <= p.n
  <2> SUFFICES ASSUME NEW i \in 1 .. Len(q) PROVE i \in Stops <=> q[i].n <= p.n
    OBVIOUS
  <2>1. q[i] \in Packets /\ q[i].n \in Int /\ p.n \in Int
    BY <1>1 DEF Packets
  <2>2. /\ RTP_SEQ_IS_GREATER(seq(p), seq(q[i])) <=> p.n >= q[i].n
        /\ seq(p) = seq(q[i]) <=> p.n = q[i].n
    BY <2>1, SeqTells
  <2> QED BY <2>1, <2>2
<1>3. /\ at \in 0 .. Len(q)
      /\ at > 0 => at \in Stops
      /\ \A i \in 1 .. Len(q) : i > at => i \notin Stops
  <2>1. CASE Stops = {}
    BY <2>1
  <2>2. CASE Stops # {}
    <3>1. Stops \subseteq 0 .. Len(q) /\ Len(q) \in Nat
      OBVIOUS
    <3>2. Max(Stops) \in Stops /\ \A y \in Stops : Max(Stops) >= y
      BY <2>2, <3>1, MaxIsIn
    <3>3. at = Max(Stops)
      BY <2>2
    <3> HIDE DEF Stops, at
    <3>4. at \in Stops /\ at \in 0 .. Len(q) /\ \A y \in Stops : at >= y
      BY <3>1, <3>2, <3>3
    <3> QED BY <3>1, <3>4
  <2> QED BY <2>1, <2>2
<1>4. rtp_putq(q, p) = IF at > 0 /\ seq(q[at]) = seq(p) THEN q ELSE InsertAt(q, at + 1, p)
  BY DEF rtp_putq
<1> HIDE DEF at
<1>5. CASE at > 0 /\ seq(q[at]) = seq(p)
  <2>1. rtp_putq(q, p) = q
    BY <1>4, <1>5
  <2> QED BY <2>1 DEF Within
<1>6. CASE ~(at > 0 /\ seq(q[at]) = seq(p))
  <2> DEFINE r == SubSeq(q, 1, at) \o <<p>> \o SubSeq(q, at + 1, Len(q))
  <2>1. rtp_putq(q, p) = r
    <3>1. (at + 1) - 1 = at
      BY <1>3
    <3> QED BY <1>4, <1>6, <3>1 DEF InsertAt
  <2>2. /\ r \in Seq(Packets) /\ Len(r) = Len(q) + 1
        /\ \A i \in 1 .. Len(r) :
              /\ i <= at => i \in 1 .. Len(q) /\ r[i] = q[i]
              /\ i = at + 1 => r[i] = p
              /\ i > at + 1 => i - 1 \in 1 .. Len(q) /\ r[i] = q[i - 1]
    <3> DEFINE u == SubSeq(q, 1, at)
               w == SubSeq(q, at + 1, Len(q))
    <3>1. u \in Seq(Packets) /\ Len(u) = at /\ \A i \in 1 .. at : u[i] = q[i]
      BY <1>3
    <3>2. /\ w \in Seq(Packets) /\ Len(w) = Len(q) - at
          /\ \A i \in 1 .. Len(q) - at : w[i] = q[at + i]
      BY <1>3
    <3> HIDE DEF u, w
    <3> DEFINE v == u \o <<p>>
    <3>3. v \in Seq(Packets) /\ Len(v) = at + 1
      BY <1>3, <3>1
    <3>4. \A i \in 1 .. at + 1 : v[i] = IF i <= at THEN u[i] ELSE p
      BY <1>3, <3>1
    <3>5. r = v \o w
      BY DEF u, w
    <3> HIDE DEF v
    <3>6. v \o w \in Seq(Packets) /\ Len(v \o w) = Len(q) + 1
      <4>1. v \o w \in Seq(Packets) /\ Len(v \o w) = Len(v) + Len(w)
        BY <3>2, <3>3, ConcatProperties
      <4> QED BY <1>3, <3>2, <3>3, <4>1
    <3>7. \A i \in 1 .. Len(q) + 1 :
             (v \o w)[i] = IF i <= at + 1 THEN v[i] ELSE w[i - (at + 1)]
      BY <1>3, <3>2, <3>3
    <3> HIDE DEF r
    <3> SUFFICES ASSUME NEW i \in 1 .. Len(r)
                 PROVE  /\ i <= at => i \in 1 .. Len(q) /\ r[i] = q[i]
                        /\ i = at + 1 => r[i] = p
                        /\ i > at + 1 => i - 1 \in 1 .. Len(q) /\ r[i] = q[i - 1]
      BY <3>5, <3>6
    <3>8. i <= at => i \in 1 .. Len(q) /\ r[i] = q[i]
      BY <1>3, <3>1, <3>4, <3>5, <3>6, <3>7
    <3>9. i = at + 1 => r[i] = p
      BY <1>3, <3>4, <3>5, <3>6, <3>7
    <3>10. i > at + 1 => i - 1 \in 1 .. Len(q) /\ r[i] = q[i - 1]
      <4> SUFFICES ASSUME i > at + 1 PROVE i - 1 \in 1 .. Len(q) /\ r[i] = q[i - 1]
        OBVIOUS
      <4>1. i - (at + 1) \in 1 .. Len(q) - at /\ i - 1 \in 1 .. Len(q)
        BY <1>3, <3>5, <3>6
      <4>2. at + (i - (at + 1)) = i - 1
        BY <1>3, <3>5, <3>6
      <4>3. w[i - (at + 1)] = q[i - 1]
        BY <3>2, <4>1, <4>2
      <4> QED BY <1>3, <3>5, <3>6, <3>7, <4>1, <4>3
    <3> QED BY <3>8, <3>9, <3>10
  <2>3. \A i \in 1 .. Len(q) : i <= at => q[i].n < p.n
    <3> SUFFICES ASSUME NEW i \in 1 .. Len(q), i <= at PROVE q[i].n < p.n
      OBVIOUS
    <3>1. at \in 1 .. Len(q) /\ q[at].n <= p.n /\ q[at] \in Packets
      BY <1>1, <1>2, <1>3
    <3>2. q[at].n # p.n
      BY <1>6, <3>1, SeqTells
    <3>3. q[i] \in Packets
      BY <1>1
    <3>4. i = at \/ i < at
      BY <1>3
    <3>5. i < at => q[i].n < q[at].n
      BY <3>1 DEF Ordered
    <3>6. q[i].n \in Int /\ q[at].n \in Int /\ p.n \in Int
      BY <3>1, <3>3 DEF Packets
    <3> QED BY <3>1, <3>2, <3>4, <3>5, <3>6
  <2>4. \A i \in 1 .. Len(q) : i > at => p.n < q[i].n
    BY <1>1, <1>2, <1>3 DEF Packets
  <2> HIDE DEF r
  <2>5. Within(r, q, p)
    <3> SUFFICES ASSUME NEW i \in 1 .. Len(r)
                 PROVE  r[i] = p \/ \E j \in 1 .. Len(q) : r[i] = q[j]
      BY DEF Within
    <3>1. i <= at \/ i = at + 1 \/ i > at + 1
      BY <1>3
    <3> QED BY <2>2, <3>1
  <2>6. Ordered(r)
    <3> SUFFICES ASSUME NEW i \in 1 .. Len(r), NEW j \in 1 .. Len(r), i < j
                 PROVE  r[i].n < r[j].n
      BY DEF Ordered
    <3>1. at \in Nat /\ Len(q) \in Nat /\ i \in Int /\ j \in Int
      BY <1>3
    <3>2. CASE j <= at
      <4>1. i <= at
        BY <3>1, <3>2
      <4> QED BY <2>2, <3>2, <4>1 DEF Ordered
    <3>3. CASE j = at + 1
      <4>1. i <= at
        BY <3>1, <3>3
      <4> QED BY <2>2, <2>3, <3>3, <4>1
    <3>4. CASE j > at + 1 /\ i <= at
      <4>1. r[i] = q[i] /\ r[j] = q[j - 1] /\ i \in 1 .. Len(q) /\ j - 1 \in 1 .. Len(q) /\ i < j - 1
        BY <2>2, <3>1, <3>4
      <4> QED BY <4>1 DEF Ordered
    <3>5. CASE j > at + 1 /\ i = at + 1
      <4>1. r[i] = p /\ r[j] = q[j - 1] /\ j - 1 \in 1 .. Len(q) /\ j - 1 > at
        BY <2>2, <3>1, <3>5
      <4> QED BY <2>4, <4>1
    <3>6. CASE i > at + 1
      <4>1. /\ r[i] = q[i - 1] /\ r[j] = q[j - 1]
            /\ i - 1 \in 1 .. Len(q) /\ j - 1 \in 1 .. Len(q) /\ i - 1 < j - 1
        BY <2>2, <3>1, <3>6
      <4> QED BY <4>1 DEF Ordered
    <3> QED BY <3>1, <3>2, <3>3, <3>4, <3>5, <3>6
  <2> QED BY <2>1, <2>2, <2>5, <2>6
<1> QED BY <1>5, <1>6

\* The new end of a queue is in order.
LEMMA EndInOrder ==
    ASSUME NEW q \in Seq(Packets), Ordered(q), NEW k \in Nat
    PROVE  LET t == SubSeq(q, k + 1, Len(q)) IN
           /\ t \in Seq(Packets) /\ Ordered(t)
           /\ \A i \in 1 .. Len(t) : k + i \in 1 .. Len(q) /\ t[i] = q[k + i]
<1> DEFINE t == SubSeq(q, k + 1, Len(q))
<1>1. /\ t \in Seq(Packets)
      /\ \A i \in 1 .. Len(t) : k + i \in 1 .. Len(q) /\ t[i] = q[k + i]
  OBVIOUS
<1> HIDE DEF t
<1>2. Ordered(t)
  <2> SUFFICES ASSUME NEW i \in 1 .. Len(t), NEW j \in 1 .. Len(t), i < j
               PROVE  t[i].n < t[j].n
    BY DEF Ordered
  <2>1. k + i \in 1 .. Len(q) /\ k + j \in 1 .. Len(q) /\ t[i] = q[k + i] /\ t[j] = q[k + j]
    BY <1>1
  <2>2. k + i < k + j
    OBVIOUS
  <2> QED BY <2>1, <2>2 DEF Ordered
<1> QED BY <1>1, <1>2 DEF t

\* So does the cut at the old end.
LEMMA SplitInOrder ==
    ASSUME HalfRange, NEW q \in Seq(Packets), Ordered(q), NEW p \in Packets
    PROVE  LET r == split_and_queue(q, p) IN r \in Seq(Packets) /\ Ordered(r) /\ Within(r, q, p)
<1> DEFINE u == rtp_putq(q, p)
           k == Len(u) - (IF Len(u) > MaxQ THEN MaxQ ELSE Len(u))
<1>1. u \in Seq(Packets) /\ Ordered(u) /\ Within(u, q, p)
  BY PutInOrder
<1>2. split_and_queue(q, p) = SubSeq(u, k + 1, Len(u))
  BY DEF split_and_queue
<1> HIDE DEF u
<1>3. k \in Nat
  BY <1>1, ReceiveConstants
<1> HIDE DEF k
<1> DEFINE r == SubSeq(u, k + 1, Len(u))
<1>4. /\ r \in Seq(Packets) /\ Ordered(r)
      /\ \A i \in 1 .. Len(r) : k + i \in 1 .. Len(u) /\ r[i] = u[k + i]
  BY <1>1, <1>3, EndInOrder
<1> HIDE DEF r
<1>5. Within(r, q, p)
  BY <1>1, <1>4 DEF Within
<1> QED BY <1>2, <1>4, <1>5 DEF r

\* What is asked for is at most the queue.
LEMMA TakesFromQueue ==
    ASSUME NEW ask \in Int, rq \in Seq(Packets)
    PROVE  rtp_session_recvm_with_ts(ask) \in 0 .. Len(rq)
<1> DEFINE t == (ask + Diff(ask)) % TsWrap
           Taken(k) == \A i \in 1 .. k :
                          /\ RTP_TIMESTAMP_IS_NEWER_THAN(t, ts(rq[i]))
                          /\ i > 1 => ts(rq[i]) # ts(rq[i - 1])
           S == {k \in 0 .. Len(rq) : Taken(k)}
<1>1. rtp_getq_permissive(rq, t) \in 0 .. Len(rq)
  BY DEF rtp_getq_permissive
<1>2. rtp_getq(rq, t) \in 0 .. Len(rq)
  <2>1. rtp_getq(rq, t) = Max(S)
    BY DEF rtp_getq
  <2>2. Taken(0) /\ 0 \in 0 .. Len(rq)
    OBVIOUS
  <2>3. 0 \in S /\ S \subseteq 0 .. Len(rq) /\ Len(rq) \in Nat
    BY <2>2
  <2> HIDE DEF S
  <2>4. Max(S) \in S
    BY <2>3, MaxIsIn
  <2> QED BY <2>1, <2>3, <2>4
<1> QED BY <1>1, <1>2 DEF rtp_session_recvm_with_ts

-----------------------------------------------------------------------------
(* The queue is sorted. *)

QueueTypes ==
    /\ net \subseteq Packets /\ rq \in Seq(Packets)
    /\ sender \in [src : Sources, n : Int] /\ sender.n >= First
    /\ ssrc \in Sources \cup {0}
    /\ room \in Nat /\ user \in Nat /\ retTs \in Int

QueueInv == QueueTypes /\ Sorted

\* A packet of the session's source is queued.
LEMMA QueuedSorted ==
    ASSUME HalfRange, QueueInv, NEW p \in Packets, ~Foreign(p), NEW s, s = p.src
    PROVE  LET r == split_and_queue(rq, p) IN
           r \in Seq(Packets) /\ Ordered(r) /\ \A i \in 1 .. Len(r) : r[i].src = s
<1> DEFINE r == split_and_queue(rq, p)
<1>1. rq \in Seq(Packets) /\ Ordered(rq) /\ \A i \in 1 .. Len(rq) : rq[i].src = ssrc
  BY DEF QueueInv, QueueTypes, Sorted, Ordered
<1>2. r \in Seq(Packets) /\ Ordered(r) /\ Within(r, rq, p)
  BY <1>1, SplitInOrder
<1>3. \A i \in 1 .. Len(rq) : rq[i].src = s
  <2> SUFFICES ASSUME NEW i \in 1 .. Len(rq) PROVE rq[i].src = s
    OBVIOUS
  <2>1. rq[i] \in Packets /\ rq[i].src = ssrc
    BY <1>1
  <2>2. ssrc # 0
    BY <2>1, ReceiveConstants DEF Packets
  <2> QED BY <2>1, <2>2 DEF Foreign
<1> HIDE DEF r
<1>4. \A i \in 1 .. Len(r) : r[i].src = s
  BY <1>2, <1>3 DEF Within
<1> QED BY <1>2, <1>4 DEF r

\* A packet of another source is queued alone.
LEMMA FirstSorted ==
    ASSUME HalfRange, NEW p \in Packets
    PROVE  LET r == split_and_queue(<< >>, p) IN
           r \in Seq(Packets) /\ Ordered(r) /\ \A i \in 1 .. Len(r) : r[i] = p
<1> DEFINE r == split_and_queue(<< >>, p)
<1>1. << >> \in Seq(Packets) /\ Ordered(<< >>) /\ Len(<< >>) = 0
  BY DEF Ordered
<1>2. r \in Seq(Packets) /\ Ordered(r) /\ Within(r, << >>, p)
  BY <1>1, SplitInOrder
<1> HIDE DEF r
<1>3. \A i \in 1 .. Len(r) : r[i] = p
  BY <1>1, <1>2 DEF Within
<1> QED BY <1>2, <1>3 DEF r

\* size samples of packet k are played; what is left is the packets behind it, and
\* the rest of it.
Took(k, size) ==
    /\ size <= rq[k].rest /\ lastTs' = ts(rq[k]) /\ started' = TRUE
    /\ played' = [src |-> rq[k].src,
                  at |-> rq[k].n * PacketLen + PacketLen - rq[k].rest + size - 1]
    /\ \A i \in 1 .. Len(rq') :
          \/ rq'[i] = [rq[k] EXCEPT !.rest = rq[k].rest - size] /\ size < rq[k].rest
          \/ \E j \in 1 .. Len(rq) : j > k /\ rq'[i] = rq[j]

\* What one request for samples does to the queue.
LEMMA AskTakes ==
    ASSUME HalfRange, QueueInv, NEW ask \in Int, NEW space \in Nat, space > 0, Ask(ask, space),
           sync => rq # << >>
    PROVE  /\ rq' \in Seq(Packets) /\ Ordered(rq') /\ room' \in Nat /\ ssrc' = ssrc
           /\ \A i \in 1 .. Len(rq') : rq'[i].src = ssrc
           /\ \/ UNCHANGED <<rq, lastTs, started, played>>
              \/ \E k \in 1 .. Len(rq), size \in 1 .. PacketLen : Took(k, size)
<1> DEFINE k == rtp_session_recvm_with_ts(ask)
<1>1. rq \in Seq(Packets) /\ Ordered(rq) /\ \A i \in 1 .. Len(rq) : rq[i] \in Packets /\ rq[i].src = ssrc
  BY DEF QueueInv, QueueTypes, Sorted, Ordered
<1>2. k \in 0 .. Len(rq)
  BY <1>1, TakesFromQueue
<1>3. ssrc' = ssrc
  <2>1. sync => 1 \in 1 .. Len(rq) /\ Head(rq) = rq[1]
    BY <1>1
  <2> QED BY <1>1, <2>1 DEF Ask
<1>4. IF k > 0 THEN Fill(k, space) ELSE room' = 0 /\ UNCHANGED <<rq, lastTs, started, played>>
  BY DEF Ask
<1> HIDE DEF k
<1>5. CASE ~(k > 0)
  BY <1>1, <1>3, <1>4, <1>5
<1>6. CASE k > 0
  <2> DEFINE p    == rq[k]
             size == IF p.rest <= space THEN p.rest ELSE space
             tail == SubSeq(rq, k + 1, Len(rq))
             left == [p EXCEPT !.rest = p.rest - size]
  <2>1. k \in 1 .. Len(rq) /\ p \in Packets
    BY <1>1, <1>2, <1>6
  <2>2. /\ p.rest \in 1 .. PacketLen /\ size \in 1 .. PacketLen /\ size <= p.rest /\ size <= space
        /\ p.rest > space <=> size < p.rest
    <3>1. p.rest \in 1 .. PacketLen /\ PacketLen \in Nat
      BY <2>1, ReceiveConstants DEF Packets
    <3> HIDE DEF p
    <3> QED BY <3>1
  <2>3. /\ rq' = IF p.rest > space THEN rtp_putq(tail, left) ELSE tail
        /\ lastTs' = ts(p) /\ started' = TRUE /\ room' = space - size
        /\ played' = [src |-> p.src, at |-> p.n * PacketLen + PacketLen - p.rest + size - 1]
    BY <1>4, <1>6 DEF Fill
  <2>4. /\ tail \in Seq(Packets) /\ Ordered(tail)
        /\ \A i \in 1 .. Len(tail) : k + i \in 1 .. Len(rq) /\ tail[i] = rq[k + i]
    BY <1>1, <2>1, EndInOrder
  <2> HIDE DEF tail, size
  <2>5. \A i \in 1 .. Len(tail) : \E j \in 1 .. Len(rq) : j > k /\ tail[i] = rq[j]
    <3> SUFFICES ASSUME NEW i \in 1 .. Len(tail)
                 PROVE  \E j \in 1 .. Len(rq) : j > k /\ tail[i] = rq[j]
      OBVIOUS
    <3>1. k + i \in 1 .. Len(rq) /\ tail[i] = rq[k + i] /\ k + i > k
      BY <2>1, <2>4
    <3> QED BY <3>1
  <2>6. CASE p.rest > space
    <3>1. left \in Packets /\ left.src = p.src
      <4>1. p.rest - size \in 1 .. PacketLen
        <5>1. PacketLen \in Nat
          BY ReceiveConstants
        <5> HIDE DEF p
        <5> QED BY <2>2, <2>6, <5>1
      <4> HIDE DEF p
      <4> QED BY <2>1, <4>1 DEF Packets
    <3> HIDE DEF left
    <3>2. rq' \in Seq(Packets) /\ Ordered(rq') /\ Within(rq', tail, left)
      BY <2>3, <2>4, <2>6, <3>1, PutInOrder
    <3>3. \A i \in 1 .. Len(rq') : rq'[i] = left \/ \E j \in 1 .. Len(rq) : j > k /\ rq'[i] = rq[j]
      BY <2>5, <3>2 DEF Within
    <3>4. Took(k, size)
      BY <2>2, <2>3, <2>6, <3>3 DEF Took, left
    <3>5. \A i \in 1 .. Len(rq') : rq'[i].src = ssrc
      BY <1>1, <2>1, <3>1, <3>3
    <3>6. room' \in Nat
      BY <2>2, <2>3
    <3> QED BY <1>3, <2>1, <2>2, <3>2, <3>4, <3>5, <3>6
  <2>7. CASE ~(p.rest > space)
    <3>1. rq' = tail
      BY <2>3, <2>7
    <3>2. Took(k, size)
      BY <2>2, <2>3, <2>5, <3>1 DEF Took
    <3>3. \A i \in 1 .. Len(rq') : rq'[i].src = ssrc
      BY <1>1, <2>5, <3>1
    <3>4. room' \in Nat
      BY <2>2, <2>3
    <3> QED BY <1>3, <2>1, <2>2, <2>4, <3>1, <3>2, <3>3, <3>4
  <2> QED BY <2>6, <2>7
<1> QED BY <1>5, <1>6

\* Every step keeps the queue sorted.
LEMMA QueueStepKeeps ==
    ASSUME HalfRange, QueueInv, [Next]_vars
    PROVE  QueueInv'
<1>0. /\ net \subseteq Packets /\ rq \in Seq(Packets) /\ Ordered(rq)
      /\ \A i \in 1 .. Len(rq) : rq[i].src = ssrc
      /\ room \in Nat /\ user \in Nat /\ retTs \in Int /\ ssrc \in Sources \cup {0}
      /\ sender \in [src : Sources, n : Int] /\ sender.n >= First
  BY DEF QueueInv, QueueTypes, Sorted, Ordered
<1>c. TsWrap \in Nat /\ TsWrap > 0 /\ BufLen \in Nat /\ BufLen > 0 /\ First \in Nat
  BY ReceiveConstants
<1>1. SUFFICES QueueTypes' /\ Ordered(rq') /\ \A i \in 1 .. Len(rq') : rq'[i].src = ssrc'
  BY DEF QueueInv, Sorted, Ordered
<1>2. CASE Send
  <2>1. [src |-> sender.src, n |-> sender.n, rest |-> PacketLen] \in Packets
    <3>1. sender.src \in Sources /\ sender.n \in First .. Final /\ PacketLen \in 1 .. PacketLen
      <4>1. sender.n <= Final /\ sender.n \in Int /\ sender.src \in Sources
        BY <1>0, <1>2 DEF Send
      <4>2. Final \in Nat /\ PacketLen \in Nat /\ PacketLen > 0
        BY ReceiveConstants
      <4> QED BY <1>0, <1>c, <4>1, <4>2
    <3> QED BY <3>1 DEF Packets
  <2>2. sender' \in [src : Sources, n : Int] /\ sender'.n >= First
    <3>1. sender' = [sender EXCEPT !.n = sender.n + 1]
      BY <1>2 DEF Send
    <3> QED BY <1>0, <1>c, <3>1
  <2> QED BY <1>0, <1>2, <2>1, <2>2 DEF Send, QueueTypes
<1>3. CASE \E s \in Sources : ChangeSource(s)
  BY <1>0, <1>3, ReceiveConstants DEF ChangeSource, QueueTypes
<1>4. CASE \E p \in net : Lose(p)
  BY <1>0, <1>4 DEF Lose, QueueTypes
<1>5. ASSUME NEW p \in net, rtp_session_rtp_parse(p) PROVE QueueInv'
  <2>1. p \in Packets /\ p.src \in Sources /\ ssrc' = p.src
    BY <1>0, <1>5 DEF Packets, rtp_session_rtp_parse
  <2>2. rq' \in Seq(Packets) /\ Ordered(rq') /\ \A i \in 1 .. Len(rq') : rq'[i].src = p.src
    <3>1. CASE Foreign(p)
      <4>1. rq' = split_and_queue(<< >>, p)
        BY <1>5, <3>1 DEF rtp_session_rtp_parse, rtp_session_reset
      <4> QED BY <2>1, <4>1, FirstSorted
    <3>2. CASE ~Foreign(p) /\ rq' = split_and_queue(rq, p)
      BY <2>1, <3>2, QueuedSorted
    <3>3. CASE ~Foreign(p) /\ rq' = rq
      <4>1. \A i \in 1 .. Len(rq) : ssrc # 0
        <5>1. \A i \in 1 .. Len(rq) : rq[i] \in Packets
          BY <1>0
        <5> QED BY <1>0, <5>1, ReceiveConstants DEF Packets
      <4> QED BY <1>0, <3>3, <4>1 DEF Foreign
    <3> QED BY <1>5, <3>1, <3>2, <3>3 DEF rtp_session_rtp_parse
  <2> QED BY <1>0, <1>5, <2>1, <2>2 DEF rtp_session_rtp_parse, QueueInv, QueueTypes, Sorted, Ordered
<1>6. CASE rtp_session_recv_with_ts
  <2>1. CASE sync /\ rq = << >>
    BY <1>0, <1>c, <1>6, <2>1 DEF rtp_session_recv_with_ts, QueueTypes
  <2>2. CASE ~(sync /\ rq = << >>)
    <3>1. Ask(user % TsWrap, BufLen) /\ retTs' = ((IF sync THEN user ELSE retTs) + BufLen) % TsWrap
      BY <1>6, <2>2 DEF rtp_session_recv_with_ts
    <3>2. user % TsWrap \in Int
      BY <1>0, <1>c
    <3>3. rq' \in Seq(Packets) /\ Ordered(rq') /\ room' \in Nat /\ ssrc' = ssrc
      BY <1>c, <2>2, <3>1, <3>2, AskTakes
    <3>4. \A i \in 1 .. Len(rq') : rq'[i].src = ssrc
      BY <1>c, <2>2, <3>1, <3>2, AskTakes
    <3>5. retTs' \in Int
      BY <1>0, <1>c, <3>1
    <3> QED BY <1>0, <1>c, <1>6, <3>3, <3>4, <3>5 DEF rtp_session_recv_with_ts, QueueTypes
  <2> QED BY <2>1, <2>2
<1>7. CASE NeedMore
  <2>1. CASE sync /\ rq = << >>
    BY <1>0, <1>7, <2>1 DEF NeedMore, QueueTypes
  <2>2. CASE ~(sync /\ rq = << >>)
    <3>1. Ask(retTs, room) /\ room > 0
      BY <1>7, <2>2 DEF NeedMore
    <3>2. rq' \in Seq(Packets) /\ Ordered(rq') /\ room' \in Nat /\ ssrc' = ssrc
      BY <1>0, <2>2, <3>1, AskTakes
    <3>3. \A i \in 1 .. Len(rq') : rq'[i].src = ssrc
      BY <1>0, <2>2, <3>1, AskTakes
    <3> QED BY <1>0, <1>7, <3>2, <3>3 DEF NeedMore, QueueTypes
  <2> QED BY <2>1, <2>2
<1>8. CASE UNCHANGED vars
  BY <1>0, <1>8 DEF vars, QueueTypes
<1> QED BY <1>2, <1>3, <1>4, <1>5, <1>6, <1>7, <1>8 DEF Next, QueueInv, QueueTypes, Sorted, Ordered

\* The session starts with an empty queue.
LEMMA QueueInit ==
    ASSUME Init
    PROVE  QueueInv
<1>1. << >> \in Seq(Packets) /\ Len(<< >>) = 0
  OBVIOUS
<1> QED BY <1>1, ReceiveConstants DEF Init, QueueInv, QueueTypes, Sorted

\* The queue holds the packets of one source in the order they were sent and each
\* once, whatever overtook whatever and wherever rtp_putq meets the wrap, in every
\* stretch of fewer packets than half the sequence numbers.
THEOREM QueueStaysSorted == HalfRange => (Spec => []Sorted)
<1> SUFFICES ASSUME HalfRange PROVE Spec => []Sorted
  OBVIOUS
<1>1. Init => QueueInv
  BY QueueInit
<1>2. QueueInv /\ [Next]_vars => QueueInv'
  BY QueueStepKeeps
<1>3. QueueInv => Sorted
  BY DEF QueueInv
<1> QED BY <1>1, <1>2, <1>3, PTL DEF Spec

-----------------------------------------------------------------------------
(* What is played goes forward. *)

\* Packet n of source s has been sent.
Sent(s, n) == s < sender.src \/ (s = sender.src /\ n < sender.n)

\* A packet is in one place: under way or queued, and it was sent.
OnePlace ==
    /\ \A p \in net : Sent(p.src, p.n)
    /\ \A i \in 1 .. Len(rq) : Sent(rq[i].src, rq[i].n)
    /\ \A p, q \in net : p.src = q.src /\ p.n = q.n => p = q
    /\ \A p \in net : \A i \in 1 .. Len(rq) : ~(p.src = rq[i].src /\ p.n = rq[i].n)

\* The last sample played is one of packet m, whose timestamp is kept.
PlayedOf(m) ==
    /\ played.src = ssrc /\ Sent(ssrc, m)
    /\ lastTs = (m * PacketLen) % TsWrap
    /\ m * PacketLen <= played.at /\ played.at < m * PacketLen + PacketLen
    /\ \A p \in net : ~(p.src = ssrc /\ p.n = m)

\* The position of the first sample of p that is not read yet.
Start(p) == p.n * PacketLen + PacketLen - p.rest

\* Until a packet was delivered nothing was played; afterwards all that is queued is
\* still to be played.
AllAhead ==
    /\ started \in BOOLEAN /\ played \in [src : Sources \cup {0}, at : Int]
    /\ ~started => played = [src |-> 0, at |-> 0]
    /\ started => /\ \E m \in First .. Final : PlayedOf(m)
                  /\ ssrc # 0
                  /\ \A i \in 1 .. Len(rq) : Start(rq[i]) > played.at

PlayInv == QueueInv /\ OnePlace /\ AllAhead

\* A packet ends before the next one starts.
LEMMA Positions ==
    ASSUME NEW a \in Int, NEW b \in Int
    PROVE  /\ a * PacketLen \in Int /\ PacketLen \in Nat /\ PacketLen > 0
           /\ a < b => a * PacketLen + PacketLen <= b * PacketLen
<1>1. PacketLen \in Nat /\ PacketLen > 0
  BY ReceiveConstants
<1>2. ASSUME a < b PROVE a * PacketLen + PacketLen <= b * PacketLen
  <2> DEFINE c == b - a - 1
  <2>1. c \in Nat /\ b = a + 1 + c
    BY <1>2
  <2> HIDE DEF c
  <2>2. (a + 1 + c) * PacketLen = a * PacketLen + PacketLen + c * PacketLen /\ c * PacketLen >= 0
    BY <1>1, <2>1
  <2> QED BY <1>1, <2>1, <2>2
<1> QED BY <1>1, <1>2

\* Timestamps of a stretch compare as the packets' own numbers.
LEMMA ClockTells ==
    ASSUME HalfClock, NEW m \in First .. Final, lastTs = (m * PacketLen) % TsWrap,
           NEW p \in Packets
    PROVE  TooOld(p) <=> m > p.n
<1> DEFINE a == m * PacketLen
           b == p.n * PacketLen
<1>1. First \in Nat /\ Final \in Nat /\ TsWrap \in Nat /\ TsWrap > 0 /\ m \in Int /\ p.n \in Int /\ p.n \in First .. Final
  BY ReceiveConstants DEF Packets
<1>2. a \in Int /\ b \in Int /\ (m > p.n => a > b) /\ (m < p.n => a < b) /\ (m = p.n => a = b)
  <2>1. a \in Int /\ b \in Int /\ PacketLen \in Nat /\ PacketLen > 0
    BY <1>1, Positions
  <2>2. (p.n < m => b + PacketLen <= a) /\ (m < p.n => a + PacketLen <= b)
    BY <1>1, Positions
  <2>3. m = p.n => a = b
    OBVIOUS
  <2> HIDE DEF a, b
  <2> QED BY <1>1, <2>1, <2>2, <2>3
<1>3. a - b < TsWrap \div 2 /\ b - a < TsWrap \div 2
  <2>1. PacketLen \in Nat
    BY Positions, <1>1
  <2>2. ASSUME NEW d \in Int, d <= Final - First PROVE d * PacketLen <= (Final - First) * PacketLen
    <3> DEFINE e == Final - First - d
    <3>1. e \in Nat /\ Final - First = d + e
      BY <1>1, <2>2
    <3> HIDE DEF e
    <3>2. (d + e) * PacketLen = d * PacketLen + e * PacketLen /\ e * PacketLen >= 0
      BY <2>1, <3>1
    <3> QED BY <2>1, <3>1, <3>2
  <2>3. a - b = (m - p.n) * PacketLen /\ b - a = (p.n - m) * PacketLen
    BY <1>1, <2>1
  <2>4. m - p.n \in Int /\ p.n - m \in Int /\ m - p.n <= Final - First /\ p.n - m <= Final - First
    BY <1>1
  <2>5. (m - p.n) * PacketLen <= (Final - First) * PacketLen /\ (p.n - m) * PacketLen <= (Final - First) * PacketLen
    BY <2>2, <2>4
  <2>6. (Final - First) * PacketLen \in Int /\ TsWrap \div 2 \in Int
    BY <1>1, <2>1
  <2> HIDE DEF a, b
  <2> QED BY <1>2, <2>3, <2>5, <2>6 DEF HalfClock
<1> HIDE DEF a, b
<1>4. /\ ((a % TsWrap) - (b % TsWrap)) % TsWrap < TsWrap \div 2 <=> a >= b
      /\ a % TsWrap = b % TsWrap <=> a = b
  BY <1>1, <1>2, <1>3, HalfTells
<1>5. lastTs = a % TsWrap /\ ts(p) = b % TsWrap
  BY DEF a, b, ts
<1>6. TooOld(p) <=> (a >= b /\ a # b)
  BY <1>4, <1>5 DEF TooOld, RTP_TIMESTAMP_IS_STRICTLY_NEWER_THAN, RTP_TIMESTAMP_IS_NEWER_THAN
<1> QED BY <1>1, <1>2, <1>6

\* Samples of a queued packet are played.
LEMMA TookKeeps ==
    ASSUME PlayInv, NEW k \in 1 .. Len(rq), NEW size \in 1 .. PacketLen, Took(k, size),
           ssrc' = ssrc, net' = net, sender' = sender
    PROVE  OnePlace' /\ AllAhead' /\ (played'.src = played.src => played'.at > played.at)
<1> DEFINE p == rq[k]
           x == p.n * PacketLen
<1>1. /\ p \in Packets /\ p.src = ssrc /\ p.src \in Sources /\ p.src # 0 /\ p.n \in First .. Final
      /\ p.n \in Int /\ p.rest \in 1 .. PacketLen
  <2>1. rq \in Seq(Packets) /\ p.src = ssrc
    BY DEF PlayInv, QueueInv, QueueTypes, Sorted
  <2>2. p \in Packets
    BY <2>1
  <2> HIDE DEF p
  <2> QED BY <2>1, <2>2, ReceiveConstants DEF Packets
<1>2. /\ x \in Int /\ PacketLen \in Nat /\ size \in Int /\ size >= 1 /\ p.rest \in Int
      /\ size <= p.rest /\ p.rest <= PacketLen
  <2>1. x \in Int /\ PacketLen \in Nat /\ size <= p.rest
    BY <1>1, Positions DEF Took
  <2> HIDE DEF x, p
  <2> QED BY <1>1, <2>1
<1>3. /\ played' = [src |-> ssrc, at |-> x + PacketLen - p.rest + size - 1]
      /\ played'.src = ssrc /\ played'.at = x + PacketLen - p.rest + size - 1
      /\ lastTs' = ts(p) /\ started' = TRUE
  BY <1>1 DEF Took
<1>4. \A i \in 1 .. Len(rq') :
         \/ rq'[i] = [p EXCEPT !.rest = p.rest - size] /\ size < p.rest
         \/ \E j \in 1 .. Len(rq) : j > k /\ rq'[i] = rq[j]
  BY DEF Took
<1>5. \A i \in 1 .. Len(rq') : \E j \in 1 .. Len(rq) : rq'[i].src = rq[j].src /\ rq'[i].n = rq[j].n
  <2> SUFFICES ASSUME NEW i \in 1 .. Len(rq')
               PROVE  \E j \in 1 .. Len(rq) : rq'[i].src = rq[j].src /\ rq'[i].n = rq[j].n
    OBVIOUS
  <2>1. CASE rq'[i] = [p EXCEPT !.rest = p.rest - size]
    <3>1. rq'[i].src = p.src /\ rq'[i].n = p.n
      BY <1>1, <2>1 DEF Packets
    <3> QED BY <3>1
  <2> QED BY <1>4, <2>1
<1>6. OnePlace'
  BY <1>5 DEF PlayInv, OnePlace, Sent
<1> HIDE DEF x
<1>7. PICK m \in First .. Final : m = p.n /\ PlayedOf(m)'
  <2>1. x <= played'.at /\ played'.at < x + PacketLen
    <3> HIDE DEF p
    <3> QED BY <1>2, <1>3
  <2>0. PICK m \in First .. Final : m = p.n
    BY <1>1
  <2>2. Sent(p.src, p.n) /\ \A q \in net : ~(q.src = p.src /\ q.n = p.n)
    BY DEF PlayInv, OnePlace
  <2>3. played'.src = ssrc' /\ lastTs' = (p.n * PacketLen) % TsWrap
    BY <1>3 DEF ts
  <2>4. PlayedOf(m)'
    BY <1>1, <2>0, <2>1, <2>2, <2>3 DEF PlayedOf, Sent, x
  <2> QED BY <2>0, <2>4
<1>8. \A i \in 1 .. Len(rq') : Start(rq'[i]) > played'.at
  <2> SUFFICES ASSUME NEW i \in 1 .. Len(rq') PROVE Start(rq'[i]) > played'.at
    OBVIOUS
  <2>1. CASE rq'[i] = [p EXCEPT !.rest = p.rest - size]
    <3>1. rq'[i].n = p.n /\ rq'[i].rest = p.rest - size
      BY <1>1, <2>1 DEF Packets
    <3>2. Start(rq'[i]) = x + PacketLen - (p.rest - size)
      BY <3>1 DEF Start, x
    <3> HIDE DEF p
    <3> QED BY <1>2, <1>3, <3>2
  <2>2. ASSUME NEW j \in 1 .. Len(rq), j > k, rq'[i] = rq[j] PROVE Start(rq'[i]) > played'.at
    <3> DEFINE y == rq[j].n * PacketLen
    <3>1. rq[j] \in Packets /\ rq[j].n \in Int /\ rq[j].rest \in 1 .. PacketLen /\ p.n < rq[j].n
      <4>1. rq \in Seq(Packets) /\ p.n < rq[j].n
        BY <2>2 DEF PlayInv, QueueInv, QueueTypes, Sorted
      <4>2. rq[j] \in Packets
        BY <4>1
      <4>3. First \in Nat /\ Final \in Nat /\ PacketLen \in Nat
        BY ReceiveConstants
      <4>4. rq[j].n \in First .. Final /\ rq[j].rest \in 1 .. PacketLen
        BY <4>2 DEF Packets
      <4> HIDE DEF p
      <4> QED BY <4>1, <4>2, <4>3, <4>4
    <3>2. y \in Int /\ x + PacketLen <= y
      BY <1>1, <3>1, Positions DEF x
    <3>3. Start(rq'[i]) = y + PacketLen - rq[j].rest
      BY <2>2 DEF Start
    <3>4. rq[j].rest \in Int /\ rq[j].rest <= PacketLen
      BY <1>2, <3>1
    <3> HIDE DEF y, p
    <3>5. Start(rq'[i]) \in Int /\ Start(rq'[i]) >= y
      <4>1. PacketLen \in Nat
        BY <1>2
      <4> QED BY <3>2, <3>3, <3>4, <4>1
    <3>6. played'.at \in Int /\ played'.at < x + PacketLen
      BY <1>2, <1>3
    <3> QED BY <1>2, <3>2, <3>5, <3>6
  <2> QED BY <1>4, <2>1, <2>2
<1>9. played' \in [src : Sources \cup {0}, at : Int]
  BY <1>1, <1>2, <1>3
<1>10. AllAhead'
  BY <1>1, <1>3, <1>7, <1>8, <1>9 DEF AllAhead
<1>11. ASSUME played'.src = played.src PROVE played'.at > played.at
  <2>1. started
    BY <1>1, <1>3, <1>11 DEF PlayInv, AllAhead
  <2>2. Start(p) > played.at /\ played.at \in Int
    BY <2>1 DEF PlayInv, AllAhead
  <2>3. Start(p) = x + PacketLen - p.rest
    BY DEF Start, x
  <2> HIDE DEF x, p
  <2> QED BY <1>2, <1>3, <2>2, <2>3
<1> QED BY <1>6, <1>10, <1>11

\* What a step may do to played.
StepForward == played' # played /\ played'.src = played.src => played'.at > played.at

\* A packet that is read is no longer under way.
LEMMA ReadOnePlace ==
    ASSUME PlayInv, NEW p \in net, net' = net \ {p}, sender' = sender, Within(rq', rq, p)
    PROVE  OnePlace'
<1>1. \A s, n : Sent(s, n)' <=> Sent(s, n)
  BY DEF Sent
<1>2. Sent(p.src, p.n) /\ \A q \in net' : q \in net /\ ~(q.src = p.src /\ q.n = p.n)
  BY DEF PlayInv, OnePlace
<1>3. \A i \in 1 .. Len(rq') : Sent(rq'[i].src, rq'[i].n)
  BY <1>2 DEF PlayInv, OnePlace, Within
<1>4. \A q \in net' : \A i \in 1 .. Len(rq') : ~(q.src = rq'[i].src /\ q.n = rq'[i].n)
  BY <1>2 DEF PlayInv, OnePlace, Within
<1> QED BY <1>1, <1>2, <1>3, <1>4 DEF PlayInv, OnePlace

\* A packet read from the socket.
LEMMA ParsePlays ==
    ASSUME HalfRange, HalfClock, PlayInv, NEW p \in net, rtp_session_rtp_parse(p)
    PROVE  OnePlace' /\ AllAhead' /\ StepForward
<1>1. p \in Packets /\ net' = net \ {p} /\ ssrc' = p.src /\ sender' = sender /\ rq \in Seq(Packets) /\ Ordered(rq)
  BY DEF PlayInv, QueueInv, QueueTypes, Sorted, Ordered, rtp_session_rtp_parse
<1>2. CASE Foreign(p)
  <2>1. rq' = split_and_queue(<< >>, p) /\ started' = FALSE /\ played' = [src |-> 0, at |-> 0]
    BY <1>2 DEF rtp_session_rtp_parse, rtp_session_reset
  <2>2. \A i \in 1 .. Len(rq') : rq'[i] = p
    BY <1>1, <2>1, FirstSorted
  <2>3. Within(rq', rq, p)
    BY <2>2 DEF Within
  <2>4. OnePlace'
    BY <1>1, <2>3, ReadOnePlace
  <2>5. AllAhead'
    <3>1. played' \in [src : Sources \cup {0}, at : Int]
      BY <2>1
    <3> QED BY <2>1, <3>1 DEF AllAhead
  <2>6. StepForward
    <3>1. started => played.src # 0
      BY DEF PlayInv, AllAhead, PlayedOf
    <3>2. ~started => played' = played
      BY <2>1 DEF PlayInv, AllAhead
    <3>3. played'.src = 0
      BY <2>1
    <3>4. started \in BOOLEAN
      BY DEF PlayInv, AllAhead
    <3> QED BY <3>1, <3>2, <3>3, <3>4 DEF StepForward
  <2> QED BY <2>4, <2>5, <2>6
<1>3. CASE ~Foreign(p)
  <2>1. /\ started' = started /\ played' = played /\ lastTs' = lastTs
        /\ rq' = IF started /\ TooOld(p) THEN rq ELSE split_and_queue(rq, p)
    BY <1>3 DEF rtp_session_rtp_parse, PlayInv, AllAhead
  <2>2. Within(rq', rq, p) /\ (rq' = rq \/ ~(started /\ TooOld(p)))
    <3>1. Within(split_and_queue(rq, p), rq, p)
      BY <1>1, SplitInOrder
    <3>2. Within(rq, rq, p)
      BY DEF Within
    <3> QED BY <2>1, <3>1, <3>2
  <2>3. OnePlace'
    BY <1>1, <2>2, ReadOnePlace
  <2>4. AllAhead'
    <3>1. CASE ~started
      BY <2>1, <3>1 DEF PlayInv, AllAhead
    <3>2. CASE started
      <4>1. ssrc' = ssrc /\ ssrc # 0
        BY <1>1, <1>3, <3>2 DEF PlayInv, AllAhead, Foreign
      <4>2. PICK m \in First .. Final : PlayedOf(m)
        BY <3>2 DEF PlayInv, AllAhead
      <4>3. PlayedOf(m)'
        BY <1>1, <2>1, <4>1, <4>2 DEF PlayedOf, Sent
      <4>4. \A i \in 1 .. Len(rq) : Start(rq[i]) > played.at
        BY <3>2 DEF PlayInv, AllAhead
      <4>5. CASE rq' = rq
        BY <2>1, <3>2, <4>1, <4>3, <4>4, <4>5 DEF PlayInv, AllAhead
      <4>6. CASE ~TooOld(p)
        <5>1. lastTs = (m * PacketLen) % TsWrap /\ played.at < m * PacketLen + PacketLen /\ p.n # m
          BY <1>1, <4>1, <4>2 DEF PlayedOf
        <5>2. First \in Nat /\ Final \in Nat /\ m \in Int /\ p.n \in Int /\ p.rest \in 1 .. PacketLen
          BY <1>1, ReceiveConstants DEF Packets
        <5>3. m < p.n
          BY <1>1, <4>6, <5>1, <5>2, ClockTells
        <5>4. /\ m * PacketLen \in Int /\ p.n * PacketLen \in Int /\ PacketLen \in Nat
              /\ m * PacketLen + PacketLen <= p.n * PacketLen
          BY <5>2, <5>3, Positions
        <5>5. Start(p) > played.at
          <6> DEFINE x == m * PacketLen
                     y == p.n * PacketLen
          <6>1. Start(p) = y + PacketLen - p.rest
            BY DEF Start
          <6>2. played.at \in Int /\ played.at < x + PacketLen
            BY <5>1 DEF PlayInv, AllAhead
          <6>3. x \in Int /\ y \in Int /\ x + PacketLen <= y
            BY <5>4
          <6> HIDE DEF x, y
          <6> QED BY <5>2, <5>4, <6>1, <6>2, <6>3
        <5>6. \A i \in 1 .. Len(rq') : Start(rq'[i]) > played.at
          BY <2>2, <4>4, <5>5 DEF Within
        <5> QED BY <2>1, <3>2, <4>1, <4>3, <5>6 DEF PlayInv, AllAhead
      <4> QED BY <2>2, <3>2, <4>5, <4>6
    <3> QED BY <3>1, <3>2 DEF PlayInv, AllAhead
  <2> QED BY <2>1, <2>3, <2>4 DEF StepForward
<1> QED BY <1>2, <1>3

\* The network and the source leave what is played alone.
LEMMA NetPlays ==
    ASSUME PlayInv, Send \/ (\E s \in Sources : ChangeSource(s)) \/ \E p \in net : Lose(p)
    PROVE  OnePlace' /\ AllAhead' /\ StepForward
<1>1. /\ rq' = rq /\ ssrc' = ssrc /\ started' = started /\ lastTs' = lastTs /\ played' = played
  BY DEF Send, ChangeSource, Lose
<1>2. sender \in [src : Sources, n : Int] /\ Sources \subseteq Nat /\ net \subseteq Packets /\ rq \in Seq(Packets)
  BY ReceiveConstants DEF PlayInv, QueueInv, QueueTypes
<1> DEFINE Later(s, n) == s < sender'.src \/ (s = sender'.src /\ n < sender'.n)
<1>3. \A s \in Sources : \A n \in Int : Sent(s, n) => Later(s, n)
  <2>1. CASE Send
    <3>1. sender'.src = sender.src /\ sender'.n = sender.n + 1
      BY <1>2, <2>1 DEF Send
    <3> QED BY <1>2, <3>1 DEF Sent
  <2>2. CASE \E s \in Sources : ChangeSource(s)
    <3>1. PICK t \in Sources : t > sender.src /\ sender'.src = t
      BY <2>2 DEF ChangeSource
    <3>2. sender.src \in Sources /\ t \in Nat /\ sender.src \in Nat
      BY <1>2
    <3>3. \A s \in Sources : s \in Nat
      BY <1>2
    <3> QED BY <3>1, <3>2, <3>3 DEF Sent
  <2>3. CASE \E p \in net : Lose(p)
    BY <2>3 DEF Lose, Sent
  <2> QED BY <2>1, <2>2, <2>3
<1>4. \A p \in Packets : p.src \in Sources /\ p.n \in Int
  BY ReceiveConstants DEF Packets
<1>5. /\ \A p \in net' : Later(p.src, p.n) /\ (p \in net \/ ~Sent(p.src, p.n))
      /\ \A p, q \in net' : p.src = q.src /\ p.n = q.n => p = q
  <2>1. CASE Send
    <3>1. PICK new : new = [src |-> sender.src, n |-> sender.n, rest |-> PacketLen]
      OBVIOUS
    <3>2. net' = net \cup {new} /\ sender'.src = sender.src /\ sender'.n = sender.n + 1
      BY <1>2, <2>1, <3>1 DEF Send
    <3>3. new.src = sender.src /\ new.n = sender.n
      BY <3>1
    <3>4. ~Sent(new.src, new.n) /\ Later(new.src, new.n)
      <4>1. sender.src \in Nat /\ sender.n \in Int
        BY <1>2
      <4>2. ~(sender.src < sender.src) /\ ~(sender.n < sender.n) /\ sender.n < sender.n + 1
        BY <4>1
      <4> QED BY <3>2, <3>3, <4>2 DEF Sent
    <3>5. \A p \in net : Sent(p.src, p.n) /\ Later(p.src, p.n)
      <4>1. \A p \in net : Sent(p.src, p.n) /\ p.src \in Sources /\ p.n \in Int
        BY <1>2, <1>4 DEF PlayInv, OnePlace
      <4> HIDE DEF Later
      <4> QED BY <1>3, <4>1
    <3>6. \A p \in net : ~(p.src = new.src /\ p.n = new.n)
      BY <3>4, <3>5
    <3>7. \A p, q \in net : p.src = q.src /\ p.n = q.n => p = q
      BY DEF PlayInv, OnePlace
    <3> HIDE DEF Later
    <3> QED BY <3>2, <3>4, <3>5, <3>6, <3>7
  <2>2. CASE net' \subseteq net
    <3> HIDE DEF Later
    <3> QED BY <1>2, <1>3, <1>4, <2>2 DEF PlayInv, OnePlace
  <2> QED BY <2>1, <2>2 DEF ChangeSource, Lose
<1>6. \A i \in 1 .. Len(rq) : Sent(rq[i].src, rq[i].n) /\ Later(rq[i].src, rq[i].n)
  <2>1. \A i \in 1 .. Len(rq) : rq[i] \in Packets
    BY <1>2
  <2> HIDE DEF Later
  <2> QED BY <1>3, <1>4, <2>1 DEF PlayInv, OnePlace
<1>7. OnePlace'
  <2>1. \A p \in net' : \A i \in 1 .. Len(rq') : ~(p.src = rq'[i].src /\ p.n = rq'[i].n)
    BY <1>1, <1>5, <1>6 DEF PlayInv, OnePlace
  <2>2. \A i \in 1 .. Len(rq') : Later(rq'[i].src, rq'[i].n)
    BY <1>1, <1>6
  <2> QED BY <1>5, <2>1, <2>2 DEF OnePlace, Sent
<1>8. AllAhead'
  <2>1. ASSUME NEW m \in First .. Final, PlayedOf(m), ssrc # 0 PROVE PlayedOf(m)'
    <3>1. Sent(ssrc, m) /\ \A p \in net : ~(p.src = ssrc /\ p.n = m)
      BY <2>1 DEF PlayedOf
    <3>2. Sent(ssrc, m)'
      <4>1. ssrc \in Sources /\ m \in Int
        BY <2>1, ReceiveConstants DEF PlayInv, QueueInv, QueueTypes
      <4> QED BY <1>1, <1>3, <3>1, <4>1 DEF Sent
    <3>3. \A p \in net' : ~(p.src = ssrc /\ p.n = m)
      BY <1>5, <3>1
    <3> QED BY <1>1, <2>1, <3>2, <3>3 DEF PlayedOf
  <2> QED BY <1>1, <2>1 DEF PlayInv, AllAhead, Start
<1> QED BY <1>1, <1>7, <1>8 DEF StepForward

\* A request for samples.
LEMMA AskPlays ==
    ASSUME HalfRange, PlayInv, NEW ask \in Int, NEW space \in Nat, space > 0, Ask(ask, space),
           sync => rq # << >>, net' = net, sender' = sender
    PROVE  OnePlace' /\ AllAhead' /\ StepForward
<1>1. QueueInv
  BY DEF PlayInv
<1>2. ssrc' = ssrc /\ (\/ UNCHANGED <<rq, lastTs, started, played>>
                      \/ \E k \in 1 .. Len(rq), size \in 1 .. PacketLen : Took(k, size))
  BY <1>1, AskTakes
<1>3. CASE UNCHANGED <<rq, lastTs, started, played>>
  BY <1>2, <1>3 DEF PlayInv, OnePlace, AllAhead, PlayedOf, Sent, Start, StepForward
<1>4. CASE \E k \in 1 .. Len(rq), size \in 1 .. PacketLen : Took(k, size)
  <2>1. PICK k \in 1 .. Len(rq), size \in 1 .. PacketLen : Took(k, size)
    BY <1>4
  <2> QED BY <1>2, <2>1, TookKeeps DEF StepForward
<1> QED BY <1>2, <1>3, <1>4

\* Every step.
LEMMA PlayStepKeeps ==
    ASSUME HalfRange, HalfClock, PlayInv, [Next]_vars
    PROVE  PlayInv' /\ StepForward
<1>1. QueueInv'
  BY QueueStepKeeps DEF PlayInv
<1>2. TsWrap \in Nat /\ TsWrap > 0 /\ BufLen \in Nat /\ BufLen > 0 /\ user \in Nat /\ retTs \in Int /\ room \in Nat
  BY ReceiveConstants DEF PlayInv, QueueInv, QueueTypes
<1>3. CASE Send \/ (\E s \in Sources : ChangeSource(s)) \/ \E p \in net : Lose(p)
  BY <1>1, <1>3, NetPlays DEF PlayInv
<1>4. CASE \E p \in net : rtp_session_rtp_parse(p)
  BY <1>1, <1>4, ParsePlays DEF PlayInv
<1>5. CASE UNCHANGED <<rq, ssrc, started, lastTs, played, sender, net>>
  BY <1>1, <1>5 DEF PlayInv, OnePlace, AllAhead, PlayedOf, Sent, Start, StepForward
<1>6. CASE rtp_session_recv_with_ts
  <2>1. CASE sync /\ rq = << >>
    BY <1>5, <1>6, <2>1 DEF rtp_session_recv_with_ts
  <2>2. CASE ~(sync /\ rq = << >>)
    <3>1. Ask(user % TsWrap, BufLen) /\ net' = net /\ sender' = sender
      BY <1>6, <2>2 DEF rtp_session_recv_with_ts
    <3>2. user % TsWrap \in Int
      BY <1>2
    <3> QED BY <1>1, <1>2, <2>2, <3>1, <3>2, AskPlays DEF PlayInv
  <2> QED BY <2>1, <2>2
<1>7. CASE NeedMore
  <2>1. CASE sync /\ rq = << >>
    BY <1>5, <1>7, <2>1 DEF NeedMore
  <2>2. CASE ~(sync /\ rq = << >>)
    <3>1. Ask(retTs, room) /\ room > 0 /\ net' = net /\ sender' = sender
      BY <1>7, <2>2 DEF NeedMore
    <3> QED BY <1>1, <1>2, <2>2, <3>1, AskPlays DEF PlayInv
  <2> QED BY <2>1, <2>2
<1>8. CASE UNCHANGED vars
  BY <1>5, <1>8 DEF vars
<1> QED BY <1>3, <1>4, <1>6, <1>7, <1>8 DEF Next

\* What rtpAudioRecv hands to the sound driver of a source only moves forward until
\* the session is reset, however the jitter control shifts the clock and wherever
\* numbers and timestamps wrap, in every stretch shorter than half their ranges.
THEOREM PlaysForward == HalfRange /\ HalfClock => (Spec => Forward)
<1> SUFFICES ASSUME HalfRange, HalfClock PROVE Spec => Forward
  OBVIOUS
<1>1. Init => PlayInv
  <2> SUFFICES ASSUME Init PROVE PlayInv
    OBVIOUS
  <2>1. QueueInv
    BY QueueInit
  <2>2. net = {} /\ Len(rq) = 0 /\ started = FALSE /\ played = [src |-> 0, at |-> 0]
    BY DEF Init
  <2>3. played \in [src : Sources \cup {0}, at : Int]
    BY <2>2
  <2>4. OnePlace
    <3>1. \A i \in 1 .. Len(rq) : FALSE
      BY <2>2
    <3> QED BY <2>2, <3>1 DEF OnePlace
  <2>5. AllAhead
    BY <2>2, <2>3 DEF AllAhead
  <2> QED BY <2>1, <2>4, <2>5 DEF PlayInv
<1>2. PlayInv /\ [Next]_vars => PlayInv'
  BY PlayStepKeeps
<1>3. PlayInv /\ [Next]_vars => [played' # played /\ played'.src = played.src => played'.at > played.at]_vars
  BY PlayStepKeeps DEF StepForward
<1> QED BY <1>1, <1>2, <1>3, PTL DEF Spec, Forward
=============================================================================
