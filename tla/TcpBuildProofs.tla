--------------------------- MODULE TcpBuildProofs ---------------------------
(***************************************************************************)
(* Proofs about TcpBuild, for any segments a plausible sender may have     *)
(* captured of it and any size of the code's bounds.                       *)
(***************************************************************************)
EXTENDS TcpBuild, ReassemblyLemmas, SequenceTheorems

(* A direction has a frontier from its first segment on, and the numbers   *)
(* start one wrap in, so that nothing a sender may say lies below zero.    *)
FrontierOK ==
  /\ started <=> fed # <<>>
  /\ open => started
  /\ started => SeqSpace - Reach <= origin /\ origin <= next
  /\ started /\ ~open => next = FirstReference(fed[1].t % SeqSpace) /\ origin = next
  /\ ~open => data = <<>> /\ gaps = <<>>
  /\ Len(data) <= MaxStream
  /\ pc \in {"drain", "relieve"} => open
  /\ pc = "finish" => open \/ held = {}

HeldApart(H) == \A g, h \in H : g # h => Span(g.at, g.len) \cap Span(h.at, h.len) = {}

(* What is held is held once, counted, and where it truly belongs.         *)
HeldOK ==
  /\ \A h \in held : h.len > 0 /\ SeqSpace - Reach <= h.at /\ h.at = h.t + Shift
  /\ \A h \in held : h.pkt \in 1 .. Len(fed)
  /\ HeldApart(held)
  /\ IsFiniteSet(HeldPositions) /\ heldBytes = Cardinality(HeldPositions)
  /\ pc \in {"idle", "relieve"} /\ data # <<>> => \A h \in held : h.at > next

(* What is delivered lies behind the frontier, in order, once, where it    *)
(* truly belongs.                                                          *)
DataOK ==
  /\ \A i \in 1 .. Len(data) : data[i].at < next /\ data[i].at = data[i].t + Shift
  /\ \A i, j \in 1 .. Len(data) : i < j => data[i].at < data[j].at
  /\ IsFiniteSet(Delivered) /\ Cardinality(Delivered) = Len(data)

(* Gaps lie behind the frontier too, and beside what is delivered.         *)
GapsOK ==
  /\ \A i \in 1 .. Len(gaps) : gaps[i].from + gaps[i].len <= next
  /\ Delivered \cap GapPositions = {}
  /\ \A i \in 1 .. Len(gaps) :
       gaps[i].at = Cardinality({q \in Delivered : q < gaps[i].from})

SegsOK ==
  /\ \A i \in 1 .. Len(segs) :
       segs[i].at = IF i = 1 THEN 0 ELSE segs[i - 1].at + segs[i - 1].len
  /\ \A i \in 1 .. Len(segs) : segs[i].at + segs[i].len <= Len(data)
  /\ Len(data) = IF segs = <<>> THEN 0 ELSE segs[Len(segs)].at + segs[Len(segs)].len
  /\ \A i \in 1 .. Len(segs) : \A o \in Span(segs[i].at, segs[i].len) :
       data[o + 1].pkt = segs[i].pkt

(* Everything from the origin to the frontier is accounted for.            *)
Between(lo, hi) == lo .. (hi - 1)
Settled(q) == q \in Delivered \cup GapPositions \cup lost
Behind ==
  open => \A q \in Between(origin, next) : Settled(q) \/ (q = origin /\ "SYN" \in flags)

Counted == IsFiniteSet(FedOctets) /\ Len(data) + heldBytes + dropped <= Cardinality(FedOctets)

Base == TypeOK /\ FrontierOK
Data == DataOK /\ GapsOK /\ SegsOK
Laid == Base /\ HeldOK /\ Data
Accounted == Behind /\ Counted /\ NothingVanishes /\ FirstHolderWins

(* The inductive invariant.                                                *)
IInv == Laid /\ Accounted
-----------------------------------------------------------------------------
(* Arithmetic modulo the sequence space.                                   *)

LEMMA DivMod ==
  ASSUME NEW S \in Nat \ {0}, NEW a \in Int
  PROVE  /\ a % S \in 0 .. (S - 1)
         /\ \E k \in Int : a = S * k + (a % S)
<1>1. a % S \in 0 .. (S - 1)
  OBVIOUS
<1>2. a = S * (a \div S) + (a % S) /\ a \div S \in Int
  OBVIOUS
<1> QED
  BY <1>1, <1>2

LEMMA TimesBounds ==
  ASSUME NEW S \in Nat \ {0}, NEW k \in Int
  PROVE  /\ k >= 1 => S * k >= S
         /\ k <= -1 => S * k <= -S
         /\ k = 0 => S * k = 0
OBVIOUS

(* A number within Reach of the frontier is read back from its remainder.  *)
LEMMA AbsoluteTrue ==
  ASSUME NEW ref \in Int, NEW t \in Int, NEW k \in Int,
         Distance(t + SeqSpace * k, ref) <= Reach
  PROVE  absolute(ref, t % SeqSpace) = t + SeqSpace * k
<1> DEFINE S == SeqSpace
           e == t + S * k - ref
           d == ((t % S) - ref) % S
<1>0. S \in Nat \ {0} /\ Reach \in Nat /\ Reach < S \div 2
  BY SizesAssumption
<1>1. t % S \in Int
  BY <1>0
<1>2. PICK q \in Int : t = S * q + (t % S)
  BY <1>0, DivMod
<1>3. d \in 0 .. (S - 1) /\ \E m \in Int : (t % S) - ref = S * m + d
  <2> DEFINE w == (t % S) - ref
  <2>1. w \in Int
    BY <1>1
  <2> HIDE DEF w
  <2>2. w % S \in 0 .. (S - 1) /\ \E m \in Int : w = S * m + (w % S)
    BY <1>0, <2>1, DivMod
  <2> QED
    BY <2>2 DEF w
<1>4. PICK m \in Int : (t % S) - ref = S * m + d
  BY <1>3
<1> DEFINE n == q + k + m
<1>5. d = e - S * n
  <2> DEFINE x == S * q
             y == S * k
             z == S * m
             r == t % S
  <2>1. S * n = x + y + z /\ x \in Int /\ y \in Int /\ z \in Int
    BY <1>0
  <2>2. t = x + r /\ r - ref = z + d /\ e = t + y - ref /\ r \in Int /\ d \in Int
    BY <1>1, <1>2, <1>3, <1>4
  <2> HIDE DEF n, d, e, x, y, z, r
  <2> QED
    BY <2>1, <2>2
<1>6. -Reach <= e /\ e <= Reach
  <2>1. S * k \in Int
    BY <1>0
  <2> QED
    BY <2>1, <1>0 DEF Distance
<1>7. (n >= 1 => S * n >= S) /\ (n <= -1 => S * n <= -S) /\ (n = 0 => S * n = 0)
  BY <1>0, TimesBounds
<1>8. IF e >= 0 THEN d = e ELSE d = e + S
  <2>1. n \in Int /\ S * n \in Int /\ e \in Int
    BY <1>0
  <2>2. n >= 2 => S * n >= 2 * S
    BY <1>0
  <2>3. n = -1 => S * n = -S
    BY <1>0
  <2> HIDE DEF n, d, e
  <2>4. n = 0 \/ n = -1 \/ n >= 1 \/ n <= -2
    BY <2>1
  <2>5. S * n <= e /\ e < S * n + S
    BY <1>0, <1>3, <1>5, <2>1
  <2>6. ~(n >= 1)
    BY <1>0, <1>6, <1>7, <2>1, <2>5
  <2>7. n <= -2 => S * n <= -2 * S
    BY <1>0 DEF n
  <2>8. ~(n <= -2)
    BY <1>0, <1>6, <2>7, <2>1, <2>5
  <2> QED
    BY <1>0, <1>3, <1>5, <1>6, <1>7, <2>1, <2>3, <2>4, <2>6, <2>8
<1>9. Signed(d) = e
  <2>1. e \in Int
    BY <1>0
  <2> HIDE DEF d, e
  <2> QED
    BY <2>1, <1>0, <1>3, <1>6, <1>8 DEF Signed
<1> QED
  BY <1>9, <1>0 DEF absolute

(* True and absolute positions differ by a multiple of the space.          *)
LEMMA ShiftMultiple ==
  ASSUME NEW f \in Seq(Segments), f # <<>>
  PROVE  /\ f[1].t \in Nat
         /\ f[1].t % SeqSpace \in 0 .. (SeqSpace - 1)
         /\ \E k \in Int : FirstReference(f[1].t % SeqSpace) - f[1].t = SeqSpace * k
<1>0. SeqSpace \in Nat \ {0}
  BY SizesAssumption
<1>1. f[1] \in Segments
  BY EmptySeq, ElementOfSeq
<1>2. f[1].t \in Nat
  BY <1>1, SizesAssumption
<1> DEFINE w == f[1].t
<1>3. w \in Int
  BY <1>2
<1> HIDE DEF w
<1>4. w % SeqSpace \in 0 .. (SeqSpace - 1)
  BY <1>0, <1>3, DivMod
<1>5. PICK q \in Int : w = SeqSpace * q + (w % SeqSpace)
  BY <1>0, <1>3, DivMod
<1>6. SeqSpace * (1 - q) = SeqSpace - SeqSpace * q /\ SeqSpace * q \in Int
  BY <1>0
<1>7. FirstReference(w % SeqSpace) - w = SeqSpace * (1 - q)
  BY <1>0, <1>3, <1>4, <1>5, <1>6 DEF FirstReference
<1> QED
  BY <1>2, <1>4, <1>7 DEF w
-----------------------------------------------------------------------------
(* A segment arrives: what is known of it before feed looks at its payload. *)

SegmentOK(s) == s \in Segments /\ s.t \in Nat /\ s.len \in Nat
                /\ s.flags \subseteq {"SYN", "FIN", "RST"}

LEMMA SegmentFacts ==
  ASSUME NEW s \in Segments
  PROVE  SegmentOK(s)
BY SizesAssumption DEF SegmentOK

LEMMA FedGrows ==
  ASSUME TypeOK, NEW s \in Segments, Arrives(s)
  PROVE  /\ fed' \in Seq(Segments) /\ fed' # <<>>
         /\ Len(fed) \in Nat /\ Len(fed') = Len(fed) + 1
         /\ fed'[Len(fed) + 1] = s
         /\ \A p \in 1 .. Len(fed) : fed'[p] = fed[p]
         /\ Shift' \in Int /\ \E k \in Int : Shift' = SeqSpace * k
         /\ fed # <<>> => Shift' = Shift
<1>1. fed \in Seq(Segments) /\ fed' = Append(fed, s)
  BY DEF TypeOK, Arrives
<1>2. /\ fed' \in Seq(Segments) /\ fed' # <<>> /\ Len(fed) \in Nat
      /\ Len(fed') = Len(fed) + 1 /\ fed'[Len(fed) + 1] = s
      /\ \A p \in 1 .. Len(fed) : fed'[p] = fed[p]
  BY <1>1, AppendProperties, LenProperties
<1>3. fed # <<>> => fed'[1] = fed[1]
  <2>1. fed # <<>> => Len(fed) # 0
    BY <1>1, EmptySeq
  <2> QED
    BY <2>1, <1>2
<1>4. PICK k \in Int : Shift' = SeqSpace * k
  BY <1>2, ShiftMultiple DEF Shift
<1>5. SeqSpace \in Int
  BY SizesAssumption
<1>6. Shift' \in Int
  BY <1>4, <1>5
<1> QED
  BY <1>2, <1>3, <1>4, <1>6 DEF Shift

(* The number on the wire is read as the position the sender meant.        *)
LEMMA ReadTrue ==
  ASSUME Base, NEW s \in Segments, Arrives(s),
         NEW ref, ref = IF started THEN next ELSE FirstReference(s.t % SeqSpace)
  PROVE  /\ ref \in Nat
         /\ ~open => ref >= SeqSpace /\ ref = FirstReference(fed'[1].t % SeqSpace)
         /\ absolute(ref, s.t % SeqSpace) = s.t + Shift'
         /\ Distance(s.t + Shift', ref) <= Reach
<1>0. SeqSpace \in Nat \ {0} /\ Reach \in Nat
  BY SizesAssumption
<1>1. s.t \in Nat
  BY SegmentFacts DEF SegmentOK
<1>2. TypeOK /\ next \in Nat /\ started \in BOOLEAN
  BY DEF Base, TypeOK
<1>3. /\ fed' # <<>> /\ fed' \in Seq(Segments) /\ Len(fed) \in Nat /\ fed'[Len(fed) + 1] = s
      /\ \A p \in 1 .. Len(fed) : fed'[p] = fed[p]
  BY <1>2, FedGrows
<1>4. PICK k \in Int : Shift' = SeqSpace * k
  BY <1>2, FedGrows
<1>5. Shift' \in Int /\ (fed # <<>> => Shift' = Shift)
  BY <1>2, FedGrows
<1>6. fed'[1].t \in Nat /\ fed'[1].t % SeqSpace \in 0 .. (SeqSpace - 1)
  BY <1>3, ShiftMultiple
<1>7. fed = <<>> => fed'[1] = s
  BY <1>3
<1>8. /\ ref \in Nat
      /\ ~open => ref >= SeqSpace /\ ref = FirstReference(fed'[1].t % SeqSpace)
  <2>1. CASE started
    <3>1. fed # <<>> /\ fed \in Seq(Segments)
      BY <2>1 DEF Base, FrontierOK, TypeOK
    <3>2. fed'[1] = fed[1]
      BY <1>3, <3>1, EmptySeq
    <3>3. ~open => next = FirstReference(fed[1].t % SeqSpace)
      BY <2>1 DEF Base, FrontierOK
    <3> QED
      BY <2>1, <1>0, <1>2, <1>6, <3>2, <3>3 DEF FirstReference
  <2>2. CASE ~started
    <3>1. fed'[1] = s
      BY <2>2, <1>7 DEF Base, FrontierOK
    <3> QED
      BY <2>2, <1>0, <1>6, <3>1 DEF FirstReference
  <2> QED
    BY <2>1, <2>2
<1>9. Distance(s.t + Shift', ref) <= Reach
  <2>1. CASE started
    <3>1. Plausible(s) /\ fed # <<>>
      BY <2>1 DEF Arrives, Base, FrontierOK
    <3> QED
      BY <2>1, <3>1, <1>5 DEF Plausible
  <2>2. CASE ~started
    <3>1. fed'[1] = s
      BY <2>2, <1>7 DEF Base, FrontierOK
    <3> DEFINE w == s.t % SeqSpace
    <3>2. w \in Int /\ s.t + Shift' = w + SeqSpace /\ ref = w + SeqSpace
      BY <2>2, <3>1, <1>0, <1>1, <1>6 DEF Shift, FirstReference
    <3> HIDE DEF w
    <3> QED
      BY <3>2, <1>0 DEF Distance
  <2> QED
    BY <2>1, <2>2
<1>10. absolute(ref, s.t % SeqSpace) = s.t + Shift'
  <2>1. Distance(s.t + SeqSpace * k, ref) <= Reach
    BY <1>4, <1>9
  <2> QED
    BY <2>1, <1>1, <1>4, <1>8, AbsoluteTrue
<1> QED
  BY <1>8, <1>9, <1>10

(* Where an arrival lands, and the frontier it is compared with.           *)
Landed(a, s) ==
  /\ a.at \in Nat /\ a.t \in Nat /\ a.next \in Nat /\ a.origin \in Nat /\ a.len \in Nat
  /\ a.len = s.len /\ a.pkt = Len(fed) + 1
  /\ a.t = IF "SYN" \in s.flags THEN s.t + 1 ELSE s.t
  /\ a.at = a.t + Shift'
  /\ a.open <=> open \/ "SYN" \in s.flags
  /\ a.open \in BOOLEAN
  /\ SeqSpace - Reach <= a.origin /\ a.origin <= a.next
  /\ open => a.next = next /\ a.origin = origin
  /\ ~open => SeqSpace - Reach <= a.at
  /\ ~open /\ a.open => a.next = a.at /\ a.origin = a.at - 1
  /\ ~a.open => a.next = a.origin /\ a.next = FirstReference(fed'[1].t % SeqSpace)

LEMMA ArrivalFacts ==
  ASSUME Base, NEW s \in Segments, Arrives(s)
  PROVE  Landed(Arrival(s), s)
<1>0. /\ SeqSpace \in Nat \ {0} /\ Reach \in Nat /\ Reach < SeqSpace \div 2
      /\ 2 * Reach < SeqSpace
  BY SizesAssumption
<1>1. s.t \in Nat /\ s.len \in Nat
  BY SegmentFacts DEF SegmentOK
<1>2. /\ TypeOK /\ next \in Nat /\ origin \in Nat /\ started \in BOOLEAN /\ open \in BOOLEAN
      /\ open => started
      /\ started => SeqSpace - Reach <= origin /\ origin <= next
      /\ started /\ ~open => origin = next
  BY DEF Base, TypeOK, FrontierOK
<1>3. Shift' \in Int /\ Len(fed) \in Nat
  BY <1>2, FedGrows
<1> DEFINE a == Arrival(s)
           seq == s.t % SeqSpace
           ref == IF started THEN next ELSE FirstReference(seq)
           start == IF started THEN origin ELSE ref
           at == absolute(ref, seq)
<1>4. /\ ref \in Nat
      /\ ~open => ref >= SeqSpace /\ ref = FirstReference(fed'[1].t % SeqSpace)
      /\ at = s.t + Shift' /\ Distance(s.t + Shift', ref) <= Reach
  BY ReadTrue
<1>5. /\ a.at = IF "SYN" \in s.flags THEN at + 1 ELSE at
      /\ a.t = IF "SYN" \in s.flags THEN s.t + 1 ELSE s.t
      /\ a.len = s.len /\ a.pkt = Len(fed) + 1
      /\ a.next = IF "SYN" \in s.flags /\ ~open THEN at + 1 ELSE ref
      /\ a.origin = IF "SYN" \in s.flags /\ ~open THEN at ELSE start
      /\ a.open = (open \/ "SYN" \in s.flags)
  BY DEF Arrival, Opens
<1>6. ref = IF started THEN next ELSE ref
  OBVIOUS
<1>7. start = IF started THEN origin ELSE ref
  OBVIOUS
<1> HIDE DEF a, seq, ref, start, at
<1>8. at \in Int /\ ref - Reach <= at
  BY <1>0, <1>1, <1>3, <1>4 DEF Distance
<1>9. SeqSpace - Reach <= ref /\ start \in Nat /\ SeqSpace - Reach <= start /\ start <= ref
  BY <1>0, <1>2, <1>4, <1>6, <1>7
<1>10. at \in Nat /\ (~open => SeqSpace - Reach <= at)
  BY <1>0, <1>2, <1>4, <1>8, <1>9
<1>11. ~open => start = ref
  BY <1>2, <1>6, <1>7
<1>12. a.at \in Nat /\ a.t \in Nat /\ a.next \in Nat /\ a.origin \in Nat /\ a.len \in Nat
  BY <1>1, <1>4, <1>5, <1>9, <1>10
<1>13. a.at = a.t + Shift' /\ SeqSpace - Reach <= a.origin /\ a.origin <= a.next
  <2>1. a.at = a.t + Shift'
    <3>1. at + 1 = (s.t + 1) + Shift' /\ at = s.t + Shift'
      BY <1>1, <1>3, <1>4
    <3> QED
      BY <3>1, <1>5
  <2>2. SeqSpace - Reach <= at \/ open
    BY <1>10
  <2>3. at <= at + 1
    BY <1>10
  <2> QED
    BY <2>1, <2>2, <2>3, <1>5, <1>9
<1>14. open => a.next = next /\ a.origin = origin
  BY <1>2, <1>5, <1>6, <1>7
<1>15. /\ ~open => SeqSpace - Reach <= a.at
       /\ ~open /\ "SYN" \in s.flags => a.next = a.at /\ a.origin = a.at - 1
  <2>1. ~open /\ "SYN" \in s.flags => a.at = at + 1 /\ a.next = at + 1 /\ a.origin = at
    BY <1>5
  <2>2. ~open => a.at = at \/ a.at = at + 1
    BY <1>5
  <2> QED
    BY <2>1, <2>2, <1>0, <1>10
<1>16. ~a.open => a.next = a.origin /\ a.next = FirstReference(fed'[1].t % SeqSpace)
  BY <1>4, <1>5, <1>11
<1>17. (a.open <=> open \/ "SYN" \in s.flags) /\ a.open \in BOOLEAN
  BY <1>5, Zenon
<1> QED
  BY <1>5, <1>12, <1>13, <1>14, <1>15, <1>16, <1>17 DEF Landed, a
-----------------------------------------------------------------------------
(* What is held: its first entry, and what hold and drain do to it.        *)

LEMMA FirstFacts ==
  ASSUME NEW H, H \subseteq Held, H # {}
  PROVE  First(H) \in H /\ \A g \in H : First(H).at <= g.at
<1> DEFINE A == {h.at : h \in H}
<1>1. A \subseteq Nat /\ A # {}
  BY DEF Held
<1>2. PICK x \in A : \A y \in A : x <= y
  BY <1>1, LeastNatural
<1>3. \E h \in H : \A g \in H : h.at <= g.at
  BY <1>2
<1> QED
  BY <1>3 DEF First

LEMMA SpanFacts ==
  ASSUME NEW at \in Nat, NEW len \in Nat
  PROVE  /\ Span(at, len) \subseteq Nat
         /\ \A q \in Int : q \in Span(at, len) <=> at <= q /\ q < at + len
         /\ IsFiniteSet(Span(at, len)) /\ Cardinality(Span(at, len)) = len
<1>1. /\ IsFiniteSet(at .. (at + len - 1))
      /\ Cardinality(at .. (at + len - 1)) =
           IF at > at + len - 1 THEN 0 ELSE (at + len - 1) - at + 1
  BY FS_Interval
<1> QED
  BY <1>1 DEF Span

LEMMA UnheldFacts ==
  ASSUME NEW a, a.at \in Nat, a.len \in Nat
  PROVE  /\ Unheld(a) \subseteq Nat
         /\ \A q \in Unheld(a) : a.at <= q /\ q < a.at + a.len /\ q \notin HeldPositions
         /\ \A q \in Span(a.at, a.len) : q \in Unheld(a) \cup HeldPositions
         /\ IsFiniteSet(Unheld(a)) /\ Cardinality(Unheld(a)) \in Nat
         /\ Cardinality(Unheld(a)) <= a.len
<1>1. /\ Span(a.at, a.len) \subseteq Nat
      /\ \A q \in Int : q \in Span(a.at, a.len) <=> a.at <= q /\ q < a.at + a.len
      /\ IsFiniteSet(Span(a.at, a.len)) /\ Cardinality(Span(a.at, a.len)) = a.len
  BY SpanFacts
<1>2. Unheld(a) \subseteq Span(a.at, a.len)
  BY DEF Unheld
<1>3. IsFiniteSet(Unheld(a)) /\ Cardinality(Unheld(a)) <= a.len
  BY <1>1, <1>2, FS_Subset
<1>4. Cardinality(Unheld(a)) \in Nat
  BY <1>3, FS_CardinalityType
<1>5. \A q \in Unheld(a) : q \notin HeldPositions
  BY DEF Unheld
<1>6. \A q \in Span(a.at, a.len) : q \in Unheld(a) \cup HeldPositions
  BY DEF Unheld
<1>7. \A q \in Unheld(a) : q \in Nat /\ a.at <= q /\ q < a.at + a.len
  BY <1>1, <1>2
<1> QED
  BY <1>3, <1>4, <1>5, <1>6, <1>7

LEMMA RunFacts ==
  ASSUME NEW a, a.at \in Nat, a.len \in Nat, NEW r \in Runs(a)
  PROVE  /\ r.at \in Nat /\ r.len \in Nat /\ r.len > 0 /\ r.pkt = a.pkt /\ r.t = a.t
         /\ r = [at |-> r.at, len |-> r.len, pkt |-> a.pkt, t |-> a.t]
         /\ a.at <= r.at /\ Span(r.at, r.len) \subseteq Unheld(a)
         /\ r.at - 1 \notin Unheld(a) /\ r.at + r.len \notin Unheld(a)
<1>1. /\ r \in [at : Unheld(a), len : 1 .. a.len, pkt : {a.pkt}, t : {a.t}]
      /\ Span(r.at, r.len) \subseteq Unheld(a)
      /\ r.at - 1 \notin Unheld(a) /\ r.at + r.len \notin Unheld(a)
  BY DEF Runs
<1>2. r.at \in Unheld(a) /\ r.len \in 1 .. a.len /\ r.pkt = a.pkt /\ r.t = a.t
      /\ r = [at |-> r.at, len |-> r.len, pkt |-> a.pkt, t |-> a.t]
  BY <1>1
<1>3. r.at \in Nat /\ a.at <= r.at
  BY <1>2, UnheldFacts
<1> QED
  BY <1>1, <1>2, <1>3

(* The runs of an arrival cover all of it that is not held.                *)
LEMMA RunsCover ==
  ASSUME NEW a, a.at \in Nat, a.len \in Nat, NEW q \in Unheld(a)
  PROVE  \E r \in Runs(a) : q \in Span(r.at, r.len)
<1> DEFINE U == Unheld(a)
           L == {x \in U : x <= q /\ (x .. q) \subseteq U}
           R == {y \in Nat : y > q /\ y \notin U}
<1>1. U \subseteq Nat /\ \A x \in U : a.at <= x /\ x < a.at + a.len
  BY UnheldFacts
<1>2. q \in U /\ q \in Nat
  BY <1>1
<1> HIDE DEF U
<1>3. PICK l \in L : \A x \in L : l <= x
  <2>1. q \in L
    BY <1>2
  <2>2. L \subseteq Nat
    BY <1>1
  <2> QED
    BY <2>1, <2>2, LeastNatural
<1>4. PICK u \in R : \A y \in R : u <= y
  <2>1. a.at + a.len \in R
    BY <1>1, <1>2
  <2> QED
    BY <2>1, LeastNatural
<1>5. l - 1 \notin U
  <2> SUFFICES ASSUME l - 1 \in U PROVE FALSE
    OBVIOUS
  <2>1. l \in Nat /\ l - 1 \in Nat /\ l <= q /\ (l .. q) \subseteq U
    BY <1>1, <1>3
  <2>2. ((l - 1) .. q) \subseteq U
    BY <2>1, <1>2
  <2>3. l - 1 \in L
    BY <2>1, <2>2, <1>2
  <2> QED
    BY <2>1, <2>3, <1>3
<1>6. \A x \in l .. (u - 1) : x \in U
  <2> SUFFICES ASSUME NEW x \in l .. (u - 1), x \notin U PROVE FALSE
    OBVIOUS
  <2>1. l \in Nat /\ u \in Nat /\ x \in Nat /\ (l .. q) \subseteq U
    BY <1>1, <1>3
  <2>2. x > q
    BY <2>1, <1>2
  <2>3. x \in R
    BY <2>1, <2>2
  <2> QED
    BY <2>1, <2>3, <1>4
<1>7. l \in U /\ l \in Nat /\ u \in Nat /\ l <= q /\ q < u /\ u \notin U
  BY <1>1, <1>3, <1>4
<1>8. u <= a.at + a.len
  <2>1. a.at + a.len \in R
    BY <1>1, <1>2
  <2> QED
    BY <2>1, <1>4
<1>9. a.at <= l
  BY <1>1, <1>7
<1> DEFINE r == [at |-> l, len |-> u - l, pkt |-> a.pkt, t |-> a.t]
<1>10. u - l \in 1 .. a.len /\ l + (u - l) = u /\ l + (u - l) - 1 = u - 1
  BY <1>2, <1>7, <1>8, <1>9
<1>11. Span(l, u - l) \subseteq U /\ q \in Span(l, u - l)
  BY <1>2, <1>6, <1>7, <1>10 DEF Span
<1>12. r \in Runs(a)
  BY <1>5, <1>7, <1>10, <1>11 DEF Runs, U
<1> QED
  BY <1>11, <1>12

(* Two runs that meet are one.                                             *)
LEMMA RunsApart ==
  ASSUME NEW a, a.at \in Nat, a.len \in Nat, NEW r \in Runs(a), NEW e \in Runs(a),
         NEW q, q \in Span(r.at, r.len), q \in Span(e.at, e.len)
  PROVE  r = e
<1>1. /\ r.at \in Nat /\ r.len \in Nat /\ Span(r.at, r.len) \subseteq Unheld(a)
      /\ r = [at |-> r.at, len |-> r.len, pkt |-> a.pkt, t |-> a.t]
      /\ r.at - 1 \notin Unheld(a) /\ r.at + r.len \notin Unheld(a)
  BY RunFacts
<1>2. /\ e.at \in Nat /\ e.len \in Nat /\ Span(e.at, e.len) \subseteq Unheld(a)
      /\ e = [at |-> e.at, len |-> e.len, pkt |-> a.pkt, t |-> a.t]
      /\ e.at - 1 \notin Unheld(a) /\ e.at + e.len \notin Unheld(a)
  BY RunFacts
<1>3. q \in Int
  BY <1>1 DEF Span
<1>4. r.at = e.at
  <2>1. ~ (r.at < e.at)
    BY <1>1, <1>2, <1>3 DEF Span
  <2>2. ~ (e.at < r.at)
    BY <1>1, <1>2, <1>3 DEF Span
  <2> QED
    BY <2>1, <2>2, <1>1, <1>2
<1>5. r.len = e.len
  <2>1. ~ (r.at + r.len < e.at + e.len)
    BY <1>1, <1>2, <1>3 DEF Span
  <2>2. ~ (e.at + e.len < r.at + r.len)
    BY <1>1, <1>2, <1>3 DEF Span
  <2> QED
    BY <2>1, <2>2, <1>1, <1>2, <1>4
<1> QED
  BY <1>1, <1>2, <1>4, <1>5

(* An entry hold made of the arrival a.                                    *)
EntryOf(h, a) ==
  /\ h \in Held
  /\ h.len > 0 /\ h.pkt = a.pkt /\ h.t = a.t + (h.at - a.at)
  /\ a.at <= h.at /\ Span(h.at, h.len) \subseteq Unheld(a)

Positions(H) == UNION {Span(h.at, h.len) : h \in H}

LEMMA NewEntries ==
  ASSUME NEW a, a.at \in Nat, a.len \in Nat, a.t \in Nat, a.pkt \in Nat,
         NEW h \in WithHeld(a), h \notin held
  PROVE  /\ EntryOf(h, a)
         /\ \E r \in Runs(a) :
              /\ h.at = r.at /\ h.len = r.len
              /\ h = [at |-> r.at, len |-> r.len, pkt |-> a.pkt, t |-> a.t + (r.at - a.at)]
<1>1. PICK r \in Runs(a) : h = [r EXCEPT !.t = @ + (r.at - a.at)]
  BY DEF WithHeld
<1>2. /\ r.at \in Nat /\ r.len \in Nat /\ r.len > 0 /\ r.pkt = a.pkt /\ r.t = a.t
      /\ r = [at |-> r.at, len |-> r.len, pkt |-> a.pkt, t |-> a.t]
      /\ a.at <= r.at /\ Span(r.at, r.len) \subseteq Unheld(a)
  BY RunFacts
<1>3. h = [at |-> r.at, len |-> r.len, pkt |-> a.pkt, t |-> a.t + (r.at - a.at)]
  BY <1>1, <1>2
<1>4. h.at = r.at /\ h.len = r.len /\ h.pkt = a.pkt /\ h.t = a.t + (h.at - a.at)
  BY <1>3
<1>5. h \in Held
  BY <1>2, <1>3 DEF Held
<1> QED
  BY <1>2, <1>3, <1>4, <1>5 DEF EntryOf

LEMMA HoldFacts ==
  ASSUME held \subseteq Held,
         NEW a, a.at \in Nat, a.len \in Nat, a.t \in Nat, a.pkt \in Nat
  PROVE  /\ WithHeld(a) \subseteq Held /\ held \subseteq WithHeld(a)
         /\ \A h \in WithHeld(a) : h \in held \/ EntryOf(h, a)
         /\ Positions(WithHeld(a)) = HeldPositions \cup Unheld(a)
         /\ HeldApart(held) => HeldApart(WithHeld(a))
         /\ a.len > 0 => WithHeld(a) # {}
<1>1. held \subseteq WithHeld(a)
  BY DEF WithHeld
<1>2. \A h \in WithHeld(a) : h \in held \/ EntryOf(h, a)
  BY NewEntries
<1>3. WithHeld(a) \subseteq Held
  BY <1>2 DEF EntryOf
<1>4. Positions(WithHeld(a)) \subseteq HeldPositions \cup Unheld(a)
  BY <1>2 DEF Positions, HeldPositions, EntryOf
<1>5. HeldPositions \subseteq Positions(WithHeld(a))
  BY <1>1 DEF Positions, HeldPositions
<1>6. Unheld(a) \subseteq Positions(WithHeld(a))
  <2> SUFFICES ASSUME NEW q \in Unheld(a) PROVE q \in Positions(WithHeld(a))
    OBVIOUS
  <2>1. PICK r \in Runs(a) : q \in Span(r.at, r.len)
    BY RunsCover
  <2> DEFINE h == [r EXCEPT !.t = @ + (r.at - a.at)]
  <2>2. h \in WithHeld(a)
    BY DEF WithHeld
  <2>3. r = [at |-> r.at, len |-> r.len, pkt |-> a.pkt, t |-> a.t]
    BY RunFacts
  <2>4. h.at = r.at /\ h.len = r.len
    BY <2>3
  <2> HIDE DEF h
  <2> QED
    BY <2>1, <2>2, <2>4 DEF Positions
<1>7. ASSUME HeldApart(held) PROVE HeldApart(WithHeld(a))
  <2> SUFFICES ASSUME NEW g \in WithHeld(a), NEW h \in WithHeld(a), g # h,
                      NEW q, q \in Span(g.at, g.len), q \in Span(h.at, h.len)
               PROVE  FALSE
    BY DEF HeldApart
  <2>1. CASE g \in held /\ h \in held
    BY <2>1, <1>7 DEF HeldApart
  <2>2. CASE g \in held /\ h \notin held
    <3>1. q \in HeldPositions
      BY <2>2 DEF HeldPositions
    <3>2. q \in Unheld(a)
      BY <2>2, <1>2 DEF EntryOf
    <3> QED
      BY <3>1, <3>2 DEF Unheld
  <2>3. CASE g \notin held /\ h \in held
    <3>1. q \in HeldPositions
      BY <2>3 DEF HeldPositions
    <3>2. q \in Unheld(a)
      BY <2>3, <1>2 DEF EntryOf
    <3> QED
      BY <3>1, <3>2 DEF Unheld
  <2>4. CASE g \notin held /\ h \notin held
    <3>1. PICK r \in Runs(a) :
            /\ g.at = r.at /\ g.len = r.len
            /\ g = [at |-> r.at, len |-> r.len, pkt |-> a.pkt, t |-> a.t + (r.at - a.at)]
      BY <2>4, NewEntries
    <3>2. PICK e \in Runs(a) :
            /\ h.at = e.at /\ h.len = e.len
            /\ h = [at |-> e.at, len |-> e.len, pkt |-> a.pkt, t |-> a.t + (e.at - a.at)]
      BY <2>4, NewEntries
    <3>3. r = e
      BY <3>1, <3>2, RunsApart
    <3> QED
      BY <3>1, <3>2, <3>3
  <2> QED
    BY <2>1, <2>2, <2>3, <2>4
<1>8. a.len > 0 => WithHeld(a) # {}
  <2>1. a.len > 0 => a.at \in Span(a.at, a.len)
    BY DEF Span
  <2>2. a.len > 0 => a.at \in Positions(WithHeld(a))
    BY <2>1, <1>5, <1>6 DEF Unheld
  <2> QED
    BY <2>2 DEF Positions
<1> QED
  BY <1>1, <1>2, <1>3, <1>4, <1>5, <1>6, <1>7, <1>8

(* Taking the first entry out takes its positions out, and only those.     *)
LEMMA TakeFacts ==
  ASSUME held \subseteq Held, HeldApart(held), NEW h \in held
  PROVE  /\ Positions(held \ {h}) = HeldPositions \ Span(h.at, h.len)
         /\ Span(h.at, h.len) \subseteq HeldPositions
         /\ HeldApart(held \ {h})
<1>1. Span(h.at, h.len) \subseteq HeldPositions
  BY DEF HeldPositions
<1>2. HeldApart(held \ {h})
  BY DEF HeldApart
<1>3. \A g \in held \ {h} : Span(g.at, g.len) \cap Span(h.at, h.len) = {}
  BY DEF HeldApart
<1>4. Positions(held \ {h}) = HeldPositions \ Span(h.at, h.len)
  BY <1>3 DEF Positions, HeldPositions
<1> QED
  BY <1>1, <1>2, <1>4
-----------------------------------------------------------------------------
(* append: what it adds to the data, to its provenance and to the losses.  *)

Octet == [at : Nat, t : Nat, pkt : Nat]
Segment == [at : Nat, len : Nat \ {0}, pkt : Nat]

(* data grows by the n octets from .. from + n - 1 of packet pkt.          *)
Grown(n, from, t, pkt) ==
  /\ data' \in Seq(Octet) /\ Len(data') = Len(data) + n /\ Len(data') <= MaxStream
  /\ \A i \in 1 .. Len(data) : data'[i] = data[i]
  /\ \A i \in 1 .. n :
       data'[Len(data) + i] = [at |-> from + i - 1, t |-> t + i - 1, pkt |-> pkt]

(* segs says so: nothing new, a longer last entry, or a new one.           *)
Described(n, pkt) ==
  /\ segs' \in Seq(Segment)
  /\ \/ n = 0 /\ segs' = segs
     \/ LET k == Len(segs)
            last == segs[k]
        IN  /\ n > 0 /\ k > 0 /\ last.pkt = pkt /\ last.at + last.len = Len(data)
            /\ Len(segs') = k /\ \A i \in 1 .. (k - 1) : segs'[i] = segs[i]
            /\ segs'[k].at = last.at /\ segs'[k].len = last.len + n /\ segs'[k].pkt = pkt
     \/ LET k == Len(segs)
        IN  /\ n > 0
            /\ Len(segs') = k + 1 /\ \A i \in 1 .. k : segs'[i] = segs[i]
            /\ segs'[k + 1] = [at |-> Len(data), len |-> n, pkt |-> pkt]

Appended(n, from, len, t, pkt, f, d, l) ==
  /\ Grown(n, from, t, pkt) /\ Described(n, pkt)
  /\ n < len => n = MaxStream - Len(data)
  /\ flags' = f \/ flags' = f \cup {"TRUNCATED"}
  /\ dropped' = d + (len - n) /\ lost' = l \cup Span(from + n, len - n)
  /\ next' = from + len

LEMMA GrownFacts ==
  ASSUME data \in Seq(Octet), Len(data) <= MaxStream,
         NEW n \in Nat, n <= MaxStream - Len(data),
         NEW from \in Nat, NEW t \in Nat, NEW pkt \in Nat,
         data' = data \o [i \in 1 .. n |->
                            [at |-> from + i - 1, t |-> t + i - 1, pkt |-> pkt]]
  PROVE  Grown(n, from, t, pkt)
<1> DEFINE X == [i \in 1 .. n |-> [at |-> from + i - 1, t |-> t + i - 1, pkt |-> pkt]]
<1>1. \A i \in 1 .. n : [at |-> from + i - 1, t |-> t + i - 1, pkt |-> pkt] \in Octet
  BY DEF Octet
<1>2. X \in [1 .. n -> Octet]
  BY <1>1
<1>3. \A i \in 1 .. n : X[i] = [at |-> from + i - 1, t |-> t + i - 1, pkt |-> pkt]
  OBVIOUS
<1>4. DOMAIN X = 1 .. n /\ data' = data \o X
  OBVIOUS
<1> HIDE DEF X
<1>5. X \in Seq(Octet)
  BY <1>2, SeqDef
<1>6. Len(X) = n
  BY <1>4, <1>5, LenProperties
<1>7. /\ data' \in Seq(Octet) /\ Len(data') = Len(data) + n
      /\ \A i \in 1 .. (Len(data) + n) :
           data'[i] = IF i <= Len(data) THEN data[i] ELSE X[i - Len(data)]
  <2>1. /\ data \o X \in Seq(Octet) /\ Len(data \o X) = Len(data) + Len(X)
        /\ \A i \in 1 .. (Len(data) + Len(X)) :
             (data \o X)[i] = IF i <= Len(data) THEN data[i] ELSE X[i - Len(data)]
    BY <1>5, ConcatProperties
  <2> QED
    BY <1>4, <1>6, <2>1
<1>8. Len(data) \in Nat /\ MaxStream \in Nat
  BY LenProperties, SizesAssumption
<1>9. \A i \in 1 .. Len(data) : data'[i] = data[i]
  BY <1>7, <1>8
<1>10. \A i \in 1 .. n : data'[Len(data) + i] = X[i]
  <2> SUFFICES ASSUME NEW i \in 1 .. n PROVE data'[Len(data) + i] = X[i]
    OBVIOUS
  <2>1. /\ Len(data) + i \in 1 .. (Len(data) + n) /\ ~ (Len(data) + i <= Len(data))
        /\ (Len(data) + i) - Len(data) = i
    BY <1>8
  <2> QED
    BY <2>1, <1>7
<1>11. \A i \in 1 .. n :
        data'[Len(data) + i] = [at |-> from + i - 1, t |-> t + i - 1, pkt |-> pkt]
  BY <1>3, <1>10
<1>12. Len(data') <= MaxStream
  BY <1>7, <1>8
<1> QED
  BY <1>7, <1>9, <1>11, <1>12 DEF Grown

LEMMA AppendFacts ==
  ASSUME TypeOK, Len(data) <= MaxStream,
         NEW from \in Nat, NEW len \in Nat, len > 0, NEW t \in Nat, NEW pkt \in Nat,
         NEW f, NEW d \in Nat, NEW l, append(from, len, t, pkt, f, d, l)
  PROVE  \E n \in 0 .. len : Appended(n, from, len, t, pkt, f, d, l)
<1> DEFINE room == MaxStream - Len(data)
           n == Smaller(len, room)
           k == Len(segs)
           last == segs[k]
<1>1. data \in Seq(Octet) /\ segs \in Seq(Segment)
  BY DEF TypeOK, Octet, Segment
<1>2. Len(data) \in Nat /\ k \in Nat /\ MaxStream \in Nat
  BY <1>1, LenProperties, SizesAssumption
<1>3. n \in 0 .. len /\ n <= room /\ (room = 0 => n = 0) /\ (n = 0 => room = 0)
      /\ (n < len => n = room) /\ room \in Nat
  BY <1>2 DEF Smaller
<1>4. /\ data' = data \o [i \in 1 .. n |->
                            [at |-> from + i - 1, t |-> t + i - 1, pkt |-> pkt]]
      /\ flags' = IF n < len THEN f \cup {"TRUNCATED"} ELSE f
      /\ dropped' = d + (len - n)
      /\ lost' = l \cup Span(from + n, len - n)
      /\ segs' = IF room = 0 THEN segs
                 ELSE IF segs # <<>> /\ Continues(last, pkt)
                 THEN [segs EXCEPT ![k].len = @ + n]
                 ELSE Append(segs, [at |-> Len(data), len |-> n, pkt |-> pkt])
      /\ next' = from + len
  BY DEF append
<1> HIDE DEF n, room
<1>5. Grown(n, from, t, pkt)
  <2>1. n \in Nat /\ n <= MaxStream - Len(data)
    BY <1>3 DEF room
  <2> QED
    BY <2>1, <1>1, <1>4, GrownFacts
<1>6. Described(n, pkt)
  <2>1. CASE room = 0
    BY <2>1, <1>1, <1>3, <1>4 DEF Described
  <2>2. CASE room # 0 /\ segs # <<>> /\ Continues(last, pkt)
    <3>1. k \in 1 .. Len(segs)
      BY <2>2, <1>1, EmptySeq
    <3>2. last \in Segment
      BY <1>1, <3>1, ElementOfSeq
    <3> DEFINE e == [last EXCEPT !.len = @ + n]
    <3>3. last.at \in Nat /\ last.len + n \in Nat \ {0} /\ last.pkt \in Nat
      <4> DEFINE y == last.len
      <4>1. last.at \in Nat /\ y \in Nat \ {0} /\ last.pkt \in Nat
        BY <3>2 DEF Segment
      <4>2. n \in Nat
        BY <1>3
      <4> HIDE DEF y
      <4>3. y + n \in Nat \ {0}
        BY <4>1, <4>2
      <4> QED
        BY <4>1, <4>3 DEF y
    <3>4. e = [at |-> last.at, len |-> last.len + n, pkt |-> last.pkt]
      BY <3>2 DEF Segment
    <3>5. e \in Segment
      BY <3>3, <3>4 DEF Segment
    <3>6. e.at = last.at /\ e.len = last.len + n /\ e.pkt = last.pkt
      BY <3>2 DEF Segment
    <3>7. segs' = [segs EXCEPT ![k] = e]
      BY <2>2, <1>4
    <3> HIDE DEF e
    <3>8. /\ segs' \in Seq(Segment) /\ Len(segs') = k
          /\ \A j \in 1 .. k : segs'[j] = IF j = k THEN e ELSE segs[j]
      BY <1>1, <3>1, <3>5, <3>7, ExceptSeq
    <3>9. segs'[k] = e /\ \A i \in 1 .. (k - 1) : segs'[i] = segs[i]
      BY <3>1, <3>8, <1>2
    <3> QED
      BY <2>2, <1>2, <1>3, <3>1, <3>6, <3>8, <3>9 DEF Described, Continues
  <2>3. CASE room # 0 /\ ~ (segs # <<>> /\ Continues(last, pkt))
    <3> DEFINE e == [at |-> Len(data), len |-> n, pkt |-> pkt]
    <3>1. e \in Segment
      BY <2>3, <1>2, <1>3 DEF Segment
    <3>2. segs' = Append(segs, e)
      BY <2>3, <1>4
    <3> HIDE DEF e
    <3>3. /\ segs' \in Seq(Segment) /\ Len(segs') = k + 1
          /\ \A i \in 1 .. k : segs'[i] = segs[i]
          /\ segs'[k + 1] = e
      BY <1>1, <3>1, <3>2, AppendProperties
    <3> QED
      BY <2>3, <1>3, <3>3 DEF Described, e
  <2> QED
    BY <2>1, <2>2, <2>3
<1> QED
  BY <1>3, <1>4, <1>5, <1>6 DEF Appended, room

LEMMA DeliveredGrows ==
  ASSUME data \in Seq(Octet), NEW n \in Nat, NEW from \in Nat, NEW t \in Nat, NEW pkt \in Nat,
         Grown(n, from, t, pkt)
  PROVE  Delivered' = Delivered \cup Span(from, n)
<1>1. Len(data) \in Nat /\ Len(data') = Len(data) + n
  BY LenProperties DEF Grown
<1>2. Delivered \subseteq Delivered'
  BY <1>1 DEF Delivered, Grown
<1>3. \A i \in 1 .. n :
        data'[Len(data) + i] = [at |-> from + i - 1, t |-> t + i - 1, pkt |-> pkt]
  BY DEF Grown
<1>4. \A i \in 1 .. n : data'[Len(data) + i].at = from + i - 1
  <2> TAKE i \in 1 .. n
  <2>1. data'[Len(data) + i] = [at |-> from + i - 1, t |-> t + i - 1, pkt |-> pkt]
    BY <1>3
  <2> QED
    BY <2>1
<1>5. \A i \in 1 .. Len(data) : data'[i] = data[i]
  BY DEF Grown
<1>6. ASSUME NEW q \in Span(from, n) PROVE q \in Delivered'
  <2>1. PICK i \in 1 .. n : q = from + i - 1
    <3>1. q - from + 1 \in 1 .. n /\ q = from + (q - from + 1) - 1
      BY <1>6 DEF Span
    <3> QED
      BY <3>1
  <2>2. Len(data) + i \in 1 .. Len(data')
    BY <1>1
  <2>3. data'[Len(data) + i].at = q
    BY <1>4, <2>1
  <2> QED
    BY <2>2, <2>3 DEF Delivered
<1>7. ASSUME NEW j \in 1 .. Len(data') PROVE data'[j].at \in Delivered \cup Span(from, n)
  <2>1. CASE j <= Len(data)
    <3>1. j \in 1 .. Len(data)
      BY <2>1, <1>1
    <3> QED
      BY <3>1, <1>5 DEF Delivered
  <2>2. CASE j > Len(data)
    <3>1. PICK i \in 1 .. n : Len(data) + i = j
      <4>1. j - Len(data) \in 1 .. n /\ Len(data) + (j - Len(data)) = j
        BY <2>2, <1>1
      <4> QED
        BY <4>1
    <3>2. data'[j].at = from + i - 1
      BY <3>1, <1>4
    <3>3. from + i - 1 \in Span(from, n)
      BY <3>1 DEF Span
    <3> QED
      BY <3>2, <3>3
  <2> QED
    BY <2>1, <2>2, <1>1
<1> QED
  BY <1>2, <1>6, <1>7 DEF Delivered
-----------------------------------------------------------------------------
(* The actions by what they do.  A feed that keeps nothing of its segment  *)
(* counts its first k octets as lost.                                      *)

QuietFeed(s, a, k) ==
  /\ Arrives(s) /\ a = Arrival(s)
  /\ flags \cup s.flags \subseteq flags' /\ flags' \subseteq flags \cup s.flags \cup {"LOSSY"}
  /\ dropped' = dropped + k /\ lost' = lost \cup Span(a.at, k)
  /\ \/ k = a.len
     \/ a.open /\ a.at + a.len <= a.next /\ k = BelowOrigin(a)
  /\ next' = a.next /\ origin' = a.origin /\ (open' <=> a.open) /\ open' \in BOOLEAN
  /\ UNCHANGED <<data, segs, held, heldBytes, pc, caller>>

LEMMA BelowFacts ==
  ASSUME NEW a, a.at \in Nat, a.origin \in Nat, a.len \in Nat
  PROVE  /\ BelowOrigin(a) \in 0 .. a.len
         /\ a.at >= a.origin => BelowOrigin(a) = 0
         /\ a.at < a.origin => BelowOrigin(a) <= a.origin - a.at
BY DEF BelowOrigin, Smaller

LEMMA QuietFacts ==
  ASSUME Base, NEW s \in Segments, FeedEmpty(s) \/ FeedTooFar(s) \/ FeedOld(s)
  PROVE  /\ Landed(Arrival(s), s)
         /\ \E k \in 0 .. Arrival(s).len : QuietFeed(s, Arrival(s), k)
<1> DEFINE a == Arrival(s)
<1>1. Arrives(s)
  BY DEF FeedEmpty, FeedTooFar, FeedOld
<1>2. Landed(a, s)
  BY <1>1, ArrivalFacts
<1>3. CASE FeedEmpty(s)
  <2>1. Span(a.at, 0) = {} /\ dropped \in Nat
    BY <1>2 DEF Span, Landed, Base, TypeOK
  <2>2. open' = a.open
    BY <1>3 DEF FeedEmpty
  <2>3. open' \in BOOLEAN /\ (open' <=> a.open)
    BY <2>2, <1>2, Zenon DEF Landed
  <2> HIDE DEF a
  <2>4. /\ a.len = 0 /\ flags' = flags \cup s.flags /\ next' = a.next /\ origin' = a.origin
        /\ UNCHANGED <<data, segs, dropped, lost, held, heldBytes, pc, caller>>
    BY <1>3 DEF FeedEmpty, holding, a
  <2>5. QuietFeed(s, a, 0)
    BY <1>1, <2>1, <2>3, <2>4 DEF QuietFeed, a
  <2> QED
    BY <1>2, <2>4, <2>5 DEF a
<1>4. CASE FeedTooFar(s)
  <2>1. open' = a.open
    BY <1>4 DEF FeedTooFar
  <2>2. open' \in BOOLEAN /\ (open' <=> a.open)
    BY <2>1, <1>2, Zenon DEF Landed
  <2>3. /\ Refuses(s, a.at, a.len) /\ next' = a.next /\ origin' = a.origin
        /\ UNCHANGED <<data, segs, held, heldBytes, pc, caller>>
    BY <1>4 DEF FeedTooFar, holding
  <2> HIDE DEF a
  <2>4. QuietFeed(s, a, a.len)
    BY <1>1, <2>2, <2>3 DEF QuietFeed, Refuses, a
  <2>5. a.len \in 0 .. a.len
    BY <1>2 DEF Landed
  <2> QED
    BY <1>2, <2>4, <2>5 DEF a
<1>5. CASE FeedOld(s)
  <2>1. /\ a.open /\ a.at + a.len <= a.next
        /\ Refuses(s, a.at, BelowOrigin(a)) /\ next' = a.next /\ origin' = a.origin
        /\ UNCHANGED <<data, segs, held, heldBytes, pc, caller>>
    BY <1>5 DEF FeedOld, holding
  <2>2. open' = TRUE
    BY <1>5 DEF FeedOld
  <2>3. open' \in BOOLEAN /\ (open' <=> a.open)
    BY <2>1, <2>2, Zenon
  <2> HIDE DEF a
  <2>4. QuietFeed(s, a, BelowOrigin(a))
    BY <1>1, <2>1, <2>3 DEF QuietFeed, Refuses, a
  <2>5. BelowOrigin(a) \in 0 .. a.len
    BY <1>2, BelowFacts DEF Landed
  <2> QED
    BY <1>2, <2>4, <2>5 DEF a
<1> QED
  BY <1>3, <1>4, <1>5

(* A feed that holds its segment, in a direction that is open or not.      *)
HoldFeed(s, a) ==
  /\ Arrives(s) /\ a = Arrival(s) /\ a.len > 0
  /\ held' = WithHeld(a) /\ heldBytes' = heldBytes + Cardinality(Unheld(a))
  /\ flags' = flags \cup s.flags
  /\ UNCHANGED <<data, segs, dropped, lost>>

StaysClosed(a) ==
  /\ ~open /\ ~a.open /\ ~open' /\ open' \in BOOLEAN
  /\ next' = a.next /\ origin' = a.origin /\ UNCHANGED <<pc, caller>>
OpensAtFirst(a) ==
  /\ ~open /\ ~a.open /\ open' = TRUE
  /\ next' = First(held').at /\ origin' = First(held').at /\ pc' = "drain" /\ caller' = "idle"
HoldsAhead(a) ==
  /\ open /\ open' = TRUE /\ a.next < a.at
  /\ next' = next /\ origin' = origin /\ pc' = "relieve" /\ UNCHANGED caller

LEMMA HoldFeedFacts ==
  ASSUME Base, NEW s \in Segments, FeedUnopened(s) \/ FeedAhead(s), NEW a, a = Arrival(s)
  PROVE  /\ Landed(a, s) /\ HoldFeed(s, a)
         /\ StaysClosed(a) \/ OpensAtFirst(a) \/ HoldsAhead(a)
<1>1. Arrives(s)
  BY DEF FeedUnopened, FeedAhead
<1>2. Landed(a, s)
  BY <1>1, ArrivalFacts
<1>3. HoldFeed(s, a)
  BY <1>1 DEF HoldFeed, FeedUnopened, FeedAhead, hold
<1>4. CASE FeedUnopened(s)
  <2>1. ~a.open /\ ~open
    BY <1>4, <1>2 DEF FeedUnopened, Landed
  <2>2. CASE Cardinality(held') >= OriginWindow
    <3>1. /\ next' = First(held').at /\ origin' = First(held').at /\ open' = TRUE
          /\ pc' = "drain" /\ caller' = "idle"
      BY <1>4, <2>2 DEF FeedUnopened
    <3> QED
      BY <1>2, <1>3, <2>1, <3>1 DEF OpensAtFirst
  <2>3. CASE ~ (Cardinality(held') >= OriginWindow)
    <3>1. /\ next' = a.next /\ origin' = a.origin /\ open' = FALSE
          /\ pc' = pc /\ caller' = caller
      BY <1>4, <2>3 DEF FeedUnopened
    <3> QED
      BY <1>2, <1>3, <2>1, <3>1 DEF StaysClosed
  <2> QED
    BY <2>2, <2>3
<1>5. CASE FeedAhead(s)
  <2>1. /\ a.open /\ a.at > a.next /\ next' = a.next /\ origin' = a.origin /\ pc' = "relieve"
        /\ caller' = caller /\ open' = TRUE
    BY <1>5 DEF FeedAhead
  <2>2. open
    BY <2>1, <1>2 DEF Landed
  <2>3. HoldsAhead(a)
    BY <2>1, <2>2, <1>2 DEF HoldsAhead, Landed
  <2> QED
    BY <1>2, <1>3, <2>3
<1> QED
  BY <1>4, <1>5

(* A feed that delivers: n octets from the frontier on, b of the segment   *)
(* below the origin.                                                       *)
NextFeed(s, a, b, n) ==
  /\ Arrives(s) /\ a = Arrival(s) /\ a.open /\ b = BelowOrigin(a)
  /\ a.at <= a.next /\ a.next < a.at + a.len
  /\ Appended(n, a.next, a.len - (a.next - a.at), a.t + (a.next - a.at), a.pkt,
              flags \cup s.flags \cup (IF b > 0 THEN {"LOSSY"} ELSE {}),
              dropped + b, lost \cup Span(a.at, b))
  /\ origin' = a.origin /\ open' = TRUE /\ pc' = "drain" /\ caller' = "idle"
  /\ UNCHANGED <<held, heldBytes>>

LEMMA NextFeedFacts ==
  ASSUME Base, NEW s \in Segments, FeedNext(s), NEW a, a = Arrival(s)
  PROVE  /\ Landed(a, s) /\ BelowOrigin(a) \in 0 .. a.len
         /\ a.at <= a.next /\ a.next < a.at + a.len
         /\ \E n \in 0 .. (a.len - (a.next - a.at)) : NextFeed(s, a, BelowOrigin(a), n)
<1> DEFINE b == BelowOrigin(a)
           c == a.next - a.at
<1>1. /\ Arrives(s) /\ a.open /\ a.at <= a.next /\ a.next < a.at + a.len
      /\ append(a.next, a.len - c, a.t + c, a.pkt,
                flags \cup s.flags \cup (IF b > 0 THEN {"LOSSY"} ELSE {}),
                dropped + b, lost \cup Span(a.at, b))
      /\ origin' = a.origin /\ open' = TRUE /\ pc' = "drain" /\ caller' = "idle"
      /\ UNCHANGED <<held, heldBytes>>
  BY DEF FeedNext, Cut, holding
<1>2. Landed(a, s)
  BY <1>1, ArrivalFacts
<1>3. b \in 0 .. a.len
  BY <1>2, BelowFacts DEF Landed
<1>4. /\ a.next \in Nat /\ c \in Nat /\ a.len - c \in Nat /\ a.len - c > 0
      /\ a.t + c \in Nat /\ a.pkt \in Nat /\ dropped + b \in Nat
  <2>1. Len(fed) \in Nat /\ dropped \in Nat
    BY LenProperties DEF Base, TypeOK
  <2>2. /\ a.at \in Nat /\ a.next \in Nat /\ a.len \in Nat /\ a.t \in Nat
        /\ a.pkt = Len(fed) + 1
    BY <1>2 DEF Landed
  <2>3. a.at <= a.next /\ a.next < a.at + a.len
    BY <1>1
  <2>4. dropped + b \in Nat
    BY <1>3, <2>1, <2>2
  <2>5. c \in Nat
    BY <2>2, <2>3
  <2>6. a.len - c \in Nat /\ a.len - c > 0
    BY <2>2, <2>3
  <2>7. a.t + c \in Nat
    BY <2>2, <2>5
  <2>8. a.pkt \in Nat
    BY <2>1, <2>2
  <2> QED
    BY <2>2, <2>4, <2>5, <2>6, <2>7, <2>8
<1>5. TypeOK /\ Len(data) <= MaxStream
  BY DEF Base, FrontierOK
<1> HIDE DEF b, c
<1>6. PICK n \in 0 .. (a.len - c) :
        Appended(n, a.next, a.len - c, a.t + c, a.pkt,
                 flags \cup s.flags \cup (IF b > 0 THEN {"LOSSY"} ELSE {}),
                 dropped + b, lost \cup Span(a.at, b))
  BY <1>1, <1>4, <1>5, AppendFacts
<1> QED
  BY <1>1, <1>2, <1>3, <1>6 DEF NextFeed, b, c

(* A turn of drain on the first entry h: nothing of it is new, or n octets *)
(* of what is are delivered.                                               *)
DrainsOld(h) ==
  /\ h.at + h.len <= next /\ UNCHANGED <<data, segs, flags, dropped, lost, next>>
DrainsNew(h, n) ==
  /\ next < h.at + h.len
  /\ Appended(n, next, h.len - (next - h.at), h.t + (next - h.at), h.pkt, flags, dropped, lost)

LEMMA DrainFacts ==
  ASSUME Base, Drain, NEW h, h = First(held)
  PROVE  /\ h \in held /\ h \in Held /\ h.at <= next /\ \A g \in held : h.at <= g.at
         /\ pc = "drain" /\ held' = held \ {h} /\ heldBytes' = heldBytes - h.len
         /\ UNCHANGED <<gaps, origin, started, open, pc, caller, fed>>
         /\ DrainsOld(h) \/ \E n \in 0 .. (h.len - (next - h.at)) : DrainsNew(h, n)
<1>1. held \subseteq Held /\ held # {} /\ next \in Nat /\ dropped \in Nat
  BY DEF Drain, Base, TypeOK
<1>2. h \in held /\ h \in Held /\ \A g \in held : h.at <= g.at
  BY <1>1, FirstFacts
<1>3. /\ pc = "drain" /\ h.at <= next /\ held' = held \ {h} /\ heldBytes' = heldBytes - h.len
      /\ UNCHANGED <<gaps, origin, started, open, pc, caller, fed>>
  BY DEF Drain
<1>4. CASE h.at + h.len <= next
  BY <1>2, <1>3, <1>4 DEF Drain, DrainsOld
<1>5. CASE ~ (h.at + h.len <= next)
  <2> DEFINE c == next - h.at
  <2>1. h.at \in Nat /\ h.len \in Nat /\ h.t \in Nat /\ h.pkt \in Nat
    BY <1>2 DEF Held
  <2>2. c \in Nat /\ h.len - c \in Nat /\ h.len - c > 0 /\ h.t + c \in Nat /\ next < h.at + h.len
    BY <1>1, <1>3, <1>5, <2>1
  <2>3. append(next, h.len - c, h.t + c, h.pkt, flags, dropped, lost)
    BY <1>5 DEF Drain
  <2>4. TypeOK /\ Len(data) <= MaxStream
    BY DEF Base, FrontierOK
  <2> HIDE DEF c
  <2>5. \E n \in 0 .. (h.len - c) :
          Appended(n, next, h.len - c, h.t + c, h.pkt, flags, dropped, lost)
    BY <1>1, <2>1, <2>2, <2>3, <2>4, AppendFacts
  <2> QED
    BY <1>2, <1>3, <2>2, <2>5 DEF DrainsNew, c
<1> QED
  BY <1>4, <1>5
-----------------------------------------------------------------------------
(* Base is kept, action by action.                                         *)

LEMMA ArrivedFrontier ==
  ASSUME Base, NEW s \in Segments, Arrives(s), NEW a, a = Arrival(s),
         UNCHANGED <<data, held, pc>>, open' \in BOOLEAN, open' <=> a.open,
         next' = a.next, origin' = a.origin
  PROVE  FrontierOK' /\ next' \in Nat /\ origin' \in Nat /\ fed' \in Seq(Segments)
<1>1. Landed(a, s)
  BY ArrivalFacts
<1>2. fed' # <<>> /\ fed' \in Seq(Segments)
  BY FedGrows DEF Base
<1>3. pc = "idle" /\ started' = TRUE /\ gaps' = gaps
  BY DEF Arrives
<1>4. ~open' => ~open /\ ~a.open
  BY <1>1 DEF Landed
<1>5. Len(data) <= MaxStream /\ (~open => data = <<>> /\ gaps = <<>>)
  BY DEF Base, FrontierOK
<1>6. /\ SeqSpace - Reach <= a.origin /\ a.origin <= a.next /\ a.next \in Nat /\ a.origin \in Nat
      /\ ~a.open => a.next = a.origin /\ a.next = FirstReference(fed'[1].t % SeqSpace)
  BY <1>1 DEF Landed
<1> QED
  BY <1>2, <1>3, <1>4, <1>5, <1>6 DEF FrontierOK

LEMMA BaseQuiet ==
  ASSUME Base, NEW s \in Segments, FeedEmpty(s) \/ FeedTooFar(s) \/ FeedOld(s)
  PROVE  Base'
<1> DEFINE a == Arrival(s)
<1>1. Landed(a, s)
  BY QuietFacts
<1>2. PICK k \in 0 .. a.len : QuietFeed(s, a, k)
  BY QuietFacts
<1> HIDE DEF a
<1>3. Arrives(s) /\ a = Arrival(s) /\ UNCHANGED <<data, segs, gaps, held, heldBytes, pc, caller>>
      /\ next' = a.next /\ origin' = a.origin /\ (open' <=> a.open) /\ open' \in BOOLEAN
      /\ started' = TRUE
  BY <1>2 DEF QuietFeed, Arrives
<1>4. FrontierOK' /\ next' \in Nat /\ origin' \in Nat /\ fed' \in Seq(Segments)
  BY <1>3, ArrivedFrontier
<1>5. /\ flags' \subseteq flags \cup s.flags \cup {"LOSSY"}
      /\ dropped' = dropped + k /\ lost' = lost \cup Span(a.at, k)
  BY <1>2 DEF QuietFeed
<1>6. a.len \in Nat /\ a.at \in Nat /\ s.flags \subseteq {"SYN", "FIN", "RST"}
  BY <1>1, SegmentFacts DEF Landed, SegmentOK
<1>7. Span(a.at, k) \subseteq Nat
  BY <1>6, SpanFacts
<1>8. TypeOK
  BY DEF Base
<1>9. flags' \subseteq {"SYN", "FIN", "RST", "LOSSY", "TRUNCATED"} /\ lost' \subseteq Nat
      /\ dropped' \in Nat
  <2>1. /\ flags \subseteq {"SYN", "FIN", "RST", "LOSSY", "TRUNCATED"} /\ lost \subseteq Nat
        /\ dropped \in Nat
    BY <1>8 DEF TypeOK
  <2>2. flags' \subseteq {"SYN", "FIN", "RST", "LOSSY", "TRUNCATED"}
    BY <2>1, <1>5, <1>6
  <2>3. k \in Nat
    BY <1>6
  <2>4. lost' \subseteq Nat
    BY <2>1, <1>5, <1>7
  <2>5. dropped' \in Nat
    BY <2>1, <2>3, <1>5
  <2> QED
    BY <2>2, <2>4, <2>5
<1>10. TypeOK'
  BY <1>3, <1>4, <1>8, <1>9 DEF TypeOK
<1> QED
  BY <1>4, <1>10 DEF Base

LEMMA BaseHold ==
  ASSUME Base, HeldOK, NEW s \in Segments, FeedUnopened(s) \/ FeedAhead(s)
  PROVE  Base'
<1> DEFINE a == Arrival(s)
<1>1. /\ Landed(a, s) /\ HoldFeed(s, a)
      /\ StaysClosed(a) \/ OpensAtFirst(a) \/ HoldsAhead(a)
  BY HoldFeedFacts
<1> HIDE DEF a
<1>2. TypeOK /\ held \subseteq Held /\ Len(fed) \in Nat /\ heldBytes \in Nat
  BY LenProperties DEF Base, TypeOK
<1>3. a.at \in Nat /\ a.len \in Nat /\ a.t \in Nat /\ a.pkt \in Nat /\ a.len > 0
  <2>1. a.pkt = Len(fed) + 1
    BY <1>1 DEF Landed
  <2>2. a.pkt \in Nat
    BY <2>1, <1>2
  <2> QED
    BY <1>1, <2>2 DEF Landed, HoldFeed
<1>4. /\ Arrives(s) /\ a = Arrival(s) /\ held' = WithHeld(a)
      /\ heldBytes' = heldBytes + Cardinality(Unheld(a)) /\ flags' = flags \cup s.flags
      /\ UNCHANGED <<data, segs, dropped, lost>>
  BY <1>1 DEF HoldFeed
<1>5. /\ held' \subseteq Held /\ held' # {}
      /\ \A h \in held' : h \in held \/ EntryOf(h, a)
  BY <1>2, <1>3, <1>4, HoldFacts
<1>6. heldBytes' \in Nat
  <2>1. Cardinality(Unheld(a)) \in Nat
    BY <1>3, UnheldFacts
  <2> QED
    BY <2>1, <1>2, <1>4
<1>7. flags' \subseteq {"SYN", "FIN", "RST", "LOSSY", "TRUNCATED"}
  <2>1. s.flags \subseteq {"SYN", "FIN", "RST"}
    BY SegmentFacts DEF SegmentOK
  <2> QED
    BY <2>1, <1>2, <1>4 DEF TypeOK
<1>8. fed' # <<>> /\ fed' \in Seq(Segments)
  BY <1>2, <1>4, FedGrows
<1>9. pc = "idle" /\ started' = TRUE /\ gaps' = gaps
  BY <1>4 DEF Arrives
<1>10. \A h \in held' : ~open => SeqSpace - Reach <= h.at
  <2> SUFFICES ASSUME NEW h \in held', ~open PROVE SeqSpace - Reach <= h.at
    OBVIOUS
  <2>1. CASE h \in held
    BY <2>1 DEF HeldOK
  <2>2. CASE EntryOf(h, a)
    <3>1. SeqSpace - Reach <= a.at /\ a.at <= h.at /\ h.at \in Nat
      BY <2>2, <1>1 DEF Landed, EntryOf, Held
    <3>2. SeqSpace \in Nat /\ Reach \in Nat
      BY SizesAssumption
    <3> QED
      BY <3>1, <3>2, <1>3
  <2> QED
    BY <2>1, <2>2, <1>5
<1>11. Len(data') <= MaxStream /\ (~open => data' = <<>> /\ gaps' = <<>>)
  BY <1>4, <1>9 DEF Base, FrontierOK
<1>12. TypeOK' <=> /\ next' \in Nat /\ origin' \in Nat /\ open' \in BOOLEAN
                   /\ pc' \in {"idle", "drain", "relieve", "finish", "done"}
                   /\ caller' \in {"idle", "relieve", "finish"}
  BY <1>2, <1>4, <1>5, <1>6, <1>7, <1>8, <1>9 DEF TypeOK
<1>13. CASE StaysClosed(a)
  <2>1. /\ ~open /\ ~a.open /\ ~open' /\ open' \in BOOLEAN /\ next' = a.next /\ origin' = a.origin
        /\ pc' = pc /\ caller' = caller
    BY <1>13 DEF StaysClosed
  <2>2. /\ a.next = a.origin /\ a.next = FirstReference(fed'[1].t % SeqSpace) /\ a.next \in Nat
        /\ SeqSpace - Reach <= a.origin /\ a.origin <= a.next
    BY <1>1, <2>1 DEF Landed
  <2>3. TypeOK'
    BY <1>2, <1>12, <2>1, <2>2 DEF TypeOK
  <2>4. FrontierOK'
    BY <2>1, <2>2, <1>8, <1>9, <1>11 DEF FrontierOK
  <2> QED
    BY <2>3, <2>4 DEF Base
<1>14. CASE OpensAtFirst(a)
  <2>1. /\ ~open /\ open' = TRUE /\ next' = First(held').at /\ origin' = First(held').at
        /\ pc' = "drain" /\ caller' = "idle"
    BY <1>14 DEF OpensAtFirst
  <2>2. First(held') \in held'
    BY <1>5, FirstFacts
  <2>3. next' \in Nat /\ origin' = next' /\ SeqSpace - Reach <= origin' /\ origin' <= next'
    BY <2>1, <2>2, <1>5, <1>10 DEF Held
  <2>4. TypeOK'
    BY <1>12, <2>1, <2>3
  <2>5. FrontierOK'
    BY <2>1, <2>3, <1>8, <1>9, <1>11 DEF FrontierOK
  <2> QED
    BY <2>4, <2>5 DEF Base
<1>15. CASE HoldsAhead(a)
  <2>1. /\ open /\ open' = TRUE /\ next' = next /\ origin' = origin
        /\ pc' = "relieve" /\ caller' = caller
    BY <1>15 DEF HoldsAhead
  <2>2. TypeOK'
    BY <1>2, <1>12, <2>1 DEF TypeOK
  <2>3. started /\ SeqSpace - Reach <= origin /\ origin <= next
    BY <2>1 DEF Base, FrontierOK
  <2>4. FrontierOK'
    BY <2>1, <2>3, <1>8, <1>9, <1>11 DEF FrontierOK
  <2> QED
    BY <2>2, <2>4 DEF Base
<1> QED
  BY <1>1, <1>13, <1>14, <1>15

(* What append leaves is of its type.                                      *)
LEMMA AppendedTypes ==
  ASSUME NEW n \in Nat, NEW from \in Nat, NEW len \in Nat, n <= len, NEW t, NEW pkt, NEW f,
         f \subseteq {"SYN", "FIN", "RST", "LOSSY", "TRUNCATED"}, NEW d \in Nat,
         NEW l, l \subseteq Nat, Appended(n, from, len, t, pkt, f, d, l)
  PROVE  /\ data' \in Seq(Octet) /\ Len(data') <= MaxStream /\ segs' \in Seq(Segment)
         /\ flags' \subseteq {"SYN", "FIN", "RST", "LOSSY", "TRUNCATED"}
         /\ dropped' \in Nat /\ lost' \subseteq Nat /\ next' \in Nat /\ next' = from + len
<1>1. data' \in Seq(Octet) /\ Len(data') <= MaxStream /\ segs' \in Seq(Segment)
  BY DEF Appended, Grown, Described
<1>2. flags' \subseteq {"SYN", "FIN", "RST", "LOSSY", "TRUNCATED"}
  BY DEF Appended
<1>3. len - n \in Nat /\ from + n \in Nat
  OBVIOUS
<1>4. dropped' = d + (len - n) /\ lost' = l \cup Span(from + n, len - n) /\ next' = from + len
  BY DEF Appended
<1>5. Span(from + n, len - n) \subseteq Nat
  BY <1>3, SpanFacts
<1>6. dropped' \in Nat
  BY <1>3, <1>4
<1>7. lost' \subseteq Nat
  BY <1>4, <1>5
<1>8. next' \in Nat
  BY <1>4
<1> QED
  BY <1>1, <1>2, <1>4, <1>6, <1>7, <1>8

LEMMA BaseNext ==
  ASSUME Base, NEW s \in Segments, FeedNext(s)
  PROVE  Base'
<1> DEFINE a == Arrival(s)
           b == BelowOrigin(a)
           c == a.next - a.at
<1>1. Landed(a, s) /\ b \in 0 .. a.len /\ a.at <= a.next /\ a.next < a.at + a.len
  BY NextFeedFacts
<1>2. PICK n \in 0 .. (a.len - c) : NextFeed(s, a, b, n)
  BY NextFeedFacts
<1>3. /\ Arrives(s) /\ a.open /\ origin' = a.origin /\ open' = TRUE
      /\ pc' = "drain" /\ caller' = "idle" /\ UNCHANGED <<held, heldBytes>>
      /\ Appended(n, a.next, a.len - c, a.t + c, a.pkt,
                  flags \cup s.flags \cup (IF b > 0 THEN {"LOSSY"} ELSE {}),
                  dropped + b, lost \cup Span(a.at, b))
  BY <1>2 DEF NextFeed
<1> HIDE DEF a, b
<1>4. a.at \in Nat /\ a.next \in Nat /\ a.origin \in Nat /\ a.len \in Nat /\ a.t \in Nat
      /\ SeqSpace - Reach <= a.origin /\ a.origin <= a.next
  BY <1>1 DEF Landed
<1>5. c \in Nat /\ a.len - c \in Nat
  BY <1>1, <1>4
<1> HIDE DEF c
<1>6. n \in Nat /\ n <= a.len - c /\ b \in Nat
  BY <1>1, <1>4, <1>5
<1>7. TypeOK /\ dropped \in Nat /\ lost \subseteq Nat
  BY DEF Base, TypeOK
<1>8. dropped + b \in Nat
  BY <1>6, <1>7
<1>9. lost \cup Span(a.at, b) \subseteq Nat
  BY <1>4, <1>6, <1>7, SpanFacts
<1>10. flags \cup s.flags \cup (IF b > 0 THEN {"LOSSY"} ELSE {})
         \subseteq {"SYN", "FIN", "RST", "LOSSY", "TRUNCATED"}
  <2>1. s.flags \subseteq {"SYN", "FIN", "RST"}
    BY SegmentFacts DEF SegmentOK
  <2>2. flags \subseteq {"SYN", "FIN", "RST", "LOSSY", "TRUNCATED"}
    BY <1>7 DEF TypeOK
  <2> QED
    BY <2>1, <2>2
<1>11. /\ data' \in Seq(Octet) /\ Len(data') <= MaxStream /\ segs' \in Seq(Segment)
       /\ flags' \subseteq {"SYN", "FIN", "RST", "LOSSY", "TRUNCATED"}
       /\ dropped' \in Nat /\ lost' \subseteq Nat
       /\ next' \in Nat /\ next' = a.next + (a.len - c)
  <2> DEFINE f == flags \cup s.flags \cup (IF b > 0 THEN {"LOSSY"} ELSE {})
             l == lost \cup Span(a.at, b)
             m == a.len - c
  <2>1. Appended(n, a.next, m, a.t + c, a.pkt, f, dropped + b, l)
    BY <1>3
  <2>2. f \subseteq {"SYN", "FIN", "RST", "LOSSY", "TRUNCATED"} /\ l \subseteq Nat
    BY <1>9, <1>10
  <2>3. m \in Nat /\ n <= m
    BY <1>5, <1>6
  <2> HIDE DEF f, l, m
  <2>4. /\ data' \in Seq(Octet) /\ Len(data') <= MaxStream /\ segs' \in Seq(Segment)
        /\ flags' \subseteq {"SYN", "FIN", "RST", "LOSSY", "TRUNCATED"}
        /\ dropped' \in Nat /\ lost' \subseteq Nat
        /\ next' \in Nat /\ next' = a.next + m
    BY <1>4, <1>6, <1>8, <2>1, <2>2, <2>3, AppendedTypes
  <2> QED
    BY <2>4 DEF m
<1>12. fed' # <<>> /\ fed' \in Seq(Segments)
  BY <1>3, <1>7, FedGrows
<1>13. started' = TRUE /\ gaps' = gaps
  BY <1>3 DEF Arrives
<1>14. TypeOK'
  BY <1>3, <1>4, <1>7, <1>11, <1>12, <1>13 DEF TypeOK, Octet, Segment
<1>15. SeqSpace - Reach <= origin' /\ origin' <= next'
  <2>1. origin' = a.origin /\ next' = a.next + (a.len - c)
    BY <1>3, <1>11
  <2>2. a.next <= a.next + (a.len - c)
    BY <1>4, <1>5
  <2>3. a.origin <= a.next + (a.len - c)
    BY <1>4, <1>5, <2>2
  <2> QED
    BY <2>1, <2>3, <1>4
<1>16. FrontierOK'
  BY <1>3, <1>11, <1>12, <1>13, <1>15 DEF FrontierOK
<1> QED
  BY <1>14, <1>16 DEF Base

(* The octets of one entry are part of what is counted as held.            *)
LEMMA HeldCount ==
  ASSUME held \subseteq Held, HeldOK, NEW h \in held
  PROVE  /\ h.len \in Nat /\ heldBytes - h.len \in Nat
         /\ IsFiniteSet(HeldPositions \ Span(h.at, h.len))
         /\ Cardinality(HeldPositions \ Span(h.at, h.len)) = heldBytes - h.len
<1>1. h.at \in Nat /\ h.len \in Nat
  BY DEF Held
<1>2. IsFiniteSet(Span(h.at, h.len)) /\ Cardinality(Span(h.at, h.len)) = h.len
  BY <1>1, SpanFacts
<1>3. Span(h.at, h.len) \subseteq HeldPositions
  BY DEF HeldPositions
<1>4. IsFiniteSet(HeldPositions) /\ heldBytes = Cardinality(HeldPositions)
  BY DEF HeldOK
<1>5. /\ IsFiniteSet(HeldPositions \ Span(h.at, h.len))
      /\ Cardinality(HeldPositions \ Span(h.at, h.len)) =
           Cardinality(HeldPositions) - Cardinality(HeldPositions \cap Span(h.at, h.len))
  BY <1>4, FS_Difference
<1>6. HeldPositions \cap Span(h.at, h.len) = Span(h.at, h.len)
  BY <1>3
<1>7. Cardinality(HeldPositions \ Span(h.at, h.len)) \in Nat
  BY <1>5, FS_CardinalityType
<1> QED
  BY <1>1, <1>2, <1>4, <1>5, <1>6, <1>7

LEMMA BaseDrain ==
  ASSUME Base, HeldOK, Drain
  PROVE  Base'
<1> DEFINE h == First(held)
<1>1. /\ h \in held /\ h \in Held /\ h.at <= next
      /\ pc = "drain" /\ held' = held \ {h} /\ heldBytes' = heldBytes - h.len
      /\ UNCHANGED <<gaps, origin, started, open, pc, caller, fed>>
      /\ DrainsOld(h) \/ \E n \in 0 .. (h.len - (next - h.at)) : DrainsNew(h, n)
  BY DrainFacts
<1> HIDE DEF h
<1>2. TypeOK /\ held \subseteq Held /\ next \in Nat /\ dropped \in Nat /\ lost \subseteq Nat
      /\ flags \subseteq {"SYN", "FIN", "RST", "LOSSY", "TRUNCATED"} /\ origin \in Nat
  BY DEF Base, TypeOK
<1>3. heldBytes' \in Nat /\ held' \subseteq Held
  BY <1>1, <1>2, HeldCount
<1>4. open /\ started /\ fed # <<>> /\ SeqSpace - Reach <= origin /\ origin <= next
  BY <1>1 DEF Base, FrontierOK
<1>5. Len(data) <= MaxStream
  BY DEF Base, FrontierOK
<1>6. CASE DrainsOld(h)
  <2>1. UNCHANGED <<data, segs, flags, dropped, lost, next>>
    BY <1>6 DEF DrainsOld
  <2>2. TypeOK'
    BY <1>1, <1>2, <1>3, <2>1 DEF TypeOK
  <2>3. FrontierOK'
    BY <1>1, <1>4, <1>5, <2>1 DEF FrontierOK
  <2> QED
    BY <2>2, <2>3 DEF Base
<1>7. ASSUME NEW n \in 0 .. (h.len - (next - h.at)), DrainsNew(h, n) PROVE Base'
  <2> DEFINE c == next - h.at
  <2>1. h.at \in Nat /\ h.len \in Nat /\ h.t \in Nat /\ h.pkt \in Nat
    BY <1>1 DEF Held
  <2>2. next < h.at + h.len
    BY <1>7 DEF DrainsNew
  <2>3. c \in Nat /\ h.len - c \in Nat /\ n \in Nat /\ n <= h.len - c
    BY <1>1, <1>2, <1>7, <2>1, <2>2
  <2>4. Appended(n, next, h.len - c, h.t + c, h.pkt, flags, dropped, lost)
    BY <1>7 DEF DrainsNew
  <2> HIDE DEF c
  <2>5. /\ data' \in Seq(Octet) /\ Len(data') <= MaxStream /\ segs' \in Seq(Segment)
        /\ flags' \subseteq {"SYN", "FIN", "RST", "LOSSY", "TRUNCATED"}
        /\ dropped' \in Nat /\ lost' \subseteq Nat
        /\ next' \in Nat /\ next' = next + (h.len - c)
    BY <1>2, <2>1, <2>3, <2>4, AppendedTypes
  <2>6. TypeOK'
    BY <1>1, <1>2, <1>3, <2>5 DEF TypeOK, Octet, Segment
  <2>7. SeqSpace - Reach <= origin /\ origin <= next'
    BY <1>2, <1>4, <2>3, <2>5
  <2>8. FrontierOK'
    BY <1>1, <1>4, <2>5, <2>7 DEF FrontierOK
  <2> QED
    BY <2>6, <2>8 DEF Base
<1> QED
  BY <1>1, <1>6, <1>7

LEMMA BaseRest ==
  ASSUME Base, HeldOK,
         \/ DrainEnd \/ GiveUpOnFront \/ RelieveEnd \/ Finish \/ FinishEnd \/ UNCHANGED vars
  PROVE  Base'
<1>1. TypeOK /\ FrontierOK /\ held \subseteq Held /\ next \in Nat
  BY DEF Base, TypeOK
<1>2. CASE DrainEnd
  <2>1. TypeOK'
    BY <1>1, <1>2 DEF DrainEnd, TypeOK, half, holding, frontier
  <2>2. FrontierOK'
    BY <1>1, <1>2 DEF DrainEnd, TypeOK, FrontierOK, half, holding, frontier
  <2> QED
    BY <2>1, <2>2 DEF Base
<1>3. CASE GiveUpOnFront
  <2> DEFINE f == First(held).at
  <2>1. /\ pc \in {"relieve", "finish"} /\ held # {} /\ pc' = "drain" /\ caller' = pc
        /\ IF f > next THEN gaps' = Append(gaps, Hole(f)) /\ next' = f
           ELSE UNCHANGED <<gaps, next>>
        /\ UNCHANGED <<data, segs, flags, dropped, lost, held, heldBytes, origin, started,
                       open, fed>>
    BY <1>3 DEF GiveUpOnFront, holding
  <2>2. f \in Nat
    BY <1>1, <2>1, FirstFacts DEF Held
  <2> HIDE DEF f
  <2>3. gaps' \in Seq([at : Nat, len : Nat \ {0}, from : Nat]) /\ next' \in Nat /\ next <= next'
    <3>1. gaps \in Seq([at : Nat, len : Nat \ {0}, from : Nat]) /\ Len(data) \in Nat
      BY <1>1, LenProperties DEF TypeOK
    <3>2. CASE f > next
      <4>1. Hole(f) \in [at : Nat, len : Nat \ {0}, from : Nat]
        BY <3>1, <3>2, <1>1, <2>2 DEF Hole
      <4>2. Append(gaps, Hole(f)) \in Seq([at : Nat, len : Nat \ {0}, from : Nat])
        BY <4>1, <3>1, AppendProperties
      <4>3. next' \in Nat /\ next <= next'
        BY <3>2, <1>1, <2>1, <2>2
      <4> QED
        BY <4>2, <4>3, <2>1, <3>2
    <3>3. CASE ~ (f > next)
      BY <3>1, <3>3, <1>1, <2>1
    <3> QED
      BY <3>2, <3>3
  <2>4. TypeOK'
    BY <1>1, <2>1, <2>3 DEF TypeOK
  <2>5. /\ open /\ started /\ fed # <<>> /\ SeqSpace - Reach <= origin /\ origin <= next
        /\ Len(data) <= MaxStream
    BY <1>1, <2>1 DEF FrontierOK
  <2>6. origin \in Nat /\ origin <= next'
    BY <1>1, <2>3, <2>5 DEF TypeOK
  <2>7. FrontierOK'
    BY <2>1, <2>5, <2>6 DEF FrontierOK
  <2> QED
    BY <2>4, <2>7 DEF Base
<1>4. CASE RelieveEnd
  <2>1. TypeOK'
    BY <1>1, <1>4 DEF RelieveEnd, TypeOK, half, holding, frontier
  <2>2. FrontierOK'
    BY <1>1, <1>4 DEF RelieveEnd, FrontierOK, half, holding, frontier
  <2> QED
    BY <2>1, <2>2 DEF Base
<1>5. CASE Finish
  <2>1. pc = "idle" /\ pc' = "finish"
        /\ UNCHANGED <<data, segs, gaps, flags, dropped, lost, held, heldBytes, caller, fed>>
    BY <1>5 DEF Finish, half, holding
  <2>2. CASE ~open /\ held # {}
    <3>1. /\ next' = First(held).at /\ origin' = First(held).at /\ open' = TRUE
          /\ started' = started
      BY <1>5, <2>2 DEF Finish
    <3>2. First(held) \in held
      BY <1>1, <2>2, FirstFacts
    <3>3. next' \in Nat /\ origin' = next' /\ SeqSpace - Reach <= origin'
      BY <1>1, <3>1, <3>2 DEF Held, HeldOK
    <3>4. fed # <<>>
      <4>1. First(held).pkt \in 1 .. Len(fed)
        BY <3>2 DEF HeldOK
      <4>2. Len(fed) # 0
        BY <4>1
      <4> QED
        BY <4>2, EmptySeq
    <3>5. TypeOK'
      BY <1>1, <2>1, <3>1, <3>3 DEF TypeOK
    <3>6. started /\ (started' <=> fed' # <<>>) /\ Len(data') <= MaxStream
      BY <1>1, <2>1, <3>1, <3>4 DEF FrontierOK
    <3>7. FrontierOK'
      BY <2>1, <3>1, <3>3, <3>6 DEF FrontierOK
    <3> QED
      BY <3>5, <3>7 DEF Base
  <2>3. CASE ~ (~open /\ held # {})
    <3>1. UNCHANGED <<next, origin, started, open>>
      BY <1>5, <2>3 DEF Finish, frontier
    <3>2. TypeOK'
      BY <1>1, <2>1, <3>1 DEF TypeOK
    <3>3. FrontierOK'
      BY <1>1, <2>1, <2>3, <3>1 DEF FrontierOK
    <3> QED
      BY <3>2, <3>3 DEF Base
  <2> QED
    BY <2>2, <2>3
<1>6. CASE FinishEnd
  <2>1. TypeOK'
    BY <1>1, <1>6 DEF FinishEnd, TypeOK, half, holding, frontier
  <2>2. FrontierOK'
    BY <1>1, <1>6 DEF FinishEnd, FrontierOK, half, holding, frontier
  <2> QED
    BY <2>1, <2>2 DEF Base
<1>7. CASE UNCHANGED vars
  <2>1. TypeOK'
    BY <1>1, <1>7 DEF vars, TypeOK, half, holding, frontier
  <2>2. FrontierOK'
    BY <1>1, <1>7 DEF vars, FrontierOK, half, holding, frontier
  <2> QED
    BY <2>1, <2>2 DEF Base
<1> QED
  BY <1>2, <1>3, <1>4, <1>5, <1>6, <1>7
-----------------------------------------------------------------------------
(* HeldOK is kept.                                                         *)

LEMMA HeldSameShift ==
  ASSUME Base, HeldOK, NEW s \in Segments, Arrives(s), held # {}
  PROVE  Shift' = Shift
<1>1. PICK h \in held : h.pkt \in 1 .. Len(fed)
  BY DEF HeldOK
<1>2. fed # <<>>
  BY <1>1, EmptySeq
<1> QED
  BY <1>2, FedGrows DEF Base

(* A feed that leaves `held` alone.                                        *)
LEMMA HeldArrives ==
  ASSUME Base, HeldOK, NEW s \in Segments, Arrives(s), UNCHANGED <<held, heldBytes>>,
         \/ pc' \notin {"idle", "relieve"}
         \/ UNCHANGED data /\ (open => next' = next)
  PROVE  HeldOK'
<1>1. held # {} => Shift' = Shift
  BY HeldSameShift
<1>2. Len(fed) \in Nat /\ Len(fed') = Len(fed) + 1
  BY FedGrows DEF Base
<1>3. \A h \in held : h.len > 0 /\ SeqSpace - Reach <= h.at /\ h.at = h.t + Shift'
  BY <1>1 DEF HeldOK
<1>4. \A h \in held : h.pkt \in 1 .. Len(fed')
  BY <1>2 DEF HeldOK
<1>5. /\ HeldApart(held)
      /\ IsFiniteSet(HeldPositions) /\ heldBytes = Cardinality(HeldPositions)
  BY DEF HeldOK
<1>6. HeldPositions' = HeldPositions
  BY DEF HeldPositions
<1>7. pc' \in {"idle", "relieve"} /\ data' # <<>> => \A h \in held : h.at > next'
  <2> HAVE pc' \in {"idle", "relieve"} /\ data' # <<>>
  <2>1. data # <<>> /\ pc = "idle"
    BY DEF Arrives
  <2>2. open
    BY <2>1 DEF Base, FrontierOK
  <2> QED
    BY <2>1, <2>2 DEF HeldOK
<1> QED
  BY <1>3, <1>4, <1>5, <1>6, <1>7 DEF HeldOK

LEMMA HeldQuiet ==
  ASSUME Base, HeldOK, NEW s \in Segments, FeedEmpty(s) \/ FeedTooFar(s) \/ FeedOld(s)
  PROVE  HeldOK'
<1>1. PICK k \in 0 .. Arrival(s).len : QuietFeed(s, Arrival(s), k)
  BY QuietFacts
<1>2. open => Arrival(s).next = next
  BY QuietFacts DEF Landed
<1>3. /\ Arrives(s) /\ UNCHANGED <<held, heldBytes>> /\ data' = data
      /\ open => next' = next
  BY <1>1, <1>2 DEF QuietFeed
<1> QED
  BY <1>3, HeldArrives

LEMMA HeldHold ==
  ASSUME Base, HeldOK, NEW s \in Segments, FeedUnopened(s) \/ FeedAhead(s)
  PROVE  HeldOK'
<1> DEFINE a == Arrival(s)
<1>1. /\ Landed(a, s) /\ HoldFeed(s, a)
      /\ StaysClosed(a) \/ OpensAtFirst(a) \/ HoldsAhead(a)
  BY HoldFeedFacts
<1> HIDE DEF a
<1>2. TypeOK /\ held \subseteq Held /\ Len(fed) \in Nat /\ heldBytes \in Nat /\ next \in Nat
  BY LenProperties DEF Base, TypeOK
<1>3. a.at \in Nat /\ a.len \in Nat /\ a.t \in Nat /\ a.next \in Nat
      /\ a.pkt = Len(fed) + 1 /\ a.at = a.t + Shift'
  BY <1>1 DEF Landed
<1>4. a.pkt \in Nat
  BY <1>2, <1>3
<1>5. /\ Arrives(s) /\ held' = WithHeld(a) /\ data' = data
      /\ heldBytes' = heldBytes + Cardinality(Unheld(a))
  BY <1>1 DEF HoldFeed
<1>6. Shift' \in Int /\ Len(fed') = Len(fed) + 1
  BY <1>2, <1>5, FedGrows
<1>7. SeqSpace - Reach <= a.at
  <2>1. CASE ~open
    BY <1>1, <2>1 DEF Landed
  <2>2. CASE open
    <3>1. a.next < a.at
      BY <1>1, <2>2 DEF StaysClosed, OpensAtFirst, HoldsAhead
    <3>2. SeqSpace - Reach <= a.origin /\ a.origin <= a.next /\ a.origin \in Nat
      BY <1>1 DEF Landed
    <3>3. SeqSpace \in Nat /\ Reach \in Nat
      BY SizesAssumption
    <3> QED
      BY <3>1, <3>2, <3>3, <1>3
  <2> QED
    BY <2>1, <2>2
<1>8. \A h \in held' : h \in held \/ EntryOf(h, a)
  BY <1>2, <1>3, <1>4, <1>5, HoldFacts
<1>9. ASSUME NEW h \in held' PROVE h.len > 0 /\ SeqSpace - Reach <= h.at /\ h.at = h.t + Shift'
  <2>1. CASE h \in held
    BY <2>1, <1>5, HeldSameShift DEF HeldOK
  <2>2. CASE EntryOf(h, a)
    <3>1. h.len > 0 /\ h.t = a.t + (h.at - a.at) /\ a.at <= h.at /\ h.at \in Nat
      BY <2>2 DEF EntryOf, Held
    <3>2. SeqSpace \in Nat /\ Reach \in Nat
      BY SizesAssumption
    <3>3. SeqSpace - Reach <= h.at
      BY <3>1, <3>2, <1>3, <1>7
    <3> QED
      BY <3>1, <3>3, <1>3, <1>6
  <2> QED
    BY <2>1, <2>2, <1>8
<1>10. ASSUME NEW h \in held' PROVE h.pkt \in 1 .. Len(fed')
  <2>1. CASE h \in held
    BY <2>1, <1>2, <1>6 DEF HeldOK
  <2>2. CASE EntryOf(h, a)
    BY <2>2, <1>2, <1>3, <1>6 DEF EntryOf
  <2> QED
    BY <2>1, <2>2, <1>8
<1>11. HeldApart(held')
  BY <1>2, <1>3, <1>4, <1>5, HoldFacts DEF HeldOK
<1>12. IsFiniteSet(HeldPositions') /\ heldBytes' = Cardinality(HeldPositions')
  <2>1. HeldPositions' = HeldPositions \cup Unheld(a)
    <3>1. HeldPositions' = Positions(held')
      BY DEF HeldPositions, Positions
    <3> QED
      BY <3>1, <1>2, <1>3, <1>4, <1>5, HoldFacts
  <2>2. IsFiniteSet(HeldPositions) /\ heldBytes = Cardinality(HeldPositions)
    BY DEF HeldOK
  <2>3. IsFiniteSet(Unheld(a)) /\ Cardinality(Unheld(a)) \in Nat
    BY <1>3, UnheldFacts
  <2>4. HeldPositions \cap Unheld(a) = {}
    BY DEF Unheld
  <2>5. /\ IsFiniteSet(HeldPositions \cup Unheld(a))
        /\ Cardinality(HeldPositions \cup Unheld(a)) =
             Cardinality(HeldPositions) + Cardinality(Unheld(a))
               - Cardinality(HeldPositions \cap Unheld(a))
    BY <2>2, <2>3, FS_Union
  <2>6. Cardinality(HeldPositions \cap Unheld(a)) = 0
    BY <2>4, FS_EmptySet
  <2>7. Cardinality(HeldPositions \cup Unheld(a)) = heldBytes + Cardinality(Unheld(a))
    BY <1>2, <2>2, <2>3, <2>5, <2>6
  <2> QED
    BY <1>5, <2>1, <2>5, <2>7
<1>13. ASSUME pc' \in {"idle", "relieve"}, data' # <<>>, NEW h \in held' PROVE h.at > next'
  <2>1. open
    BY <1>5, <1>13 DEF Base, FrontierOK
  <2>2. a.next < a.at /\ next' = next /\ a.next = next
    BY <1>1, <2>1 DEF StaysClosed, OpensAtFirst, HoldsAhead, Landed
  <2>3. CASE h \in held
    BY <2>2, <2>3, <1>5, <1>13 DEF HeldOK, Arrives
  <2>4. CASE EntryOf(h, a)
    <3>1. a.at <= h.at /\ h.at \in Nat
      BY <2>4 DEF EntryOf, Held
    <3> QED
      BY <3>1, <2>2, <1>2, <1>3
  <2> QED
    BY <2>3, <2>4, <1>8
<1> QED
  BY <1>9, <1>10, <1>11, <1>12, <1>13 DEF HeldOK

LEMMA HeldDrain ==
  ASSUME Base, HeldOK, Drain
  PROVE  HeldOK'
<1> DEFINE h == First(held)
<1>1. /\ h \in held /\ pc = "drain" /\ held' = held \ {h} /\ heldBytes' = heldBytes - h.len
      /\ UNCHANGED <<pc, fed>>
  BY DrainFacts
<1> HIDE DEF h
<1>2. held \subseteq Held
  BY DEF Base, TypeOK
<1>3. Shift' = Shift
  BY <1>1 DEF Shift
<1>4. HeldPositions' = Positions(held')
  BY DEF HeldPositions, Positions
<1>5. HeldPositions' = HeldPositions \ Span(h.at, h.len) /\ HeldApart(held')
  BY <1>1, <1>2, <1>4, TakeFacts DEF HeldOK
<1>6. IsFiniteSet(HeldPositions') /\ heldBytes' = Cardinality(HeldPositions')
  BY <1>1, <1>2, <1>5, HeldCount
<1>7. \A g \in held' : g.len > 0 /\ SeqSpace - Reach <= g.at /\ g.at = g.t + Shift'
  BY <1>1, <1>3 DEF HeldOK
<1>8. \A g \in held' : g.pkt \in 1 .. Len(fed')
  BY <1>1 DEF HeldOK
<1>9. pc' \notin {"idle", "relieve"}
  BY <1>1
<1> QED
  BY <1>5, <1>6, <1>7, <1>8, <1>9 DEF HeldOK

(* The other steps leave `held`, `data` and `fed` alone.                   *)
LEMMA HeldRest ==
  ASSUME Base, HeldOK,
         \/ DrainEnd \/ GiveUpOnFront \/ RelieveEnd \/ Finish \/ FinishEnd \/ UNCHANGED vars
  PROVE  HeldOK'
<1>1. UNCHANGED <<held, heldBytes, data, fed>>
  BY DEF DrainEnd, GiveUpOnFront, RelieveEnd, Finish, FinishEnd, vars, half, holding, frontier
<1>2. Shift' = Shift /\ HeldPositions' = HeldPositions
  BY <1>1 DEF Shift, HeldPositions
<1>3. pc' \in {"idle", "relieve"} /\ data' # <<>> => \A h \in held : h.at > next'
  <2>1. CASE DrainEnd
    BY <2>1 DEF DrainEnd, frontier
  <2>2. CASE GiveUpOnFront \/ Finish \/ FinishEnd
    BY <2>2 DEF GiveUpOnFront, Finish, FinishEnd
  <2>3. CASE RelieveEnd
    BY <2>3, <1>1 DEF RelieveEnd, HeldOK, frontier
  <2>4. CASE UNCHANGED vars
    BY <2>4, <1>1 DEF vars, HeldOK, frontier
  <2> QED
    BY <2>1, <2>2, <2>3, <2>4
<1> QED
  BY <1>1, <1>2, <1>3 DEF HeldOK

LEMMA HeldNext ==
  ASSUME Base, HeldOK, NEW s \in Segments, FeedNext(s)
  PROVE  HeldOK'
<1>1. Arrives(s) /\ UNCHANGED <<held, heldBytes>> /\ pc' \notin {"idle", "relieve"}
  BY DEF FeedNext, holding
<1> QED
  BY <1>1, HeldArrives
-----------------------------------------------------------------------------
(* DataOK, GapsOK and SegsOK are kept.                                     *)

LEMMA EmptyData ==
  ASSUME data = <<>>
  PROVE  /\ Len(data) = 0 /\ Delivered = {}
         /\ IsFiniteSet(Delivered) /\ Cardinality(Delivered) = 0
<1>1. Len(data) = 0
  OBVIOUS
<1>2. Delivered = {}
  BY <1>1 DEF Delivered
<1> QED
  BY <1>1, <1>2, FS_EmptySet

LEMMA EmptyGaps ==
  ASSUME gaps = <<>>
  PROVE  Len(gaps) = 0 /\ GapPositions = {}
<1>1. Len(gaps) = 0
  OBVIOUS
<1> QED
  BY <1>1 DEF GapPositions

(* A step that delivers nothing and names no gap.                          *)
LEMMA DataKept ==
  ASSUME TypeOK, DataOK, GapsOK, SegsOK, UNCHANGED <<data, segs, gaps>>, next' \in Nat,
         \/ data = <<>> /\ gaps = <<>>
         \/ next <= next' /\ Shift' = Shift
  PROVE  DataOK' /\ GapsOK' /\ SegsOK'
<1>1. Delivered' = Delivered /\ GapPositions' = GapPositions
  BY DEF Delivered, GapPositions
<1>2. SegsOK'
  BY DEF SegsOK
<1>3. CASE data = <<>> /\ gaps = <<>>
  <2>1. Len(data) = 0 /\ Len(gaps) = 0
    BY <1>3
  <2>2. DataOK'
    BY <1>1, <2>1 DEF DataOK
  <2>3. GapsOK'
    BY <1>1, <2>1 DEF GapsOK
  <2> QED
    BY <1>2, <2>2, <2>3
<1>4. CASE next <= next' /\ Shift' = Shift
  <2>1. next \in Nat
    BY DEF TypeOK
  <2>2. \A i \in 1 .. Len(data) : data[i].at \in Nat
    <3>1. data \in Seq([at : Nat, t : Nat, pkt : Nat])
      BY DEF TypeOK
    <3>2. \A i \in 1 .. Len(data) : data[i] \in [at : Nat, t : Nat, pkt : Nat]
      BY <3>1, ElementOfSeq
    <3> QED
      BY <3>2
  <2>3. \A i \in 1 .. Len(gaps) : gaps[i].from + gaps[i].len \in Nat
    <3>1. gaps \in Seq([at : Nat, len : Nat \ {0}, from : Nat])
      BY DEF TypeOK
    <3>2. \A i \in 1 .. Len(gaps) : gaps[i] \in [at : Nat, len : Nat \ {0}, from : Nat]
      BY <3>1, ElementOfSeq
    <3> QED
      BY <3>2
  <2>4. \A i \in 1 .. Len(data) : data[i].at < next' /\ data[i].at = data[i].t + Shift'
    BY <1>4, <2>1, <2>2 DEF DataOK
  <2>5. \A i \in 1 .. Len(gaps) : gaps[i].from + gaps[i].len <= next'
    BY <1>4, <2>1, <2>3 DEF GapsOK
  <2>6. DataOK'
    BY <1>1, <2>4 DEF DataOK
  <2>7. GapsOK'
    BY <1>1, <2>5 DEF GapsOK
  <2> QED
    BY <1>2, <2>6, <2>7
<1> QED
  BY <1>3, <1>4

(* append describes what it delivers.                                      *)
LEMMA SegsAppended ==
  ASSUME TypeOK, SegsOK, NEW n \in Nat, NEW from \in Nat, NEW t \in Nat, NEW pkt \in Nat,
         Grown(n, from, t, pkt), Described(n, pkt)
  PROVE  SegsOK'
<1> DEFINE k == Len(segs)
<1>1. /\ data \in Seq(Octet) /\ segs \in Seq(Segment)
      /\ Len(data) \in Nat /\ k \in Nat /\ Len(data') = Len(data) + n
  BY LenProperties DEF TypeOK, Octet, Segment, Grown
<1>2. \A i \in 1 .. k : segs[i] \in Segment
  BY <1>1, ElementOfSeq
<1>3. \A i \in 1 .. k : segs[i].at \in Nat /\ segs[i].len \in Nat /\ segs[i].pkt \in Nat
                        /\ segs[i].len > 0
  BY <1>2 DEF Segment
<1>4. \A i \in 1 .. Len(data) : data'[i] = data[i]
  BY DEF Grown
<1>5. \A i \in 1 .. n : data'[Len(data) + i].pkt = pkt
  <2> TAKE i \in 1 .. n
  <2>1. data'[Len(data) + i] = [at |-> from + i - 1, t |-> t + i - 1, pkt |-> pkt]
    BY DEF Grown
  <2> QED
    BY <2>1
<1>6. CASE n = 0 /\ segs' = segs
  <2>1. Len(data') = Len(data)
    BY <1>1, <1>6
  <2>2. data' = data
    <3>1. data' \in Seq(Octet)
      BY DEF Grown
    <3> QED
      BY <1>1, <1>4, <2>1, <3>1, SeqEqual
  <2> QED
    BY <1>6, <2>2 DEF SegsOK
<1>7. \A o \in 0 .. (Len(data) - 1) : data'[o + 1] = data[o + 1]
  <2> TAKE o \in 0 .. (Len(data) - 1)
  <2>1. o + 1 \in 1 .. Len(data)
    BY <1>1
  <2> QED
    BY <2>1, <1>4
<1>8. \A o \in Len(data) .. (Len(data) + n - 1) : data'[o + 1].pkt = pkt
  <2> TAKE o \in Len(data) .. (Len(data) + n - 1)
  <2>1. PICK i \in 1 .. n : Len(data) + i = o + 1
    <3>1. o + 1 - Len(data) \in 1 .. n /\ Len(data) + (o + 1 - Len(data)) = o + 1
      BY <1>1
    <3> QED
      BY <3>1
  <2> QED
    BY <2>1, <1>5
<1>9. /\ \A i \in 1 .. k : segs[i].at = IF i = 1 THEN 0 ELSE segs[i - 1].at + segs[i - 1].len
      /\ \A i \in 1 .. k : segs[i].at + segs[i].len <= Len(data)
      /\ Len(data) = IF segs = <<>> THEN 0 ELSE segs[k].at + segs[k].len
      /\ \A i \in 1 .. k : \A o \in Span(segs[i].at, segs[i].len) : data[o + 1].pkt = segs[i].pkt
  BY DEF SegsOK
<1>10. segs = <<>> <=> k = 0
  BY <1>1, EmptySeq
<1>11. \A i \in 1 .. k : \A o \in Span(segs[i].at, segs[i].len) : data'[o + 1].pkt = segs[i].pkt
  <2> TAKE i \in 1 .. k
  <2> TAKE o \in Span(segs[i].at, segs[i].len)
  <2>1. segs[i].at \in Nat /\ segs[i].len \in Nat
    BY <1>3
  <2>2. segs[i].at + segs[i].len <= Len(data)
    BY <1>9
  <2>3. o \in 0 .. (Len(data) - 1)
    <3> DEFINE x == segs[i].at
               y == segs[i].len
    <3>1. x \in Nat /\ y \in Nat /\ x + y <= Len(data) /\ o \in Span(x, y)
      BY <2>1, <2>2
    <3> HIDE DEF x, y
    <3> QED
      BY <3>1, <1>1 DEF Span
  <2> QED
    BY <2>3, <1>7, <1>9
<1>12. ASSUME NEW m \in Nat, Len(segs') = m
       PROVE  segs' = <<>> <=> m = 0
  <2>1. segs' \in Seq(Segment)
    BY DEF Described
  <2> QED
    BY <2>1, <1>12, EmptySeq
<1> HIDE DEF k
<1>13. ASSUME k > 0, segs[k].pkt = pkt, segs[k].at + segs[k].len = Len(data), Len(segs') = k,
              \A i \in 1 .. (k - 1) : segs'[i] = segs[i],
              segs'[k].at = segs[k].at, segs'[k].len = segs[k].len + n, segs'[k].pkt = pkt
       PROVE  SegsOK'
  <2>1. k \in 1 .. k /\ segs' # <<>>
    BY <1>1, <1>12, <1>13
  <2>2. ASSUME NEW i \in 1 .. k
        PROVE  /\ segs'[i].at = IF i = 1 THEN 0 ELSE segs'[i - 1].at + segs'[i - 1].len
               /\ segs'[i].at + segs'[i].len <= Len(data')
               /\ \A o \in Span(segs'[i].at, segs'[i].len) : data'[o + 1].pkt = segs'[i].pkt
    <3>1. i # 1 => segs'[i - 1] = segs[i - 1]
      <4>1. i # 1 => i - 1 \in 1 .. (k - 1)
        BY <1>1
      <4> QED
        BY <4>1, <1>13
    <3>2. segs'[i].at = segs[i].at
      BY <1>1, <1>13
    <3>3. segs'[i].at = IF i = 1 THEN 0 ELSE segs'[i - 1].at + segs'[i - 1].len
      BY <3>1, <3>2, <1>9
    <3>4. CASE i # k
      <4>1. segs'[i] = segs[i]
        BY <3>4, <1>1, <1>13
      <4>2. segs[i].at + segs[i].len <= Len(data')
        <5>1. segs[i].at \in Nat /\ segs[i].len \in Nat
          BY <1>3
        <5> DEFINE z == segs[i].at + segs[i].len
        <5>2. z \in Nat
          BY <5>1
        <5>3. z <= Len(data)
          BY <1>9
        <5> HIDE DEF z
        <5>4. z <= Len(data')
          BY <5>2, <5>3, <1>1
        <5> QED
          BY <5>4 DEF z
      <4> QED
        BY <3>3, <4>1, <4>2, <1>11
    <3>5. CASE i = k
      <4>1. segs[k].at \in Nat /\ segs[k].len \in Nat
        BY <2>1, <1>3
      <4> DEFINE x == segs[k].at
                 y == segs[k].len
      <4>2. x + y = Len(data) /\ segs'[k].at = x /\ segs'[k].len = y + n
        BY <1>13
      <4> HIDE DEF x, y
      <4>3. x \in Nat /\ y \in Nat
        BY <4>1 DEF x, y
      <4>4. segs'[k].at + segs'[k].len = Len(data')
        BY <4>2, <4>3, <1>1
      <4>5. ASSUME NEW o \in Span(segs'[k].at, segs'[k].len) PROVE data'[o + 1].pkt = pkt
        <5>1. o \in Span(x, y + n)
          BY <4>2
        <5>2. o \in Span(x, y) \/ o \in Len(data) .. (Len(data) + n - 1)
          BY <4>2, <4>3, <5>1, <1>1 DEF Span
        <5>3. o \in Span(segs[k].at, segs[k].len) \/ o \in Len(data) .. (Len(data) + n - 1)
          BY <5>2 DEF x, y
        <5> QED
          BY <5>3, <2>1, <1>8, <1>11, <1>13
      <4>6. Len(data') <= Len(data')
        BY <1>1
      <4> QED
        BY <3>3, <3>5, <4>4, <4>5, <4>6, <1>13
    <3> QED
      BY <3>4, <3>5
  <2>3. Len(data') = segs'[k].at + segs'[k].len
    <3> DEFINE x == segs[k].at
               y == segs[k].len
    <3>1. x \in Nat /\ y \in Nat
      BY <2>1, <1>3
    <3>2. x + y = Len(data)
      BY <1>13
    <3>3. segs'[k].at = x /\ segs'[k].len = y + n
      BY <1>13
    <3>4. Len(data') = Len(data) + n
      BY <1>1
    <3> HIDE DEF x, y
    <3>5. Len(data') = x + (y + n)
      BY <3>1, <3>2, <3>4
    <3> QED
      BY <3>5, <3>3
  <2> QED
    BY <2>1, <2>2, <2>3, <1>13 DEF SegsOK
<1>14. ASSUME n > 0, Len(segs') = k + 1, \A i \in 1 .. k : segs'[i] = segs[i],
              segs'[k + 1] = [at |-> Len(data), len |-> n, pkt |-> pkt]
       PROVE  SegsOK'
  <2>1. /\ segs'[k + 1].at = Len(data) /\ segs'[k + 1].len = n /\ segs'[k + 1].pkt = pkt
        /\ segs' # <<>> /\ k + 1 \in Nat
    BY <1>1, <1>12, <1>14
  <2>2. ASSUME NEW i \in 1 .. (k + 1)
        PROVE  /\ segs'[i].at = IF i = 1 THEN 0 ELSE segs'[i - 1].at + segs'[i - 1].len
               /\ segs'[i].at + segs'[i].len <= Len(data')
               /\ \A o \in Span(segs'[i].at, segs'[i].len) : data'[o + 1].pkt = segs'[i].pkt
    <3>1. i # 1 => segs'[i - 1] = segs[i - 1]
      BY <1>1, <1>14
    <3>2. CASE i # k + 1
      <4>1. i \in 1 .. k
        BY <3>2, <1>1
      <4>2. segs'[i] = segs[i]
        BY <4>1, <1>14
      <4>3. segs[i].at + segs[i].len <= Len(data')
        <5>1. segs[i].at \in Nat /\ segs[i].len \in Nat
          BY <4>1, <1>3
        <5>2. segs[i].at + segs[i].len <= Len(data)
          BY <4>1, <1>9
        <5>3. Len(data) + n = Len(data')
          BY <1>1
        <5> DEFINE z == segs[i].at + segs[i].len
        <5>4. z \in Nat
          BY <5>1
        <5>5. z <= Len(data)
          BY <5>2
        <5> HIDE DEF z
        <5>6. z <= Len(data')
          BY <5>3, <5>4, <5>5, <1>1
        <5> QED
          BY <5>6 DEF z
      <4>4. segs[i].at = IF i = 1 THEN 0 ELSE segs[i - 1].at + segs[i - 1].len
        BY <4>1, <1>9
      <4>5. \A o \in Span(segs[i].at, segs[i].len) : data'[o + 1].pkt = segs[i].pkt
        BY <4>1, <1>11
      <4> QED
        BY <3>1, <4>2, <4>3, <4>4, <4>5
    <3>3. CASE i = k + 1
      <4>1. segs'[i].at = IF i = 1 THEN 0 ELSE segs'[i - 1].at + segs'[i - 1].len
        <5>1. CASE k = 0
          BY <5>1, <2>1, <3>3, <1>9, <1>10
        <5>2. CASE k # 0
          <6>1. i - 1 = k /\ i # 1
            BY <5>2, <3>3, <1>1
          <6> QED
            BY <6>1, <5>2, <2>1, <3>1, <3>3, <1>9, <1>10
        <5> QED
          BY <5>1, <5>2
      <4>2. segs'[i].at + segs'[i].len <= Len(data')
        BY <2>1, <3>3, <1>1
      <4>3. \A o \in Span(segs'[i].at, segs'[i].len) : data'[o + 1].pkt = segs'[i].pkt
        BY <2>1, <3>3, <1>8 DEF Span
      <4> QED
        BY <4>1, <4>2, <4>3
    <3> QED
      BY <3>2, <3>3
  <2>3. Len(data') = segs'[k + 1].at + segs'[k + 1].len
    BY <2>1, <1>1
  <2> QED
    BY <2>1, <2>2, <2>3, <1>14 DEF SegsOK
<1> QED
  BY <1>6, <1>13, <1>14 DEF Described, k

(* What is appended at `from`, truly t, lies at the frontier.              *)
AtFrontier(from, t) ==
  /\ from = t + Shift' /\ Shift' \in Int /\ gaps' = gaps
  /\ \/ data = <<>> /\ gaps = <<>>
     \/ from = next /\ Shift' = Shift

(* append keeps the data in order, at its true positions, past the gaps.   *)
LEMMA DataAppended ==
  ASSUME TypeOK, DataOK, GapsOK,
         NEW n \in Nat, NEW from \in Nat, NEW len \in Nat, n <= len,
         NEW t \in Nat, NEW pkt \in Nat, NEW f, NEW d, NEW l,
         Appended(n, from, len, t, pkt, f, d, l), AtFrontier(from, t)
  PROVE  DataOK' /\ GapsOK'
<1>1. /\ data \in Seq(Octet) /\ Len(data) \in Nat /\ next \in Nat
      /\ Len(data') = Len(data) + n /\ next' = from + len /\ Grown(n, from, t, pkt)
  BY LenProperties DEF TypeOK, Octet, Appended, Grown
<1>2. Delivered' = Delivered \cup Span(from, n)
  BY <1>1, DeliveredGrows
<1>3. \A i \in 1 .. Len(data) : data[i].at < from /\ data[i].at = data[i].t + Shift'
  <2>1. CASE data = <<>>
    BY <2>1, <1>1, EmptyData
  <2>2. CASE from = next /\ Shift' = Shift
    BY <2>2, <1>1 DEF DataOK
  <2> QED
    BY <2>1, <2>2 DEF AtFrontier
<1>4. \A i \in 1 .. Len(data) : data[i].at \in Nat
  <2>1. \A i \in 1 .. Len(data) : data[i] \in Octet
    BY <1>1, ElementOfSeq
  <2> QED
    BY <2>1 DEF Octet
<1>5. ASSUME NEW j \in 1 .. Len(data'), ~ (j \in 1 .. Len(data))
      PROVE  \E i \in 1 .. n : j = Len(data) + i /\ data'[j].at = from + i - 1
                               /\ data'[j].t = t + i - 1
  <2>1. PICK i \in 1 .. n : j = Len(data) + i
    <3>1. j - Len(data) \in 1 .. n /\ j = Len(data) + (j - Len(data))
      BY <1>1, <1>5
    <3> QED
      BY <3>1
  <2>2. data'[j] = [at |-> from + i - 1, t |-> t + i - 1, pkt |-> pkt]
    BY <1>1, <2>1 DEF Grown
  <2>3. j = Len(data) + i /\ data'[j].at = from + i - 1 /\ data'[j].t = t + i - 1
    BY <2>1, <2>2
  <2> QED
    BY <2>3, Zenon
<1>6. \A i \in 1 .. Len(data) : data'[i] = data[i]
  BY <1>1 DEF Grown
<1>7. ASSUME NEW j \in 1 .. Len(data')
      PROVE  data'[j].at < next' /\ data'[j].at = data'[j].t + Shift'
  <2>1. CASE j \in 1 .. Len(data)
    <3>1. data'[j] = data[j] /\ data[j].at \in Nat /\ data[j].at < from
          /\ data[j].at = data[j].t + Shift'
      BY <2>1, <1>3, <1>4, <1>6
    <3> QED
      BY <3>1, <1>1
  <2>2. CASE ~ (j \in 1 .. Len(data))
    <3>1. PICK i \in 1 .. n : data'[j].at = from + i - 1 /\ data'[j].t = t + i - 1
      BY <2>2, <1>5
    <3>2. from + i - 1 < from + len
      OBVIOUS
    <3>3. from + i - 1 = (t + i - 1) + Shift'
      BY DEF AtFrontier
    <3> QED
      BY <3>1, <3>2, <3>3, <1>1
  <2> QED
    BY <2>1, <2>2
<1>8. ASSUME NEW i \in 1 .. Len(data'), NEW j \in 1 .. Len(data'), i < j
      PROVE  data'[i].at < data'[j].at
  <2>1. CASE j \in 1 .. Len(data)
    <3>1. i \in 1 .. Len(data)
      BY <2>1, <1>1, <1>8
    <3> QED
      BY <2>1, <3>1, <1>6, <1>8 DEF DataOK
  <2>2. CASE ~ (j \in 1 .. Len(data))
    <3>1. PICK y \in 1 .. n : j = Len(data) + y /\ data'[j].at = from + y - 1
      BY <2>2, <1>5
    <3>2. CASE i \in 1 .. Len(data)
      <4>1. data'[i] = data[i] /\ data[i].at \in Nat /\ data[i].at < from
        BY <3>2, <1>3, <1>4, <1>6
      <4> QED
        BY <3>1, <4>1
    <3>3. CASE ~ (i \in 1 .. Len(data))
      <4>1. PICK x \in 1 .. n : i = Len(data) + x /\ data'[i].at = from + x - 1
        BY <3>3, <1>5
      <4>2. x < y
        BY <3>1, <4>1, <1>1, <1>8
      <4> QED
        BY <3>1, <4>1, <4>2
    <3> QED
      BY <3>2, <3>3
  <2> QED
    BY <2>1, <2>2
<1>9. IsFiniteSet(Delivered') /\ Cardinality(Delivered') = Len(data')
  <2>1. IsFiniteSet(Delivered) /\ Cardinality(Delivered) = Len(data)
    BY DEF DataOK
  <2>2. IsFiniteSet(Span(from, n)) /\ Cardinality(Span(from, n)) = n
    BY SpanFacts
  <2>3. Delivered \cap Span(from, n) = {}
    BY <1>3, <1>4 DEF Delivered, Span
  <2>4. /\ IsFiniteSet(Delivered \cup Span(from, n))
        /\ Cardinality(Delivered \cup Span(from, n)) =
             Cardinality(Delivered) + Cardinality(Span(from, n))
               - Cardinality(Delivered \cap Span(from, n))
    BY <2>1, <2>2, FS_Union
  <2>5. Cardinality(Delivered \cap Span(from, n)) = 0
    BY <2>3, FS_EmptySet
  <2>6. Cardinality(Delivered \cup Span(from, n)) = Len(data) + n
    BY <1>1, <2>1, <2>2, <2>4, <2>5
  <2> QED
    BY <1>1, <1>2, <2>4, <2>6
<1>10. DataOK'
  BY <1>7, <1>8, <1>9 DEF DataOK
<1>11. \A i \in 1 .. Len(gaps) : gaps[i].from \in Nat /\ gaps[i].len \in Nat
  <2>1. gaps \in Seq([at : Nat, len : Nat \ {0}, from : Nat])
    BY DEF TypeOK
  <2>2. \A i \in 1 .. Len(gaps) : gaps[i] \in [at : Nat, len : Nat \ {0}, from : Nat]
    BY <2>1, ElementOfSeq
  <2> QED
    BY <2>2
<1>12. \A i \in 1 .. Len(gaps) : gaps[i].from + gaps[i].len <= from
  BY EmptyGaps DEF GapsOK, AtFrontier
<1>13. GapPositions' = GapPositions /\ \A q \in GapPositions : q \in Int /\ q < from
  <2>1. GapPositions' = GapPositions
    BY DEF GapPositions, AtFrontier
  <2>2. ASSUME NEW i \in 1 .. Len(gaps), NEW q \in Span(gaps[i].from, gaps[i].len)
        PROVE  q \in Int /\ q < from
    <3> DEFINE x == gaps[i].from
               y == gaps[i].len
    <3>1. x \in Nat /\ y \in Nat /\ x + y <= from /\ q \in Span(x, y)
      BY <1>11, <1>12, <2>2
    <3> HIDE DEF x, y
    <3>2. Span(x, y) \subseteq Nat /\ \A p \in Int : p \in Span(x, y) => p < x + y
      BY <3>1, SpanFacts
    <3>3. q \in Int /\ q < x + y
      BY <3>1, <3>2
    <3> QED
      BY <3>1, <3>3
  <2> QED
    BY <2>1, <2>2 DEF GapPositions
<1>14. Delivered' \cap GapPositions' = {}
  <2>1. Span(from, n) \cap GapPositions = {}
    BY <1>13 DEF Span
  <2> QED
    BY <2>1, <1>2, <1>13 DEF GapsOK
<1>15. ASSUME NEW i \in 1 .. Len(gaps)
       PROVE  gaps[i].at = Cardinality({q \in Delivered' : q < gaps[i].from})
  <2> DEFINE x == gaps[i].from
             y == gaps[i].len
  <2>1. x \in Nat /\ y \in Nat /\ x + y <= from
    BY <1>11, <1>12
  <2> HIDE DEF x, y
  <2>2. x <= from
    BY <2>1
  <2>3. \A q \in Span(from, n) : ~ (q < x)
    BY <2>1, <2>2 DEF Span
  <2>4. {q \in Delivered' : q < x} = {q \in Delivered : q < x}
    BY <1>2, <2>3
  <2> QED
    BY <2>4 DEF GapsOK, x
<1>16. \A i \in 1 .. Len(gaps) : gaps[i].from + gaps[i].len <= next'
  <2> TAKE i \in 1 .. Len(gaps)
  <2> DEFINE z == gaps[i].from + gaps[i].len
  <2>1. z <= from /\ z \in Nat
    BY <1>11, <1>12
  <2> HIDE DEF z
  <2>2. z <= next'
    BY <2>1, <1>1
  <2> QED
    BY <2>2 DEF z
<1>17. GapsOK'
  BY <1>14, <1>15, <1>16 DEF GapsOK, AtFrontier
<1> QED
  BY <1>10, <1>17

(* A direction either has nothing yet or keeps its shift.                  *)
LEMMA ClosedOrShifted ==
  ASSUME Base, NEW s \in Segments, Arrives(s)
  PROVE  /\ ~open => data = <<>> /\ gaps = <<>>
         /\ open => Shift' = Shift
<1>1. open => fed # <<>>
  BY DEF Base, FrontierOK
<1> QED
  BY <1>1, FedGrows DEF Base, FrontierOK

LEMMA DataQuiet ==
  ASSUME Base, Base', Data, NEW s \in Segments, FeedEmpty(s) \/ FeedTooFar(s) \/ FeedOld(s)
  PROVE  Data'
<1>1. PICK k \in 0 .. Arrival(s).len : QuietFeed(s, Arrival(s), k)
  BY QuietFacts
<1>2. open => Arrival(s).next = next
  BY QuietFacts DEF Landed
<1>3. Arrives(s) /\ UNCHANGED <<data, segs, gaps>> /\ (open => next' = next)
  BY <1>1, <1>2 DEF QuietFeed, Arrives
<1>4. TypeOK /\ next \in Nat /\ next' \in Nat
  BY DEF Base, TypeOK
<1>5. \/ data = <<>> /\ gaps = <<>>
      \/ next <= next' /\ Shift' = Shift
  BY <1>3, <1>4, ClosedOrShifted
<1> QED
  BY <1>3, <1>4, <1>5, DataKept DEF Data

LEMMA DataHold ==
  ASSUME Base, Base', Data, NEW s \in Segments, FeedUnopened(s) \/ FeedAhead(s)
  PROVE  Data'
<1> DEFINE a == Arrival(s)
<1>1. /\ Landed(a, s) /\ HoldFeed(s, a)
      /\ StaysClosed(a) \/ OpensAtFirst(a) \/ HoldsAhead(a)
  BY HoldFeedFacts
<1> HIDE DEF a
<1>2. Arrives(s) /\ UNCHANGED <<data, segs, gaps>>
  BY <1>1 DEF HoldFeed, Arrives
<1>3. open => next' = next
  BY <1>1 DEF StaysClosed, OpensAtFirst, HoldsAhead
<1>4. TypeOK /\ next \in Nat /\ next' \in Nat
  BY DEF Base, TypeOK
<1>5. \/ data = <<>> /\ gaps = <<>>
      \/ next <= next' /\ Shift' = Shift
  BY <1>2, <1>3, <1>4, ClosedOrShifted
<1> QED
  BY <1>2, <1>4, <1>5, DataKept DEF Data

LEMMA DataNext ==
  ASSUME Base, Data, NEW s \in Segments, FeedNext(s)
  PROVE  Data'
<1> DEFINE a == Arrival(s)
           b == BelowOrigin(a)
           c == a.next - a.at
<1>1. Landed(a, s) /\ a.at <= a.next /\ a.next < a.at + a.len
  BY NextFeedFacts
<1>2. PICK n \in 0 .. (a.len - c) : NextFeed(s, a, b, n)
  BY NextFeedFacts
<1>3. /\ Arrives(s)
      /\ Appended(n, a.next, a.len - c, a.t + c, a.pkt,
                  flags \cup s.flags \cup (IF b > 0 THEN {"LOSSY"} ELSE {}),
                  dropped + b, lost \cup Span(a.at, b))
  BY <1>2 DEF NextFeed
<1> HIDE DEF a, b
<1>4. TypeOK /\ Len(fed) \in Nat
  BY LenProperties DEF Base, TypeOK
<1>5. /\ a.at \in Nat /\ a.next \in Nat /\ a.len \in Nat /\ a.t \in Nat
      /\ a.pkt = Len(fed) + 1 /\ a.at = a.t + Shift' /\ (open => a.next = next)
  BY <1>1 DEF Landed
<1>6. Shift' \in Int /\ gaps' = gaps
  BY <1>3, <1>4, FedGrows DEF Arrives
<1>7. c \in Nat /\ a.len - c \in Nat /\ c = a.next - a.at
  BY <1>1, <1>5
<1>8. a.next = (a.t + c) + Shift'
  <2> DEFINE x == a.at
             y == a.t
             z == Shift'
             w == a.next
  <2>1. x \in Int /\ y \in Int /\ z \in Int /\ w \in Int /\ x = y + z /\ c = w - x
    BY <1>5, <1>6
  <2> HIDE DEF x, y, z, w, c
  <2>2. w = (y + c) + z
    BY <2>1
  <2> QED
    BY <2>2 DEF x, y, z, w
<1> HIDE DEF c
<1>9. a.t + c \in Nat
  BY <1>5, <1>7
<1>10. a.pkt \in Nat
  BY <1>4, <1>5
<1>11. n \in Nat /\ n <= a.len - c
  BY <1>7
<1>12. AtFrontier(a.next, a.t + c)
  BY <1>3, <1>5, <1>6, <1>8, ClosedOrShifted DEF AtFrontier
<1>13. DataOK' /\ GapsOK'
  BY <1>3, <1>4, <1>5, <1>7, <1>9, <1>10, <1>11, <1>12, DataAppended DEF Data
<1>14. Grown(n, a.next, a.t + c, a.pkt) /\ Described(n, a.pkt)
  BY <1>3 DEF Appended
<1>15. SegsOK'
  BY <1>4, <1>5, <1>9, <1>10, <1>11, <1>14, SegsAppended DEF Data
<1> QED
  BY <1>13, <1>15 DEF Data

LEMMA DataDrain ==
  ASSUME Base, HeldOK, Data, Drain
  PROVE  Data'
<1> DEFINE h == First(held)
<1>1. /\ h \in held /\ h \in Held /\ h.at <= next /\ UNCHANGED <<gaps, fed>> /\ open
      /\ DrainsOld(h) \/ \E n \in 0 .. (h.len - (next - h.at)) : DrainsNew(h, n)
  BY DrainFacts DEF Base, FrontierOK
<1> HIDE DEF h
<1>2. Shift' = Shift
  BY <1>1 DEF Shift
<1>3. TypeOK /\ next \in Nat
  BY DEF Base, TypeOK
<1>4. CASE DrainsOld(h)
  <2>1. UNCHANGED <<data, segs, gaps>> /\ next' = next
    BY <1>1, <1>4 DEF DrainsOld
  <2>2. next <= next' /\ next' \in Nat
    BY <2>1, <1>3
  <2> QED
    BY <2>1, <2>2, <1>2, <1>3, DataKept DEF Data
<1>5. ASSUME NEW n \in 0 .. (h.len - (next - h.at)), DrainsNew(h, n) PROVE Data'
  <2> DEFINE c == next - h.at
  <2>1. h.at \in Nat /\ h.len \in Nat /\ h.t \in Nat /\ h.pkt \in Nat
    BY <1>1 DEF Held
  <2>2. next < h.at + h.len /\ h.at = h.t + Shift
    BY <1>1, <1>5 DEF DrainsNew, HeldOK
  <2>3. c \in Nat /\ h.len - c \in Nat /\ c = next - h.at
    BY <1>1, <1>3, <2>1, <2>2
  <2>4. Appended(n, next, h.len - c, h.t + c, h.pkt, flags, dropped, lost)
    BY <1>5 DEF DrainsNew
  <2>5. fed \in Seq(Segments) /\ fed # <<>>
    BY <1>1 DEF Base, FrontierOK, TypeOK
  <2>6. Shift \in Int
    <3>1. PICK k \in Int : Shift = SeqSpace * k
      BY <2>5, ShiftMultiple DEF Shift
    <3>2. SeqSpace \in Int
      BY SizesAssumption
    <3> QED
      BY <3>1, <3>2
  <2>7. next = (h.t + c) + Shift
    BY <2>1, <2>2, <2>3, <2>6, <1>3
  <2> HIDE DEF c
  <2>8. h.t + c \in Nat
    BY <2>1, <2>3
  <2>9. n \in Nat /\ n <= h.len - c
    BY <1>5, <2>3 DEF c
  <2>10. AtFrontier(next, h.t + c)
    BY <1>1, <1>2, <2>6, <2>7 DEF AtFrontier
  <2>11. DataOK' /\ GapsOK'
    BY <1>3, <2>1, <2>3, <2>4, <2>8, <2>9, <2>10, DataAppended DEF Data
  <2>12. Grown(n, next, h.t + c, h.pkt) /\ Described(n, h.pkt)
    BY <2>4 DEF Appended
  <2>13. SegsOK'
    BY <1>3, <2>1, <2>8, <2>9, <2>12, SegsAppended DEF Data
  <2> QED
    BY <2>11, <2>13 DEF Data
<1> QED
  BY <1>1, <1>4, <1>5

(* The gap a give-up names stands at the end of the data, in front of f.   *)
LEMMA DataGiveUp ==
  ASSUME Base, Data, GiveUpOnFront
  PROVE  Data' /\ next' \in Nat /\ next <= next'
<1> DEFINE f == First(held).at
<1>1. /\ held # {} /\ UNCHANGED <<data, segs, fed>>
      /\ IF f > next THEN gaps' = Append(gaps, Hole(f)) /\ next' = f
         ELSE UNCHANGED <<gaps, next>>
  BY DEF GiveUpOnFront
<1>2. TypeOK /\ held \subseteq Held /\ next \in Nat /\ Len(data) \in Nat
  BY LenProperties DEF Base, TypeOK
<1>3. f \in Nat
  BY <1>1, <1>2, FirstFacts DEF Held
<1> HIDE DEF f
<1>4. Shift' = Shift
  BY <1>1 DEF Shift
<1>5. CASE ~ (f > next)
  <2>1. UNCHANGED <<data, segs, gaps>> /\ next' \in Nat /\ next <= next'
    BY <1>1, <1>2, <1>5
  <2> QED
    BY <2>1, <1>2, <1>4, DataKept DEF Data
<1>6. CASE f > next
  <2> DEFINE Gap == [at : Nat, len : Nat \ {0}, from : Nat]
             g == Hole(f)
             k == Len(gaps)
  <2>1. gaps \in Seq(Gap) /\ k \in Nat
    BY <1>2, LenProperties DEF TypeOK
  <2>2. g.at = Len(data) /\ g.len = f - next /\ g.from = next /\ g \in Gap
    BY <1>2, <1>3, <1>6 DEF Hole
  <2>3. next' = f /\ gaps' = Append(gaps, g)
    BY <1>1, <1>6
  <2> HIDE DEF g
  <2>4. /\ Len(gaps') = k + 1 /\ gaps'[k + 1] = g
        /\ \A i \in 1 .. k : gaps'[i] = gaps[i]
    BY <2>1, <2>2, <2>3, AppendProperties
  <2> HIDE DEF Gap, k
  <2>5. Delivered' = Delivered /\ \A q \in Delivered : q \in Nat /\ q < next
    <3>1. Delivered' = Delivered
      BY <1>1 DEF Delivered
    <3>2. \A i \in 1 .. Len(data) : data[i] \in [at : Nat, t : Nat, pkt : Nat]
      BY <1>2, ElementOfSeq DEF TypeOK
    <3>3. \A i \in 1 .. Len(data) : data[i].at \in Nat /\ data[i].at < next
      BY <3>2 DEF Data, DataOK
    <3> QED
      BY <3>1, <3>3 DEF Delivered
  <2>6. DataOK'
    <3>1. \A i \in 1 .. Len(data) : data[i].at < f /\ data[i].at = data[i].t + Shift
      <4> TAKE i \in 1 .. Len(data)
      <4>1. data[i].at \in Delivered /\ data[i].at = data[i].t + Shift
        BY DEF Delivered, Data, DataOK
      <4>2. data[i].at < f
        BY <4>1, <2>5, <1>2, <1>3, <1>6
      <4> QED
        BY <4>1, <4>2
    <3> QED
      BY <3>1, <2>3, <2>5, <1>1, <1>4 DEF Data, DataOK
  <2>7. SegsOK'
    BY <1>1 DEF Data, SegsOK
  <2>8. GapPositions' = GapPositions \cup Span(next, f - next)
    <3>1. Span(gaps'[k + 1].from, gaps'[k + 1].len) = Span(next, f - next)
      BY <2>2, <2>4
    <3>2. 1 .. (k + 1) = (1 .. k) \cup {k + 1}
      BY <2>1
    <3> QED
      BY <2>4, <3>1, <3>2 DEF GapPositions, k
  <2>9. Delivered \cap Span(next, f - next) = {}
    BY <2>5, <1>2, <1>3 DEF Span
  <2>10. Delivered' \cap GapPositions' = {}
    BY <2>5, <2>8, <2>9 DEF Data, GapsOK
  <2>11. ASSUME NEW i \in 1 .. (k + 1)
         PROVE  /\ gaps'[i].from + gaps'[i].len <= next'
                /\ gaps'[i].at = Cardinality({q \in Delivered : q < gaps'[i].from})
    <3>1. CASE i = k + 1
      <4>1. next + (f - next) <= f
        BY <1>2, <1>3
      <4>2. {q \in Delivered : q < next} = Delivered
        BY <2>5
      <4>3. Len(data) = Cardinality({q \in Delivered : q < next})
        BY <4>2 DEF Data, DataOK
      <4> QED
        BY <3>1, <4>1, <4>3, <2>2, <2>3, <2>4
    <3>2. CASE i # k + 1
      <4>1. i \in 1 .. Len(gaps) /\ gaps'[i] = gaps[i]
        BY <3>2, <2>1, <2>4 DEF k
      <4>2. gaps[i] \in Gap
        BY <4>1, <2>1, ElementOfSeq
      <4> DEFINE z == gaps[i].from + gaps[i].len
      <4>3. z \in Nat /\ z <= next
        BY <4>1, <4>2 DEF Gap, Data, GapsOK
      <4> HIDE DEF z
      <4>4. z <= f
        BY <4>3, <1>2, <1>3, <1>6
      <4>5. gaps[i].at = Cardinality({q \in Delivered : q < gaps[i].from})
        BY <4>1 DEF Data, GapsOK
      <4> QED
        BY <4>1, <4>4, <4>5, <2>3 DEF z
    <3> QED
      BY <3>1, <3>2
  <2>12. GapsOK'
    BY <2>4, <2>5, <2>10, <2>11 DEF GapsOK
  <2>13. next' \in Nat /\ next <= next'
    BY <1>2, <1>3, <1>6, <2>3
  <2> QED
    BY <2>6, <2>7, <2>12, <2>13 DEF Data
<1> QED
  BY <1>5, <1>6

LEMMA DataRest ==
  ASSUME Base, Base', Data, DrainEnd \/ RelieveEnd \/ Finish \/ FinishEnd \/ UNCHANGED vars
  PROVE  Data'
<1>1. UNCHANGED <<data, segs, gaps, fed>>
  BY DEF DrainEnd, RelieveEnd, Finish, FinishEnd, vars, half, holding, frontier
<1>2. TypeOK /\ next \in Nat /\ next' \in Nat
  BY DEF Base, TypeOK
<1>3. Shift' = Shift
  BY <1>1 DEF Shift
<1>4. ~open \/ next' = next
  BY DEF DrainEnd, RelieveEnd, Finish, FinishEnd, vars, half, holding, frontier
<1>5. ~open => data = <<>> /\ gaps = <<>>
  BY DEF Base, FrontierOK
<1>6. \/ data = <<>> /\ gaps = <<>>
      \/ next <= next' /\ Shift' = Shift
  BY <1>2, <1>3, <1>4, <1>5
<1> QED
  BY <1>1, <1>2, <1>6, DataKept DEF Data
-----------------------------------------------------------------------------
(* The first layer of the invariant: types, positions, order, provenance.  *)

LEMMA LaidInit ==
  ASSUME Init
  PROVE  Laid
<1>1. TypeOK
  BY EmptySeq DEF Init, TypeOK
<1>2. FrontierOK
  BY SizesAssumption DEF Init, FrontierOK
<1>3. HeldPositions = {} /\ Delivered = {} /\ GapPositions = {}
  BY DEF Init, HeldPositions, Delivered, GapPositions
<1>4. HeldOK
  BY <1>3, FS_EmptySet DEF Init, HeldOK, HeldApart
<1>5. DataOK
  BY <1>3, FS_EmptySet DEF Init, DataOK
<1>6. GapsOK
  BY <1>3 DEF Init, GapsOK
<1>7. SegsOK
  BY DEF Init, SegsOK
<1> QED
  BY <1>1, <1>2, <1>4, <1>5, <1>6, <1>7 DEF Laid, Base, Data

LEMMA LaidStep ==
  ASSUME Laid, [Next]_vars
  PROVE  Laid'
<1>1. Base /\ HeldOK /\ Data
  BY DEF Laid
<1>2. ASSUME NEW s \in Segments, FeedEmpty(s) \/ FeedTooFar(s) \/ FeedOld(s)
      PROVE  Laid'
  BY <1>1, <1>2, BaseQuiet, HeldQuiet, DataQuiet DEF Laid
<1>3. ASSUME NEW s \in Segments, FeedUnopened(s) \/ FeedAhead(s)
      PROVE  Laid'
  BY <1>1, <1>3, BaseHold, HeldHold, DataHold DEF Laid
<1>4. ASSUME NEW s \in Segments, FeedNext(s)
      PROVE  Laid'
  BY <1>1, <1>4, BaseNext, HeldNext, DataNext DEF Laid
<1>5. CASE Drain
  BY <1>1, <1>5, BaseDrain, HeldDrain, DataDrain DEF Laid
<1>6. CASE GiveUpOnFront
  BY <1>1, <1>6, BaseRest, HeldRest, DataGiveUp DEF Laid
<1>7. CASE DrainEnd \/ RelieveEnd \/ Finish \/ FinishEnd \/ UNCHANGED vars
  BY <1>1, <1>7, BaseRest, HeldRest, DataRest DEF Laid
<1> QED
  BY <1>2, <1>3, <1>4, <1>5, <1>6, <1>7 DEF Next, Feed
-----------------------------------------------------------------------------
(* Nothing is lost without a trace.  A step keeps what is accounted for,   *)
(* and accounts for what it moves the frontier over.                       *)

Kept(q) ==
  \/ q \in Delivered \cup HeldPositions \cup GapPositions \cup lost
  \/ open /\ q < origin
  \/ open /\ q = origin /\ "SYN" \in flags

Grows == /\ Delivered \subseteq Delivered' /\ GapPositions \subseteq GapPositions'
         /\ lost \subseteq lost' /\ flags \subseteq flags'

Advances ==
  IF open THEN /\ open' /\ origin' = origin /\ next <= next'
               /\ \A q \in Between(next, next') : Settled(q)'
  ELSE open' => \A q \in Between(origin', next') :
                  Settled(q)' \/ (q = origin' /\ "SYN" \in flags')

HeldMoves == \A q \in HeldPositions : q \in HeldPositions' \/ (open' /\ q < next')

(* Packets keep their number and their place.                              *)
FedKept == \A p \in 1 .. Len(fed) : TruePositions(p)' = TruePositions(p) /\ Shift' = Shift

LEMMA FedKeptArrives ==
  ASSUME TypeOK, NEW s \in Segments, Arrives(s)
  PROVE  FedKept
<1> SUFFICES ASSUME NEW p \in 1 .. Len(fed)
             PROVE  TruePositions(p)' = TruePositions(p) /\ Shift' = Shift
  BY DEF FedKept
<1>1. fed # <<>>
  BY EmptySeq
<1>2. fed'[p] = fed[p] /\ Shift' = Shift
  BY <1>1, FedGrows
<1> QED
  BY <1>2 DEF TruePositions

LEMMA FedKeptSame ==
  ASSUME fed' = fed
  PROVE  FedKept /\ Shift' = Shift
BY DEF FedKept, TruePositions, Shift

LEMMA InRange ==
  ASSUME NEW lo \in Int, NEW hi \in Int, NEW q
  PROVE  q \in Between(lo, hi) <=> q \in Int /\ lo <= q /\ q < hi
BY DEF Between

LEMMA BehindStep ==
  ASSUME Base, Base', Behind, Grows, Advances
  PROVE  Behind'
<1> SUFFICES ASSUME open', NEW q \in Between(origin', next')
             PROVE  Settled(q)' \/ (q = origin' /\ "SYN" \in flags')
  BY DEF Behind
<1>1. next \in Nat /\ next' \in Nat /\ origin \in Nat /\ origin' \in Nat
  BY DEF Base, TypeOK
<1>2. CASE ~open
  BY <1>2 DEF Advances
<1>3. CASE open
  <2>1. origin' = origin /\ next <= next' /\ \A p \in Between(next, next') : Settled(p)'
    BY <1>3 DEF Advances
  <2>2. CASE q < next
    <3>0. q \in Int /\ origin <= q
      BY <1>1, <2>1, InRange
    <3>1. q \in Between(origin, next)
      BY <1>1, <2>2, <3>0, InRange
    <3>2. Settled(q) \/ (q = origin /\ "SYN" \in flags)
      BY <1>3, <3>1 DEF Behind
    <3> QED
      BY <2>1, <3>2 DEF Grows, Settled
  <2>3. CASE ~ (q < next)
    <3>1. q \in Int /\ q < next'
      BY <1>1, InRange
    <3>2. next <= q
      BY <1>1, <2>3, <3>1
    <3>3. q \in Between(next, next')
      BY <1>1, <3>1, <3>2, InRange
    <3> QED
      BY <3>3, <2>1
  <2> QED
    BY <2>2, <2>3
<1> QED
  BY <1>2, <1>3

LEMMA BehindKept ==
  ASSUME Base', Behind', open', NEW q \in Int, q < next'
  PROVE  Kept(q)'
<1>1. next' \in Nat /\ origin' \in Nat
  BY DEF Base, TypeOK
<1>2. CASE q < origin'
  BY <1>2 DEF Kept
<1>3. CASE ~ (q < origin')
  <2>1. origin' <= q
    BY <1>1, <1>3
  <2>2. q \in Between(origin', next')
    BY <1>1, <2>1, InRange
  <2>3. Settled(q)' \/ (q = origin' /\ "SYN" \in flags')
    BY <2>2 DEF Behind
  <2> QED
    BY <2>3 DEF Kept, Settled
<1> QED
  BY <1>2, <1>3

LEMMA HeldAreNat ==
  ASSUME held \subseteq Held
  PROVE  HeldPositions \subseteq Nat
<1> SUFFICES ASSUME NEW h \in held PROVE Span(h.at, h.len) \subseteq Nat
  BY DEF HeldPositions
<1>1. h.at \in Nat /\ h.len \in Nat
  BY DEF Held
<1> QED
  BY <1>1, SpanFacts

LEMMA OldKept ==
  ASSUME Base, Base', Behind', Grows, Advances, HeldMoves, FedKept, NothingVanishes,
         NEW p \in 1 .. Len(fed), NEW x \in TruePositions(p)', NEW q, q = x + Shift'
  PROVE  Kept(q)'
<1>1. x \in TruePositions(p) /\ q = x + Shift
  BY DEF FedKept
<1>2. Kept(q)
  BY <1>1 DEF NothingVanishes, Kept
<1>3. CASE q \in Delivered \cup GapPositions \cup lost
  BY <1>3 DEF Grows, Kept
<1>4. CASE q \in HeldPositions
  <2>1. q \in Int
    BY <1>4, HeldAreNat DEF Base, TypeOK
  <2> QED
    BY <1>4, <2>1, BehindKept DEF HeldMoves, Kept
<1>5. CASE open /\ (q < origin \/ (q = origin /\ "SYN" \in flags))
  BY <1>5 DEF Advances, Grows, Kept
<1> QED
  BY <1>2, <1>3, <1>4, <1>5 DEF Kept

(* Steps that feed nothing.                                                *)
LEMMA VanishRest ==
  ASSUME Base, Base', Behind', Grows, Advances, HeldMoves, fed' = fed, NothingVanishes
  PROVE  NothingVanishes'
<1>1. FedKept
  BY FedKeptSame
<1>2. \A p \in 1 .. Len(fed) : \A x \in TruePositions(p)' : \A q : q = x + Shift' => Kept(q)'
  BY <1>1, OldKept
<1> QED
  BY <1>2 DEF NothingVanishes, Kept

(* Steps that feed a segment, all of whose octets are accounted for.       *)
LEMMA VanishFeed ==
  ASSUME Base, Base', Behind', Grows, Advances, HeldMoves, NothingVanishes,
         NEW s \in Segments, Arrives(s), NEW a, Landed(a, s),
         \A q \in Span(a.at, a.len) : Kept(q)'
  PROVE  NothingVanishes'
<1> SUFFICES ASSUME NEW p \in 1 .. Len(fed'), NEW x \in TruePositions(p)', NEW q, q = x + Shift'
             PROVE  Kept(q)'
  BY DEF NothingVanishes, Kept
<1>1. /\ TypeOK /\ Len(fed) \in Nat /\ Len(fed') = Len(fed) + 1 /\ fed'[Len(fed) + 1] = s
      /\ Shift' \in Int
  BY FedGrows DEF Base
<1>2. CASE p \in 1 .. Len(fed)
  BY <1>1, <1>2, FedKeptArrives, OldKept
<1>3. CASE ~ (p \in 1 .. Len(fed))
  <2>1. p = Len(fed) + 1
    BY <1>1, <1>3
  <2>2. TruePositions(p)' = Span(a.t, a.len)
    BY <1>1, <2>1 DEF TruePositions, Landed
  <2>3. a.at \in Nat /\ a.t \in Nat /\ a.len \in Nat /\ a.at = a.t + Shift'
    BY DEF Landed
  <2>4. q \in Span(a.at, a.len)
    <3> DEFINE y == a.t
               z == a.len
               w == Shift'
    <3>1. y \in Nat /\ z \in Nat /\ w \in Int /\ a.at = y + w /\ x \in Span(y, z)
      BY <1>1, <2>2, <2>3
    <3> HIDE DEF y, z, w
    <3>2. x \in Int /\ y <= x /\ x < y + z
      BY <3>1 DEF Span
    <3>3. x + w \in Span(y + w, z)
      BY <3>1, <3>2 DEF Span
    <3> QED
      BY <3>1, <3>3 DEF z, w
  <2> QED
    BY <2>4
<1> QED
  BY <1>2, <1>3

Steady == Grows /\ Advances /\ HeldMoves

(* Nothing lies between equal or crossed bounds.                           *)
LEMMA BetweenEmpty ==
  ASSUME NEW n \in Int
  PROVE  Between(n, n) = {} /\ Between(n - 1, n) = {n - 1}
BY DEF Between

(* A SYN that opens the direction: only its own number lies behind.        *)
LEMMA OpenedBySyn ==
  ASSUME NEW s \in Segments, NEW a, Landed(a, s), ~open, a.open, NEW q \in Between(a.origin, a.next)
  PROVE  q = a.origin /\ "SYN" \in s.flags
<1>1. a.next \in Nat /\ a.at \in Nat /\ a.next = a.at /\ a.origin = a.at - 1 /\ "SYN" \in s.flags
  BY DEF Landed
<1>2. Between(a.at - 1, a.at) = {a.at - 1}
  BY <1>1, BetweenEmpty
<1> QED
  BY <1>1, <1>2

LEMMA SteadyQuiet ==
  ASSUME Base, NEW s \in Segments, NEW a, Landed(a, s),
         NEW k \in 0 .. a.len, QuietFeed(s, a, k)
  PROVE  Steady
<1>1. /\ UNCHANGED <<data, gaps, held>>
      /\ flags \cup s.flags \subseteq flags' /\ lost \subseteq lost'
      /\ next' = a.next /\ origin' = a.origin /\ (open' <=> a.open)
  BY DEF QuietFeed, Arrives
<1>2. Grows
  BY <1>1 DEF Grows, Delivered, GapPositions
<1>3. HeldMoves
  BY <1>1 DEF HeldMoves, HeldPositions
<1>4. next \in Nat
  BY DEF Base, TypeOK
<1>5. CASE open
  <2>1. next' = next /\ origin' = origin /\ open'
    BY <1>1, <1>5 DEF Landed
  <2>2. Between(next, next') = {} /\ next <= next'
    BY <2>1, <1>4, BetweenEmpty
  <2> QED
    BY <1>2, <1>3, <1>5, <2>1, <2>2 DEF Steady, Advances
<1>6. CASE ~open
  <2>1. open' => \A q \in Between(origin', next') : q = origin' /\ "SYN" \in flags'
    BY <1>1, <1>6, OpenedBySyn
  <2> QED
    BY <1>2, <1>3, <1>6, <2>1 DEF Steady, Advances
<1> QED
  BY <1>5, <1>6

LEMMA SteadyHold ==
  ASSUME Base, Base', NEW s \in Segments, NEW a, Landed(a, s), HoldFeed(s, a),
         StaysClosed(a) \/ OpensAtFirst(a) \/ HoldsAhead(a)
  PROVE  Steady /\ HeldPositions' = HeldPositions \cup Unheld(a)
<1>1. /\ UNCHANGED <<data, gaps, lost>> /\ flags' = flags \cup s.flags /\ held' = WithHeld(a)
  BY DEF HoldFeed, Arrives
<1>2. Grows
  BY <1>1 DEF Grows, Delivered, GapPositions
<1>3. held \subseteq Held /\ next \in Nat /\ next' \in Nat /\ Len(fed) \in Nat
  BY LenProperties DEF Base, TypeOK
<1>4. HeldPositions' = HeldPositions \cup Unheld(a)
  <2>1. a.at \in Nat /\ a.len \in Nat /\ a.t \in Nat /\ a.pkt = Len(fed) + 1
    BY DEF Landed
  <2>2. a.pkt \in Nat
    BY <2>1, <1>3
  <2>3. HeldPositions' = Positions(held')
    BY DEF HeldPositions, Positions
  <2> QED
    BY <2>1, <2>2, <2>3, <1>1, <1>3, HoldFacts
<1>5. HeldMoves
  BY <1>4 DEF HeldMoves
<1>6. CASE open
  <2>1. next' = next /\ origin' = origin /\ open'
    BY <1>6 DEF StaysClosed, OpensAtFirst, HoldsAhead
  <2>2. Between(next, next') = {} /\ next <= next'
    BY <2>1, <1>3, BetweenEmpty
  <2> QED
    BY <1>2, <1>4, <1>5, <1>6, <2>1, <2>2 DEF Steady, Advances
<1>7. CASE ~open
  <2>1. open' => origin' = next'
    BY <1>7 DEF StaysClosed, OpensAtFirst, HoldsAhead
  <2>2. Between(next', next') = {}
    BY <1>3, BetweenEmpty
  <2> QED
    BY <1>2, <1>4, <1>5, <1>7, <2>1, <2>2 DEF Steady, Advances
<1> QED
  BY <1>6, <1>7

(* What append moves the frontier over it delivers or counts as dropped.   *)
LEMMA AppendedSettled ==
  ASSUME TypeOK, NEW n \in Nat, NEW from \in Nat, NEW len \in Nat, n <= len,
         NEW t \in Nat, NEW pkt \in Nat, NEW f, NEW d, NEW l, flags \subseteq f, lost \subseteq l,
         Appended(n, from, len, t, pkt, f, d, l), gaps' = gaps
  PROVE  /\ Grows
         /\ \A q \in Int : from <= q /\ q < next' => Settled(q)'
         /\ Delivered' = Delivered \cup Span(from, n)
<1>1. data \in Seq(Octet) /\ Grown(n, from, t, pkt)
  BY DEF TypeOK, Octet, Appended
<1>2. Delivered' = Delivered \cup Span(from, n)
  BY <1>1, DeliveredGrows
<1>3. /\ lost' = l \cup Span(from + n, len - n) /\ next' = from + len
      /\ flags' = f \/ flags' = f \cup {"TRUNCATED"}
  BY DEF Appended
<1>4. Grows
  BY <1>2, <1>3 DEF Grows, GapPositions
<1>5. ASSUME NEW q \in Int, from <= q, q < next' PROVE Settled(q)'
  <2>1. q < from + len
    BY <1>3, <1>5
  <2>2. q \in Span(from, n) \/ q \in Span(from + n, len - n)
    BY <2>1, <1>5 DEF Span
  <2> QED
    BY <2>2, <1>2, <1>3 DEF Settled
<1> QED
  BY <1>2, <1>4, <1>5

LEMMA SteadyNext ==
  ASSUME Base, Base', NEW s \in Segments, NEW a, Landed(a, s),
         NEW b, NEW n \in 0 .. (a.len - (a.next - a.at)), NextFeed(s, a, b, n)
  PROVE  Steady /\ open' /\ next' = a.at + a.len
<1> DEFINE c == a.next - a.at
           f == flags \cup s.flags \cup (IF b > 0 THEN {"LOSSY"} ELSE {})
           l == lost \cup Span(a.at, b)
<1>1. /\ Arrives(s) /\ a.open /\ a.at <= a.next /\ a.next < a.at + a.len
      /\ origin' = a.origin /\ open' = TRUE /\ held' = held /\ gaps' = gaps
      /\ Appended(n, a.next, a.len - c, a.t + c, a.pkt, f, dropped + b, l)
  BY DEF NextFeed, Arrives
<1>2. TypeOK /\ Len(fed) \in Nat /\ next \in Nat /\ next' \in Nat /\ origin' \in Nat
  BY LenProperties DEF Base, TypeOK
<1>3. a.at \in Nat /\ a.next \in Nat /\ a.len \in Nat /\ a.t \in Nat /\ a.pkt = Len(fed) + 1
  BY DEF Landed
<1>4. c \in Nat /\ a.len - c \in Nat /\ a.next + (a.len - c) = a.at + a.len
  BY <1>1, <1>3
<1>5. n \in Nat /\ n <= a.len - c
  BY <1>4
<1>6. flags \cup s.flags \subseteq f /\ lost \subseteq l
  OBVIOUS
<1> HIDE DEF c, f, l
<1>7. a.t + c \in Nat
  <2>1. a.t \in Nat /\ c \in Nat
    BY <1>3, <1>4
  <2> QED
    BY <2>1
<1>8. a.pkt \in Nat
  BY <1>2, <1>3
<1>9. next' = a.at + a.len /\ (flags' = f \/ flags' = f \cup {"TRUNCATED"})
  BY <1>1, <1>4 DEF Appended
<1>10. Grows /\ \A q \in Int : a.next <= q /\ q < next' => Settled(q)'
  BY <1>1, <1>2, <1>3, <1>4, <1>5, <1>6, <1>7, <1>8, AppendedSettled
<1>11. HeldMoves
  BY <1>1 DEF HeldMoves, HeldPositions
<1>12. CASE open
  <2>1. a.next = next /\ origin' = origin
    BY <1>1, <1>12 DEF Landed
  <2>2. next <= next'
    BY <2>1, <1>1, <1>2, <1>3, <1>9
  <2>3. \A q \in Between(next, next') : Settled(q)'
    BY <2>1, <1>2, <1>10, InRange
  <2> QED
    BY <1>1, <1>9, <1>10, <1>11, <1>12, <2>1, <2>2, <2>3 DEF Steady, Advances
<1>13. CASE ~open
  <2>1. ASSUME NEW q \in Between(origin', next')
        PROVE  Settled(q)' \/ (q = origin' /\ "SYN" \in flags')
    <3>1. q \in Int /\ origin' <= q /\ q < next'
      BY <1>2, InRange
    <3>2. CASE q < a.next
      <4>1. q \in Between(a.origin, a.next)
        BY <3>1, <3>2, <1>1, <1>2, <1>3, InRange
      <4> QED
        BY <4>1, <1>1, <1>6, <1>9, <1>13, OpenedBySyn
    <3>3. CASE ~ (q < a.next)
      BY <3>1, <3>3, <1>3, <1>10
    <3> QED
      BY <3>2, <3>3
  <2> QED
    BY <1>1, <1>9, <1>10, <1>11, <1>13, <2>1 DEF Steady, Advances
<1> QED
  BY <1>12, <1>13

LEMMA SteadyDrain ==
  ASSUME Base, Base', HeldOK, Drain
  PROVE  Steady
<1> DEFINE h == First(held)
<1>1. /\ h \in held /\ h \in Held /\ h.at <= next /\ pc = "drain" /\ held' = held \ {h}
      /\ UNCHANGED <<gaps, origin, open>>
      /\ DrainsOld(h) \/ \E n \in 0 .. (h.len - (next - h.at)) : DrainsNew(h, n)
  BY DrainFacts
<1> HIDE DEF h
<1>2. TypeOK /\ next \in Nat /\ next' \in Nat /\ held \subseteq Held /\ lost \subseteq Nat
  BY DEF Base, TypeOK
<1>3. open /\ open'
  BY <1>1 DEF Base, FrontierOK
<1>4. h.at \in Nat /\ h.len \in Nat /\ h.t \in Nat /\ h.pkt \in Nat
  BY <1>1 DEF Held
<1>5. ASSUME h.at + h.len <= next' PROVE HeldMoves
  <2>1. HeldPositions' = Positions(held')
    BY DEF HeldPositions, Positions
  <2>2. HeldPositions' = HeldPositions \ Span(h.at, h.len)
    BY <1>1, <1>2, <2>1, TakeFacts DEF HeldOK
  <2>3. ASSUME NEW q \in Span(h.at, h.len) PROVE q < next'
    <3>1. q \in Int /\ q < h.at + h.len
      BY <1>4, SpanFacts
    <3> QED
      BY <3>1, <1>2, <1>4, <1>5
  <2> QED
    BY <2>2, <2>3, <1>3 DEF HeldMoves
<1>6. CASE DrainsOld(h)
  <2>1. h.at + h.len <= next /\ UNCHANGED <<data, segs, flags, dropped, lost, next>>
    BY <1>6 DEF DrainsOld
  <2>2. HeldMoves
    BY <1>5, <2>1
  <2>3. Grows
    BY <1>1, <2>1 DEF Grows, Delivered, GapPositions
  <2>4. Between(next, next') = {} /\ next <= next'
    BY <2>1, <1>2, BetweenEmpty
  <2> QED
    BY <1>1, <1>3, <2>2, <2>3, <2>4 DEF Steady, Advances
<1>7. ASSUME NEW n \in 0 .. (h.len - (next - h.at)), DrainsNew(h, n) PROVE Steady
  <2> DEFINE c == next - h.at
  <2>1. /\ next < h.at + h.len
        /\ Appended(n, next, h.len - c, h.t + c, h.pkt, flags, dropped, lost)
    BY <1>7 DEF DrainsNew
  <2>2. c \in Nat /\ h.len - c \in Nat /\ next + (h.len - c) = h.at + h.len
    BY <1>1, <1>2, <1>4, <2>1
  <2>3. n \in Nat /\ n <= h.len - c
    BY <1>7, <2>2
  <2> HIDE DEF c
  <2>4. h.t + c \in Nat
    BY <1>4, <2>2
  <2>5. next' = h.at + h.len
    BY <2>1, <2>2 DEF Appended
  <2>6. Grows /\ \A q \in Int : next <= q /\ q < next' => Settled(q)'
    BY <1>1, <1>2, <1>4, <2>1, <2>2, <2>3, <2>4, AppendedSettled
  <2>7. HeldMoves
    BY <1>2, <1>4, <1>5, <2>5
  <2>8. \A q \in Between(next, next') : Settled(q)'
    BY <2>6, <1>2, InRange
  <2>9. next <= next'
    BY <2>1, <2>5, <1>2, <1>4
  <2> QED
    BY <1>1, <1>3, <2>6, <2>7, <2>8, <2>9 DEF Steady, Advances
<1> QED
  BY <1>1, <1>6, <1>7

LEMMA SteadyGiveUp ==
  ASSUME Base, Base', GiveUpOnFront
  PROVE  Steady
<1> DEFINE f == First(held).at
<1>1. /\ pc \in {"relieve", "finish"} /\ held # {}
      /\ UNCHANGED <<data, lost, flags, held, origin, open>>
      /\ IF f > next THEN gaps' = Append(gaps, Hole(f)) /\ next' = f
         ELSE UNCHANGED <<gaps, next>>
  BY DEF GiveUpOnFront, holding
<1>2. TypeOK /\ held \subseteq Held /\ next \in Nat /\ next' \in Nat /\ open \in BOOLEAN
  BY DEF Base, TypeOK
<1>3. f \in Nat
  BY <1>1, <1>2, FirstFacts DEF Held
<1>4. open
  BY <1>1 DEF Base, FrontierOK
<1> HIDE DEF f
<1>5. HeldMoves
  BY <1>1 DEF HeldMoves, HeldPositions
<1>6. CASE ~ (f > next)
  <2>1. UNCHANGED <<gaps, next>>
    BY <1>1, <1>6
  <2>2. Between(next, next') = {} /\ next <= next'
    BY <2>1, <1>2, BetweenEmpty
  <2>3. Grows
    BY <1>1, <2>1 DEF Grows, Delivered, GapPositions
  <2> QED
    BY <1>1, <1>4, <1>5, <2>2, <2>3 DEF Steady, Advances
<1>7. CASE f > next
  <2> DEFINE Gap == [at : Nat, len : Nat \ {0}, from : Nat]
             g == Hole(f)
             k == Len(gaps)
  <2>1. gaps \in Seq(Gap) /\ k \in Nat /\ Len(data) \in Nat
    BY <1>2, LenProperties DEF TypeOK
  <2>2. g.len = f - next /\ g.from = next /\ g \in Gap
    BY <1>2, <1>3, <1>7, <2>1 DEF Hole
  <2>3. next' = f /\ gaps' = Append(gaps, g)
    BY <1>1, <1>7
  <2> HIDE DEF g
  <2>4. /\ Len(gaps') = k + 1 /\ gaps'[k + 1] = g
        /\ \A i \in 1 .. k : gaps'[i] = gaps[i]
    BY <2>1, <2>2, <2>3, AppendProperties
  <2> HIDE DEF Gap, k
  <2>5. GapPositions \subseteq GapPositions'
    BY <2>1, <2>4 DEF GapPositions, k
  <2>6. Span(next, f - next) \subseteq GapPositions'
    <3>1. Span(gaps'[k + 1].from, gaps'[k + 1].len) = Span(next, f - next)
      BY <2>2, <2>4
    <3>2. k + 1 \in 1 .. Len(gaps')
      BY <2>1, <2>4
    <3> QED
      BY <3>1, <3>2 DEF GapPositions
  <2>7. Grows
    BY <1>1, <2>5 DEF Grows, Delivered
  <2>8. ASSUME NEW q \in Between(next, next') PROVE Settled(q)'
    <3>1. q \in Int /\ next <= q /\ q < f
      BY <1>2, <2>3, InRange
    <3>2. q \in Span(next, f - next)
      BY <3>1, <1>2, <1>3 DEF Span
    <3> QED
      BY <3>2, <2>6 DEF Settled
  <2>9. next <= next'
    BY <1>2, <1>3, <1>7, <2>3
  <2> QED
    BY <1>1, <1>4, <1>5, <2>7, <2>8, <2>9 DEF Steady, Advances
<1> QED
  BY <1>6, <1>7

LEMMA SteadyRest ==
  ASSUME Base, Base', DrainEnd \/ RelieveEnd \/ Finish \/ FinishEnd \/ UNCHANGED vars
  PROVE  Steady /\ fed' = fed /\ held' = held
<1>1. UNCHANGED <<data, gaps, fed, held, lost, flags>>
  BY DEF DrainEnd, RelieveEnd, Finish, FinishEnd, vars, half, holding, frontier
<1>2. next \in Nat /\ next' \in Nat
  BY DEF Base, TypeOK
<1>3. open => open' /\ next' = next /\ origin' = origin
  BY DEF DrainEnd, RelieveEnd, Finish, FinishEnd, vars, half, holding, frontier
<1>4. ~open /\ open' => origin' = next'
  BY DEF DrainEnd, RelieveEnd, Finish, FinishEnd, vars, half, holding, frontier
<1>5. Grows /\ HeldMoves
  BY <1>1 DEF Grows, HeldMoves, Delivered, GapPositions, HeldPositions
<1>6. Between(next, next) = {} /\ Between(next', next') = {} /\ next <= next
  BY <1>2, BetweenEmpty
<1>7. Advances
  <2>1. CASE open
    BY <2>1, <1>3, <1>6 DEF Advances
  <2>2. CASE ~open
    BY <2>2, <1>4, <1>6 DEF Advances
  <2> QED
    BY <2>1, <2>2
<1> QED
  BY <1>1, <1>5, <1>7 DEF Steady
-----------------------------------------------------------------------------
(* The first holder wins.                                                  *)

LEMMA WinsKept ==
  ASSUME HeldOK, FirstHolderWins, FedKept, lost \subseteq lost', NEW h \in held,
         NEW q \in Span(h.at, h.len), NEW p \in 1 .. (h.pkt - 1), Len(fed) \in Nat,
         q - Shift' \in TruePositions(p)'
  PROVE  q \in lost'
<1>1. h.pkt \in 1 .. Len(fed)
  BY DEF HeldOK
<1>2. p \in 1 .. Len(fed)
  BY <1>1
<1>3. TruePositions(p)' = TruePositions(p) /\ Shift' = Shift
  BY <1>2 DEF FedKept
<1>4. q \in lost
  BY <1>3 DEF FirstHolderWins
<1> QED
  BY <1>4

LEMMA WinsFewer ==
  ASSUME TypeOK, HeldOK, FirstHolderWins, FedKept, lost \subseteq lost', held' \subseteq held
  PROVE  FirstHolderWins'
<1>1. Len(fed) \in Nat
  BY LenProperties DEF TypeOK
<1> SUFFICES ASSUME NEW h \in held', NEW q \in Span(h.at, h.len), NEW p \in 1 .. (h.pkt - 1),
                    q - Shift' \in TruePositions(p)'
             PROVE  q \in lost'
  BY DEF FirstHolderWins
<1> QED
  BY <1>1, WinsKept

(* What hold adds no earlier packet brought, unless a bound refused it.    *)
LEMMA WinsHold ==
  ASSUME Base, HeldOK, Data, NothingVanishes, FirstHolderWins,
         NEW s \in Segments, NEW a, Landed(a, s), HoldFeed(s, a),
         StaysClosed(a) \/ OpensAtFirst(a) \/ HoldsAhead(a)
  PROVE  FirstHolderWins'
<1>1. TypeOK /\ held \subseteq Held /\ Len(fed) \in Nat /\ next \in Nat /\ origin \in Nat
  BY LenProperties DEF Base, TypeOK
<1>2. Arrives(s) /\ held' = WithHeld(a) /\ lost' = lost
  BY DEF HoldFeed
<1>3. FedKept /\ Shift' \in Int
  BY <1>1, <1>2, FedKeptArrives, FedGrows
<1>4. a.at \in Nat /\ a.len \in Nat /\ a.t \in Nat /\ a.pkt = Len(fed) + 1 /\ a.next \in Nat
  BY DEF Landed
<1>5. a.pkt \in Nat
  BY <1>1, <1>4
<1>6. \A h \in held' : h \in held \/ EntryOf(h, a)
  BY <1>1, <1>2, <1>4, <1>5, HoldFacts
<1> SUFFICES ASSUME NEW h \in held', NEW q \in Span(h.at, h.len), NEW p \in 1 .. (h.pkt - 1),
                    q - Shift' \in TruePositions(p)'
             PROVE  q \in lost'
  BY DEF FirstHolderWins
<1>7. CASE h \in held
  BY <1>1, <1>2, <1>3, <1>7, WinsKept
<1>8. CASE EntryOf(h, a)
  <2>1. h.pkt = Len(fed) + 1 /\ q \in Unheld(a)
    BY <1>4, <1>8 DEF EntryOf
  <2>2. p \in 1 .. Len(fed)
    BY <2>1, <1>1
  <2>3. q \in Nat /\ a.at <= q /\ q \notin HeldPositions
    BY <2>1, <1>4, UnheldFacts
  <2>4. Shift \in Int /\ Shift' = Shift /\ q - Shift \in TruePositions(p)
    BY <2>2, <1>3 DEF FedKept
  <2>5. (q - Shift) + Shift = q
    BY <2>3, <2>4
  <2>6. Kept(q)
    BY <2>2, <2>4, <2>5 DEF NothingVanishes, Kept
  <2>7. CASE ~open
    <3>1. data = <<>> /\ gaps = <<>>
      BY <2>7 DEF Base, FrontierOK
    <3>2. Delivered = {} /\ GapPositions = {}
      BY <3>1, EmptyData, EmptyGaps
    <3> QED
      BY <2>3, <2>6, <2>7, <3>2, <1>2 DEF Kept
  <2>8. CASE open
    <3>1. next < a.at
      BY <2>8 DEF StaysClosed, OpensAtFirst, HoldsAhead, Landed
    <3>2. next < q
      BY <3>1, <2>3, <1>1, <1>4
    <3>3. origin <= next
      BY <2>8 DEF Base, FrontierOK
    <3>4. q \notin Delivered
      <4> SUFFICES ASSUME NEW i \in 1 .. Len(data), q = data[i].at PROVE FALSE
        BY DEF Delivered
      <4>1. q < next
        BY DEF Data, DataOK
      <4> QED
        BY <4>1, <3>2, <2>3, <1>1
    <3>5. q \notin GapPositions
      <4> SUFFICES ASSUME NEW i \in 1 .. Len(gaps), q \in Span(gaps[i].from, gaps[i].len)
                   PROVE  FALSE
        BY DEF GapPositions
      <4>1. gaps[i] \in [at : Nat, len : Nat \ {0}, from : Nat]
        BY <1>1, ElementOfSeq DEF TypeOK
      <4> DEFINE x == gaps[i].from
                 y == gaps[i].len
      <4>2. x \in Nat /\ y \in Nat /\ x + y <= next /\ q \in Span(x, y)
        BY <4>1 DEF Data, GapsOK
      <4> HIDE DEF x, y
      <4>3. q < x + y
        BY <4>2, <2>3, SpanFacts
      <4> QED
        BY <4>2, <4>3, <3>2, <2>3, <1>1
    <3>6. ~ (q < origin) /\ q # origin
      BY <3>2, <3>3, <2>3, <1>1
    <3> QED
      BY <2>3, <2>6, <3>4, <3>5, <3>6, <1>2 DEF Kept
  <2> QED
    BY <2>7, <2>8
<1> QED
  BY <1>6, <1>7, <1>8
-----------------------------------------------------------------------------
(* No octet is both kept and dropped: what is fed bounds what is counted.  *)

LEMMA FedCount ==
  ASSUME TypeOK, Counted, NEW s \in Segments, Arrives(s)
  PROVE  /\ IsFiniteSet(FedOctets') /\ Cardinality(FedOctets) \in Nat
         /\ Cardinality(FedOctets') = Cardinality(FedOctets) + s.len
<1>1. /\ Len(fed) \in Nat /\ Len(fed') = Len(fed) + 1 /\ fed'[Len(fed) + 1] = s
      /\ \A p \in 1 .. Len(fed) : fed'[p] = fed[p]
  BY FedGrows
<1>2. s.len \in Nat
  BY SegmentFacts DEF SegmentOK
<1> DEFINE n == Len(fed) + 1
<1>3. 1 .. Len(fed') = (1 .. Len(fed)) \cup {n} /\ n \notin 1 .. Len(fed)
  BY <1>1
<1>4. FedOctets' = FedOctets \cup Share(n, s.len)
  BY <1>1, <1>3 DEF FedOctets, Share
<1>5. FedOctets \cap Share(n, s.len) = {}
  BY <1>3 DEF FedOctets, Share
<1> HIDE DEF n
<1> QED
  BY <1>2, <1>4, <1>5, ShareAdds DEF Counted

LEMMA CountQuiet ==
  ASSUME Base, Counted, NEW s \in Segments, NEW a, Landed(a, s),
         NEW k \in 0 .. a.len, QuietFeed(s, a, k)
  PROVE  Counted'
<1>1. TypeOK /\ Len(data) \in Nat /\ heldBytes \in Nat /\ dropped \in Nat
  BY LenProperties DEF Base, TypeOK
<1>2. /\ Arrives(s) /\ Len(data') = Len(data) /\ heldBytes' = heldBytes
      /\ dropped' = dropped + k
  BY DEF QuietFeed
<1>3. a.len = s.len /\ a.len \in Nat
  BY DEF Landed
<1>4. /\ IsFiniteSet(FedOctets') /\ Cardinality(FedOctets) \in Nat
      /\ Cardinality(FedOctets') = Cardinality(FedOctets) + s.len
  BY <1>1, <1>2, FedCount
<1>5. Len(data) + heldBytes + dropped <= Cardinality(FedOctets)
  BY DEF Counted
<1>6. Len(data) + heldBytes + (dropped + k) <= Cardinality(FedOctets) + s.len
  BY <1>1, <1>3, <1>4, <1>5
<1> QED
  BY <1>2, <1>4, <1>6 DEF Counted

LEMMA CountHold ==
  ASSUME Base, Counted, NEW s \in Segments, NEW a, Landed(a, s), HoldFeed(s, a)
  PROVE  Counted'
<1>1. TypeOK /\ Len(data) \in Nat /\ heldBytes \in Nat /\ dropped \in Nat
  BY LenProperties DEF Base, TypeOK
<1> DEFINE k == Cardinality(Unheld(a))
<1>2. /\ Arrives(s) /\ Len(data') = Len(data) /\ heldBytes' = heldBytes + k
      /\ dropped' = dropped
  BY DEF HoldFeed
<1>3. a.len = s.len /\ a.len \in Nat /\ a.at \in Nat
  BY DEF Landed
<1>4. k \in Nat /\ k <= a.len
  BY <1>3, UnheldFacts
<1> HIDE DEF k
<1>5. /\ IsFiniteSet(FedOctets') /\ Cardinality(FedOctets) \in Nat
      /\ Cardinality(FedOctets') = Cardinality(FedOctets) + s.len
  BY <1>1, <1>2, FedCount
<1>6. Len(data) + heldBytes + dropped <= Cardinality(FedOctets)
  BY DEF Counted
<1>7. Len(data) + (heldBytes + k) + dropped <= Cardinality(FedOctets) + s.len
  BY <1>1, <1>3, <1>4, <1>5, <1>6
<1> QED
  BY <1>2, <1>5, <1>7 DEF Counted

LEMMA CountNext ==
  ASSUME Base, Counted, NEW s \in Segments, NEW a, Landed(a, s),
         NEW n \in 0 .. (a.len - (a.next - a.at)), NextFeed(s, a, BelowOrigin(a), n)
  PROVE  Counted'
<1> DEFINE b == BelowOrigin(a)
           c == a.next - a.at
<1>1. TypeOK /\ Len(data) \in Nat /\ heldBytes \in Nat /\ dropped \in Nat
  BY LenProperties DEF Base, TypeOK
<1>2. /\ Arrives(s) /\ a.at <= a.next /\ a.next < a.at + a.len /\ heldBytes' = heldBytes
      /\ Len(data') = Len(data) + n /\ dropped' = (dropped + b) + ((a.len - c) - n)
  BY DEF NextFeed, Appended, Grown
<1>3. /\ a.len = s.len /\ a.len \in Nat /\ a.at \in Nat /\ a.next \in Nat /\ a.origin \in Nat
      /\ a.origin <= a.next
  BY DEF Landed
<1>4. b \in Nat /\ b <= c /\ c \in Nat /\ c <= a.len
  <2>1. /\ b \in 0 .. a.len /\ (a.at >= a.origin => b = 0)
        /\ a.at < a.origin => b <= a.origin - a.at
    BY <1>3, BelowFacts
  <2>2. c \in Nat /\ c <= a.len
    BY <1>2, <1>3
  <2> HIDE DEF b
  <2>3. b \in Nat
    BY <2>1, <1>3
  <2>4. CASE a.at >= a.origin
    BY <2>1, <2>2, <2>3, <2>4
  <2>5. CASE ~ (a.at >= a.origin)
    <3>1. b <= a.origin - a.at
      BY <2>1, <2>5, <1>3
    <3>2. b <= a.next - a.at
      BY <3>1, <2>3, <1>3
    <3> QED
      BY <3>2, <2>2, <2>3
  <2> QED
    BY <2>4, <2>5
<1> HIDE DEF b, c
<1>5. /\ IsFiniteSet(FedOctets') /\ Cardinality(FedOctets) \in Nat
      /\ Cardinality(FedOctets') = Cardinality(FedOctets) + s.len
  BY <1>1, <1>2, FedCount
<1>6. Len(data) + heldBytes + dropped <= Cardinality(FedOctets)
  BY DEF Counted
<1>7. n \in Int
  OBVIOUS
<1>8. (Len(data) + n) + heldBytes + ((dropped + b) + ((a.len - c) - n))
        <= Cardinality(FedOctets) + s.len
  <2> DEFINE w == a.len
             z == Cardinality(FedOctets)
             y == Len(data)
  <2>1. w \in Nat /\ z \in Nat /\ y \in Nat /\ s.len = w /\ y + heldBytes + dropped <= z
    BY <1>1, <1>3, <1>5, <1>6
  <2> HIDE DEF w, z, y
  <2>2. (y + n) + heldBytes + ((dropped + b) + ((w - c) - n)) <= z + w
    BY <2>1, <1>1, <1>4, <1>7
  <2> QED
    BY <2>1, <2>2 DEF w, z, y
<1> QED
  BY <1>2, <1>5, <1>8 DEF Counted

LEMMA CountDrain ==
  ASSUME Base, HeldOK, Counted, Drain
  PROVE  Counted'
<1> DEFINE h == First(held)
           c == next - h.at
<1>1. /\ h \in held /\ h \in Held /\ h.at <= next /\ heldBytes' = heldBytes - h.len /\ fed' = fed
      /\ DrainsOld(h) \/ \E n \in 0 .. (h.len - (next - h.at)) : DrainsNew(h, n)
  BY DrainFacts
<1> HIDE DEF h
<1>2. TypeOK /\ Len(data) \in Nat /\ heldBytes \in Nat /\ dropped \in Nat /\ next \in Nat
  BY LenProperties DEF Base, TypeOK
<1>3. FedOctets' = FedOctets
  BY <1>1 DEF FedOctets
<1>4. /\ IsFiniteSet(FedOctets) /\ Len(data) + heldBytes + dropped <= Cardinality(FedOctets)
      /\ Cardinality(FedOctets) \in Nat
  BY FS_CardinalityType DEF Counted
<1>5. h.at \in Nat /\ h.len \in Nat
  BY <1>1 DEF Held
<1>6. CASE DrainsOld(h)
  <2>1. Len(data') = Len(data) /\ dropped' = dropped
    BY <1>6 DEF DrainsOld
  <2>2. Len(data) + (heldBytes - h.len) + dropped <= Cardinality(FedOctets)
    BY <1>2, <1>4, <1>5
  <2> QED
    BY <1>1, <1>3, <1>4, <2>1, <2>2 DEF Counted
<1>7. ASSUME NEW n \in 0 .. (h.len - (next - h.at)), DrainsNew(h, n) PROVE Counted'
  <2>1. /\ next < h.at + h.len
        /\ Len(data') = Len(data) + n /\ dropped' = dropped + ((h.len - c) - n)
    BY <1>7 DEF DrainsNew, Appended, Grown
  <2>2. c \in Nat /\ n \in Int
    <3>1. h.at \in Nat /\ h.at <= next
      BY <1>1, <1>5
    <3> QED
      BY <3>1, <1>2, <1>7
  <2> HIDE DEF c
  <2>3. (Len(data) + n) + (heldBytes - h.len) + (dropped + ((h.len - c) - n))
          <= Cardinality(FedOctets)
    <3> DEFINE w == h.len
               z == Cardinality(FedOctets)
               y == Len(data)
    <3>1. w \in Nat /\ z \in Nat /\ y \in Nat /\ y + heldBytes + dropped <= z
      BY <1>2, <1>4, <1>5
    <3> HIDE DEF w, z, y
    <3>2. (y + n) + (heldBytes - w) + (dropped + ((w - c) - n)) <= z
      BY <3>1, <2>2, <1>2
    <3> QED
      BY <3>2 DEF w, z, y
  <2> QED
    BY <1>1, <1>3, <1>4, <2>1, <2>3 DEF Counted
<1> QED
  BY <1>1, <1>6, <1>7

LEMMA CountRest ==
  ASSUME Counted,
         \/ DrainEnd \/ GiveUpOnFront \/ RelieveEnd \/ Finish \/ FinishEnd \/ UNCHANGED vars
  PROVE  Counted'
<1>1. UNCHANGED <<data, heldBytes, dropped, fed>>
  BY DEF DrainEnd, GiveUpOnFront, RelieveEnd, Finish, FinishEnd, vars, half, holding, frontier
<1> QED
  BY <1>1 DEF Counted, FedOctets
-----------------------------------------------------------------------------
(* The whole invariant is kept, one step per kind of action.               *)

LEMMA InvInit ==
  ASSUME Init
  PROVE  IInv
<1>1. Laid
  BY LaidInit
<1>2. Behind
  BY DEF Init, Behind
<1>3. FedOctets = {}
  BY DEF Init, FedOctets
<1>4. Counted
  BY <1>3, FS_EmptySet DEF Init, Counted
<1>5. NothingVanishes
  BY DEF Init, NothingVanishes
<1>6. FirstHolderWins
  BY DEF Init, FirstHolderWins
<1> QED
  BY <1>1, <1>2, <1>4, <1>5, <1>6 DEF IInv, Accounted

LEMMA AccountedQuiet ==
  ASSUME IInv, Laid', NEW s \in Segments, FeedEmpty(s) \/ FeedTooFar(s) \/ FeedOld(s)
  PROVE  Accounted' /\ Steady
<1> DEFINE a == Arrival(s)
<1>1. Base /\ Base' /\ HeldOK /\ Accounted
  BY DEF IInv, Laid
<1>2. Landed(a, s)
  BY <1>1, QuietFacts
<1>3. PICK k \in 0 .. a.len : QuietFeed(s, a, k)
  BY <1>1, QuietFacts
<1> HIDE DEF a
<1>4. Steady
  BY <1>1, <1>2, <1>3, SteadyQuiet
<1>5. Behind'
  BY <1>1, <1>4, BehindStep DEF Steady, Accounted
<1>6. Counted'
  BY <1>1, <1>2, <1>3, CountQuiet DEF Accounted
<1>7. /\ Arrives(s) /\ held' = held /\ next' = a.next /\ lost' = lost \cup Span(a.at, k)
      /\ k = a.len \/ (a.open /\ a.at + a.len <= a.next)
      /\ open' <=> a.open
  BY <1>3 DEF QuietFeed
<1>8. ASSUME NEW q \in Span(a.at, a.len) PROVE Kept(q)'
  <2>1. a.at \in Nat /\ a.len \in Nat /\ a.next \in Nat
    BY <1>2 DEF Landed
  <2>2. CASE k = a.len
    BY <2>2, <1>7 DEF Kept
  <2>3. CASE k # a.len
    <3>1. a.open /\ a.at + a.len <= a.next /\ open'
      BY <2>3, <1>7
    <3>2. q \in Int /\ q < a.at + a.len
      BY <2>1, SpanFacts
    <3>3. q < next'
      BY <2>1, <3>1, <3>2, <1>7
    <3> QED
      BY <3>1, <3>2, <3>3, <1>1, <1>5, BehindKept
  <2> QED
    BY <2>2, <2>3
<1>9. NothingVanishes'
  BY <1>1, <1>2, <1>4, <1>5, <1>7, <1>8, VanishFeed DEF Steady, Accounted
<1>10. FirstHolderWins'
  <2>1. FedKept
    BY <1>1, <1>7, FedKeptArrives DEF Base
  <2> QED
    BY <1>1, <1>7, <2>1, WinsFewer DEF Base, Accounted
<1> QED
  BY <1>4, <1>5, <1>6, <1>9, <1>10 DEF Accounted

LEMMA AccountedHold ==
  ASSUME IInv, Laid', NEW s \in Segments, FeedUnopened(s) \/ FeedAhead(s)
  PROVE  Accounted' /\ Steady
<1> DEFINE a == Arrival(s)
<1>1. Base /\ Base' /\ HeldOK /\ Data /\ Accounted
  BY DEF IInv, Laid
<1>2. /\ Landed(a, s) /\ HoldFeed(s, a)
      /\ StaysClosed(a) \/ OpensAtFirst(a) \/ HoldsAhead(a)
  BY <1>1, HoldFeedFacts
<1> HIDE DEF a
<1>3. Steady /\ HeldPositions' = HeldPositions \cup Unheld(a)
  BY <1>1, <1>2, SteadyHold
<1>4. Behind'
  BY <1>1, <1>3, BehindStep DEF Steady, Accounted
<1>5. Counted'
  BY <1>1, <1>2, CountHold DEF Accounted
<1>6. \A q \in Span(a.at, a.len) : Kept(q)'
  <2>1. Span(a.at, a.len) \subseteq HeldPositions'
    BY <1>3 DEF Unheld
  <2> QED
    BY <2>1 DEF Kept
<1>7. Arrives(s)
  BY <1>2 DEF HoldFeed
<1>8. NothingVanishes'
  BY <1>1, <1>2, <1>3, <1>4, <1>6, <1>7, VanishFeed DEF Steady, Accounted
<1>9. FirstHolderWins'
  BY <1>1, <1>2, WinsHold DEF Accounted
<1> QED
  BY <1>3, <1>4, <1>5, <1>8, <1>9 DEF Accounted

LEMMA AccountedNext ==
  ASSUME IInv, Laid', NEW s \in Segments, FeedNext(s)
  PROVE  Accounted' /\ Steady
<1> DEFINE a == Arrival(s)
<1>1. Base /\ Base' /\ HeldOK /\ Accounted
  BY DEF IInv, Laid
<1>2. Landed(a, s)
  BY <1>1, NextFeedFacts
<1>3. PICK n \in 0 .. (a.len - (a.next - a.at)) : NextFeed(s, a, BelowOrigin(a), n)
  BY <1>1, NextFeedFacts
<1> HIDE DEF a
<1>4. Steady /\ open' /\ next' = a.at + a.len
  BY <1>1, <1>2, <1>3, SteadyNext
<1>5. Behind'
  BY <1>1, <1>4, BehindStep DEF Steady, Accounted
<1>6. Counted'
  BY <1>1, <1>2, <1>3, CountNext DEF Accounted
<1>7. Arrives(s) /\ held' = held
  BY <1>3 DEF NextFeed
<1>8. ASSUME NEW q \in Span(a.at, a.len) PROVE Kept(q)'
  <2>1. a.at \in Nat /\ a.len \in Nat
    BY <1>2 DEF Landed
  <2>2. q \in Int /\ q < next'
    BY <2>1, <1>4, SpanFacts
  <2> QED
    BY <2>2, <1>1, <1>4, <1>5, BehindKept
<1>9. NothingVanishes'
  BY <1>1, <1>2, <1>4, <1>5, <1>7, <1>8, VanishFeed DEF Steady, Accounted
<1>10. FirstHolderWins'
  <2>1. FedKept
    BY <1>1, <1>7, FedKeptArrives DEF Base
  <2> QED
    BY <1>1, <1>4, <1>7, <2>1, WinsFewer DEF Base, Accounted, Steady, Grows
<1> QED
  BY <1>4, <1>5, <1>6, <1>9, <1>10 DEF Accounted

(* The loops' steps feed nothing and only take from `held`.                *)
LEMMA AccountedLoop ==
  ASSUME IInv, Laid', Steady, Counted', fed' = fed, held' \subseteq held
  PROVE  Accounted'
<1>1. Base /\ Base' /\ HeldOK /\ Accounted
  BY DEF IInv, Laid
<1>2. Behind'
  BY <1>1, BehindStep DEF Steady, Accounted
<1>3. NothingVanishes'
  BY <1>1, <1>2, VanishRest DEF Steady, Accounted
<1>4. FirstHolderWins'
  BY <1>1, FedKeptSame, WinsFewer DEF Base, Accounted, Steady, Grows
<1> QED
  BY <1>2, <1>3, <1>4 DEF Accounted

LEMMA InvStep ==
  ASSUME IInv, [Next]_vars
  PROVE  IInv' /\ Steady
<1>1. Base /\ HeldOK /\ Counted /\ Laid
  BY DEF IInv, Laid, Accounted
<1>2. Laid' /\ Base'
  BY <1>1, LaidStep DEF Laid
<1>3. ASSUME NEW s \in Segments, FeedEmpty(s) \/ FeedTooFar(s) \/ FeedOld(s)
      PROVE  IInv' /\ Steady
  BY <1>2, <1>3, AccountedQuiet DEF IInv
<1>4. ASSUME NEW s \in Segments, FeedUnopened(s) \/ FeedAhead(s)
      PROVE  IInv' /\ Steady
  BY <1>2, <1>4, AccountedHold DEF IInv
<1>5. ASSUME NEW s \in Segments, FeedNext(s)
      PROVE  IInv' /\ Steady
  BY <1>2, <1>5, AccountedNext DEF IInv
<1>6. CASE Drain
  <2>1. Steady /\ Counted'
    BY <1>1, <1>2, <1>6, SteadyDrain, CountDrain
  <2>2. fed' = fed /\ held' \subseteq held
    BY <1>6 DEF Drain
  <2> QED
    BY <2>1, <2>2, <1>2, AccountedLoop DEF IInv
<1>7. CASE GiveUpOnFront
  <2>1. Steady /\ Counted'
    BY <1>1, <1>2, <1>7, SteadyGiveUp, CountRest
  <2>2. fed' = fed /\ held' \subseteq held
    BY <1>7 DEF GiveUpOnFront, holding
  <2> QED
    BY <2>1, <2>2, <1>2, AccountedLoop DEF IInv
<1>8. CASE DrainEnd \/ RelieveEnd \/ Finish \/ FinishEnd \/ UNCHANGED vars
  <2>1. Steady /\ Counted' /\ fed' = fed /\ held' \subseteq held
    BY <1>1, <1>2, <1>8, SteadyRest, CountRest
  <2> QED
    BY <2>1, <1>2, AccountedLoop DEF IInv
<1> QED
  BY <1>3, <1>4, <1>5, <1>6, <1>7, <1>8 DEF Next, Feed
-----------------------------------------------------------------------------
(* The theorems.                                                           *)

LEMMA Invariance == Spec => []IInv
<1>1. Init => IInv
  BY InvInit
<1>2. IInv /\ [Next]_vars => IInv'
  BY InvStep
<1> QED
  BY <1>1, <1>2, PTL DEF Spec

(* The fields of Build keep their types whatever is fed: held_bytes and    *)
(* dropped never underflow, and no segment or gap of length 0 is recorded. *)
THEOREM TypeCorrect == Spec => []TypeOK
<1>1. IInv => TypeOK
  BY DEF IInv, Laid, Base
<1> QED
  BY <1>1, Invariance, PTL

(* `absolute` reads every number as the position its sender meant: all     *)
(* that is delivered or held sits at its true position.                    *)
THEOREM EveryPositionTrue == Spec => []PositionsTrue
<1>1. IInv => PositionsTrue
  BY DEF IInv, Laid, Data, DataOK, HeldOK, PositionsTrue
<1> QED
  BY <1>1, Invariance, PTL

(* append and drain deliver octets in the order the sender numbered them,  *)
(* each once.                                                              *)
THEOREM AlwaysInOrder == Spec => []DeliveredInOrder
<1>1. IInv => DeliveredInOrder
  <2> SUFFICES ASSUME IInv, NEW i \in 1 .. (Len(data) - 1) PROVE data[i].t < data[i + 1].t
    BY DEF DeliveredInOrder
  <2>1. TypeOK /\ FrontierOK /\ DataOK
    BY DEF IInv, Laid, Base, Data
  <2>2. data \in Seq(Octet) /\ Len(data) \in Nat /\ fed \in Seq(Segments)
    BY <2>1, LenProperties DEF TypeOK, Octet
  <2>3. i \in 1 .. Len(data) /\ i + 1 \in 1 .. Len(data) /\ i < i + 1
    BY <2>2
  <2>4. data[i] \in Octet /\ data[i + 1] \in Octet
    BY <2>2, <2>3, ElementOfSeq
  <2>5. fed # <<>>
    <3>1. data # <<>>
      BY <2>3
    <3> QED
      BY <3>1, <2>1 DEF FrontierOK
  <2>6. Shift \in Int
    <3>1. PICK k \in Int : Shift = SeqSpace * k
      BY <2>2, <2>5, ShiftMultiple DEF Shift
    <3>2. SeqSpace \in Int
      BY SizesAssumption
    <3> QED
      BY <3>1, <3>2
  <2> DEFINE x == data[i].t
             y == data[i + 1].t
             w == Shift
  <2>7. x \in Nat /\ y \in Nat /\ w \in Int /\ x + w < y + w
    BY <2>1, <2>3, <2>4, <2>6 DEF Octet, DataOK
  <2> HIDE DEF x, y, w
  <2>8. x < y
    BY <2>7
  <2> QED
    BY <2>8 DEF x, y
<1> QED
  BY <1>1, Invariance, PTL

(* hold never lets a later packet take an octet an earlier one brought,    *)
(* unless a bound refused the earlier copy.                                *)
THEOREM FirstHolderAlwaysWins == Spec => []FirstHolderWins
<1>1. IInv => FirstHolderWins
  BY DEF IInv, Accounted
<1> QED
  BY <1>1, Invariance, PTL

(* Whatever feed, drain, relieve and finish do, an octet captured at or    *)
(* past the origin is delivered, held, in a named gap or counted.          *)
THEOREM NothingEverVanishes == Spec => []NothingVanishes
<1>1. IInv => NothingVanishes
  BY DEF IInv, Accounted
<1> QED
  BY <1>1, Invariance, PTL

(* held_bytes is exact, held entries never overlap, and what is kept and   *)
(* what is dropped never exceed what was fed.                              *)
THEOREM HeldAlwaysExact == Spec => []HeldExact
<1>1. IInv => HeldExact
  BY DEF IInv, Laid, Accounted, HeldOK, HeldApart, Counted, HeldExact
<1> QED
  BY <1>1, Invariance, PTL

(* segs, gaps and the counts describe the stream they come with.           *)
THEOREM ProvenanceHolds == Spec => []Provenance
<1>1. IInv => Provenance
  <2> SUFFICES ASSUME IInv PROVE Provenance
    OBVIOUS
  <2>1. SegsOK /\ GapsOK /\ Behind /\ origin \in Nat /\ next \in Nat
    BY DEF IInv, Laid, Base, Data, Accounted, TypeOK
  <2>2. ASSUME open, NEW q \in (origin + 1) .. (next - 1)
        PROVE  q \in Delivered \cup GapPositions \cup lost
    <3>1. q \in Int /\ origin <= q /\ q < next /\ q # origin
      BY <2>1
    <3>2. q \in Between(origin, next)
      BY <3>1, <2>1, InRange
    <3> QED
      BY <3>1, <3>2, <2>1, <2>2 DEF Behind, Settled
  <2> QED
    BY <2>1, <2>2 DEF SegsOK, GapsOK, Provenance
<1> QED
  BY <1>1, Invariance, PTL

(* Once a direction is open no step moves its frontier back or its origin. *)
THEOREM FrontierOnlyForward == Spec => FrontierForward
<1>1. IInv /\ [Next]_vars => [open => next' >= next /\ origin' = origin]_vars
  <2> SUFFICES ASSUME IInv, [Next]_vars, open PROVE next' >= next /\ origin' = origin
    OBVIOUS
  <2>1. Steady /\ IInv'
    BY InvStep
  <2>2. next \in Nat /\ next' \in Nat
    BY <2>1 DEF IInv, Laid, Base, TypeOK
  <2>3. next <= next' /\ origin' = origin
    BY <2>1 DEF Steady, Advances
  <2> QED
    BY <2>2, <2>3
<1> QED
  BY <1>1, Invariance, PTL DEF Spec, FrontierForward
=============================================================================
