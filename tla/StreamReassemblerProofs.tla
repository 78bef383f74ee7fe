---------------------- MODULE StreamReassemblerProofs ----------------------
(***************************************************************************)
(* Proofs about StreamReassembler, for every set of keys and frames, every *)
(* value of the bounds and whatever one feed leaves held.                  *)
(***************************************************************************)
EXTENDS StreamReassembler, ReassemblyLemmas

(* Stamps name touches: every stamp in use is below the next one and no    *)
(* two queue entries share one.                                            *)
StampsDistinct ==
  /\ \A e \in order : e[1] < seq
  /\ \A d, e \in order : d[1] = e[1] => d = e
  /\ \A k \in LiveKeys : live[k].seq < seq

Finite == IsFiniteSet(order) /\ IsFiniteSet(HeldOctets)

(* p is the last packet of a stream.                                       *)
IsLatest(p, pkts) == p \in Fed(pkts) /\ \A q \in Fed(pkts) : q <= p

(* A stream's stamp tells how recent its last packet is.                   *)
StampIsRecency ==
  /\ \A k \in LiveKeys : \E p \in 0 .. (Len(input) - 1) : IsLatest(p, live[k].pkts)
  /\ \A j, k \in LiveKeys : live[k].seq <= live[j].seq =>
       \A p, q \in Nat :
         IsLatest(p, live[k].pkts) /\ IsLatest(q, live[j].pkts) => p <= q

(* The inductive invariant.  The bounds need the queue to be complete and  *)
(* the account exact, as the loop stops early only at an empty queue.      *)
IInv ==
  /\ TypeOK
  /\ StampsDistinct
  /\ Finite
  /\ EveryStreamQueued
  /\ HeldExact
  /\ WithinBounds
  /\ StampIsRecency
----------------------------------------------------------------------------
LEMMA FrontIsOldest ==
  ASSUME order \subseteq Nat \X Keys, order # {}
  PROVE  /\ Front \in order
         /\ \A d \in order : Front[1] <= d[1]
BY LeastStamp DEF Front

(* Octets the builds of the streams other than k hold.                     *)
Others(k) == UNION {{j} \X (0 .. (HeldOf(live[j]) - 1)) : j \in LiveKeys \ {k}}

(* Removing or replacing one stream changes the held octets by its share.  *)
LEMMA HeldSplit ==
  ASSUME NEW k, NEW n \in Nat, IsFiniteSet(HeldOctets)
  PROVE  /\ IsFiniteSet(Others(k))
         /\ Cardinality(Others(k)) \in Nat
         /\ IsFiniteSet(Others(k) \cup Share(k, n))
         /\ Cardinality(Others(k) \cup Share(k, n)) = Cardinality(Others(k)) + n
<1>1. Others(k) \subseteq HeldOctets
  BY DEF Others, HeldOctets
<1>2. IsFiniteSet(Others(k))
  BY <1>1, FS_Subset
<1>3. Others(k) \cap Share(k, n) = {}
  BY DEF Others, Share
<1> QED
  BY <1>2, <1>3, ShareAdds

LEMMA HeldIsOthersAndShare ==
  ASSUME NEW k \in LiveKeys
  PROVE  HeldOctets = Others(k) \cup Share(k, HeldOf(live[k]))
BY DEF HeldOctets, Others, Share

LEMMA HeldWhenNotLive ==
  ASSUME NEW k, k \notin LiveKeys
  PROVE  HeldOctets = Others(k)
BY DEF HeldOctets, Others

(* The account, read as one stream's part and the others'.                 *)
LEMMA AccountSplits ==
  ASSUME IInv, NEW k \in LiveKeys
  PROVE  /\ HeldOf(live[k]) \in Nat
         /\ Cardinality(Others(k)) \in Nat
         /\ held = Cardinality(Others(k)) + HeldOf(live[k])
<1>1. live[k].held \in [Dirs -> Nat]
  BY DEF IInv, TypeOK
<1>2. HeldOf(live[k]) \in Nat
  BY <1>1 DEF HeldOf, Dirs
<1> QED
  BY <1>2, HeldSplit, HeldIsOthersAndShare DEF IInv, Finite, HeldExact
----------------------------------------------------------------------------
LEMMA InitIInv == Init => IInv
<1> SUFFICES ASSUME Init PROVE IInv
  OBVIOUS
<1>1. LiveKeys = {} /\ HeldOctets = {}
  BY DEF Init, LiveKeys, HeldOctets
<1>2. IsFiniteSet({}) /\ Cardinality({}) = 0
  BY FS_EmptySet
<1>3. 0 <= SweepFactor * 0 + SweepFactor * OriginWindow
  BY BoundsAssumption
<1>4. TypeOK /\ StampsDistinct /\ EveryStreamQueued /\ StampIsRecency
  BY <1>1 DEF Init, TypeOK, StampsDistinct, EveryStreamQueued, StampIsRecency
<1>5. Finite /\ HeldExact
  BY <1>1, <1>2 DEF Init, Finite, HeldExact
<1>6. WithinBounds
  BY <1>1, <1>2, <1>3, BoundsAssumption DEF Init, WithinBounds
<1> QED
  BY <1>4, <1>5, <1>6 DEF IInv

(* A step that leaves the table and the queue alone, and is not the end of *)
(* the eviction loop.                                                      *)
LEMMA QuietStep ==
  ASSUME IInv, UNCHANGED <<live, order, seq, held>>, input' \in Seq(Frames),
         Len(input) <= Len(input'),
         pc' = pc \/ pc' \in {"finish", "done"}
  PROVE  IInv'
<1>1. LiveKeys' = LiveKeys /\ HeldOctets' = HeldOctets
  BY DEF LiveKeys, HeldOctets
<1>2. StampIsRecency'
  <2>1. Len(input) \in Nat /\ Len(input') \in Nat
    BY DEF IInv, TypeOK
  <2>2. (0 .. (Len(input) - 1)) \subseteq (0 .. (Len(input') - 1))
    BY <2>1
  <2> QED
    BY <1>1, <2>2 DEF IInv, StampIsRecency
<1>3. TypeOK' /\ StampsDistinct'
  BY <1>1 DEF IInv, TypeOK, StampsDistinct
<1> QED
  BY <1>1, <1>2, <1>3 DEF IInv, Finite, EveryStreamQueued, HeldExact, WithinBounds

(* The record push leaves in the table.                                    *)
LEMMA TouchedFields ==
  ASSUME IInv, NEW s \in Frames, NEW p \in Nat
  PROVE  LET l == StreamFor(s, p)
             d == Direction(l, s)
         IN  /\ s.key \in Keys /\ s.len \in Nat
             /\ d \in Dirs /\ l.held \in [Dirs -> Nat] /\ HeldOf(l) \in Nat
             /\ s.key \in LiveKeys => l = live[s.key]
             /\ s.key \notin LiveKeys => HeldOf(l) = 0 /\ Fed(l.pkts) = {}
             /\ \A h \in Nat :
                  /\ Touched(l, d, p, h) \in
                       [src : Endpoints, first : Nat, seq : Nat,
                        held : [Dirs -> Nat], pkts : [Dirs -> SUBSET Nat]]
                  /\ Touched(l, d, p, h).seq = seq
                  /\ HeldOf(Touched(l, d, p, h)) = HeldOf(l) + h - l.held[d]
                  /\ Fed(Touched(l, d, p, h).pkts) = Fed(l.pkts) \cup {p}
<1>1. /\ s.key \in Keys /\ s.from \in Endpoints /\ s.len \in Nat
  BY FramesAssumption DEF Segment
<1> DEFINE l == StreamFor(s, p)
           d == Direction(l, s)
           R == [src : Endpoints, first : Nat, seq : Nat,
                 held : [Dirs -> Nat], pkts : [Dirs -> SUBSET Nat]]
<1>2. Opener(s) \in Endpoints
  <2>1. \E f \in Endpoints : f # s.from
    BY DEF Endpoints
  <2> QED
    BY <1>1, <2>1 DEF Opener, Other
<1>3. /\ l \in R
      /\ s.key \in LiveKeys => l = live[s.key]
      /\ s.key \notin LiveKeys => HeldOf(l) = 0 /\ Fed(l.pkts) = {}
  <2>1. CASE s.key \in LiveKeys
    BY <2>1 DEF StreamFor, IInv, TypeOK
  <2>2. CASE s.key \notin LiveKeys
    <3>1. l = NewStream(s, p)
      BY <2>2 DEF StreamFor
    <3>2. seq \in Nat
      BY DEF IInv, TypeOK
    <3>3. NewStream(s, p) \in R
      BY <1>2, <3>2 DEF NewStream
    <3>4. HeldOf(NewStream(s, p)) = 0 /\ Fed(NewStream(s, p).pkts) = {}
      BY DEF NewStream, HeldOf, Fed, Dirs
    <3> QED
      BY <2>2, <3>1, <3>3, <3>4
  <2> QED
    BY <2>1, <2>2
<1>4. d \in Dirs
  BY DEF Direction, Dirs
<1> HIDE DEF l, d
<1>5. ASSUME NEW h \in Nat
      PROVE  /\ Touched(l, d, p, h) \in R
             /\ Touched(l, d, p, h).seq = seq
             /\ HeldOf(Touched(l, d, p, h)) = HeldOf(l) + h - l.held[d]
             /\ Fed(Touched(l, d, p, h).pkts) = Fed(l.pkts) \cup {p}
  <2> DEFINE t == Touched(l, d, p, h)
  <2>1. /\ t.src = l.src /\ t.first = l.first /\ t.seq = seq
        /\ t.held = [l.held EXCEPT ![d] = h]
        /\ t.pkts = [l.pkts EXCEPT ![d] = l.pkts[d] \cup {p}]
        /\ t = [src |-> t.src, first |-> t.first, seq |-> t.seq,
                held |-> t.held, pkts |-> t.pkts]
    BY DEF Touched
  <2>2. /\ l.src \in Endpoints /\ l.first \in Nat /\ seq \in Nat
        /\ l.held \in [Dirs -> Nat] /\ l.pkts \in [Dirs -> SUBSET Nat]
    BY <1>3 DEF IInv, TypeOK
  <2>3. t.held \in [Dirs -> Nat] /\ t.pkts \in [Dirs -> SUBSET Nat]
    BY <2>1, <2>2, <1>4
  <2>4. t \in R
    BY <2>1, <2>2, <2>3
  <2>5. t.held[0] + t.held[1] = l.held[0] + l.held[1] + h - l.held[d]
    BY <2>1, <2>2, <1>4 DEF Dirs
  <2>6. t.pkts[0] \cup t.pkts[1] = l.pkts[0] \cup l.pkts[1] \cup {p}
    BY <2>1, <2>2, <1>4 DEF Dirs
  <2> QED
    BY <2>1, <2>4, <2>5, <2>6 DEF HeldOf, Fed
<1>6. l.held \in [Dirs -> Nat]
  BY <1>3
<1>7. HeldOf(l) \in Nat
  BY <1>6 DEF HeldOf, Dirs
<1> QED
  BY <1>1, <1>3, <1>4, <1>5, <1>6, <1>7 DEF l, d

(* Every packet of a live stream was fed before now.                       *)
LEMMA PacketsAreOld ==
  ASSUME IInv, NEW k \in LiveKeys, NEW q \in Fed(live[k].pkts)
  PROVE  q \in Nat /\ q < Len(input)
<1>1. live[k].pkts \in [Dirs -> SUBSET Nat] /\ Len(input) \in Nat
  BY DEF IInv, TypeOK
<1>2. q \in Nat
  BY <1>1 DEF Fed, Dirs
<1>3. PICK p \in 0 .. (Len(input) - 1) : IsLatest(p, live[k].pkts)
  BY DEF IInv, StampIsRecency
<1>4. q <= p
  BY <1>3 DEF IsLatest
<1> QED
  BY <1>1, <1>2, <1>4

LEMMA PushStep ==
  ASSUME IInv, NEW s \in Frames, Push(s)
  PROVE  IInv'
<1> DEFINE k == s.key
           p == Len(input)
           l == StreamFor(s, p)
           d == Direction(l, s)
<1>1. p \in Nat /\ seq \in Nat /\ held \in Nat
  BY DEF IInv, TypeOK
<1>2. PICK h \in 0 .. (l.held[d] + s.len) :
        /\ live' = With(k, Touched(l, d, p, h))
        /\ held' = held + h - l.held[d]
  BY DEF Push, HeldAfter
<1>3. /\ pc' = "evict" /\ input' \in Seq(Frames) /\ Len(input') = p + 1
      /\ order' = order \cup {<<seq, k>>} /\ seq' = seq + 1
  BY DEF Push, Pushing, Queued, IInv, TypeOK
<1> DEFINE t == Touched(l, d, p, h)
<1>4. /\ k \in Keys /\ l.held[d] \in Nat /\ h \in Nat /\ HeldOf(l) \in Nat
      /\ k \in LiveKeys => l = live[k]
      /\ k \notin LiveKeys => HeldOf(l) = 0 /\ Fed(l.pkts) = {}
      /\ t \in [src : Endpoints, first : Nat, seq : Nat,
                held : [Dirs -> Nat], pkts : [Dirs -> SUBSET Nat]]
      /\ t.seq = seq
      /\ HeldOf(t) = HeldOf(l) + h - l.held[d]
      /\ Fed(t.pkts) = Fed(l.pkts) \cup {p}
  <2>1. /\ k \in Keys /\ s.len \in Nat /\ d \in Dirs /\ l.held \in [Dirs -> Nat]
        /\ HeldOf(l) \in Nat
        /\ k \in LiveKeys => l = live[k]
        /\ k \notin LiveKeys => HeldOf(l) = 0 /\ Fed(l.pkts) = {}
        /\ \A g \in Nat :
             /\ Touched(l, d, p, g) \in
                  [src : Endpoints, first : Nat, seq : Nat,
                   held : [Dirs -> Nat], pkts : [Dirs -> SUBSET Nat]]
             /\ Touched(l, d, p, g).seq = seq
             /\ HeldOf(Touched(l, d, p, g)) = HeldOf(l) + g - l.held[d]
             /\ Fed(Touched(l, d, p, g).pkts) = Fed(l.pkts) \cup {p}
    BY <1>1, TouchedFields
  <2> HIDE DEF l, d
  <2>2. l.held[d] \in Nat /\ h \in Nat
    BY <2>1
  <2> QED
    BY <2>1, <2>2
<1> HIDE DEF l, d, t
<1>5. /\ LiveKeys' = LiveKeys \cup {k}
      /\ live'[k] = t
      /\ \A j \in LiveKeys \ {k} : live'[j] = live[j]
  BY <1>2 DEF With, LiveKeys, t
<1>6. HeldOf(t) \in Nat
  BY <1>4 DEF HeldOf, Dirs
<1>7. held = Cardinality(Others(k)) + HeldOf(l) /\ Cardinality(Others(k)) \in Nat
  <2>1. CASE k \in LiveKeys
    BY <2>1, <1>4, AccountSplits
  <2>2. CASE k \notin LiveKeys
    <3>1. HeldOctets = Others(k) /\ held = Cardinality(HeldOctets)
      BY <2>2, HeldWhenNotLive DEF IInv, HeldExact
    <3> QED
      BY <3>1, <2>2, <1>1, <1>4
  <2> QED
    BY <2>1, <2>2
<1>8. HeldOctets' = Others(k) \cup Share(k, HeldOf(t))
  BY <1>5 DEF HeldOctets, Others, Share
<1>9. /\ IsFiniteSet(HeldOctets')
      /\ Cardinality(HeldOctets') = Cardinality(Others(k)) + HeldOf(t)
  BY <1>6, <1>8, HeldSplit DEF IInv, Finite
<1>10. held' = Cardinality(HeldOctets') /\ held' \in Nat
  <2>1. /\ HeldOf(t) = HeldOf(l) + h - l.held[d]
        /\ HeldOf(l) \in Nat /\ h \in Nat /\ l.held[d] \in Nat
    BY <1>4
  <2>2. held' = held + h - l.held[d]
    BY <1>2
  <2>3. held' = Cardinality(Others(k)) + HeldOf(t)
    BY <2>1, <2>2, <1>7
  <2> QED
    BY <2>3, <1>6, <1>7, <1>9
<1>11. IsFiniteSet(order')
  BY <1>3, FS_AddElement DEF IInv, Finite
<1>12. TypeOK'
  <2>1. LiveKeys' \subseteq Keys
    BY <1>4, <1>5 DEF IInv, TypeOK
  <2>2. \A j \in LiveKeys' :
          live'[j] \in [src : Endpoints, first : Nat, seq : Nat,
                        held : [Dirs -> Nat], pkts : [Dirs -> SUBSET Nat]]
    BY <1>4, <1>5 DEF IInv, TypeOK
  <2>3. order' \subseteq Nat \X Keys /\ seq' \in Nat
    BY <1>1, <1>3, <1>4 DEF IInv, TypeOK
  <2> QED
    BY <2>1, <2>2, <2>3, <1>3, <1>10 DEF TypeOK
<1>13. StampsDistinct'
  <2>1. order \subseteq Nat \X Keys /\ \A e \in order : e[1] < seq
    BY DEF IInv, TypeOK, StampsDistinct
  <2>2. \A e \in order' : e[1] \in Nat /\ e[1] <= seq /\ (e[1] = seq => e = <<seq, k>>)
    BY <2>1, <1>1, <1>3
  <2>3. \A c, e \in order' : c[1] = e[1] => c = e
    <3>1. \A c, e \in order : c[1] = e[1] => c = e
      BY DEF IInv, StampsDistinct
    <3> QED
      BY <2>1, <2>2, <3>1, <1>1, <1>3
  <2>4. \A j \in LiveKeys' : live'[j].seq < seq'
    <3>1. \A j \in LiveKeys : live[j].seq \in Nat /\ live[j].seq < seq
      BY DEF IInv, TypeOK, StampsDistinct
    <3>2. \A j \in LiveKeys \ {k} : live'[j].seq < seq'
      BY <3>1, <1>1, <1>3, <1>5
    <3>3. live'[k].seq < seq'
      BY <1>1, <1>3, <1>4, <1>5
    <3> QED
      BY <3>2, <3>3, <1>5
  <2> QED
    BY <2>2, <2>3, <2>4, <1>1, <1>3 DEF StampsDistinct
<1>14. EveryStreamQueued'
  BY <1>3, <1>4, <1>5 DEF IInv, EveryStreamQueued
<1>15. StampIsRecency'
  <2>1. \A q \in Fed(l.pkts) : q \in Nat /\ q < p
    <3>1. CASE k \in LiveKeys
      BY <3>1, <1>4, PacketsAreOld
    <3>2. CASE k \notin LiveKeys
      BY <3>2, <1>4
    <3> QED
      BY <3>1, <3>2
  <2>2. IsLatest(p, t.pkts)
    BY <2>1, <1>1, <1>4 DEF IsLatest
  <2>3. \A j \in LiveKeys' : \E q \in 0 .. (Len(input') - 1) : IsLatest(q, live'[j].pkts)
    <3> SUFFICES ASSUME NEW j \in LiveKeys'
                 PROVE  \E q \in 0 .. (Len(input') - 1) : IsLatest(q, live'[j].pkts)
      OBVIOUS
    <3>1. CASE j = k
      BY <3>1, <2>2, <1>1, <1>3, <1>5
    <3>2. CASE j # k
      <4>1. j \in LiveKeys /\ live'[j] = live[j]
        BY <3>2, <1>5
      <4>2. PICK q \in 0 .. (p - 1) : IsLatest(q, live[j].pkts)
        BY <4>1 DEF IInv, StampIsRecency
      <4>3. q \in 0 .. (Len(input') - 1)
        BY <1>1, <1>3
      <4> QED
        BY <4>1, <4>2, <4>3
    <3> QED
      BY <3>1, <3>2
  <2>4. ASSUME NEW j \in LiveKeys', NEW i \in LiveKeys', live'[i].seq <= live'[j].seq,
               NEW x \in Nat, NEW y \in Nat,
               IsLatest(x, live'[i].pkts), IsLatest(y, live'[j].pkts)
        PROVE  x <= y
    <3>1. CASE i = j
      BY <3>1, <2>4 DEF IsLatest
    <3>2. CASE i = k /\ j # k
      <4>1. live'[i].seq = seq /\ live'[j] = live[j] /\ j \in LiveKeys
        BY <3>2, <1>4, <1>5
      <4>2. live[j].seq \in Nat /\ live[j].seq < seq
        BY <4>1 DEF IInv, TypeOK, StampsDistinct
      <4> QED
        BY <4>1, <4>2, <2>4, <1>1
    <3>3. CASE i # k /\ j = k
      <4>1. i \in LiveKeys /\ live'[i] = live[i] /\ live'[j] = t
        BY <3>3, <1>5
      <4>2. x < p
        BY <4>1, <2>4, PacketsAreOld DEF IsLatest
      <4>3. p <= y
        BY <4>1, <2>4, <1>4 DEF IsLatest
      <4> QED
        BY <4>2, <4>3, <1>1
    <3>4. CASE i # k /\ j # k
      <4>1. /\ i \in LiveKeys /\ live'[i] = live[i]
            /\ j \in LiveKeys /\ live'[j] = live[j]
        BY <3>4, <1>5
      <4> QED
        BY <4>1, <2>4 DEF IInv, StampIsRecency
    <3> QED
      BY <3>1, <3>2, <3>3, <3>4
  <2> QED
    BY <2>3, <2>4 DEF StampIsRecency
<1> QED
  BY <1>3, <1>9, <1>10, <1>11, <1>12, <1>13, <1>14, <1>15
  DEF IInv, Finite, HeldExact, WithinBounds

(* A stream leaves the table: from evict's loop or from finish's, with the *)
(* queue entry of its last stamp or with the queue no longer looked at.    *)
LEMMA RetireStep ==
  ASSUME IInv, NEW k \in LiveKeys, NEW evicted, retire(k, evicted),
         order' \subseteq order, seq' = seq, input' = input, pc' = pc, pc # "idle",
         \A j \in LiveKeys \ {k} : <<live[j].seq, j>> \in order'
  PROVE  IInv'
<1>1. live' = Without(k) /\ held' = held - HeldOf(live[k])
  BY DEF retire
<1>2. LiveKeys' = LiveKeys \ {k} /\ \A j \in LiveKeys' : live'[j] = live[j]
  BY <1>1 DEF Without, LiveKeys
<1>3. HeldOctets' = Others(k)
  BY <1>2 DEF HeldOctets, Others
<1>4. IsFiniteSet(HeldOctets') /\ IsFiniteSet(order')
  BY <1>3, HeldSplit, FS_Subset DEF IInv, Finite
<1>5. held' = Cardinality(HeldOctets') /\ held' \in Nat
  BY <1>1, <1>3, AccountSplits
<1>6. TypeOK' /\ StampsDistinct'
  BY <1>2, <1>5 DEF IInv, TypeOK, StampsDistinct
<1>7. EveryStreamQueued' /\ StampIsRecency'
  BY <1>2 DEF IInv, EveryStreamQueued, StampIsRecency
<1> QED
  BY <1>4, <1>5, <1>6, <1>7 DEF IInv, Finite, HeldExact, WithinBounds

LEMMA EvictPopStep ==
  ASSUME IInv, EvictPop
  PROVE  IInv'
<1> DEFINE e == Front
           k == e[2]
<1>1. /\ pc = "evict" /\ pc' = "evict" /\ seq' = seq /\ input' = input
      /\ order' = order \ {e}
      /\ IF Answers(e) THEN retire(k, TRUE) ELSE live' = live /\ held' = held
  BY DEF EvictPop
<1> HIDE DEF e
<1>2. CASE Answers(e)
  <2>1. k \in LiveKeys
    BY <1>2 DEF Answers
  <2>2. \A j \in LiveKeys \ {k} : <<live[j].seq, j>> \in order'
    BY <1>1 DEF IInv, EveryStreamQueued
  <2> QED
    BY <2>1, <2>2, <1>1, <1>2, RetireStep
<1>3. CASE ~Answers(e)
  <2>1. LiveKeys' = LiveKeys /\ HeldOctets' = HeldOctets /\ live' = live /\ held' = held
    BY <1>1, <1>3 DEF LiveKeys, HeldOctets
  <2>2. EveryStreamQueued'
    <3>1. \A j \in LiveKeys : <<live[j].seq, j>> # e
      BY <1>3 DEF Answers
    <3> QED
      BY <3>1, <2>1, <1>1 DEF IInv, EveryStreamQueued
  <2>3. TypeOK' /\ StampsDistinct' /\ StampIsRecency'
    BY <2>1, <1>1 DEF IInv, TypeOK, StampsDistinct, StampIsRecency
  <2>4. IsFiniteSet(order')
    BY <1>1, FS_RemoveElement DEF IInv, Finite
  <2> QED
    BY <2>1, <2>2, <2>3, <2>4, <1>1 DEF IInv, Finite, HeldExact, WithinBounds
<1> QED
  BY <1>2, <1>3

(* A swept queue holds at most one entry per live stream.                  *)
LEMMA SweepBound ==
  ASSUME IInv, NEW S, S = {e \in order : Answers(e)}
  PROVE  IsFiniteSet(S) /\ Cardinality(S) <= Cardinality(LiveKeys)
<1>1. order \subseteq Nat \X Keys /\ IsFiniteSet(LiveKeys)
  BY KeysAssumption, FS_Subset DEF IInv, TypeOK
<1> DEFINE h == [e \in S |-> e[2]]
<1>2. h \in [S -> LiveKeys]
  BY DEF Answers
<1>3. \A d, e \in S : h[d] = h[e] => d = e
  <2> SUFFICES ASSUME NEW d \in S, NEW e \in S, h[d] = h[e] PROVE d = e
    OBVIOUS
  <2>1. d[2] = e[2]
    OBVIOUS
  <2>2. d[1] = live[d[2]].seq /\ e[1] = live[e[2]].seq
    BY DEF Answers
  <2>3. d \in Nat \X Keys /\ e \in Nat \X Keys
    BY <1>1
  <2> QED
    BY <2>1, <2>2, <2>3
<1>4. h \in Injection(S, LiveKeys)
  BY <1>2, <1>3 DEF Injection, IsInjective
<1> QED
  BY <1>1, <1>4, FS_Injection

LEMMA EvictEndStep ==
  ASSUME IInv, EvictEnd
  PROVE  IInv'
<1> DEFINE L == Cardinality(LiveKeys)
           cap == SweepFactor * L + SweepFactor * OriginWindow
<1>1. /\ pc = "evict" /\ pc' = "idle"
      /\ live' = live /\ seq' = seq /\ held' = held /\ input' = input
      /\ ~OverLimit \/ order = {}
      /\ order' = IF Cardinality(order) > cap THEN {e \in order : Answers(e)} ELSE order
  BY DEF EvictEnd
<1>2. LiveKeys' = LiveKeys /\ HeldOctets' = HeldOctets
  BY <1>1 DEF LiveKeys, HeldOctets
<1>3. L \in Nat /\ Cardinality(order) \in Nat
  BY KeysAssumption, FS_Subset, FS_CardinalityType DEF IInv, TypeOK, Finite
<1>4. L <= MaxStreams /\ held <= MaxHeldTotal
  <2>1. CASE order = {}
    <3>1. LiveKeys = {} /\ HeldOctets = {}
      BY <2>1 DEF IInv, EveryStreamQueued, HeldOctets
    <3> QED
      BY <3>1, FS_EmptySet, BoundsAssumption DEF IInv, HeldExact
  <2>2. CASE ~OverLimit
    BY <2>2, <1>3, BoundsAssumption DEF OverLimit, IInv, TypeOK
  <2> QED
    BY <1>1, <2>1, <2>2
<1>5. cap \in Nat /\ L <= cap
  <2>1. SweepFactor \in Nat /\ SweepFactor >= 1 /\ OriginWindow \in Nat
    BY BoundsAssumption
  <2>2. \A m \in Nat : SweepFactor * m \in Nat /\ m <= SweepFactor * m
    BY <2>1
  <2>3. SweepFactor * L \in Nat /\ L <= SweepFactor * L /\ SweepFactor * OriginWindow \in Nat
    BY <2>1, <2>2, <1>3
  <2> QED
    BY <2>3, <1>3
<1> HIDE DEF cap
<1>6. IsFiniteSet(order') /\ Cardinality(order') <= cap
  <2>1. CASE Cardinality(order) > cap
    <3>1. IsFiniteSet(order') /\ Cardinality(order') <= L
      BY <2>1, <1>1, SweepBound
    <3>2. Cardinality(order') \in Nat
      BY <3>1, FS_CardinalityType
    <3> QED
      BY <3>1, <3>2, <1>3, <1>5
  <2>2. CASE ~(Cardinality(order) > cap)
    BY <2>2, <1>1, <1>3, <1>5 DEF IInv, Finite
  <2> QED
    BY <2>1, <2>2
<1>7. TypeOK' /\ StampsDistinct' /\ StampIsRecency'
  <2>1. order' \subseteq order
    BY <1>1
  <2> QED
    BY <1>1, <1>2, <2>1 DEF IInv, TypeOK, StampsDistinct, StampIsRecency
<1>8. EveryStreamQueued'
  BY <1>1, <1>2 DEF IInv, EveryStreamQueued, Answers
<1>9. WithinBounds'
  BY <1>1, <1>2, <1>4, <1>6 DEF WithinBounds, cap
<1> QED
  BY <1>1, <1>2, <1>6, <1>7, <1>8, <1>9 DEF IInv, Finite, HeldExact

LEMMA NextIInv == IInv /\ [Next]_vars => IInv'
<1> SUFFICES ASSUME IInv, [Next]_vars PROVE IInv'
  OBVIOUS
<1>a. input \in Seq(Frames) /\ Len(input) \in Nat
  BY DEF IInv, TypeOK
<1>1. ASSUME NEW s \in Frames, PushOther(s) PROVE IInv'
  <2>1. input' \in Seq(Frames) /\ Len(input') = Len(input) + 1
    BY <1>1, <1>a DEF PushOther, Pushing
  <2> QED
    BY <2>1, <1>1, <1>a, QuietStep DEF PushOther
<1>2. ASSUME NEW s \in Frames, Push(s) PROVE IInv'
  BY <1>2, PushStep
<1>3. CASE EvictPop
  BY <1>3, EvictPopStep
<1>4. CASE EvictEnd
  BY <1>4, EvictEndStep
<1>5. CASE Finish
  BY <1>5, <1>a, QuietStep DEF Finish
<1>6. ASSUME NEW k \in Keys, FinishRetire(k) PROVE IInv'
  BY <1>6, RetireStep DEF FinishRetire, IInv, EveryStreamQueued
<1>7. CASE FinishEnd
  BY <1>7, <1>a, QuietStep DEF FinishEnd
<1>8. CASE UNCHANGED vars
  BY <1>8, <1>a, QuietStep DEF vars
<1> QED
  BY <1>1, <1>2, <1>3, <1>4, <1>5, <1>6, <1>7, <1>8 DEF Next

THEOREM InvariantHolds == Spec => []IInv
BY InitIInv, NextIInv, PTL DEF Spec

(* Type correctness, which includes that the unsigned `held` never         *)
(* underflows, though push and retire each subtract from it.               *)
THEOREM TypeCorrect == Spec => []TypeOK
<1>1. IInv => TypeOK
  BY DEF IInv
<1> QED
  BY <1>1, InvariantHolds, PTL

(* The table-wide account is what the live builds hold, whatever a feed    *)
(* delivered or kept.                                                      *)
THEOREM AccountExact == Spec => []HeldExact
<1>1. IInv => HeldExact
  BY DEF IInv
<1> QED
  BY <1>1, InvariantHolds, PTL

(* Between frames the table is within MAX_STREAMS and MAX_HELD_TOTAL and   *)
(* its queue within the sweep's bound, whatever was captured.              *)
THEOREM BoundsHold == Spec => []WithinBounds
<1>1. IInv => WithinBounds
  BY DEF IInv
<1> QED
  BY <1>1, InvariantHolds, PTL

(* Every live stream keeps the entry of its last stamp in the queue.       *)
THEOREM QueueComplete == Spec => []EveryStreamQueued
<1>1. IInv => EveryStreamQueued
  BY DEF IInv
<1> QED
  BY <1>1, InvariantHolds, PTL

(* A stream's last packet is the one Latest chooses.                       *)
LEMMA LatestIsLast ==
  ASSUME IInv, NEW k \in LiveKeys
  PROVE  Latest(live[k].pkts) \in Nat /\ IsLatest(Latest(live[k].pkts), live[k].pkts)
<1>1. PICK p \in 0 .. (Len(input) - 1) : IsLatest(p, live[k].pkts)
  BY DEF IInv, StampIsRecency
<1>2. IsLatest(Latest(live[k].pkts), live[k].pkts)
  BY <1>1 DEF IsLatest, Latest
<1> QED
  BY <1>2, PacketsAreOld DEF IsLatest

(* What evict retires is the stream whose last packet is the oldest: the   *)
(* front of the queue is the least stamp, every live stream is queued by   *)
(* its last one, and stamps grow with packets.                             *)
THEOREM EvictionLeastRecentFirst == Spec => EvictsLeastRecent
<1>1. IInv /\ [Next]_vars =>
        [pc = "evict" =>
           \A k \in LiveKeys \ DOMAIN live' : \A j \in LiveKeys :
             Latest(live[k].pkts) <= Latest(live[j].pkts)]_vars
  <2> SUFFICES ASSUME IInv, [Next]_vars, pc = "evict",
                      NEW k \in LiveKeys \ DOMAIN live', NEW j \in LiveKeys
               PROVE  Latest(live[k].pkts) <= Latest(live[j].pkts)
    OBVIOUS
  <2>1. CASE EvictPop
    <3>1. order # {} /\ order \subseteq Nat \X Keys
      BY <2>1 DEF EvictPop, IInv, TypeOK
    <3>2. \A d \in order : Front[1] <= d[1]
      BY <3>1, FrontIsOldest
    <3>3. Answers(Front) /\ k = Front[2]
      BY <2>1 DEF EvictPop, retire, Without, LiveKeys
    <3>4. <<live[j].seq, j>> \in order
      BY DEF IInv, EveryStreamQueued
    <3>5. live[k].seq <= live[j].seq
      BY <3>2, <3>3, <3>4 DEF Answers
    <3> QED
      BY <3>5, LatestIsLast DEF IInv, StampIsRecency
  <2>2. CASE EvictEnd
    BY <2>2 DEF EvictEnd, LiveKeys
  <2>3. CASE UNCHANGED vars
    BY <2>3 DEF vars, LiveKeys
  <2> QED
    BY <2>1, <2>2, <2>3
    DEF Next, PushOther, Push, Pushing, Finish, FinishRetire, FinishEnd
<1> QED
  BY <1>1, InvariantHolds, PTL DEF Spec, EvictsLeastRecent

----------------------------------------------------------------------------
(* Where packets are, in any table L and output O, against a capture inp.  *)

(* What a stream of key k holds: packets of that key, from its first one   *)
(* on, each in the half of the endpoint that sent it.                      *)
Run(s, k, inp) ==
  /\ s.first \in Fed(s.pkts) /\ \A p \in Fed(s.pkts) : s.first <= p
  /\ \A p \in Fed(s.pkts) : p \in 0 .. (Len(inp) - 1) /\ inp[p + 1].tcp /\ inp[p + 1].key = k
  /\ \A p \in s.pkts[0] : inp[p + 1].from = s.src
  /\ \A p \in s.pkts[1] : inp[p + 1].from # s.src

Before(s, t) == \A p \in Fed(s.pkts), q \in Fed(t.pkts) : p < q

Carried(L, O, p, k) ==
  \/ \E i \in 1 .. Len(O) : O[i].key = k /\ p \in Fed(O[i].pkts)
  \/ k \in DOMAIN L /\ p \in Fed(L[k].pkts)

(* Every stream is a run of its key, no packet is missing, and streams of  *)
(* one key follow each other, the live one last.                           *)
Runs(L, O, inp) ==
  /\ IsSeq(O) /\ inp \in Seq(Frames) /\ DOMAIN L \subseteq Keys
  /\ \A k \in DOMAIN L : Run(L[k], k, inp)
  /\ \A i \in 1 .. Len(O) : O[i].key \in Keys /\ Run(O[i], O[i].key, inp)
  /\ \A p \in 0 .. (Len(inp) - 1) : inp[p + 1].tcp => Carried(L, O, p, inp[p + 1].key)
  /\ \A i, j \in 1 .. Len(O) :
       i # j /\ O[i].key = O[j].key => Before(O[i], O[j]) \/ Before(O[j], O[i])
  /\ \A i \in 1 .. Len(O) : O[i].key \in DOMAIN L => Before(O[i], L[O[i].key])

PInv ==
  /\ Runs(live, out, input)
  /\ pc = "done" => \A i, j \in 1 .. Len(out) : i < j => out[i].first < out[j].first

LEMMA CaptureGrows ==
  ASSUME NEW inp \in Seq(Frames), NEW f \in Frames
  PROVE  /\ Append(inp, f) \in Seq(Frames) /\ Len(Append(inp, f)) = Len(inp) + 1
         /\ Len(inp) \in Nat /\ Append(inp, f)[Len(inp) + 1] = f
         /\ \A q \in 0 .. (Len(inp) - 1) : /\ Append(inp, f)[q + 1] = inp[q + 1]
                                            /\ q \in 0 .. (Len(Append(inp, f)) - 1)
         /\ \A q \in 0 .. (Len(Append(inp, f)) - 1) : q \in 0 .. (Len(inp) - 1) \/ q = Len(inp)
         /\ Len(inp) \in 0 .. (Len(Append(inp, f)) - 1)
<1>1. /\ Append(inp, f) \in Seq(Frames) /\ Len(Append(inp, f)) = Len(inp) + 1
      /\ Len(inp) \in Nat
      /\ \A i \in 1 .. Len(inp) : Append(inp, f)[i] = inp[i]
      /\ Append(inp, f)[Len(inp) + 1] = f
  BY AppendProperties, LenProperties
<1>2. \A q \in 0 .. (Len(inp) - 1) : q + 1 \in 1 .. Len(inp)
  BY <1>1
<1>3. \A q \in 0 .. ((Len(inp) + 1) - 1) : q \in 0 .. (Len(inp) - 1) \/ q = Len(inp)
  BY <1>1
<1>4. /\ \A q \in 0 .. (Len(inp) - 1) : q \in 0 .. ((Len(inp) + 1) - 1)
      /\ Len(inp) \in 0 .. ((Len(inp) + 1) - 1)
  BY <1>1
<1> QED
  BY <1>1, <1>2, <1>3, <1>4

(* What another frame does not change.                                     *)
LEMMA RunStays ==
  ASSUME NEW inp \in Seq(Frames), NEW f \in Frames, NEW s, NEW k, Run(s, k, inp)
  PROVE  Run(s, k, Append(inp, f))
<1> DEFINE next == Append(inp, f)
<1>1. \A q \in 0 .. (Len(inp) - 1) : next[q + 1] = inp[q + 1] /\ q \in 0 .. (Len(next) - 1)
  BY CaptureGrows
<1>2. \A p \in s.pkts[0] : p \in Fed(s.pkts)
  BY DEF Fed
<1>3. \A p \in s.pkts[1] : p \in Fed(s.pkts)
  BY DEF Fed
<1>4. \A p \in Fed(s.pkts) : p \in 0 .. (Len(inp) - 1) /\ inp[p + 1].tcp /\ inp[p + 1].key = k
  BY DEF Run
<1> HIDE DEF next
<1>5. \A p \in Fed(s.pkts) : next[p + 1] = inp[p + 1] /\ p \in 0 .. (Len(next) - 1)
  BY <1>1, <1>4
<1>6. Run(s, k, next)
  BY <1>2, <1>3, <1>4, <1>5 DEF Run
<1> QED
  BY <1>6 DEF next

(* A frame that carries no segment.                                        *)
LEMMA OtherRuns ==
  ASSUME NEW L, NEW O, NEW inp, Runs(L, O, inp), NEW f \in Frames, ~f.tcp
  PROVE  Runs(L, O, Append(inp, f))
<1> DEFINE next == Append(inp, f)
<1>1. /\ IsSeq(O) /\ inp \in Seq(Frames) /\ DOMAIN L \subseteq Keys
      /\ \A k \in DOMAIN L : Run(L[k], k, inp)
      /\ \A i \in 1 .. Len(O) : O[i].key \in Keys /\ Run(O[i], O[i].key, inp)
      /\ \A p \in 0 .. (Len(inp) - 1) : inp[p + 1].tcp => Carried(L, O, p, inp[p + 1].key)
      /\ \A i, j \in 1 .. Len(O) :
           i # j /\ O[i].key = O[j].key => Before(O[i], O[j]) \/ Before(O[j], O[i])
      /\ \A i \in 1 .. Len(O) : O[i].key \in DOMAIN L => Before(O[i], L[O[i].key])
  BY DEF Runs
<1>2. /\ next \in Seq(Frames) /\ next[Len(inp) + 1] = f
      /\ \A q \in 0 .. (Len(inp) - 1) : next[q + 1] = inp[q + 1]
      /\ \A q \in 0 .. (Len(next) - 1) : q \in 0 .. (Len(inp) - 1) \/ q = Len(inp)
  BY <1>1, CaptureGrows
<1>3. \A k \in DOMAIN L : Run(L[k], k, next)
  BY <1>1, RunStays
<1>4. \A i \in 1 .. Len(O) : O[i].key \in Keys /\ Run(O[i], O[i].key, next)
  BY <1>1, RunStays
<1> HIDE DEF next
<1>5. ASSUME NEW p \in 0 .. (Len(next) - 1), next[p + 1].tcp
      PROVE  Carried(L, O, p, next[p + 1].key)
  <2>1. CASE p = Len(inp)
    BY <2>1, <1>2, <1>5
  <2>2. CASE p \in 0 .. (Len(inp) - 1)
    BY <2>2, <1>1, <1>2, <1>5
  <2> QED
    BY <2>1, <2>2, <1>2
<1>6. Runs(L, O, next)
  BY <1>1, <1>2, <1>3, <1>4, <1>5 DEF Runs
<1> QED
  BY <1>6 DEF next

Put(L, k, t) == [j \in (DOMAIN L) \cup {k} |-> IF j = k THEN t ELSE L[j]]
Removed(L, k) == [j \in (DOMAIN L) \ {k} |-> L[j]]

(* A stream, new or not, that takes the segment just captured.             *)
LEMMA TakeRuns ==
  ASSUME NEW L, NEW O, NEW inp, Runs(L, O, inp), NEW f \in Frames, f.tcp, f.key \in Keys,
         NEW l, f.key \in DOMAIN L => l = L[f.key],
         f.key \notin DOMAIN L => Fed(l.pkts) = {} /\ l.first = Len(inp),
         NEW t, t.first = l.first, t.src = l.src,
         Fed(t.pkts) = Fed(l.pkts) \cup {Len(inp)},
         \A q \in t.pkts[0] : q \in l.pkts[0] \/ (q = Len(inp) /\ f.from = l.src),
         \A q \in t.pkts[1] : q \in l.pkts[1] \/ (q = Len(inp) /\ f.from # l.src)
  PROVE  Runs(Put(L, f.key, t), O, Append(inp, f))
<1> DEFINE next == Append(inp, f)
           k    == f.key
           p    == Len(inp)
           L2   == Put(L, k, t)
<1>1. /\ IsSeq(O) /\ inp \in Seq(Frames) /\ DOMAIN L \subseteq Keys
      /\ \A j \in DOMAIN L : Run(L[j], j, inp)
      /\ \A i \in 1 .. Len(O) : O[i].key \in Keys /\ Run(O[i], O[i].key, inp)
      /\ \A q \in 0 .. (Len(inp) - 1) : inp[q + 1].tcp => Carried(L, O, q, inp[q + 1].key)
      /\ \A i, j \in 1 .. Len(O) :
           i # j /\ O[i].key = O[j].key => Before(O[i], O[j]) \/ Before(O[j], O[i])
      /\ \A i \in 1 .. Len(O) : O[i].key \in DOMAIN L => Before(O[i], L[O[i].key])
  BY DEF Runs
<1>2. /\ next \in Seq(Frames) /\ next[p + 1] = f /\ p \in Nat
      /\ \A q \in 0 .. (p - 1) : next[q + 1] = inp[q + 1] /\ q \in 0 .. (Len(next) - 1)
      /\ \A q \in 0 .. (Len(next) - 1) : q \in 0 .. (p - 1) \/ q = p
      /\ p \in 0 .. (Len(next) - 1)
  BY <1>1, CaptureGrows
<1>3. /\ DOMAIN L2 = (DOMAIN L) \cup {k} /\ L2[k] = t
      /\ \A j \in DOMAIN L2 : j # k => j \in DOMAIN L /\ L2[j] = L[j]
      /\ \A j \in DOMAIN L : j # k => L2[j] = L[j]
  BY DEF Put
<1>4. \A i \in 1 .. Len(O) : O[i].key \in Keys /\ Run(O[i], O[i].key, next)
  BY <1>1, RunStays
<1>5. \A j \in DOMAIN L : Run(L[j], j, next)
  BY <1>1, RunStays
<1>6. /\ k \in DOMAIN L => l = L[k]
      /\ k \notin DOMAIN L => Fed(l.pkts) = {} /\ l.first = p
      /\ Fed(t.pkts) = Fed(l.pkts) \cup {p}
      /\ \A q \in t.pkts[0] : q \in l.pkts[0] \/ (q = p /\ f.from = l.src)
      /\ \A q \in t.pkts[1] : q \in l.pkts[1] \/ (q = p /\ f.from # l.src)
      /\ k \in Keys
  OBVIOUS
<1> HIDE DEF next, k, p, L2
<1>7. Run(t, k, next)
  <2>1. /\ \A q \in Fed(l.pkts) : /\ q \in 0 .. (p - 1) /\ next[q + 1].tcp /\ next[q + 1].key = k
        /\ \A q \in l.pkts[0] : next[q + 1].from = l.src
        /\ \A q \in l.pkts[1] : next[q + 1].from # l.src
    <3>1. CASE k \in DOMAIN L
      <4>1. Run(l, k, inp) /\ Run(l, k, next)
        BY <3>1, <1>1, <1>5, <1>6
      <4> QED
        BY <4>1 DEF Run, p
    <3>2. CASE k \notin DOMAIN L
      <4>1. Fed(l.pkts) = {}
        BY <3>2, <1>6
      <4> QED
        BY <4>1 DEF Fed
    <3> QED
      BY <3>1, <3>2
  <2>2. \A q \in Fed(t.pkts) : q \in Fed(l.pkts) \/ q = p
    BY <1>6
  <2>3. next[p + 1].tcp /\ next[p + 1].key = k
    BY <1>2 DEF k
  <2>4. \A q \in Fed(t.pkts) : q \in 0 .. (Len(next) - 1) /\ next[q + 1].tcp /\ next[q + 1].key = k
    BY <2>1, <2>2, <2>3, <1>2
  <2>5. \A q \in t.pkts[0] : next[q + 1].from = t.src
    BY <2>1, <1>2, <1>6
  <2>6. \A q \in t.pkts[1] : next[q + 1].from # t.src
    BY <2>1, <1>2, <1>6
  <2>7. t.first \in Fed(t.pkts) /\ \A q \in Fed(t.pkts) : t.first <= q
    <3>1. CASE k \in DOMAIN L
      <4>1. l.first \in Fed(l.pkts) /\ \A q \in Fed(l.pkts) : l.first <= q
        BY <3>1, <1>1, <1>6 DEF Run
      <4>2. l.first <= p
        BY <4>1, <2>1, <1>2
      <4> QED
        BY <4>1, <4>2, <2>2, <1>6
    <3>2. CASE k \notin DOMAIN L
      <4>1. Fed(t.pkts) = {p} /\ t.first = p
        BY <3>2, <1>6
      <4> QED
        BY <4>1, <1>2
    <3> QED
      BY <3>1, <3>2
  <2> QED
    BY <2>4, <2>5, <2>6, <2>7 DEF Run
<1>8. \A j \in DOMAIN L2 : Run(L2[j], j, next)
  BY <1>3, <1>5, <1>7
<1>9. ASSUME NEW q \in 0 .. (Len(next) - 1), next[q + 1].tcp
      PROVE  Carried(L2, O, q, next[q + 1].key)
  <2>1. CASE q = p
    BY <2>1, <1>2, <1>3, <1>6 DEF Carried, k
  <2>2. CASE q \in 0 .. (p - 1)
    <3>1. next[q + 1] = inp[q + 1] /\ Carried(L, O, q, inp[q + 1].key)
      BY <2>2, <1>1, <1>2, <1>9 DEF p
    <3> DEFINE m == inp[q + 1].key
    <3>2. CASE m \in DOMAIN L /\ q \in Fed(L[m].pkts)
      <4>1. m \in DOMAIN L2 /\ q \in Fed(L2[m].pkts)
        BY <3>2, <1>3, <1>6
      <4> QED
        BY <4>1, <3>1 DEF Carried
    <3> QED
      BY <3>1, <3>2 DEF Carried
  <2> QED
    BY <2>1, <2>2, <1>2
<1>10. ASSUME NEW i \in 1 .. Len(O), O[i].key \in DOMAIN L2
       PROVE  Before(O[i], L2[O[i].key])
  <2>1. CASE O[i].key # k
    BY <2>1, <1>1, <1>3, <1>10
  <2>2. CASE O[i].key = k
    <3>1. \A q \in Fed(O[i].pkts) : q \in 0 .. (p - 1)
      BY <1>1 DEF Run, p
    <3>2. \A q \in Fed(O[i].pkts) : q < p
      BY <3>1, <1>2
    <3>3. \A q \in Fed(O[i].pkts), r \in Fed(l.pkts) : q < r
      BY <2>2, <1>1, <1>6 DEF Before
    <3> QED
      BY <3>2, <3>3, <2>2, <1>3, <1>6 DEF Before
  <2> QED
    BY <2>1, <2>2
<1>11. DOMAIN L2 \subseteq Keys
  BY <1>1, <1>3, <1>6
<1>12. Runs(L2, O, next)
  BY <1>1, <1>2, <1>4, <1>8, <1>9, <1>10, <1>11 DEF Runs
<1> QED
  BY <1>12 DEF L2, next, k, p

(* retire: the live stream of a key is handed back after the earlier ones. *)
LEMMA RetireRuns ==
  ASSUME NEW L, NEW O, NEW inp, Runs(L, O, inp), NEW k \in DOMAIN L,
         NEW c, c.key = k, c.first = L[k].first, c.src = L[k].src, c.pkts = L[k].pkts
  PROVE  Runs(Removed(L, k), Append(O, c), inp)
<1> DEFINE L2 == Removed(L, k)
           O2 == Append(O, c)
           n  == Len(O)
<1>1. /\ IsSeq(O) /\ inp \in Seq(Frames) /\ DOMAIN L \subseteq Keys
      /\ \A j \in DOMAIN L : Run(L[j], j, inp)
      /\ \A i \in 1 .. n : O[i].key \in Keys /\ Run(O[i], O[i].key, inp)
      /\ \A q \in 0 .. (Len(inp) - 1) : inp[q + 1].tcp => Carried(L, O, q, inp[q + 1].key)
      /\ \A i, j \in 1 .. n :
           i # j /\ O[i].key = O[j].key => Before(O[i], O[j]) \/ Before(O[j], O[i])
      /\ \A i \in 1 .. n : O[i].key \in DOMAIN L => Before(O[i], L[O[i].key])
  BY DEF Runs
<1>2. /\ IsSeq(O2) /\ Len(O2) = n + 1 /\ O2[n + 1] = c
      /\ \A i \in 1 .. n : O2[i] = O[i] /\ i \in 1 .. Len(O2)
      /\ n + 1 \in 1 .. Len(O2)
      /\ \A i \in 1 .. Len(O2) : i \in 1 .. n \/ i = n + 1
  BY <1>1, AppendedSeq
<1>3. DOMAIN L2 = (DOMAIN L) \ {k} /\ \A j \in DOMAIN L2 : L2[j] = L[j]
  BY DEF Removed
<1> HIDE DEF L2, O2, n
<1>4. Run(c, k, inp)
  <2>1. Run(L[k], k, inp)
    BY <1>1
  <2> QED
    BY <2>1 DEF Run
<1>5. \A i \in 1 .. Len(O2) : O2[i].key \in Keys /\ Run(O2[i], O2[i].key, inp)
  BY <1>1, <1>2, <1>4
<1>6. ASSUME NEW q \in 0 .. (Len(inp) - 1), inp[q + 1].tcp
      PROVE  Carried(L2, O2, q, inp[q + 1].key)
  <2> DEFINE m == inp[q + 1].key
  <2>1. Carried(L, O, q, m)
    BY <1>1, <1>6
  <2> HIDE DEF m
  <2>2. CASE \E i \in 1 .. n : O[i].key = m /\ q \in Fed(O[i].pkts)
    BY <2>2, <1>2 DEF Carried, m
  <2>3. CASE m \in DOMAIN L /\ q \in Fed(L[m].pkts) /\ m # k
    BY <2>3, <1>3 DEF Carried, m
  <2>4. CASE m = k /\ q \in Fed(L[k].pkts)
    <3>1. O2[n + 1].key = m /\ q \in Fed(O2[n + 1].pkts)
      BY <2>4, <1>2
    <3> QED
      BY <3>1, <1>2 DEF Carried, m
  <2> QED
    BY <2>1, <2>2, <2>3, <2>4 DEF Carried, n
<1>7. ASSUME NEW i \in 1 .. n, O[i].key = k PROVE Before(O[i], c)
  <2>1. Before(O[i], L[k])
    BY <1>1, <1>7
  <2> QED
    BY <2>1 DEF Before
<1>8. ASSUME NEW i \in 1 .. Len(O2), NEW j \in 1 .. Len(O2), i # j, O2[i].key = O2[j].key
      PROVE  Before(O2[i], O2[j]) \/ Before(O2[j], O2[i])
  <2>1. CASE i \in 1 .. n /\ j \in 1 .. n
    BY <2>1, <1>1, <1>2, <1>8
  <2>2. CASE i \in 1 .. n /\ j = n + 1
    BY <2>2, <1>2, <1>7, <1>8
  <2>3. CASE i = n + 1 /\ j \in 1 .. n
    BY <2>3, <1>2, <1>7, <1>8
  <2> QED
    BY <2>1, <2>2, <2>3, <1>2, <1>8
<1>9. ASSUME NEW i \in 1 .. Len(O2), O2[i].key \in DOMAIN L2
      PROVE  Before(O2[i], L2[O2[i].key])
  <2>1. i \in 1 .. n /\ O2[i] = O[i]
    BY <1>2, <1>3, <1>9
  <2> QED
    BY <2>1, <1>1, <1>3, <1>9
<1>10. Runs(L2, O2, inp)
  BY <1>1, <1>2, <1>3, <1>5, <1>6, <1>8, <1>9 DEF Runs
<1> QED
  BY <1>10 DEF L2, O2

(* No two streams begin with one packet.                                   *)
LEMMA FirstsDiffer ==
  ASSUME NEW L, NEW O, NEW inp, Runs(L, O, inp),
         NEW i \in 1 .. Len(O), NEW j \in 1 .. Len(O), O[i].first = O[j].first
  PROVE  i = j
<1> SUFFICES ASSUME i # j PROVE FALSE
  OBVIOUS
<1> DEFINE p == O[i].first
<1>1. Run(O[i], O[i].key, inp) /\ Run(O[j], O[j].key, inp)
  BY DEF Runs
<1>2. p \in Fed(O[i].pkts) /\ p \in Fed(O[j].pkts)
  BY <1>1 DEF Run
<1>3. p \in 0 .. (Len(inp) - 1) /\ inp[p + 1].key = O[i].key /\ inp[p + 1].key = O[j].key
  BY <1>1, <1>2 DEF Run
<1>4. Before(O[i], O[j]) \/ Before(O[j], O[i])
  BY <1>3 DEF Runs
<1>5. p < p
  BY <1>2, <1>4 DEF Before
<1> QED
  BY <1>3, <1>5

LEMMA SortRuns ==
  ASSUME NEW L, NEW O, NEW inp, Runs(L, O, inp)
  PROVE  /\ Runs(L, Sorted(O), inp)
         /\ \A i, j \in 1 .. Len(Sorted(O)) :
              i < j => Sorted(O)[i].first < Sorted(O)[j].first
<1> DEFINE n    == Len(O)
           keys == [i \in 1 .. n |-> O[i].first]
           O2   == SortedBy(O, keys)
<1>1. /\ IsSeq(O) /\ inp \in Seq(Frames) /\ DOMAIN L \subseteq Keys
      /\ \A j \in DOMAIN L : Run(L[j], j, inp)
      /\ \A i \in 1 .. n : O[i].key \in Keys /\ Run(O[i], O[i].key, inp)
      /\ \A q \in 0 .. (Len(inp) - 1) : inp[q + 1].tcp => Carried(L, O, q, inp[q + 1].key)
      /\ \A i, j \in 1 .. n :
           i # j /\ O[i].key = O[j].key => Before(O[i], O[j]) \/ Before(O[j], O[i])
      /\ \A i \in 1 .. n : O[i].key \in DOMAIN L => Before(O[i], L[O[i].key])
  BY DEF Runs
<1>2. n \in Nat
  BY <1>1, SeqOfItself DEF IsSeq
<1>3. \A i \in 1 .. n : O[i].first \in Int
  BY <1>1 DEF Run
<1>4. keys \in [1 .. n -> Int] /\ \A i \in 1 .. n : keys[i] = O[i].first
  BY <1>3
<1>5. Sorted(O) = O2
  BY DEF Sorted
<1> HIDE DEF keys
<1>6. Len(keys) = n
  BY <1>2, <1>4, FunctionSeq
<1>7. PICK f, g : Resorted(O, keys, n, f, g, O2)
  <2>1. Len(O) = n /\ keys \in [1 .. n -> Int]
    BY <1>4
  <2> HIDE DEF n
  <2> QED
    BY <2>1, <1>2, <1>6, SortPermutes
<1>8. IsSeq(O2) /\ Len(O2) = n
  <2> DEFINE S == {O2[r] : r \in 1 .. n}
  <2>1. O2 = [r \in 1 .. n |-> O2[r]]
    BY DEF SortedBy
  <2> HIDE DEF O2
  <2>2. O2 \in [1 .. n -> S]
    BY <2>1
  <2> HIDE DEF S
  <2>3. O2 \in Seq(S) /\ Len(O2) = n
    BY <2>2, <1>2, FunctionSeq
  <2> QED
    BY <2>3, SeqOfItself
<1>9. /\ \A i \in 1 .. n : /\ f[i] \in 1 .. n /\ g[i] \in 1 .. n /\ f[g[i]] = i
                           /\ O2[i] = O[g[i]] /\ O2[f[i]] = O[i]
      /\ \A i, j \in 1 .. n : keys[i] < keys[j] => f[i] < f[j]
  BY <1>7 DEF Resorted
<1> HIDE DEF O2
<1>10. \A i \in 1 .. Len(O2) : O2[i].key \in Keys /\ Run(O2[i], O2[i].key, inp)
  BY <1>1, <1>8, <1>9
<1>11. ASSUME NEW q \in 0 .. (Len(inp) - 1), inp[q + 1].tcp
       PROVE  Carried(L, O2, q, inp[q + 1].key)
  <2> DEFINE m == inp[q + 1].key
  <2>1. Carried(L, O, q, m)
    BY <1>1, <1>11
  <2> HIDE DEF m
  <2>2. ASSUME NEW i \in 1 .. n, O[i].key = m, q \in Fed(O[i].pkts)
        PROVE  Carried(L, O2, q, m)
    <3>1. f[i] \in 1 .. Len(O2) /\ O2[f[i]] = O[i]
      BY <1>8, <1>9
    <3> QED
      BY <3>1, <2>2 DEF Carried
  <2> QED
    BY <2>1, <2>2 DEF Carried, m
<1>12. ASSUME NEW i \in 1 .. Len(O2), NEW j \in 1 .. Len(O2), i # j, O2[i].key = O2[j].key
       PROVE  Before(O2[i], O2[j]) \/ Before(O2[j], O2[i])
  <2>1. g[i] \in 1 .. n /\ g[j] \in 1 .. n /\ g[i] # g[j] /\ O2[i] = O[g[i]] /\ O2[j] = O[g[j]]
    BY <1>8, <1>9, <1>12
  <2> QED
    BY <2>1, <1>1, <1>12
<1>13. \A i \in 1 .. Len(O2) : O2[i].key \in DOMAIN L => Before(O2[i], L[O2[i].key])
  BY <1>1, <1>8, <1>9
<1>14. Runs(L, O2, inp)
  BY <1>1, <1>8, <1>10, <1>11, <1>12, <1>13 DEF Runs
<1>15. ASSUME NEW i \in 1 .. n, NEW j \in 1 .. n, i < j PROVE O2[i].first < O2[j].first
  <2>1. g[i] \in 1 .. n /\ g[j] \in 1 .. n /\ f[g[i]] = i /\ f[g[j]] = j
    BY <1>9
  <2>2. g[i] # g[j]
    BY <2>1, <1>15
  <2>3. O[g[i]].first # O[g[j]].first
    BY <2>1, <2>2, FirstsDiffer
  <2>4. ~(keys[g[j]] < keys[g[i]])
    <3>1. keys[g[j]] < keys[g[i]] => j < i
      BY <2>1, <1>9
    <3> QED
      BY <3>1, <1>15
  <2>5. /\ keys[g[i]] = O[g[i]].first /\ keys[g[j]] = O[g[j]].first
        /\ O[g[i]].first \in Int /\ O[g[j]].first \in Int
    BY <2>1, <1>3, <1>4
  <2>6. O[g[i]].first < O[g[j]].first
    BY <2>3, <2>4, <2>5
  <2> QED
    BY <2>6, <1>9
<1> QED
  BY <1>5, <1>8, <1>14, <1>15

LEMMA InitPInv == Init => PInv
<1> SUFFICES ASSUME Init PROVE PInv
  OBVIOUS
<1>1. /\ live = <<>> /\ out = <<>> /\ input = <<>> /\ pc = "idle"
      /\ <<>> \in Seq(Frames) /\ Len(<<>>) = 0 /\ DOMAIN <<>> = {}
  BY EmptySeq DEF Init
<1>2. IsSeq(<<>>)
  BY <1>1, SeqOfItself
<1>3. \A i \in 1 .. 0 : FALSE
  OBVIOUS
<1>4. \A i \in 0 .. (0 - 1) : FALSE
  OBVIOUS
<1>5. Runs(live, out, input)
  BY <1>1, <1>2, <1>3, <1>4 DEF Runs
<1> QED
  BY <1>1, <1>5 DEF PInv

LEMMA PushRuns ==
  ASSUME IInv, PInv, NEW s \in Frames, Push(s)
  PROVE  PInv'
<1> DEFINE k == s.key
           p == Len(input)
           l == StreamFor(s, p)
           d == Direction(l, s)
<1>1. PICK h \in 0 .. (l.held[d] + s.len) : live' = With(k, Touched(l, d, p, h))
  BY DEF Push
<1>2. s.tcp /\ input' = Append(input, s) /\ out' = out /\ pc' = "evict"
  BY DEF Push, Pushing
<1> DEFINE t == Touched(l, d, p, h)
<1>3. p \in Nat
  BY DEF IInv, TypeOK
<1>4. /\ k \in Keys /\ d \in Dirs /\ s.len \in Nat /\ l.held \in [Dirs -> Nat]
      /\ k \in LiveKeys => l = live[k]
      /\ k \notin LiveKeys => Fed(l.pkts) = {}
      /\ \A i \in Nat : Fed(Touched(l, d, p, i).pkts) = Fed(l.pkts) \cup {p}
  BY <1>3, TouchedFields
<1>5. h \in Nat
  BY <1>4
<1>6. Fed(t.pkts) = Fed(l.pkts) \cup {p}
  BY <1>4, <1>5
<1>7. t.first = l.first /\ t.src = l.src /\ t.pkts = [l.pkts EXCEPT ![d] = @ \cup {p}]
  BY DEF Touched
<1>8. k \notin LiveKeys => l.first = p
  BY DEF StreamFor, NewStream
<1>9. (d = 0 /\ s.from = l.src) \/ (d = 1 /\ s.from # l.src)
  BY DEF Direction
<1>10. l.pkts \in [Dirs -> SUBSET Nat]
  <2>1. CASE k \in LiveKeys
    BY <2>1, <1>4 DEF IInv, TypeOK
  <2>2. CASE k \notin LiveKeys
    BY <2>2 DEF StreamFor, NewStream
  <2> QED
    BY <2>1, <2>2
<1>11. live' = Put(live, k, t)
  BY <1>1 DEF With, Put, LiveKeys
<1> HIDE DEF t, l, d, k, p
<1>12. t.pkts[0] = IF d = 0 THEN l.pkts[0] \cup {p} ELSE l.pkts[0]
  BY <1>7, <1>9, <1>10 DEF Dirs
<1>13. t.pkts[1] = IF d = 1 THEN l.pkts[1] \cup {p} ELSE l.pkts[1]
  BY <1>7, <1>9, <1>10 DEF Dirs
<1>14. \A q \in t.pkts[0] : q \in l.pkts[0] \/ (q = p /\ s.from = l.src)
  BY <1>9, <1>12
<1>15. \A q \in t.pkts[1] : q \in l.pkts[1] \/ (q = p /\ s.from # l.src)
  BY <1>9, <1>13
<1>16. Runs(live, out, input)
  BY DEF PInv
<1>17. Runs(Put(live, k, t), out, Append(input, s))
  BY <1>2, <1>4, <1>6, <1>7, <1>8, <1>14, <1>15, <1>16, TakeRuns DEF k, p, LiveKeys
<1>18. Runs(live', out', input')
  BY <1>2, <1>11, <1>17
<1> QED
  BY <1>2, <1>18 DEF PInv

LEMMA RetireKeepsRuns ==
  ASSUME PInv, NEW k \in LiveKeys, NEW evicted, retire(k, evicted), input' = input, pc' # "done"
  PROVE  PInv'
<1>1. Runs(live, out, input)
  BY DEF PInv
<1>2. PICK c : /\ out' = Append(out, c)
               /\ c = [key |-> k, src |-> live[k].src, first |-> live[k].first,
                       evicted |-> evicted, pkts |-> live[k].pkts]
  BY DEF retire
<1>3. c.key = k /\ c.first = live[k].first /\ c.src = live[k].src /\ c.pkts = live[k].pkts
  BY <1>2
<1>4. live' = Removed(live, k) /\ k \in DOMAIN live
  BY DEF retire, Without, Removed, LiveKeys
<1>5. Runs(live', out', input')
  BY <1>1, <1>2, <1>3, <1>4, RetireRuns
<1> QED
  BY <1>5 DEF PInv

LEMMA NextPInv == IInv /\ PInv /\ [Next]_vars => PInv'
<1> SUFFICES ASSUME IInv, PInv, [Next]_vars PROVE PInv'
  OBVIOUS
<1>1. ASSUME NEW s \in Frames, PushOther(s) PROVE PInv'
  <2>1. ~s.tcp /\ input' = Append(input, s) /\ live' = live /\ out' = out /\ pc' # "done"
    BY <1>1 DEF PushOther, Pushing
  <2>2. Runs(live, out, Append(input, s))
    BY <2>1, OtherRuns DEF PInv
  <2>3. Runs(live', out', input')
    BY <2>1, <2>2
  <2> QED
    BY <2>1, <2>3 DEF PInv
<1>2. ASSUME NEW s \in Frames, Push(s) PROVE PInv'
  BY <1>2, PushRuns
<1>3. CASE EvictPop
  <2>1. CASE Answers(Front)
    <3>1. Front[2] \in LiveKeys
      BY <2>1 DEF Answers
    <3>2. retire(Front[2], TRUE) /\ input' = input /\ pc' # "done"
      BY <2>1, <1>3 DEF EvictPop
    <3> QED
      BY <3>1, <3>2, RetireKeepsRuns
  <2>2. CASE ~Answers(Front)
    <3>1. UNCHANGED <<live, out, input, pc>>
      BY <2>2, <1>3 DEF EvictPop
    <3> QED
      BY <3>1 DEF PInv
  <2> QED
    BY <2>1, <2>2
<1>4. CASE EvictEnd \/ Finish
  <2>1. UNCHANGED <<live, out, input>> /\ pc' # "done"
    BY <1>4 DEF EvictEnd, Finish
  <2> QED
    BY <2>1 DEF PInv
<1>5. ASSUME NEW k \in Keys, FinishRetire(k) PROVE PInv'
  <2>1. k \in LiveKeys /\ retire(k, FALSE) /\ input' = input /\ pc' # "done"
    BY <1>5 DEF FinishRetire
  <2> QED
    BY <2>1, RetireKeepsRuns
<1>6. CASE FinishEnd
  <2>1. live' = live /\ out' = Sorted(out) /\ input' = input
    BY <1>6 DEF FinishEnd
  <2>2. /\ Runs(live, Sorted(out), input)
        /\ \A i, j \in 1 .. Len(Sorted(out)) :
             i < j => Sorted(out)[i].first < Sorted(out)[j].first
    BY SortRuns DEF PInv
  <2>3. /\ Runs(live', out', input')
        /\ \A i, j \in 1 .. Len(out') : i < j => out'[i].first < out'[j].first
    BY <2>1, <2>2
  <2> QED
    BY <2>3 DEF PInv
<1>7. CASE UNCHANGED vars
  BY <1>7 DEF vars, PInv
<1> QED
  BY <1>1, <1>2, <1>3, <1>4, <1>5, <1>6, <1>7 DEF Next

(* In every reachable state the streams, live and handed back, are the     *)
(* runs the captured segments fall into (stream.rs, Reassembler::push,     *)
(* evict, retire and finish).                                              *)
THEOREM RunsHold == Spec => []PInv
<1>1. Init => PInv
  BY InitPInv
<1>2. IInv /\ PInv /\ [Next]_vars => PInv'
  BY NextPInv
<1> QED
  BY <1>1, <1>2, InvariantHolds, PTL DEF Spec

(* A stream of key k, live or handed back, as StreamsOf lists it.          *)
LEMMA StreamsAreRuns ==
  ASSUME PInv, NEW k \in Keys, NEW s \in StreamsOf(k)
  PROVE  Run(s, k, input)
<1>1. ASSUME NEW i \in 1 .. Len(out), out[i].key = k,
             s = [first |-> out[i].first, src |-> out[i].src, pkts |-> out[i].pkts]
      PROVE  Run(s, k, input)
  <2>1. Run(out[i], k, input)
    BY <1>1 DEF PInv, Runs
  <2>2. s.first = out[i].first /\ s.src = out[i].src /\ s.pkts = out[i].pkts
    BY <1>1
  <2> QED
    BY <2>1, <2>2 DEF Run
<1>2. ASSUME k \in LiveKeys,
             s = [first |-> live[k].first, src |-> live[k].src, pkts |-> live[k].pkts]
      PROVE  Run(s, k, input)
  <2>1. Run(live[k], k, input)
    BY <1>2 DEF PInv, Runs, LiveKeys
  <2>2. s.first = live[k].first /\ s.src = live[k].src /\ s.pkts = live[k].pkts
    BY <1>2
  <2> QED
    BY <2>1, <2>2 DEF Run
<1> QED
  BY <1>1, <1>2 DEF StreamsOf

LEMMA StreamsFollow ==
  ASSUME PInv, NEW k \in Keys, NEW s \in StreamsOf(k), NEW t \in StreamsOf(k),
         s.first < t.first
  PROVE  Before(s, t)
<1>1. Run(s, k, input) /\ Run(t, k, input)
  BY StreamsAreRuns
<1>2. /\ s.first \in Fed(s.pkts) /\ t.first \in Fed(t.pkts)
      /\ s.first \in 0 .. (Len(input) - 1) /\ t.first \in 0 .. (Len(input) - 1)
  BY <1>1 DEF Run
<1>3. ~Before(t, s)
  <2>1. ~(t.first < s.first)
    BY <1>2
  <2> QED
    BY <2>1, <1>2 DEF Before
<1> DEFINE Out(x, i)  == i \in 1 .. Len(out) /\ out[i].key = k /\ x.pkts = out[i].pkts
           Alive(x)   == k \in DOMAIN live /\ x.pkts = live[k].pkts
<1>4. \A x \in StreamsOf(k) : (\E i : Out(x, i)) \/ Alive(x)
  <2>1. ASSUME NEW i \in 1 .. Len(out), out[i].key = k, NEW x,
               x = [first |-> out[i].first, src |-> out[i].src, pkts |-> out[i].pkts]
        PROVE  Out(x, i)
    BY <2>1
  <2>2. ASSUME k \in LiveKeys, NEW x,
               x = [first |-> live[k].first, src |-> live[k].src, pkts |-> live[k].pkts]
        PROVE  Alive(x)
    BY <2>2 DEF LiveKeys
  <2> QED
    BY <2>1, <2>2 DEF StreamsOf
<1>5. ASSUME NEW i, NEW j, Out(s, i), Out(t, j) PROVE Before(s, t)
  <2>1. i # j
    <3>1. CASE i = j
      <4>1. s.first \in Fed(t.pkts) /\ t.first \in Fed(s.pkts)
        BY <3>1, <1>2, <1>5
      <4>2. t.first <= s.first
        BY <4>1, <1>1 DEF Run
      <4> QED
        BY <4>2, <1>2
    <3> QED
      BY <3>1
  <2>2. Before(out[i], out[j]) \/ Before(out[j], out[i])
    BY <2>1, <1>5 DEF PInv, Runs
  <2> QED
    BY <2>2, <1>3, <1>5 DEF Before
<1>6. ASSUME NEW i, Out(s, i), Alive(t) PROVE Before(s, t)
  <2>1. Before(out[i], live[k])
    BY <1>6 DEF PInv, Runs
  <2> QED
    BY <2>1, <1>6 DEF Before
<1>7. ASSUME NEW i, Alive(s), Out(t, i) PROVE FALSE
  <2>1. Before(out[i], live[k])
    BY <1>7 DEF PInv, Runs
  <2> QED
    BY <2>1, <1>3, <1>7 DEF Before
<1>8. ASSUME Alive(s), Alive(t) PROVE FALSE
  <2>1. s.first \in Fed(t.pkts)
    BY <1>2, <1>8
  <2>2. t.first <= s.first
    BY <2>1, <1>1 DEF Run
  <2> QED
    BY <2>2, <1>2
<1> HIDE DEF Out, Alive
<1> QED
  BY <1>4, <1>5, <1>6, <1>7, <1>8

(* No packet is lost to eviction or to finish: the streams of a key        *)
(* partition its packets into consecutive runs, each packet in the half of *)
(* its sender, and `reassemble` returns them in order (stream.rs,          *)
(* Reassembler::push, evict and finish).                                   *)
THEOREM EveryPacketOnce == Spec => []EveryPacketInOneStream
<1>1. PInv => EveryPacketInOneStream
  <2> SUFFICES ASSUME PInv, NEW k \in Keys
               PROVE  /\ UNION {Fed(s.pkts) : s \in StreamsOf(k)} =
                           {p \in 0 .. (Len(input) - 1) : Frame(p).tcp /\ Frame(p).key = k}
                      /\ \A s, t \in StreamsOf(k) :
                           s.first < t.first => Latest(s.pkts) < t.first
                      /\ \A s \in StreamsOf(k) :
                           /\ s.first \in Fed(s.pkts) /\ \A p \in Fed(s.pkts) : s.first <= p
                           /\ \A p \in s.pkts[0] : Frame(p).from = s.src
                           /\ \A p \in s.pkts[1] : Frame(p).from # s.src
    BY DEF EveryPacketInOneStream, PInv
  <2>1. \A s \in StreamsOf(k) : Run(s, k, input)
    BY StreamsAreRuns
  <2>2. ASSUME NEW s \in StreamsOf(k), NEW p \in Fed(s.pkts)
        PROVE  p \in 0 .. (Len(input) - 1) /\ Frame(p).tcp /\ Frame(p).key = k
    BY <2>1, <2>2 DEF Run, Frame
  <2>3. ASSUME NEW p \in 0 .. (Len(input) - 1), Frame(p).tcp, Frame(p).key = k
        PROVE  \E s \in StreamsOf(k) : p \in Fed(s.pkts)
    <3>1. Carried(live, out, p, k)
      BY <2>3 DEF PInv, Runs, Frame
    <3>2. CASE \E i \in 1 .. Len(out) : out[i].key = k /\ p \in Fed(out[i].pkts)
      <4>1. PICK i \in 1 .. Len(out) : out[i].key = k /\ p \in Fed(out[i].pkts)
        BY <3>2
      <4> DEFINE s == [first |-> out[i].first, src |-> out[i].src, pkts |-> out[i].pkts]
      <4>2. s \in StreamsOf(k) /\ p \in Fed(s.pkts)
        BY <4>1 DEF StreamsOf
      <4> QED
        BY <4>2
    <3>3. CASE k \in DOMAIN live /\ p \in Fed(live[k].pkts)
      <4> DEFINE s == [first |-> live[k].first, src |-> live[k].src, pkts |-> live[k].pkts]
      <4>1. s \in StreamsOf(k) /\ p \in Fed(s.pkts)
        BY <3>3 DEF StreamsOf, LiveKeys
      <4> QED
        BY <4>1
    <3> QED
      BY <3>1, <3>2, <3>3 DEF Carried
  <2>4. UNION {Fed(s.pkts) : s \in StreamsOf(k)} =
          {p \in 0 .. (Len(input) - 1) : Frame(p).tcp /\ Frame(p).key = k}
    BY <2>2, <2>3
  <2>5. ASSUME NEW s \in StreamsOf(k), NEW t \in StreamsOf(k), s.first < t.first
        PROVE  Latest(s.pkts) < t.first
    <3>1. Before(s, t)
      BY <2>5, StreamsFollow
    <3>2. t.first \in Fed(t.pkts) /\ s.first \in Fed(s.pkts)
      BY <2>1 DEF Run
    <3>3. Len(input) \in Nat
      BY LenProperties DEF PInv, Runs
    <3>4. /\ Fed(s.pkts) \subseteq Nat /\ Fed(s.pkts) # {}
          /\ \A p \in Fed(s.pkts) : p <= Len(input)
      <4>1. \A p \in Fed(s.pkts) : p \in 0 .. (Len(input) - 1)
        BY <2>2
      <4>2. \A p \in 0 .. (Len(input) - 1) : p \in Nat /\ p <= Len(input)
        BY <3>3
      <4> QED
        BY <4>1, <4>2, <3>2
    <3>5. \E p \in Fed(s.pkts) : \A q \in Fed(s.pkts) : q <= p
      BY <3>3, <3>4, GreatestNatural
    <3>6. Latest(s.pkts) \in Fed(s.pkts)
      BY <3>5 DEF Latest
    <3> QED
      BY <3>1, <3>2, <3>6 DEF Before
  <2>6. \A s \in StreamsOf(k) :
          /\ s.first \in Fed(s.pkts) /\ \A p \in Fed(s.pkts) : s.first <= p
          /\ \A p \in s.pkts[0] : Frame(p).from = s.src
          /\ \A p \in s.pkts[1] : Frame(p).from # s.src
    BY <2>1 DEF Run, Frame
  <2> QED
    BY <2>4, <2>5, <2>6
<1> QED
  BY <1>1, RunsHold, PTL
=============================================================================
