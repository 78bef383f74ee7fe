----------------------- MODULE FragReassemblerProofs -----------------------
(***************************************************************************)
(* Proofs about FragReassembler, for every set of keys and frames and      *)
(* every value of the caps, and about FragRoundTrip, for every set of      *)
(* datagrams and fragment sizes.  The first part uses none of the          *)
(* assumptions of the second.                                              *)
(***************************************************************************)
EXTENDS FragRoundTrip, ReassemblyLemmas

(* Stamps name groups: every stamp in use is below the next one and no two *)
(* queue entries share one.                                                *)
StampsDistinct ==
  /\ \A e \in order : e[1] < seq
  /\ \A d, e \in order : d[1] = e[1] => d = e
  /\ \A k \in Live : groups[k].seq < seq

Finite == IsFiniteSet(order) /\ (pc \in {"idle", "evict"} => IsFiniteSet(HeldOctets))

(* The inductive invariant.  WithinCaps is not inductive alone: eviction   *)
(* ends inside the caps only because every live group is still queued, and *)
(* because the count it compares with the cap is exact.                    *)
IInv ==
  /\ TypeOK
  /\ StampsDistinct
  /\ Finite
  /\ EveryGroupQueued
  /\ BufferedExact
  /\ WithinCaps

----------------------------------------------------------------------------
(* The queue's front exists and carries the least stamp.                   *)
LEMMA FrontIsOldest ==
  ASSUME order \subseteq Nat \X Keys, order # {}
  PROVE  /\ Front \in order
         /\ \A d \in order : Front[1] <= d[1]
BY LeastStamp DEF Front

(* Octets the groups other than k hold.                                    *)
Others(k) == UNION {{j} \X (0 .. (groups[j].len - 1)) : j \in Live \ {k}}

(* Removing or replacing one group changes the held octets by its share.   *)
LEMMA HeldSplit ==
  ASSUME NEW k, NEW n \in Nat, IsFiniteSet(HeldOctets)
  PROVE  /\ IsFiniteSet(Others(k))
         /\ IsFiniteSet(Others(k) \cup Share(k, n))
         /\ Cardinality(Others(k)) \in Nat
         /\ Cardinality(Others(k) \cup Share(k, n)) = Cardinality(Others(k)) + n
<1>1. Others(k) \subseteq HeldOctets
  BY DEF Others, HeldOctets
<1>2. IsFiniteSet(Others(k)) /\ Cardinality(Others(k)) \in Nat
  BY <1>1, FS_Subset, FS_CardinalityType
<1>3. Others(k) \cap Share(k, n) = {}
  BY DEF Others, Share
<1> QED
  BY <1>2, <1>3, ShareAdds

LEMMA HeldIsOthersAndShare ==
  ASSUME NEW k \in Live
  PROVE  HeldOctets = Others(k) \cup Share(k, groups[k].len)
BY DEF HeldOctets, Others, Share

LEMMA HeldWhenNotLive ==
  ASSUME NEW k, k \notin Live
  PROVE  HeldOctets = Others(k)
BY DEF HeldOctets, Others

----------------------------------------------------------------------------
LEMMA InitIInv == Init => IInv
<1> SUFFICES ASSUME Init PROVE IInv
  OBVIOUS
<1>1. Live = {} /\ HeldOctets = {}
  BY DEF Init, Live, HeldOctets
<1>2. IsFiniteSet({}) /\ Cardinality({}) = 0
  BY FS_EmptySet
<1>3. 0 <= SweepFactor * MaxInflight
  BY BoundsAssumption
<1>4. TypeOK /\ StampsDistinct /\ EveryGroupQueued
  BY <1>1 DEF Init, TypeOK, StampsDistinct, EveryGroupQueued
<1>5. Finite /\ BufferedExact
  BY <1>1, <1>2 DEF Init, Finite, BufferedExact
<1>6. WithinCaps
  BY <1>1, <1>2, <1>3, BoundsAssumption DEF Init, WithinCaps
<1> QED
  BY <1>4, <1>5, <1>6 DEF IInv

(* A frame push returns early with leaves everything but `out` alone.      *)
LEMMA QuietStep ==
  ASSUME IInv, UNCHANGED <<groups, order, seq, buffered, pc>>, input' \in Seq(Frames)
  PROVE  IInv'
<1>1. Live' = Live /\ HeldOctets' = HeldOctets
  BY DEF Live, HeldOctets
<1> QED
  BY <1>1 DEF IInv, TypeOK, StampsDistinct, Finite, EveryGroupQueued, BufferedExact,
              WithinCaps

(* What feeding a fragment does to the fields the invariant reads.         *)
LEMMA FedFields ==
  ASSUME IInv, NEW f \in Frames, NEW p \in Nat
  PROVE  LET old == GroupFor(f.key)
             new == Fed(old, f, p)
         IN  /\ f.key \in Keys
             /\ old.len \in Nat /\ old.seq \in Nat
             /\ f.key \notin Live => old.len = 0 /\ old.seq = seq
             /\ f.key \in Live => old = groups[f.key]
             /\ new.len \in Nat /\ new.seq = old.seq
             /\ new.at \in Seq(Nat)
             /\ new.head \in [from : Int, hlen : Nat]
             /\ new.total \in Int
<1>1. /\ f.key \in Keys /\ f.at \in Nat /\ f.len \in Nat /\ f.hlen \in Nat
      /\ f.more \in BOOLEAN
  BY FramesAssumption DEF Fragment
<1> DEFINE old == GroupFor(f.key)
<1>2. /\ old.len \in Nat /\ old.seq \in Nat /\ old.at \in Seq(Nat)
      /\ old.head \in [from : Int, hlen : Nat] /\ old.total \in Int
      /\ f.key \notin Live => old.len = 0 /\ old.seq = seq
      /\ f.key \in Live => old = groups[f.key]
  BY DEF IInv, TypeOK, GroupFor, NewGroup, NoHead, NoTotal, Zero
<1> HIDE DEF old
<1>3. /\ Fed(old, f, p).len = Larger(old.len, f.at + f.len)
      /\ Fed(old, f, p).seq = old.seq
      /\ Fed(old, f, p).at = Append(old.at, p)
      /\ Fed(old, f, p).head = IF old.head = NoHead /\ f.at = 0
                               THEN [from |-> p, hlen |-> f.hlen] ELSE old.head
      /\ Fed(old, f, p).total = IF ~f.more /\ old.total = NoTotal
                                THEN f.at + f.len ELSE old.total
  BY DEF Fed
<1>4. Larger(old.len, f.at + f.len) \in Nat /\ f.at + f.len \in Int
  BY <1>1, <1>2 DEF Larger
<1>5. Append(old.at, p) \in Seq(Nat)
  BY <1>2
<1>6. Fed(old, f, p).head \in [from : Int, hlen : Nat]
  BY <1>1, <1>2, <1>3
<1>7. Fed(old, f, p).total \in Int
  BY <1>2, <1>3, <1>4
<1> QED
  BY <1>1, <1>2, <1>3, <1>4, <1>5, <1>6, <1>7 DEF old

LEMMA PushFragmentStep ==
  ASSUME IInv, NEW f \in Frames, PushFragment(f)
  PROVE  IInv'
<1> DEFINE k   == f.key
           old == GroupFor(k)
           new == Fed(old, f, Len(input))
<1>1. /\ k \in Keys
      /\ old.len \in Nat /\ old.seq \in Nat
      /\ k \notin Live => old.len = 0 /\ old.seq = seq
      /\ k \in Live => old = groups[k]
      /\ new.len \in Nat /\ new.seq = old.seq
      /\ new.at \in Seq(Nat)
      /\ new.head \in [from : Int, hlen : Nat]
      /\ new.total \in Int
  BY FedFields DEF IInv, TypeOK
<1>2. /\ pc = "idle" /\ pc' = "evict" /\ input' \in Seq(Frames)
      /\ IF k \in Live THEN order' = order /\ seq' = seq
         ELSE order' = order \cup {<<seq, k>>} /\ seq' = seq + 1
      /\ \/ /\ groups' = Without(k)
            /\ buffered' = (buffered + (new.len - old.len)) - new.len
         \/ /\ groups' = With(k, new)
            /\ buffered' = buffered + (new.len - old.len)
  BY DEF PushFragment, Pushing, Growth, IInv, TypeOK
<1> HIDE DEF new, old
<1>3. buffered = Cardinality(Others(k)) + old.len /\ Cardinality(Others(k)) \in Nat
  <2>1. IsFiniteSet(HeldOctets) /\ buffered = Cardinality(HeldOctets)
    BY <1>2 DEF IInv, Finite, BufferedExact
  <2>2. CASE k \in Live
    BY <2>1, <2>2, <1>1, HeldSplit, HeldIsOthersAndShare
  <2>3. CASE k \notin Live
    <3>1. HeldOctets = Others(k)
      BY <2>3, HeldWhenNotLive
    <3> QED
      BY <2>1, <2>3, <3>1, <1>1, FS_CardinalityType
  <2> QED
    BY <2>2, <2>3
<1>4. IsFiniteSet(order')
  BY <1>2, FS_AddElement DEF IInv, Finite
<1>5. /\ seq' \in Nat /\ order' \subseteq Nat \X Keys
      /\ \A e \in order' : e[1] < seq'
      /\ \A d, e \in order' : d[1] = e[1] => d = e
      /\ order \subseteq order'
      /\ <<old.seq, k>> \in order' /\ old.seq < seq' /\ seq <= seq'
  <2>1. CASE k \in Live
    <3>1. order' = order /\ seq' = seq /\ old.seq = groups[k].seq
      BY <2>1, <1>1, <1>2
    <3>2. /\ seq \in Nat /\ order \subseteq Nat \X Keys
          /\ \A e \in order : e[1] < seq
          /\ \A d, e \in order : d[1] = e[1] => d = e
      BY DEF IInv, TypeOK, StampsDistinct
    <3>3. <<groups[k].seq, k>> \in order
      BY <2>1 DEF IInv, EveryGroupQueued
    <3> QED
      BY <3>1, <3>2, <3>3
  <2>2. CASE k \notin Live
    <3>1. seq \in Nat /\ seq' = seq + 1 /\ order' = order \cup {<<seq, k>>} /\ old.seq = seq
      BY <2>2, <1>1, <1>2 DEF IInv, TypeOK
    <3>2. order \subseteq Nat \X Keys /\ \A e \in order : e[1] < seq
      BY DEF IInv, TypeOK, StampsDistinct
    <3>3. \A d, e \in order : d[1] = e[1] => d = e
      BY DEF IInv, StampsDistinct
    <3>4. \A e \in order' : e[1] \in Nat /\ e[1] <= seq /\ (e[1] = seq => e = <<seq, k>>)
      BY <3>1, <3>2
    <3>5. \A d, e \in order' : d[1] = e[1] => d = e
      BY <3>1, <3>2, <3>3, <3>4
    <3>6. order' \subseteq Nat \X Keys
      BY <3>1, <3>2, <1>1
    <3> QED
      BY <3>1, <3>2, <3>4, <3>5, <3>6
  <2> QED
    BY <2>1, <2>2
<1>6. CASE /\ groups' = Without(k)
           /\ buffered' = (buffered + (new.len - old.len)) - new.len
  <2>1. Live' = Live \ {k} /\ \A j \in Live' : groups'[j] = groups[j]
    BY <1>6 DEF Without, Live
  <2>2. HeldOctets' = Others(k)
    BY <2>1 DEF HeldOctets, Others
  <2>3. IsFiniteSet(HeldOctets')
    BY <2>2, HeldSplit, <1>1, <1>2 DEF IInv, Finite
  <2>4. buffered' = Cardinality(Others(k))
    BY <1>1, <1>3, <1>6
  <2>5. TypeOK'
    BY <2>1, <2>4, <1>2, <1>3, <1>5 DEF IInv, TypeOK
  <2>6. StampsDistinct'
    <3>1. \A j \in Live' : groups'[j].seq < seq'
      BY <2>1, <1>5 DEF IInv, TypeOK, StampsDistinct
    <3> QED
      BY <3>1, <1>5 DEF StampsDistinct
  <2>7. EveryGroupQueued'
    BY <2>1, <1>2, <1>5 DEF IInv, EveryGroupQueued
  <2> QED
    BY <2>2, <2>3, <2>4, <2>5, <2>6, <2>7, <1>2, <1>4
    DEF IInv, Finite, BufferedExact, WithinCaps
<1>7. CASE /\ groups' = With(k, new)
           /\ buffered' = buffered + (new.len - old.len)
  <2>1. /\ Live' = Live \cup {k}
        /\ groups'[k] = new
        /\ \A j \in Live \ {k} : groups'[j] = groups[j]
    BY <1>7 DEF With, Live
  <2>2. HeldOctets' = Others(k) \cup Share(k, new.len)
    BY <2>1 DEF HeldOctets, Others, Share
  <2>3. /\ IsFiniteSet(HeldOctets')
        /\ Cardinality(HeldOctets') = Cardinality(Others(k)) + new.len
    BY <2>2, HeldSplit, <1>1, <1>2 DEF IInv, Finite
  <2>4. buffered' = Cardinality(HeldOctets') /\ buffered' \in Nat
    BY <2>3, <1>1, <1>3, <1>7
  <2>5. TypeOK'
    <3>1. \A j \in Live' : /\ groups'[j].seq \in Nat
                           /\ groups'[j].len \in Nat
                           /\ groups'[j].at \in Seq(Nat)
                           /\ groups'[j].head \in [from : Int, hlen : Nat]
                           /\ groups'[j].total \in Int
      BY <2>1, <1>1 DEF IInv, TypeOK
    <3> QED
      BY <3>1, <2>1, <2>4, <1>1, <1>2, <1>5 DEF IInv, TypeOK
  <2>6. StampsDistinct'
    <3>1. \A j \in Live \ {k} : groups'[j].seq < seq'
      <4>1. \A j \in Live : groups[j].seq \in Nat /\ groups[j].seq < seq /\ seq \in Nat
        BY DEF IInv, TypeOK, StampsDistinct
      <4> QED
        BY <4>1, <2>1, <1>5
    <3>2. groups'[k].seq < seq'
      BY <2>1, <1>1, <1>5
    <3>3. \A j \in Live' : groups'[j].seq < seq'
      BY <2>1, <3>1, <3>2
    <3> QED
      BY <3>3, <1>5 DEF StampsDistinct
  <2>7. EveryGroupQueued'
    BY <2>1, <1>1, <1>2, <1>5 DEF IInv, EveryGroupQueued
  <2> QED
    BY <2>3, <2>4, <2>5, <2>6, <2>7, <1>2, <1>4
    DEF IInv, Finite, BufferedExact, WithinCaps
<1> QED
  BY <1>2, <1>6, <1>7

LEMMA EvictPopStep ==
  ASSUME IInv, EvictPop
  PROVE  IInv'
<1> DEFINE e == Front
           k == e[2]
<1>1. /\ pc = "evict" /\ pc' = "evict" /\ seq' = seq /\ input' = input
      /\ order' = order \ {e}
      /\ IF Answers(e)
         THEN groups' = Without(k) /\ buffered' = buffered - groups[k].len
         ELSE groups' = groups /\ buffered' = buffered
  BY DEF EvictPop
<1> HIDE DEF e
<1>2. IsFiniteSet(order')
  BY <1>1, FS_RemoveElement DEF IInv, Finite
<1>3. CASE Answers(e)
  <2>1. k \in Live /\ groups[k].len \in Nat
    BY <1>3 DEF Answers, IInv, TypeOK
  <2>2. Live' = Live \ {k} /\ \A j \in Live' : groups'[j] = groups[j]
    BY <1>1, <1>3 DEF Without, Live
  <2>3. HeldOctets' = Others(k)
    BY <2>2 DEF HeldOctets, Others
  <2>4. /\ IsFiniteSet(HeldOctets')
        /\ buffered = Cardinality(Others(k)) + groups[k].len
        /\ Cardinality(Others(k)) \in Nat
    BY <2>1, <2>3, <1>1, HeldSplit, HeldIsOthersAndShare
    DEF IInv, Finite, BufferedExact
  <2>5. buffered' = Cardinality(HeldOctets') /\ buffered' \in Nat
    BY <2>1, <2>3, <2>4, <1>1, <1>3
  <2>6. TypeOK' /\ StampsDistinct'
    BY <2>2, <2>5, <1>1 DEF IInv, TypeOK, StampsDistinct
  <2>7. EveryGroupQueued'
    BY <2>2, <1>1 DEF IInv, EveryGroupQueued
  <2> QED
    BY <2>4, <2>5, <2>6, <2>7, <1>1, <1>2
    DEF IInv, Finite, BufferedExact, WithinCaps
<1>4. CASE ~Answers(e)
  <2>1. Live' = Live /\ HeldOctets' = HeldOctets /\ groups' = groups
    BY <1>1, <1>4 DEF Live, HeldOctets
  <2>2. EveryGroupQueued'
    <3>1. \A j \in Live : <<groups[j].seq, j>> # e
      BY <1>4 DEF Answers
    <3> QED
      BY <3>1, <2>1, <1>1 DEF IInv, EveryGroupQueued
  <2>3. TypeOK' /\ StampsDistinct'
    BY <2>1, <1>1, <1>4 DEF IInv, TypeOK, StampsDistinct
  <2> QED
    BY <2>1, <2>2, <2>3, <1>1, <1>2, <1>4
    DEF IInv, Finite, BufferedExact, WithinCaps
<1> QED
  BY <1>3, <1>4

(* A swept queue holds at most one entry per live group.                   *)
LEMMA SweepBound ==
  ASSUME IInv, NEW S, S = {e \in order : Answers(e)}
  PROVE  IsFiniteSet(S) /\ Cardinality(S) <= Cardinality(Live)
<1>1. order \subseteq Nat \X Keys /\ IsFiniteSet(Live)
  BY KeysAssumption, FS_Subset DEF IInv, TypeOK
<1> DEFINE h == [e \in S |-> e[2]]
<1>2. h \in [S -> Live]
  BY DEF Answers
<1>3. \A d, e \in S : h[d] = h[e] => d = e
  <2> SUFFICES ASSUME NEW d \in S, NEW e \in S, h[d] = h[e] PROVE d = e
    OBVIOUS
  <2>1. d[2] = e[2]
    OBVIOUS
  <2>2. d[1] = groups[d[2]].seq /\ e[1] = groups[e[2]].seq
    BY DEF Answers
  <2>3. d \in Nat \X Keys /\ e \in Nat \X Keys
    BY <1>1
  <2> QED
    BY <2>1, <2>2, <2>3
<1>4. h \in Injection(S, Live)
  BY <1>2, <1>3 DEF Injection, IsInjective
<1> QED
  BY <1>1, <1>4, FS_Injection

LEMMA EvictEndStep ==
  ASSUME IInv, EvictEnd
  PROVE  IInv'
<1>1. /\ pc = "evict" /\ pc' = "idle"
      /\ groups' = groups /\ seq' = seq /\ buffered' = buffered /\ input' = input
      /\ ~OverLimit \/ order = {}
      /\ order' = IF Cardinality(order) > SweepFactor * MaxInflight
                  THEN {e \in order : Answers(e)} ELSE order
  BY DEF EvictEnd
<1>2. Live' = Live /\ HeldOctets' = HeldOctets
  BY <1>1 DEF Live, HeldOctets
<1>3. IsFiniteSet(Live) /\ Cardinality(Live) \in Nat /\ Cardinality(order) \in Nat
  BY KeysAssumption, FS_Subset, FS_CardinalityType DEF IInv, TypeOK, Finite
<1>4. Cardinality(Live) <= MaxInflight /\ buffered <= MaxBuffered
  <2>1. CASE order = {}
    <3>1. Live = {} /\ HeldOctets = {}
      BY <2>1, <1>1 DEF IInv, EveryGroupQueued, HeldOctets
    <3> QED
      BY <3>1, <1>1, FS_EmptySet, BoundsAssumption DEF IInv, BufferedExact
  <2>2. CASE ~OverLimit
    BY <2>2, <1>3, BoundsAssumption DEF OverLimit, IInv, TypeOK
  <2> QED
    BY <1>1, <2>1, <2>2
<1>5. order' \subseteq order
  BY <1>1
<1>6. IsFiniteSet(order') /\ Cardinality(order') <= SweepFactor * MaxInflight
  <2>1. CASE Cardinality(order) > SweepFactor * MaxInflight
    <3>1. IsFiniteSet(order') /\ Cardinality(order') <= Cardinality(Live)
      BY <2>1, <1>1, SweepBound
    <3>2. Cardinality(order') \in Nat
      BY <3>1, FS_CardinalityType
    <3>3. MaxInflight <= SweepFactor * MaxInflight /\ SweepFactor * MaxInflight \in Nat
      BY BoundsAssumption
    <3> QED
      BY <3>1, <3>2, <3>3, <1>3, <1>4, BoundsAssumption
  <2>2. CASE ~(Cardinality(order) > SweepFactor * MaxInflight)
    <3>1. SweepFactor * MaxInflight \in Nat
      BY BoundsAssumption
    <3> QED
      BY <2>2, <3>1, <1>1, <1>3 DEF IInv, Finite
  <2> QED
    BY <2>1, <2>2
<1>7. TypeOK' /\ StampsDistinct'
  BY <1>1, <1>2, <1>5 DEF IInv, TypeOK, StampsDistinct
<1>8. EveryGroupQueued'
  BY <1>1, <1>2 DEF IInv, EveryGroupQueued, Answers
<1> QED
  BY <1>1, <1>2, <1>4, <1>6, <1>7, <1>8
  DEF IInv, Finite, BufferedExact, WithinCaps

LEMMA FinishSpillStep ==
  ASSUME IInv, NEW k \in Keys, FinishSpill(k)
  PROVE  IInv'
<1>1. /\ pc = "finish" /\ pc' = pc /\ order' = order /\ seq' = seq /\ buffered' = buffered
      /\ input' = input /\ groups' = Without(k)
  BY DEF FinishSpill
<1>2. Live' = Live \ {k} /\ \A j \in Live' : groups'[j] = groups[j]
  BY <1>1 DEF Without, Live
<1>3. TypeOK' /\ StampsDistinct' /\ EveryGroupQueued'
  BY <1>1, <1>2 DEF IInv, TypeOK, StampsDistinct, EveryGroupQueued
<1> QED
  BY <1>1, <1>3 DEF IInv, Finite, BufferedExact, WithinCaps

(* finish begins, or has ended.                                            *)
LEMMA FinishStep ==
  ASSUME IInv, Finish \/ FinishEnd
  PROVE  IInv'
<1>1. /\ pc' \in {"finish", "done"}
      /\ groups' = groups /\ order' = order /\ seq' = seq /\ buffered' = buffered
      /\ input' = input
  BY DEF Finish, FinishEnd
<1>2. Live' = Live
  BY <1>1 DEF Live
<1>3. TypeOK' /\ StampsDistinct' /\ EveryGroupQueued'
  BY <1>1, <1>2 DEF IInv, TypeOK, StampsDistinct, EveryGroupQueued
<1> QED
  BY <1>1, <1>3 DEF IInv, Finite, BufferedExact, WithinCaps

LEMMA NextIInv == IInv /\ [Next]_vars => IInv'
<1> SUFFICES ASSUME IInv, [Next]_vars PROVE IInv'
  OBVIOUS
<1>1. ASSUME NEW f \in Frames, PushWhole(f) PROVE IInv'
  BY <1>1, QuietStep DEF PushWhole, Pushing, IInv, TypeOK
<1>2. ASSUME NEW f \in Frames, PushRefused(f) PROVE IInv'
  BY <1>2, QuietStep DEF PushRefused, Pushing, IInv, TypeOK
<1>3. ASSUME NEW f \in Frames, PushFragment(f) PROVE IInv'
  BY <1>3, PushFragmentStep
<1>4. CASE EvictPop
  BY <1>4, EvictPopStep
<1>5. CASE EvictEnd
  BY <1>5, EvictEndStep
<1>6. CASE Finish \/ FinishEnd
  BY <1>6, FinishStep
<1>7. ASSUME NEW k \in Keys, FinishSpill(k) PROVE IInv'
  BY <1>7, FinishSpillStep
<1>8. CASE UNCHANGED vars
  BY <1>8, QuietStep DEF vars, IInv, TypeOK
<1> QED
  BY <1>1, <1>2, <1>3, <1>4, <1>5, <1>6, <1>7, <1>8 DEF Next

THEOREM InvariantHolds == Spec => []IInv
BY InitIInv, NextIInv, PTL DEF Spec

(* Type correctness, which includes that the unsigned `buffered` never     *)
(* underflows in push or evict.                                            *)
THEOREM TypeCorrect == Spec => []TypeOK
<1>1. IInv => TypeOK
  BY DEF IInv
<1> QED
  BY <1>1, InvariantHolds, PTL

(* Between frames the reassembler is within MAX_INFLIGHT, MAX_BUFFERED and *)
(* the bound on its eviction queue, whatever was captured: evict's loop    *)
(* never gives up early.                                                   *)
THEOREM CapsHold == Spec => []WithinCaps
<1>1. IInv => WithinCaps
  BY DEF IInv
<1> QED
  BY <1>1, InvariantHolds, PTL

(* The byte account is exact at every step of push and evict.              *)
THEOREM AccountExact == Spec => []BufferedExact
<1>1. IInv => BufferedExact
  BY DEF IInv
<1> QED
  BY <1>1, InvariantHolds, PTL

(* Every live group keeps its queue entry until it leaves.                 *)
THEOREM QueueComplete == Spec => []EveryGroupQueued
<1>1. IInv => EveryGroupQueued
  BY DEF IInv
<1> QED
  BY <1>1, InvariantHolds, PTL

(* What evict takes is the oldest live group: the front of the queue is    *)
(* the least stamp, every live group is queued, and an entry acts only on  *)
(* the group that carries its stamp.                                       *)
THEOREM EvictionOldestFirst == Spec => EvictsOldest
<1>1. IInv /\ [Next]_vars =>
        [pc = "evict" =>
           \A k \in Live \ DOMAIN groups' :
             \A j \in Live : groups[k].seq <= groups[j].seq]_vars
  <2> SUFFICES ASSUME IInv, [Next]_vars, pc = "evict",
                      NEW k \in Live \ DOMAIN groups', NEW j \in Live
               PROVE  groups[k].seq <= groups[j].seq
    OBVIOUS
  <2>1. CASE EvictPop
    <3>1. order # {} /\ order \subseteq Nat \X Keys
      BY <2>1 DEF EvictPop, IInv, TypeOK
    <3>2. \A d \in order : Front[1] <= d[1]
      BY <3>1, FrontIsOldest
    <3>3. Answers(Front) /\ k = Front[2]
      BY <2>1 DEF EvictPop, Without, Live
    <3>4. <<groups[j].seq, j>> \in order
      BY DEF IInv, EveryGroupQueued
    <3> QED
      BY <3>2, <3>3, <3>4 DEF Answers
  <2>2. CASE EvictEnd
    BY <2>2 DEF EvictEnd, Live
  <2>3. CASE UNCHANGED vars
    BY <2>3 DEF vars, Live
  <2> QED
    BY <2>1, <2>2, <2>3
    DEF Next, PushWhole, PushRefused, PushFragment, Pushing, Finish, FinishSpill, FinishEnd
<1> QED
  BY <1>1, InvariantHolds, PTL DEF Spec, EvictsOldest
----------------------------------------------------------------------------
(* What a group and a piece say about the frames alone.  `inp` is the      *)
(* capture so far; `of` the positions of a datagram's fragments.           *)
First(p, S) == p \in S /\ \A q \in S : p <= q

Claim(f) == f.at .. (f.at + f.len - 1)
Zeros(of, inp) == {p \in of : inp[p + 1].at = 0}
Lasts(of, inp) == {p \in of : ~inp[p + 1].more}
Writers(of, inp, o) == {p \in of : o \in Claim(inp[p + 1])}
EndOf(f) == f.at + f.len

(* The fragments a group took: of its key, in the order they came.         *)
Gathered(at, k, inp) ==
  /\ at \in Seq(Nat) /\ Len(at) <= MaxFrags
  /\ \A i \in 1 .. Len(at) : at[i] < Len(inp) /\ inp[at[i] + 1].key = k
  /\ \A i, j \in 1 .. Len(at) : i < j => at[i] < at[j]

(* Its header is that of the first fragment at offset zero.                *)
Headed(head, of, inp) ==
  \/ head = NoHead /\ Zeros(of, inp) = {}
  \/ \E z \in of : First(z, Zeros(of, inp)) /\ head = [from |-> z, hlen |-> inp[z + 1].hlen]

(* Its length is the end of the first last fragment.                       *)
Ended(total, of, inp) ==
  \/ total = NoTotal /\ Lasts(of, inp) = {}
  \/ \E l \in of : First(l, Lasts(of, inp)) /\ total = EndOf(inp[l + 1])

(* Its ranges are apart, and each claim lies within one of them.           *)
Ranged(got, len, of, inp) ==
  /\ len \in Nat
  /\ \A r \in got : r = [lo |-> r.lo, hi |-> r.hi]
                    /\ r.lo \in Nat /\ r.hi \in Nat /\ r.lo <= r.hi /\ r.hi <= len
  /\ Apart(got)
  /\ \A p \in of : \E r \in got : r.lo <= inp[p + 1].at /\ EndOf(inp[p + 1]) <= r.hi
  /\ len = 0 \/ \E p \in of : EndOf(inp[p + 1]) = len

(* What is claimed was written by the first to claim it.                   *)
Filled(got, data, of, inp) ==
  \A o \in Octets(got) : First(data[o], Writers(of, inp, o))

GroupTrue(g, k, inp) ==
  LET of == Of(g.at)
  IN  /\ Gathered(g.at, k, inp)
      /\ Headed(g.head, of, inp)
      /\ Ended(g.total, of, inp)
      /\ Ranged(g.got, g.len, of, inp)
      /\ Filled(g.got, g.data, of, inp)

(* A reassembled datagram, or a frame handed back as it came.              *)
CompleteTrue(c, inp) ==
  LET of == Of(c.of)
  IN  /\ \E k \in Keys : Gathered(c.of, k, inp)
      /\ First(c.at, of)
      /\ First(c.head, Zeros(of, inp))
      /\ \E l \in of : First(l, Lasts(of, inp)) /\ c.len = EndOf(inp[l + 1])
      /\ c.len + inp[c.head + 1].hlen <= MaxDatagram
      /\ \A o \in 0 .. (c.len - 1) : First(c.data[o], Writers(of, inp, o))

PieceTrue(c, inp) ==
  /\ c.at \in 0 .. (Len(inp) - 1)
  /\ c.kind = "complete" => CompleteTrue(c, inp)

(* x says where position p ended up, in any table G and any output O.      *)
OutPlace(O, p, x) ==
  \E i \in 1 .. Len(O) : x = <<"out", i, 0>> /\ O[i].kind # "complete" /\ O[i].at = p
InPlace(O, p, x) ==
  \E i \in 1 .. Len(O) : \E j \in 1 .. Len(O[i].of) :
    x = <<"in", i, j>> /\ O[i].kind = "complete" /\ O[i].of[j] = p
HeldPlace(G, p, x) ==
  \E k \in DOMAIN G : \E j \in 1 .. Len(G[k].at) : x = <<"held", k, j>> /\ G[k].at[j] = p
Place(G, O, p, x) == OutPlace(O, p, x) \/ InPlace(O, p, x) \/ HeldPlace(G, p, x)

Located(G, O, p) == \E x : Place(G, O, p, x) /\ \A y : Place(G, O, p, y) => y = x

(* The state of the reassembler against the capture it was fed.            *)
History(G, O, inp) ==
  /\ IsSeq(O) /\ inp \in Seq(Frames)
  /\ DOMAIN G \subseteq Keys
  /\ \A k \in DOMAIN G : GroupTrue(G[k], k, inp)
  /\ \A i \in 1 .. Len(O) : PieceTrue(O[i], inp)
  /\ \A p \in 0 .. (Len(inp) - 1) : Located(G, O, p)

(* Every reachable state is true to the capture, keeps waiting only what   *)
(* is not complete, and ends in order.                                     *)
HInv ==
  /\ History(groups, out, input)
  /\ \A k \in Live : ~Complete(groups[k])
  /\ pc = "done" => \A i, j \in 1 .. Len(out) : i < j => out[i].at < out[j].at
----------------------------------------------------------------------------
LEMMA FrameFields ==
  ASSUME NEW f \in Frames
  PROVE  /\ f.key \in Keys /\ f.at \in Nat /\ f.len \in Nat /\ f.hlen \in Nat
         /\ f.more \in BOOLEAN
BY FramesAssumption DEF Fragment

LEMMA LeastFirst ==
  ASSUME NEW S, S \subseteq Nat, NEW p, First(p, S)
  PROVE  Least(S) = p
<1>1. S \subseteq Int /\ p \in S /\ \A y \in S : p <= y
  BY DEF First
<1> QED
  BY <1>1, LeastIs

WellFormed(got, len) ==
  \A r \in got : r = [lo |-> r.lo, hi |-> r.hi]
                 /\ r.lo \in Nat /\ r.hi \in Nat /\ r.lo <= r.hi /\ r.hi <= len

(* What a claim does to the ranges.                                        *)
LEMMA MergedFacts ==
  ASSUME NEW got, NEW len \in Nat, WellFormed(got, len), Apart(got),
         NEW start \in Nat, NEW end \in Nat, start <= end
  PROVE  LET M == Merged(got, start, end)
         IN  /\ WellFormed(M, Larger(len, end)) /\ Apart(M)
             /\ \A r \in got : \E m \in M : m.lo <= r.lo /\ r.hi <= m.hi
             /\ \E m \in M : m.lo <= start /\ end <= m.hi
             /\ Octets(M) = Octets(got) \cup start .. (end - 1)
<1> DEFINE T  == Touching(got, start, end)
           lo == Least({start} \cup {r.lo : r \in T})
           hi == Greatest({end} \cup {r.hi : r \in T})
           m  == [lo |-> lo, hi |-> hi]
           M  == (got \ T) \cup {m}
<1>1. \A r \in got : r.lo \in Nat /\ r.hi \in Nat /\ r.lo <= r.hi /\ r.hi <= len
  BY DEF WellFormed
<1>2. T \subseteq got /\ \A r \in T : r.lo <= end /\ start <= r.hi
  BY DEF Touching
<1>3. \A r \in got \ T : end < r.lo \/ r.hi < start
  BY <1>1 DEF Touching
<1> HIDE DEF T
<1>4. /\ lo \in {start} \cup {r.lo : r \in T}
      /\ \A x \in {start} \cup {r.lo : r \in T} : lo <= x
  <2>1. {start} \cup {r.lo : r \in T} \subseteq Nat
    BY <1>1, <1>2
  <2>2. \E x \in {start} \cup {r.lo : r \in T} :
          \A y \in {start} \cup {r.lo : r \in T} : x <= y
    BY <2>1, LeastNatural
  <2> QED
    BY <2>2 DEF Least
<1>5. /\ hi \in {end} \cup {r.hi : r \in T}
      /\ \A x \in {end} \cup {r.hi : r \in T} : x <= hi
  <2>1. {end} \cup {r.hi : r \in T} \subseteq Nat
    BY <1>1, <1>2
  <2>2. \A x \in {end} \cup {r.hi : r \in T} : x <= len + end
    BY <1>1, <1>2
  <2>3. \E x \in {end} \cup {r.hi : r \in T} :
          \A y \in {end} \cup {r.hi : r \in T} : y <= x
    <3> DEFINE S == {end} \cup {r.hi : r \in T}
    <3>1. S \subseteq Nat /\ S # {} /\ len + end \in Nat /\ \A x \in S : x <= len + end
      BY <2>1, <2>2
    <3> HIDE DEF S
    <3>2. \E x \in S : \A y \in S : y <= x
      BY <3>1, GreatestNatural
    <3> QED
      BY <3>2 DEF S
  <2> QED
    BY <2>3 DEF Greatest
<1> HIDE DEF lo, hi
<1>6. /\ lo \in Nat /\ hi \in Nat /\ lo <= start /\ end <= hi /\ hi <= Larger(len, end)
      /\ lo = start \/ \E r \in T : lo = r.lo
      /\ hi = end \/ \E r \in T : hi = r.hi
      /\ \A r \in T : lo <= r.lo /\ r.hi <= hi
  BY <1>1, <1>2, <1>4, <1>5 DEF Larger
<1>7. m.lo = lo /\ m.hi = hi
  OBVIOUS
<1>8. WellFormed(M, Larger(len, end))
  <2>1. \A r \in got : r.hi <= Larger(len, end)
    BY <1>1 DEF Larger
  <2> QED
    BY <1>6, <2>1 DEF WellFormed
<1>9. ASSUME NEW r \in got \ T PROVE r.hi < lo \/ hi < r.lo
  <2>1. CASE end < r.lo
    <3>1. \A s \in T : s.hi < r.lo
      BY <1>1, <1>2, <2>1, <1>9 DEF Apart
    <3> QED
      BY <3>1, <2>1, <1>6
  <2>2. CASE r.hi < start
    <3>1. \A s \in T : r.hi < s.lo
      BY <1>1, <1>2, <2>2, <1>9 DEF Apart
    <3> QED
      BY <3>1, <2>2, <1>6
  <2> QED
    BY <2>1, <2>2, <1>3
<1>10. Apart(M)
  BY <1>7, <1>9 DEF Apart
<1>11. ASSUME NEW r \in got PROVE \E q \in M : q.lo <= r.lo /\ r.hi <= q.hi
  <2>1. CASE r \in T
    BY <2>1, <1>6, <1>7
  <2>2. CASE r \notin T
    <3>1. r \in M /\ r.lo <= r.lo /\ r.hi <= r.hi
      BY <2>2, <1>1
    <3> QED
      BY <3>1
  <2> QED
    BY <2>1, <2>2
<1>12. \E q \in M : q.lo <= start /\ end <= q.hi
  BY <1>6, <1>7
<1>13. Octets(M) = Octets(got) \cup start .. (end - 1)
  <2>1. ASSUME NEW o \in Octets(M) PROVE o \in Octets(got) \cup start .. (end - 1)
    <3>1. PICK r \in M : o \in r.lo .. (r.hi - 1)
      BY DEF Octets
    <3>2. CASE r \in got
      BY <3>1, <3>2 DEF Octets
    <3>3. CASE r = m
      <4>1. o \in Int /\ lo <= o /\ o < hi
        BY <3>1, <3>3, <1>6, <1>7
      <4>2. CASE o < start
        <5>1. PICK s \in T : lo = s.lo
          BY <4>1, <4>2, <1>6
        <5>2. s \in got /\ o \in s.lo .. (s.hi - 1)
          BY <5>1, <4>1, <4>2, <1>1, <1>2
        <5> QED
          BY <5>2 DEF Octets
      <4>3. CASE end <= o
        <5>1. PICK s \in T : hi = s.hi
          BY <4>1, <4>3, <1>6
        <5>2. s \in got /\ o \in s.lo .. (s.hi - 1)
          BY <5>1, <4>1, <4>3, <1>1, <1>2
        <5> QED
          BY <5>2 DEF Octets
      <4> QED
        BY <4>1, <4>2, <4>3
    <3> QED
      BY <3>1, <3>2, <3>3
  <2>2. ASSUME NEW o \in Octets(got) \cup start .. (end - 1) PROVE o \in Octets(M)
    <3>1. PICK r : /\ o \in r.lo .. (r.hi - 1) /\ r.lo \in Nat /\ r.hi \in Nat
                   /\ \E q \in M : q.lo <= r.lo /\ r.hi <= q.hi
      <4>1. CASE o \in Octets(got)
        BY <4>1, <1>1, <1>11 DEF Octets
      <4>2. CASE o \in start .. (end - 1)
        <5> DEFINE c == [lo |-> start, hi |-> end]
        <5>1. c.lo = start /\ c.hi = end
          OBVIOUS
        <5> QED
          BY <4>2, <5>1, <1>12
      <4> QED
        BY <4>1, <4>2, <2>2
    <3>2. PICK q \in M : q.lo <= r.lo /\ r.hi <= q.hi
      BY <3>1
    <3>3. q.lo \in Nat /\ q.hi \in Nat
      BY <1>8 DEF WellFormed
    <3>4. o \in q.lo .. (q.hi - 1)
      BY <3>1, <3>2, <3>3
    <3> QED
      BY <3>4 DEF Octets
  <2> QED
    BY <2>1, <2>2
<1> QED
  BY <1>8, <1>10, <1>11, <1>12, <1>13 DEF Merged, T, lo, hi

(* Position p, of frame f, follows the fragments `of` of a capture.        *)
Follows(p, f, of, inp, next) ==
  /\ p \in Nat /\ \A q \in of : q \in Nat /\ q < p
  /\ next[p + 1] = f /\ \A q \in of : next[q + 1] = inp[q + 1]

LEMMA FirstStays ==
  ASSUME NEW p \in Nat, NEW S, NEW z, First(z, S), \A q \in S : q \in Nat /\ q < p
  PROVE  First(z, S \cup {p})
BY DEF First

LEMMA FirstAlone ==
  ASSUME NEW p \in Nat
  PROVE  First(p, {p})
BY DEF First

LEMMA FedHeaded ==
  ASSUME NEW p, NEW f \in Frames, NEW of, NEW inp, NEW next, Follows(p, f, of, inp, next),
         NEW head, Headed(head, of, inp)
  PROVE  Headed(IF head = NoHead /\ f.at = 0 THEN [from |-> p, hlen |-> f.hlen] ELSE head,
                of \cup {p}, next)
<1>1. /\ p \in Nat /\ \A q \in of : q \in Nat /\ q < p
      /\ next[p + 1] = f /\ \A q \in of : next[q + 1] = inp[q + 1]
  BY DEF Follows
<1>2. Zeros(of \cup {p}, next) = Zeros(of, inp) \cup (IF f.at = 0 THEN {p} ELSE {})
  BY <1>1 DEF Zeros
<1>3. Zeros(of, inp) \subseteq of
  BY DEF Zeros
<1>4. CASE head = NoHead /\ Zeros(of, inp) = {}
  <2>1. CASE f.at = 0
    <3>1. Zeros(of \cup {p}, next) = {p}
      BY <1>2, <1>4, <2>1
    <3>2. First(p, Zeros(of \cup {p}, next))
      BY <3>1, <1>1, FirstAlone
    <3> QED
      BY <3>2, <1>1, <1>4, <2>1 DEF Headed
  <2>2. CASE f.at # 0
    BY <1>2, <1>4, <2>2 DEF Headed
  <2> QED
    BY <2>1, <2>2
<1>5. ASSUME NEW z \in of, First(z, Zeros(of, inp)),
             head = [from |-> z, hlen |-> inp[z + 1].hlen]
      PROVE  Headed(IF head = NoHead /\ f.at = 0 THEN [from |-> p, hlen |-> f.hlen] ELSE head,
                    of \cup {p}, next)
  <2>1. head # NoHead
    <3>1. head.from = z /\ NoHead.from = -1
      BY <1>5 DEF NoHead, Zero
    <3> QED
      BY <3>1, <1>1
  <2>2. First(z, Zeros(of, inp) \cup {p})
    BY <1>1, <1>3, <1>5, FirstStays
  <2>3. First(z, Zeros(of \cup {p}, next))
    BY <2>2, <1>2, <1>5
  <2> QED
    BY <2>1, <2>3, <1>1, <1>5 DEF Headed
<1> QED
  BY <1>4, <1>5 DEF Headed

LEMMA FedEnded ==
  ASSUME NEW p, NEW f \in Frames, NEW of, NEW inp, NEW next, Follows(p, f, of, inp, next),
         NEW total, Ended(total, of, inp),
         \A q \in of : EndOf(inp[q + 1]) \in Nat
  PROVE  Ended(IF ~f.more /\ total = NoTotal THEN f.at + f.len ELSE total,
               of \cup {p}, next)
<1>1. /\ p \in Nat /\ \A q \in of : q \in Nat /\ q < p
      /\ next[p + 1] = f /\ \A q \in of : next[q + 1] = inp[q + 1]
  BY DEF Follows
<1>2. Lasts(of \cup {p}, next) = Lasts(of, inp) \cup (IF ~f.more THEN {p} ELSE {})
  BY <1>1 DEF Lasts
<1>3. Lasts(of, inp) \subseteq of
  BY DEF Lasts
<1>4. CASE total = NoTotal /\ Lasts(of, inp) = {}
  <2>1. CASE ~f.more
    <3>1. Lasts(of \cup {p}, next) = {p}
      BY <1>2, <1>4, <2>1
    <3>2. First(p, Lasts(of \cup {p}, next)) /\ f.at + f.len = EndOf(next[p + 1])
      BY <3>1, <1>1, FirstAlone DEF EndOf
    <3> QED
      BY <3>2, <1>4, <2>1 DEF Ended
  <2>2. CASE f.more
    BY <1>2, <1>4, <2>2 DEF Ended
  <2> QED
    BY <2>1, <2>2
<1>5. ASSUME NEW l \in of, First(l, Lasts(of, inp)), total = EndOf(inp[l + 1])
      PROVE  Ended(IF ~f.more /\ total = NoTotal THEN f.at + f.len ELSE total,
                   of \cup {p}, next)
  <2>1. total # NoTotal
    BY <1>5 DEF NoTotal
  <2>2. First(l, Lasts(of, inp) \cup {p})
    BY <1>1, <1>3, <1>5, FirstStays
  <2>3. First(l, Lasts(of \cup {p}, next)) /\ total = EndOf(next[l + 1])
    BY <2>2, <1>1, <1>2, <1>5
  <2> QED
    BY <2>1, <2>3 DEF Ended
<1> QED
  BY <1>4, <1>5 DEF Ended

LEMMA FedRanged ==
  ASSUME NEW p, NEW f \in Frames, NEW of, NEW inp, NEW next, Follows(p, f, of, inp, next),
         NEW got, NEW len, Ranged(got, len, of, inp),
         \A q \in of : inp[q + 1].at \in Nat /\ EndOf(inp[q + 1]) \in Nat
  PROVE  Ranged(Merged(got, f.at, f.at + f.len), Larger(len, f.at + f.len), of \cup {p}, next)
<1> DEFINE end == f.at + f.len
           M   == Merged(got, f.at, end)
<1>1. /\ p \in Nat /\ next[p + 1] = f /\ \A q \in of : next[q + 1] = inp[q + 1]
  BY DEF Follows
<1>2. f.at \in Nat /\ end \in Nat /\ f.at <= end /\ EndOf(f) = end
  BY FrameFields DEF EndOf
<1>3. len \in Nat /\ WellFormed(got, len) /\ Apart(got)
  BY DEF Ranged, WellFormed
<1> HIDE DEF end
<1>4. /\ WellFormed(M, Larger(len, end)) /\ Apart(M)
      /\ \A r \in got : \E m \in M : m.lo <= r.lo /\ r.hi <= m.hi
      /\ \E m \in M : m.lo <= f.at /\ end <= m.hi
  BY <1>2, <1>3, MergedFacts
<1> HIDE DEF M
<1>5. Larger(len, end) \in Nat
  BY <1>2, <1>3 DEF Larger
<1>6. ASSUME NEW q \in of
      PROVE  \E r \in M : r.lo <= next[q + 1].at /\ EndOf(next[q + 1]) <= r.hi
  <2>1. PICK r \in got : r.lo <= inp[q + 1].at /\ EndOf(inp[q + 1]) <= r.hi
    BY DEF Ranged
  <2>2. PICK m \in M : m.lo <= r.lo /\ r.hi <= m.hi
    BY <1>4
  <2>3. r.lo \in Nat /\ r.hi \in Nat /\ m.lo \in Nat /\ m.hi \in Nat
    BY <1>3, <1>4 DEF WellFormed
  <2>4. m.lo <= inp[q + 1].at /\ EndOf(inp[q + 1]) <= m.hi
    BY <2>1, <2>2, <2>3
  <2> QED
    BY <2>4, <1>1
<1>7. Larger(len, end) = 0 \/ \E q \in of \cup {p} : EndOf(next[q + 1]) = Larger(len, end)
  <2>1. CASE Larger(len, end) = end
    BY <2>1, <1>1, <1>2
  <2>2. CASE Larger(len, end) = len
    BY <2>2, <1>1 DEF Ranged
  <2> QED
    BY <2>1, <2>2 DEF Larger
<1>8. \A q \in of \cup {p} :
        \E r \in M : r.lo <= next[q + 1].at /\ EndOf(next[q + 1]) <= r.hi
  BY <1>1, <1>2, <1>4, <1>6
<1>9. Ranged(M, Larger(len, end), of \cup {p}, next)
  BY <1>4, <1>5, <1>7, <1>8 DEF Ranged, WellFormed
<1> QED
  BY <1>9 DEF M, end

LEMMA FedFilled ==
  ASSUME NEW p, NEW f \in Frames, NEW of, NEW inp, NEW next, Follows(p, f, of, inp, next),
         NEW got, NEW len, NEW data, Ranged(got, len, of, inp), Filled(got, data, of, inp),
         \A q \in of : inp[q + 1] \in Frames
  PROVE  Filled(Merged(got, f.at, f.at + f.len),
                Written(data, len, got, f.at, f.at + f.len, p), of \cup {p}, next)
<1> DEFINE end == f.at + f.len
           M   == Merged(got, f.at, end)
           W   == Written(data, len, got, f.at, end, p)
<1>1. /\ p \in Nat /\ \A q \in of : q \in Nat /\ q < p
      /\ next[p + 1] = f /\ \A q \in of : next[q + 1] = inp[q + 1]
  BY DEF Follows
<1>2. f.at \in Nat /\ end \in Nat /\ f.at <= end
  BY FrameFields
<1>3. len \in Nat /\ WellFormed(got, len) /\ Apart(got)
  BY DEF Ranged, WellFormed
<1>4. Claim(f) = f.at .. (end - 1)
  BY FrameFields DEF Claim
<1> HIDE DEF end
<1>5. Octets(M) = Octets(got) \cup f.at .. (end - 1)
  BY <1>2, <1>3, MergedFacts
<1>6. Larger(len, end) \in Nat /\ len <= Larger(len, end) /\ end <= Larger(len, end)
  BY <1>2, <1>3 DEF Larger
<1>7. \A o \in Octets(got) : o \in Nat /\ o < len
  BY <1>3 DEF Octets, WellFormed
<1>8. ASSUME NEW o \in Octets(M)
      PROVE  W[o] = IF o \in Octets(got) THEN data[o] ELSE p
  <2>1. o \in 0 .. (Larger(len, end) - 1)
    BY <1>2, <1>3, <1>5, <1>6, <1>7
  <2>2. W[o] = IF o \in f.at .. (end - 1) /\ o \notin Octets(got) THEN p
               ELSE IF o < len THEN data[o] ELSE Zero
    BY <2>1 DEF Written
  <2> QED
    BY <2>2, <1>5, <1>7
<1> HIDE DEF W, M
<1>9. \A o : Writers(of \cup {p}, next, o) =
               Writers(of, inp, o) \cup (IF o \in f.at .. (end - 1) THEN {p} ELSE {})
  BY <1>1, <1>4 DEF Writers
<1>10. ASSUME NEW o \in Octets(M)
       PROVE  First(W[o], Writers(of \cup {p}, next, o))
  <2>1. CASE o \in Octets(got)
    <3>1. First(data[o], Writers(of, inp, o)) /\ W[o] = data[o]
      BY <2>1, <1>8 DEF Filled
    <3>2. \A q \in Writers(of, inp, o) : q \in Nat /\ q < p
      BY <1>1 DEF Writers
    <3>3. First(W[o], Writers(of, inp, o) \cup {p})
      BY <3>1, <3>2, <1>1, FirstStays
    <3> QED
      BY <3>1, <3>3, <1>9
  <2>2. CASE o \notin Octets(got)
    <3>1. o \in f.at .. (end - 1) /\ W[o] = p
      BY <2>2, <1>5, <1>8
    <3>2. Writers(of, inp, o) = {}
      <4>1. ASSUME NEW q \in of, o \in Claim(inp[q + 1]) PROVE FALSE
        <5>1. PICK r \in got : r.lo <= inp[q + 1].at /\ EndOf(inp[q + 1]) <= r.hi
          BY DEF Ranged
        <5>2. r.lo \in Nat /\ r.hi \in Nat
          BY <1>3 DEF WellFormed
        <5>3. inp[q + 1].at \in Nat /\ inp[q + 1].len \in Nat
          BY FrameFields
        <5>4. o \in r.lo .. (r.hi - 1)
          BY <5>1, <5>2, <5>3, <4>1 DEF Claim, EndOf
        <5> QED
          BY <5>4, <2>2 DEF Octets
      <4> QED
        BY <4>1 DEF Writers
    <3>3. Writers(of \cup {p}, next, o) = {p}
      BY <3>1, <3>2, <1>9
    <3> QED
      BY <3>1, <3>3, <1>1, FirstAlone
  <2> QED
    BY <2>1, <2>2
<1> QED
  BY <1>10 DEF Filled, M, W, end

LEMMA OfAppend ==
  ASSUME NEW at \in Seq(Nat), NEW p \in Nat
  PROVE  /\ Append(at, p) \in Seq(Nat) /\ Len(Append(at, p)) = Len(at) + 1
         /\ Len(at) \in Nat
         /\ \A i \in 1 .. Len(at) : Append(at, p)[i] = at[i]
         /\ Append(at, p)[Len(at) + 1] = p
         /\ Of(Append(at, p)) = Of(at) \cup {p}
<1>1. /\ Append(at, p) \in Seq(Nat) /\ Len(Append(at, p)) = Len(at) + 1
      /\ Len(at) \in Nat
      /\ \A i \in 1 .. Len(at) : Append(at, p)[i] = at[i]
      /\ Append(at, p)[Len(at) + 1] = p
  BY AppendProperties, LenProperties
<1>2. \A i \in 1 .. (Len(at) + 1) : i \in 1 .. Len(at) \/ i = Len(at) + 1
  BY <1>1
<1>3. Len(at) + 1 \in 1 .. (Len(at) + 1) /\ \A i \in 1 .. Len(at) : i \in 1 .. (Len(at) + 1)
  BY <1>1
<1> HIDE <1>1
<1>4. Of(Append(at, p)) = Of(at) \cup {p}
  BY <1>1, <1>2, <1>3 DEF Of
<1> QED
  BY <1>1, <1>4

(* The fragments of a group are frames of the capture.                     *)
LEMMA OfCapture ==
  ASSUME NEW inp \in Seq(Frames), NEW at, NEW k, Gathered(at, k, inp)
  PROVE  /\ Len(inp) \in Nat
         /\ \A q \in Of(at) : q \in Nat /\ q < Len(inp) /\ inp[q + 1] \in Frames
<1>1. Len(inp) \in Nat /\ Len(at) \in Nat
  BY LenProperties DEF Gathered
<1>2. \A i \in 1 .. Len(inp) : inp[i] \in Frames
  BY ElementOfSeq
<1>3. \A i \in 1 .. Len(at) : at[i] \in Nat /\ at[i] < Len(inp)
  BY ElementOfSeq DEF Gathered
<1>4. \A q \in Of(at) : q \in Nat /\ q < Len(inp)
  BY <1>3 DEF Of
<1>5. \A q \in Of(at) : q + 1 \in 1 .. Len(inp)
  BY <1>1, <1>4
<1> QED
  BY <1>1, <1>2, <1>4, <1>5

LEMMA CaptureGrows ==
  ASSUME NEW inp \in Seq(Frames), NEW f \in Frames
  PROVE  /\ Append(inp, f) \in Seq(Frames) /\ Len(Append(inp, f)) = Len(inp) + 1
         /\ Len(inp) \in Nat /\ Append(inp, f)[Len(inp) + 1] = f
         /\ \A q \in Nat : q < Len(inp) => Append(inp, f)[q + 1] = inp[q + 1]
<1>1. /\ Append(inp, f) \in Seq(Frames) /\ Len(Append(inp, f)) = Len(inp) + 1
      /\ Len(inp) \in Nat
      /\ \A i \in 1 .. Len(inp) : Append(inp, f)[i] = inp[i]
      /\ Append(inp, f)[Len(inp) + 1] = f
  BY AppendProperties, LenProperties
<1>2. \A q \in Nat : q < Len(inp) => q + 1 \in 1 .. Len(inp)
  BY <1>1
<1> QED
  BY <1>1, <1>2

LEMMA NewGroupTrue ==
  ASSUME NEW inp, NEW stamp, NEW k
  PROVE  GroupTrue(NewGroup(stamp), k, inp)
<1> DEFINE g == NewGroup(stamp)
<1>1. /\ g.at = <<>> /\ g.head = NoHead /\ g.data = <<>> /\ g.len = 0 /\ g.got = {}
      /\ g.total = NoTotal
  BY DEF NewGroup
<1> HIDE DEF g
<1>2. <<>> \in Seq(Nat) /\ Len(<<>>) = 0 /\ Of(<<>>) = {}
  BY EmptySeq DEF Of
<1>3. Gathered(g.at, k, inp)
  BY <1>1, <1>2, BoundsAssumption DEF Gathered
<1>4. Headed(g.head, {}, inp) /\ Ended(g.total, {}, inp)
  BY <1>1 DEF Headed, Ended, Zeros, Lasts
<1>5. Ranged(g.got, g.len, {}, inp) /\ Filled(g.got, g.data, {}, inp)
  BY <1>1 DEF Ranged, Filled, Apart, Octets
<1>6. GroupTrue(g, k, inp)
  BY <1>1, <1>2, <1>3, <1>4, <1>5 DEF GroupTrue
<1> QED
  BY <1>6 DEF g

(* A group that takes the frame just captured stays true to its frames.    *)
LEMMA FedTrue ==
  ASSUME NEW inp \in Seq(Frames), NEW f \in Frames, NEW g, GroupTrue(g, f.key, inp),
         Len(g.at) < MaxFrags
  PROVE  GroupTrue(Fed(g, f, Len(inp)), f.key, Append(inp, f))
<1> DEFINE p    == Len(inp)
           next == Append(inp, f)
           new  == Fed(g, f, p)
           of   == Of(g.at)
<1>1. /\ next \in Seq(Frames) /\ Len(next) = p + 1 /\ p \in Nat /\ next[p + 1] = f
      /\ \A q \in Nat : q < p => next[q + 1] = inp[q + 1]
  BY CaptureGrows
<1>2. /\ Gathered(g.at, f.key, inp) /\ Headed(g.head, of, inp) /\ Ended(g.total, of, inp)
      /\ Ranged(g.got, g.len, of, inp) /\ Filled(g.got, g.data, of, inp)
  BY DEF GroupTrue
<1>3. \A q \in of : q \in Nat /\ q < p /\ inp[q + 1] \in Frames
  BY <1>2, OfCapture
<1>4. /\ new.at = Append(g.at, p)
      /\ new.head = IF g.head = NoHead /\ f.at = 0
                    THEN [from |-> p, hlen |-> f.hlen] ELSE g.head
      /\ new.data = Written(g.data, g.len, g.got, f.at, f.at + f.len, p)
      /\ new.len = Larger(g.len, f.at + f.len)
      /\ new.got = Merged(g.got, f.at, f.at + f.len)
      /\ new.total = IF ~f.more /\ g.total = NoTotal THEN f.at + f.len ELSE g.total
  BY DEF Fed
<1> HIDE DEF p, next, new, of
<1>5. Follows(p, f, of, inp, next)
  BY <1>1, <1>3 DEF Follows
<1>6. \A q \in of : inp[q + 1].at \in Nat /\ EndOf(inp[q + 1]) \in Nat
  BY <1>3, FrameFields DEF EndOf
<1>7. g.at \in Seq(Nat)
  BY <1>2 DEF Gathered
<1>8. /\ new.at \in Seq(Nat) /\ Len(new.at) = Len(g.at) + 1 /\ Len(g.at) \in Nat
      /\ \A i \in 1 .. Len(g.at) : new.at[i] = g.at[i]
      /\ new.at[Len(g.at) + 1] = p
      /\ Of(new.at) = of \cup {p}
  BY <1>1, <1>4, <1>7, OfAppend DEF of
<1>9. Gathered(new.at, f.key, next)
  <2>1. \A i \in 1 .. Len(g.at) : g.at[i] \in Nat /\ g.at[i] < p /\ inp[g.at[i] + 1].key = f.key
    BY <1>2, <1>7, ElementOfSeq DEF Gathered, p
  <2>2. \A i \in 1 .. Len(g.at) : new.at[i] < p /\ next[new.at[i] + 1].key = f.key
    <3> SUFFICES ASSUME NEW i \in 1 .. Len(g.at)
                 PROVE  new.at[i] < p /\ next[new.at[i] + 1].key = f.key
      OBVIOUS
    <3>1. g.at[i] \in Nat /\ g.at[i] < p /\ inp[g.at[i] + 1].key = f.key
      BY <2>1
    <3>2. next[g.at[i] + 1] = inp[g.at[i] + 1]
      BY <3>1, <1>1
    <3> QED
      BY <3>1, <3>2, <1>8
  <2>3. \A i \in 1 .. Len(new.at) : i \in 1 .. Len(g.at) \/ i = Len(g.at) + 1
    BY <1>8
  <2>4. ASSUME NEW i \in 1 .. Len(new.at)
        PROVE  new.at[i] < Len(next) /\ next[new.at[i] + 1].key = f.key
    <3>1. CASE i \in 1 .. Len(g.at)
      <4>1. new.at[i] \in Nat /\ new.at[i] < p /\ next[new.at[i] + 1].key = f.key
        BY <3>1, <2>1, <2>2, <1>8
      <4>2. p \in Nat /\ Len(next) = p + 1
        BY <1>1
      <4> QED
        BY <4>1, <4>2
    <3>2. CASE i = Len(g.at) + 1
      BY <3>2, <1>1, <1>8
    <3> QED
      BY <3>1, <3>2, <2>3
  <2>5. ASSUME NEW i \in 1 .. Len(new.at), NEW j \in 1 .. Len(new.at), i < j
        PROVE  new.at[i] < new.at[j]
    <3>1. i \in 1 .. Len(g.at)
      BY <2>5, <1>8
    <3>2. CASE j \in 1 .. Len(g.at)
      BY <3>1, <3>2, <2>5, <1>2, <1>8 DEF Gathered
    <3>3. CASE j = Len(g.at) + 1
      BY <3>1, <3>3, <2>2, <1>8
    <3> QED
      BY <3>2, <3>3, <2>3
  <2>6. Len(new.at) <= MaxFrags
    BY <1>8, BoundsAssumption
  <2> QED
    <3>1. new.at \in Seq(Nat)
      BY <1>8
    <3> QED
      BY <3>1, <2>4, <2>5, <2>6 DEF Gathered
<1>10. Headed(new.head, of \cup {p}, next)
  <2>1. Headed(IF g.head = NoHead /\ f.at = 0
               THEN [from |-> p, hlen |-> f.hlen] ELSE g.head, of \cup {p}, next)
    BY <1>2, <1>5, FedHeaded, Zenon
  <2> QED
    BY <2>1, <1>4
<1>11. Ended(new.total, of \cup {p}, next)
  BY <1>2, <1>4, <1>5, <1>6, FedEnded
<1>12. Ranged(new.got, new.len, of \cup {p}, next)
  <2>1. Ranged(Merged(g.got, f.at, f.at + f.len), Larger(g.len, f.at + f.len),
               of \cup {p}, next)
    BY <1>2, <1>5, <1>6, FedRanged, Zenon
  <2> QED
    BY <2>1, <1>4
<1>13. Filled(new.got, new.data, of \cup {p}, next)
  <2>1. \A q \in of : inp[q + 1] \in Frames
    BY <1>3
  <2>2. Filled(Merged(g.got, f.at, f.at + f.len),
               Written(g.data, g.len, g.got, f.at, f.at + f.len, p), of \cup {p}, next)
    BY <1>2, <1>5, <2>1, FedFilled, Zenon
  <2> QED
    BY <2>2, <1>4
<1>14. GroupTrue(new, f.key, next)
  BY <1>8, <1>9, <1>10, <1>11, <1>12, <1>13 DEF GroupTrue
<1> QED
  BY <1>14 DEF p, next, new

(* What is said of fragments is said of the frames they are.               *)
LEMMA SameFragments ==
  ASSUME NEW of, NEW inp, NEW next, \A q \in of : next[q + 1] = inp[q + 1]
  PROVE  /\ Zeros(of, next) = Zeros(of, inp) /\ Lasts(of, next) = Lasts(of, inp)
         /\ \A o : Writers(of, next, o) = Writers(of, inp, o)
BY DEF Zeros, Lasts, Writers

LEMMA GatheredStays ==
  ASSUME NEW inp \in Seq(Frames), NEW f \in Frames, NEW at, NEW k, Gathered(at, k, inp)
  PROVE  /\ Gathered(at, k, Append(inp, f))
         /\ \A q \in Of(at) : Append(inp, f)[q + 1] = inp[q + 1]
<1> DEFINE next == Append(inp, f)
<1>1. /\ Len(next) = Len(inp) + 1 /\ Len(inp) \in Nat
      /\ \A q \in Nat : q < Len(inp) => next[q + 1] = inp[q + 1]
  BY CaptureGrows
<1>2. \A q \in Of(at) : q \in Nat /\ q < Len(inp)
  BY OfCapture
<1> HIDE DEF next
<1>3. \A q \in Of(at) : next[q + 1] = inp[q + 1] /\ q < Len(next)
  BY <1>1, <1>2
<1>4. \A i \in 1 .. Len(at) : at[i] \in Of(at)
  BY DEF Of
<1>5. Gathered(at, k, next)
  BY <1>3, <1>4 DEF Gathered
<1> QED
  BY <1>3, <1>5 DEF next

(* What another frame of the capture does not change.                      *)
LEMMA GroupStays ==
  ASSUME NEW inp \in Seq(Frames), NEW f \in Frames, NEW g, NEW k, GroupTrue(g, k, inp)
  PROVE  GroupTrue(g, k, Append(inp, f))
<1> DEFINE next == Append(inp, f)
           of   == Of(g.at)
<1>1. /\ Gathered(g.at, k, inp) /\ Headed(g.head, of, inp) /\ Ended(g.total, of, inp)
      /\ Ranged(g.got, g.len, of, inp) /\ Filled(g.got, g.data, of, inp)
  BY DEF GroupTrue
<1>2. Gathered(g.at, k, next) /\ \A q \in of : next[q + 1] = inp[q + 1]
  BY <1>1, GatheredStays
<1> HIDE DEF next, of
<1>3. /\ Zeros(of, next) = Zeros(of, inp) /\ Lasts(of, next) = Lasts(of, inp)
      /\ \A o : Writers(of, next, o) = Writers(of, inp, o)
  BY <1>2, SameFragments
<1>4. Headed(g.head, of, next)
  BY <1>1, <1>2, <1>3 DEF Headed
<1>5. Ended(g.total, of, next)
  BY <1>1, <1>2, <1>3 DEF Ended
<1>6. Ranged(g.got, g.len, of, next)
  BY <1>1, <1>2 DEF Ranged
<1>7. Filled(g.got, g.data, of, next)
  BY <1>1, <1>3 DEF Filled
<1> QED
  BY <1>2, <1>4, <1>5, <1>6, <1>7 DEF GroupTrue, next, of

LEMMA PieceStays ==
  ASSUME NEW inp \in Seq(Frames), NEW f \in Frames, NEW c, PieceTrue(c, inp)
  PROVE  PieceTrue(c, Append(inp, f))
<1> DEFINE next == Append(inp, f)
           of   == Of(c.of)
<1>1. Len(next) = Len(inp) + 1 /\ Len(inp) \in Nat
  BY CaptureGrows
<1>2. c.at \in 0 .. (Len(next) - 1)
  BY <1>1 DEF PieceTrue
<1>3. ASSUME c.kind = "complete" PROVE CompleteTrue(c, next)
  <2>1. CompleteTrue(c, inp)
    BY <1>3 DEF PieceTrue
  <2>2. PICK k \in Keys : Gathered(c.of, k, inp)
    BY <2>1 DEF CompleteTrue
  <2>3. Gathered(c.of, k, next) /\ \A q \in of : next[q + 1] = inp[q + 1]
    BY <2>2, GatheredStays
  <2>4. /\ First(c.at, of) /\ First(c.head, Zeros(of, inp))
        /\ \E l \in of : First(l, Lasts(of, inp)) /\ c.len = EndOf(inp[l + 1])
        /\ c.len + inp[c.head + 1].hlen <= MaxDatagram
        /\ \A o \in 0 .. (c.len - 1) : First(c.data[o], Writers(of, inp, o))
    BY <2>1 DEF CompleteTrue
  <2> HIDE DEF next, of
  <2>5. /\ Zeros(of, next) = Zeros(of, inp) /\ Lasts(of, next) = Lasts(of, inp)
        /\ \A o : Writers(of, next, o) = Writers(of, inp, o)
    BY <2>3, SameFragments
  <2>6. c.head \in of
    BY <2>4 DEF First, Zeros
  <2>7. /\ First(c.head, Zeros(of, next))
        /\ \E l \in of : First(l, Lasts(of, next)) /\ c.len = EndOf(next[l + 1])
        /\ c.len + next[c.head + 1].hlen <= MaxDatagram
        /\ \A o \in 0 .. (c.len - 1) : First(c.data[o], Writers(of, next, o))
    BY <2>3, <2>4, <2>5, <2>6
  <2> QED
    BY <2>2, <2>3, <2>4, <2>7 DEF CompleteTrue, of
<1> QED
  BY <1>2, <1>3 DEF PieceTrue

(* A complete group's fields are the datagram its frames spell.            *)
LEMMA CompleteIsTrue ==
  ASSUME NEW inp \in Seq(Frames), NEW g, NEW k \in Keys, GroupTrue(g, k, inp), Complete(g),
         g.head.hlen + g.len <= MaxDatagram
  PROVE  PieceTrue(CompletePiece(g), inp)
<1> DEFINE of == Of(g.at)
           c  == CompletePiece(g)
<1>1. /\ Gathered(g.at, k, inp) /\ Headed(g.head, of, inp) /\ Ended(g.total, of, inp)
      /\ Ranged(g.got, g.len, of, inp) /\ Filled(g.got, g.data, of, inp)
  BY DEF GroupTrue
<1>2. /\ Len(inp) \in Nat
      /\ \A q \in of : q \in Nat /\ q < Len(inp) /\ inp[q + 1] \in Frames
  BY <1>1, OfCapture
<1>3. g.head # NoHead /\ g.total # NoTotal /\ g.got = {[lo |-> 0, hi |-> g.total]}
  BY DEF Complete
<1>4. /\ c.kind = "complete" /\ c.at = g.at[1] /\ c.head = g.head.from
      /\ c.data = g.data /\ c.len = g.len /\ c.of = g.at
  BY DEF CompletePiece
<1> HIDE DEF c
<1>5. PICK z \in of : First(z, Zeros(of, inp)) /\ g.head = [from |-> z, hlen |-> inp[z + 1].hlen]
  BY <1>1, <1>3 DEF Headed
<1>6. PICK l \in of : First(l, Lasts(of, inp)) /\ g.total = EndOf(inp[l + 1])
  BY <1>1, <1>3 DEF Ended
<1>7. g.len = g.total /\ g.len \in Nat
  <2>1. g.len \in Nat /\ g.total \in Nat /\ g.total <= g.len
    <3> DEFINE r == [lo |-> 0, hi |-> g.total]
    <3>1. r \in g.got /\ r.hi = g.total
      BY <1>3
    <3> QED
      BY <3>1, <1>1 DEF Ranged
  <2>2. ASSUME NEW q \in of, EndOf(inp[q + 1]) = g.len PROVE g.len <= g.total
    <3>1. PICK r \in g.got : EndOf(inp[q + 1]) <= r.hi
      BY <1>1 DEF Ranged
    <3> QED
      BY <3>1, <2>2, <1>3
  <2> QED
    BY <2>1, <2>2, <1>1 DEF Ranged
<1>8. First(c.at, of)
  <2>1. g.at \in Seq(Nat) /\ Len(g.at) \in Nat /\ Len(g.at) > 0
    BY <1>1, <1>5, LenProperties DEF Gathered, Of
  <2>2. \A i \in 1 .. Len(g.at) : g.at[i] \in Nat
    BY <2>1, ElementOfSeq
  <2>3. 1 \in 1 .. Len(g.at) /\ \A i \in 1 .. Len(g.at) : i = 1 \/ 1 < i
    BY <2>1
  <2>4. \A i \in 1 .. Len(g.at) : g.at[1] <= g.at[i]
    <3> SUFFICES ASSUME NEW i \in 1 .. Len(g.at) PROVE g.at[1] <= g.at[i]
      OBVIOUS
    <3>1. 1 < i => g.at[1] < g.at[i]
      BY <2>3, <1>1 DEF Gathered
    <3>2. g.at[1] \in Nat /\ g.at[i] \in Nat /\ (i = 1 \/ 1 < i)
      BY <2>2, <2>3
    <3> QED
      BY <3>1, <3>2
  <2> QED
    BY <2>3, <2>4, <1>4 DEF First, Of
<1>9. \A o \in 0 .. (g.len - 1) : First(g.data[o], Writers(of, inp, o))
  <2>1. Octets(g.got) = 0 .. (g.len - 1)
    BY <1>3, <1>7 DEF Octets
  <2> QED
    BY <2>1, <1>1 DEF Filled
<1>10. c.head = z /\ inp[c.head + 1].hlen = g.head.hlen
  BY <1>4, <1>5
<1>11. c.len + inp[c.head + 1].hlen <= MaxDatagram
  <2>1. g.head.hlen \in Nat
    BY <1>2, <1>5, FrameFields
  <2> QED
    BY <2>1, <1>4, <1>7, <1>10
<1>12. CompleteTrue(c, inp)
  BY <1>1, <1>4, <1>5, <1>6, <1>7, <1>8, <1>9, <1>10, <1>11 DEF CompleteTrue
<1>13. c.at \in 0 .. (Len(inp) - 1)
  BY <1>2, <1>8 DEF First
<1> QED
  BY <1>12, <1>13 DEF PieceTrue, c

(* Fragments that reach the end of the datagram, and no gap: the ranges    *)
(* have become the one that `complete` looks for.                          *)
LEMMA FinishedIsComplete ==
  ASSUME NEW inp \in Seq(Frames), NEW g, NEW k, GroupTrue(g, k, inp),
         NEW z \in Of(g.at), inp[z + 1].at = 0,
         NEW l \in Of(g.at), First(l, Lasts(Of(g.at), inp)),
         \A q \in Of(g.at) : EndOf(inp[q + 1]) <= EndOf(inp[l + 1]),
         \A o \in 0 .. (EndOf(inp[l + 1]) - 1) : \E q \in Of(g.at) : o \in Claim(inp[q + 1])
  PROVE  Complete(g)
<1> DEFINE of == Of(g.at)
           T  == EndOf(inp[l + 1])
<1>1. /\ Gathered(g.at, k, inp) /\ Headed(g.head, of, inp) /\ Ended(g.total, of, inp)
      /\ Ranged(g.got, g.len, of, inp)
  BY DEF GroupTrue
<1>2. \A q \in of : q \in Nat /\ inp[q + 1] \in Frames
  BY <1>1, OfCapture
<1>3. \A q \in of : inp[q + 1].at \in Nat /\ inp[q + 1].len \in Nat
  BY <1>2, FrameFields
<1>4. T \in Nat
  BY <1>3 DEF EndOf
<1>5. g.head # NoHead
  <2>1. z \in Zeros(of, inp)
    BY DEF Zeros
  <2>2. PICK y \in of : g.head = [from |-> y, hlen |-> inp[y + 1].hlen]
    BY <2>1, <1>1 DEF Headed
  <2>3. g.head.from \in Nat /\ NoHead.from = -1
    BY <2>2, <1>2 DEF NoHead, Zero
  <2> QED
    BY <2>3
<1>6. g.total = T
  <2>1. PICK m \in of : First(m, Lasts(of, inp)) /\ g.total = EndOf(inp[m + 1])
    BY <1>1 DEF Ended, First
  <2>2. m = l
    BY <2>1, <1>2 DEF First
  <2> QED
    BY <2>1, <2>2
<1>7. g.total # NoTotal
  BY <1>4, <1>6 DEF NoTotal
<1>8. \A r \in g.got : /\ r = [lo |-> r.lo, hi |-> r.hi] /\ r.lo \in Nat /\ r.hi \in Nat
                       /\ r.lo <= r.hi /\ r.hi <= T
  <2>1. g.len <= T
    BY <1>1, <1>4 DEF Ranged
  <2> QED
    BY <2>1, <1>1, <1>4 DEF Ranged
<1> HIDE DEF T, of
<1>9. \A o \in 0 .. (T - 1) : \E r \in g.got : r.lo <= o /\ o < r.hi
  <2> SUFFICES ASSUME NEW o \in 0 .. (T - 1) PROVE \E r \in g.got : r.lo <= o /\ o < r.hi
    OBVIOUS
  <2>1. PICK q \in of : o \in Claim(inp[q + 1])
    BY DEF T, of
  <2>2. PICK r \in g.got : r.lo <= inp[q + 1].at /\ EndOf(inp[q + 1]) <= r.hi
    BY <1>1 DEF Ranged
  <2>3. r.lo \in Nat /\ r.hi \in Nat /\ inp[q + 1].at \in Nat /\ inp[q + 1].len \in Nat
    BY <1>3, <1>8
  <2>4. inp[q + 1].at <= o /\ o < inp[q + 1].at + inp[q + 1].len
    BY <2>1, <2>3 DEF Claim
  <2>5. inp[q + 1].at + inp[q + 1].len <= r.hi
    BY <2>2 DEF EndOf
  <2> QED
    BY <2>2, <2>3, <2>4, <2>5
<1>10. PICK r \in g.got : r.lo = 0 /\ r.hi = T
  <2>1. CASE T = 0
    <3>1. PICK r \in g.got : r.lo <= inp[z + 1].at
      BY <1>1 DEF Ranged, of
    <3> QED
      BY <3>1, <2>1, <1>8
  <2>2. CASE T > 0
    <3>1. PICK r \in g.got : r.lo <= 0 /\ 0 < r.hi
      BY <2>2, <1>4, <1>9
    <3>2. r.lo = 0 /\ r.hi \in Nat /\ r.hi <= T
      BY <3>1, <1>8
    <3>3. ASSUME r.hi < T PROVE FALSE
      <4>1. PICK s \in g.got : s.lo <= r.hi /\ r.hi < s.hi
        BY <3>2, <3>3, <1>4, <1>9
      <4> QED
        BY <4>1, <3>1, <3>2, <1>1, <1>8 DEF Ranged, Apart
    <3> QED
      BY <3>2, <3>3, <1>4
  <2> QED
    BY <2>1, <2>2, <1>4
<1>11. \A s \in g.got : s = r
  BY <1>1, <1>4, <1>8, <1>10 DEF Ranged, Apart
<1>12. g.got = {[lo |-> 0, hi |-> T]}
  BY <1>8, <1>10, <1>11
<1> QED
  BY <1>5, <1>6, <1>7, <1>12 DEF Complete

----------------------------------------------------------------------------
(* Where a frame is: what taking, spilling, assembling and sorting move.   *)

(* O2 is O with E behind it.                                               *)
Longer(O, E, O2) ==
  /\ Len(O) \in Nat /\ Len(E) \in Nat /\ Len(O2) = Len(O) + Len(E)
  /\ \A i \in 1 .. Len(O) : O2[i] = O[i]
  /\ \A i \in 1 .. Len(E) : O2[Len(O) + i] = E[i]
  /\ \A i \in 1 .. Len(O2) :
       i \in 1 .. Len(O) \/ \E j \in 1 .. Len(E) : i = Len(O) + j

LEMMA Joined ==
  ASSUME NEW O, NEW E, IsSeq(O), IsSeq(E)
  PROVE  IsSeq(O \o E) /\ Longer(O, E, O \o E)
<1> DEFINE S == Of(O) \cup Of(E)
<1>1. O \in Seq(S) /\ E \in Seq(S)
  BY DEF IsSeq
<1> HIDE DEF S
<1>2. Len(O) \in Nat /\ Len(E) \in Nat
  BY <1>1, LenProperties
<1>3. /\ O \o E \in Seq(S) /\ Len(O \o E) = Len(O) + Len(E)
      /\ \A i \in 1 .. (Len(O) + Len(E)) :
           (O \o E)[i] = IF i <= Len(O) THEN O[i] ELSE E[i - Len(O)]
  BY <1>1, ConcatProperties
<1>4. IsSeq(O \o E)
  BY <1>3, SeqOfItself
<1>5. \A i \in 1 .. Len(O) : (O \o E)[i] = O[i]
  BY <1>2, <1>3
<1>6. ASSUME NEW i \in 1 .. Len(E) PROVE (O \o E)[Len(O) + i] = E[i]
  <2>1. /\ Len(O) + i \in 1 .. (Len(O) + Len(E)) /\ ~(Len(O) + i <= Len(O))
        /\ (Len(O) + i) - Len(O) = i
    BY <1>2
  <2> QED
    BY <2>1, <1>3
<1>7. ASSUME NEW i \in 1 .. (Len(O) + Len(E)), i \notin 1 .. Len(O)
      PROVE  \E j \in 1 .. Len(E) : i = Len(O) + j
  <2>1. i - Len(O) \in 1 .. Len(E) /\ i = Len(O) + (i - Len(O))
    BY <1>2, <1>7
  <2> QED
    BY <2>1
<1> QED
  BY <1>2, <1>3, <1>4, <1>5, <1>6, <1>7 DEF Longer

Spilled(at) == [i \in 1 .. Len(at) |-> Incomplete(at[i])]

LEMMA SpilledSeq ==
  ASSUME NEW at \in Seq(Nat)
  PROVE  /\ IsSeq(Spilled(at)) /\ Len(Spilled(at)) = Len(at)
         /\ \A i \in 1 .. Len(at) : Spilled(at)[i].kind = "incomplete" /\ Spilled(at)[i].at = at[i]
<1>1. Len(at) \in Nat
  BY LenProperties
<1> DEFINE S == {Incomplete(at[i]) : i \in 1 .. Len(at)}
<1>2. Spilled(at) \in Seq(S) /\ Len(Spilled(at)) = Len(at)
  <2>1. Spilled(at) \in [1 .. Len(at) -> S]
    BY DEF Spilled
  <2> HIDE DEF S
  <2>2. Spilled(at) \in Seq(S)
    BY <2>1, <1>1, SeqDef
  <2> QED
    BY <2>1, <2>2, <1>1, LenProperties
<1>3. \A i \in 1 .. Len(at) : Spilled(at)[i] = Incomplete(at[i])
  BY DEF Spilled
<1>4. \A i \in 1 .. Len(at) :
        Incomplete(at[i]).kind = "incomplete" /\ Incomplete(at[i]).at = at[i]
  BY DEF Incomplete
<1>5. IsSeq(Spilled(at))
  BY <1>2, SeqOfItself
<1> QED
  BY <1>2, <1>3, <1>4, <1>5

Removed(G, k) == [j \in (DOMAIN G) \ {k} |-> G[j]]

LEMMA LocatedAt ==
  ASSUME NEW H, NEW P, NEW q, NEW w, Place(H, P, q, w), \A y : Place(H, P, q, y) => y = w
  PROVE  Located(H, P, q)
BY DEF Located

(* Spilling a group moves the frames it held, one to one.                  *)
LEMMA SpillLocates ==
  ASSUME NEW G, NEW O, IsSeq(O), NEW k \in DOMAIN G, G[k].at \in Seq(Nat), NEW p,
         Located(G, O, p)
  PROVE  Located(Removed(G, k), O \o Spilled(G[k].at), p)
<1> DEFINE a  == G[k].at
           G2 == Removed(G, k)
           O2 == O \o Spilled(a)
<1>1. /\ Len(O) \in Nat /\ Len(a) \in Nat /\ Len(O2) = Len(O) + Len(a)
      /\ \A i \in 1 .. Len(O) : O2[i] = O[i]
      /\ \A i \in 1 .. Len(a) : O2[Len(O) + i].kind = "incomplete" /\ O2[Len(O) + i].at = a[i]
      /\ \A i \in 1 .. Len(O2) :
           i \in 1 .. Len(O) \/ \E j \in 1 .. Len(a) : i = Len(O) + j
  <2> DEFINE E == Spilled(a)
  <2>1. /\ IsSeq(E) /\ Len(E) = Len(a)
        /\ \A i \in 1 .. Len(a) : E[i].kind = "incomplete" /\ E[i].at = a[i]
    BY SpilledSeq
  <2> HIDE DEF E, a
  <2>2. Longer(O, E, O2)
    BY <2>1, Joined DEF E
  <2> HIDE DEF O2
  <2> QED
    BY <2>1, <2>2 DEF Longer
<1>2. DOMAIN G2 = (DOMAIN G) \ {k} /\ \A j \in DOMAIN G2 : G2[j] = G[j]
  BY DEF Removed
<1> HIDE DEF a, G2, O2
<1>3. /\ \A i \in 1 .. Len(O) : i \in 1 .. Len(O2)
      /\ \A j \in 1 .. Len(a) : Len(O) + j \in 1 .. Len(O2)
  BY <1>1
<1> DEFINE Fresh(y) == \E j \in 1 .. Len(a) : y = <<"out", Len(O) + j, 0>> /\ a[j] = p
           Mine(y)  == \E j \in 1 .. Len(a) : y = <<"held", k, j>> /\ a[j] = p
<1>4. ASSUME NEW y PROVE OutPlace(O2, p, y) <=> OutPlace(O, p, y) \/ Fresh(y)
  <2>1. OutPlace(O, p, y) => OutPlace(O2, p, y)
    BY <1>1, <1>3 DEF OutPlace
  <2>2. ASSUME NEW j \in 1 .. Len(a), y = <<"out", Len(O) + j, 0>>, a[j] = p
        PROVE  OutPlace(O2, p, y)
    <3>1. /\ Len(O) + j \in 1 .. Len(O2)
          /\ O2[Len(O) + j].kind # "complete" /\ O2[Len(O) + j].at = p
      BY <2>2, <1>1, <1>3
    <3> QED
      BY <3>1, <2>2 DEF OutPlace
  <2>3. ASSUME NEW i \in 1 .. Len(O2), y = <<"out", i, 0>>,
               O2[i].kind # "complete", O2[i].at = p
        PROVE  OutPlace(O, p, y) \/ Fresh(y)
    <3>1. CASE i \in 1 .. Len(O)
      BY <3>1, <2>3, <1>1 DEF OutPlace
    <3>2. ASSUME NEW j \in 1 .. Len(a), i = Len(O) + j PROVE Fresh(y)
      BY <3>2, <2>3, <1>1
    <3> QED
      BY <3>1, <3>2, <1>1
  <2> QED
    BY <2>1, <2>2, <2>3 DEF OutPlace
<1>5. ASSUME NEW y PROVE InPlace(O2, p, y) <=> InPlace(O, p, y)
  <2>1. ASSUME NEW i \in 1 .. Len(O2), O2[i].kind = "complete" PROVE i \in 1 .. Len(O)
    BY <2>1, <1>1
  <2>2. ASSUME InPlace(O2, p, y) PROVE InPlace(O, p, y)
    <3>1. PICK i \in 1 .. Len(O2) : \E j \in 1 .. Len(O2[i].of) :
            y = <<"in", i, j>> /\ O2[i].kind = "complete" /\ O2[i].of[j] = p
      BY <2>2 DEF InPlace
    <3>2. i \in 1 .. Len(O) /\ O2[i] = O[i]
      BY <3>1, <2>1, <1>1
    <3> QED
      BY <3>1, <3>2 DEF InPlace
  <2>3. InPlace(O, p, y) => InPlace(O2, p, y)
    BY <1>1, <1>3 DEF InPlace
  <2> QED
    BY <2>2, <2>3
<1>6. ASSUME NEW y PROVE HeldPlace(G, p, y) <=> HeldPlace(G2, p, y) \/ Mine(y)
  BY <1>2 DEF HeldPlace, a
<1>7. PICK x : Place(G, O, p, x) /\ \A y : Place(G, O, p, y) => y = x
  BY DEF Located
<1>8. CASE \E j \in 1 .. Len(a) : a[j] = p
  <2>1. PICK j \in 1 .. Len(a) : a[j] = p
    BY <1>8
  <2>2. Mine(<<"held", k, j>>) /\ Fresh(<<"out", Len(O) + j, 0>>)
    BY <2>1
  <2>3. x = <<"held", k, j>>
    BY <2>2, <1>6, <1>7 DEF Place
  <2>4. \A i \in 1 .. Len(a) : a[i] = p => i = j
    <3> SUFFICES ASSUME NEW i \in 1 .. Len(a), a[i] = p PROVE i = j
      OBVIOUS
    <3>1. Mine(<<"held", k, i>>)
      OBVIOUS
    <3>2. <<"held", k, i>> = x
      BY <3>1, <1>6, <1>7 DEF Place
    <3> QED
      BY <3>2, <2>3
  <2>5. ASSUME NEW y PROVE ~OutPlace(O, p, y) /\ ~InPlace(O, p, y)
    BY <2>3, <1>7 DEF Place, OutPlace, InPlace
  <2>6. ASSUME NEW y PROVE ~HeldPlace(G2, p, y)
    <3>1. ASSUME HeldPlace(G2, p, y) PROVE y = x
      BY <3>1, <1>6, <1>7 DEF Place
    <3> QED
      BY <3>1, <2>3, <1>2 DEF HeldPlace
  <2>7. Place(G2, O2, p, <<"out", Len(O) + j, 0>>)
    BY <2>2, <1>4 DEF Place
  <2>8. ASSUME NEW y, Place(G2, O2, p, y) PROVE y = <<"out", Len(O) + j, 0>>
    <3>1. Fresh(y)
      BY <2>5, <2>6, <2>8, <1>4, <1>5 DEF Place
    <3> QED
      BY <3>1, <2>4
  <2> QED
    <3>1. Located(G2, O2, p)
      BY <2>7, <2>8, LocatedAt
    <3> QED
      BY <3>1 DEF G2, O2, a
<1>9. CASE ~ \E j \in 1 .. Len(a) : a[j] = p
  <2>1. \A y : Place(G2, O2, p, y) <=> Place(G, O, p, y)
    BY <1>4, <1>5, <1>6, <1>9 DEF Place
  <2> QED
    <3>1. Located(G2, O2, p)
      BY <2>1, <1>7, LocatedAt
    <3> QED
      BY <3>1 DEF G2, O2, a
<1> QED
  BY <1>8, <1>9

(* A reassembled datagram stands for the frames its group held.            *)
LEMMA CompleteLocates ==
  ASSUME NEW G, NEW O, IsSeq(O), NEW k \in DOMAIN G, NEW c, c.kind = "complete",
         c.of = G[k].at, NEW p, Located(G, O, p)
  PROVE  Located(Removed(G, k), Append(O, c), p)
<1> DEFINE a  == G[k].at
           n  == Len(O)
           G2 == Removed(G, k)
           O2 == Append(O, c)
<1>1. /\ n \in Nat /\ Len(O2) = n + 1
      /\ \A i \in 1 .. n : O2[i] = O[i] /\ i \in 1 .. Len(O2)
      /\ O2[n + 1] = c /\ n + 1 \in 1 .. Len(O2)
      /\ \A i \in 1 .. Len(O2) : i \in 1 .. n \/ i = n + 1
  BY AppendedSeq
<1>2. DOMAIN G2 = (DOMAIN G) \ {k} /\ \A j \in DOMAIN G2 : G2[j] = G[j]
  BY DEF Removed
<1>3. c.of = a
  OBVIOUS
<1> HIDE DEF a, G2, O2, n
<1> DEFINE Fresh(y) == \E j \in 1 .. Len(a) : y = <<"in", n + 1, j>> /\ a[j] = p
           Mine(y)  == \E j \in 1 .. Len(a) : y = <<"held", k, j>> /\ a[j] = p
<1>4. ASSUME NEW y PROVE OutPlace(O2, p, y) <=> OutPlace(O, p, y)
  <2>1. ASSUME NEW i \in 1 .. Len(O2), O2[i].kind # "complete" PROVE i \in 1 .. n
    BY <2>1, <1>1
  <2> QED
    BY <2>1, <1>1 DEF OutPlace, n
<1>5. ASSUME NEW y PROVE InPlace(O2, p, y) <=> InPlace(O, p, y) \/ Fresh(y)
  <2>1. InPlace(O, p, y) => InPlace(O2, p, y)
    BY <1>1 DEF InPlace, n
  <2>2. Fresh(y) => InPlace(O2, p, y)
    BY <1>1, <1>3 DEF InPlace
  <2>3. ASSUME NEW i \in 1 .. Len(O2), NEW j \in 1 .. Len(O2[i].of), y = <<"in", i, j>>,
               O2[i].kind = "complete", O2[i].of[j] = p
        PROVE  InPlace(O, p, y) \/ Fresh(y)
    <3>1. CASE i \in 1 .. n
      BY <3>1, <2>3, <1>1 DEF InPlace, n
    <3>2. CASE i = n + 1
      BY <3>2, <2>3, <1>1, <1>3
    <3> QED
      BY <3>1, <3>2, <1>1
  <2> QED
    BY <2>1, <2>2, <2>3 DEF InPlace
<1>6. ASSUME NEW y PROVE HeldPlace(G, p, y) <=> HeldPlace(G2, p, y) \/ Mine(y)
  BY <1>2 DEF HeldPlace, a
<1>7. PICK x : Place(G, O, p, x) /\ \A y : Place(G, O, p, y) => y = x
  BY DEF Located
<1>8. CASE \E j \in 1 .. Len(a) : a[j] = p
  <2>1. PICK j \in 1 .. Len(a) : a[j] = p
    BY <1>8
  <2>2. Mine(<<"held", k, j>>) /\ Fresh(<<"in", n + 1, j>>)
    BY <2>1
  <2>3. x = <<"held", k, j>>
    BY <2>2, <1>6, <1>7 DEF Place
  <2>4. \A i \in 1 .. Len(a) : a[i] = p => i = j
    <3> SUFFICES ASSUME NEW i \in 1 .. Len(a), a[i] = p PROVE i = j
      OBVIOUS
    <3>1. Mine(<<"held", k, i>>)
      OBVIOUS
    <3>2. <<"held", k, i>> = x
      BY <3>1, <1>6, <1>7 DEF Place
    <3> QED
      BY <3>2, <2>3
  <2>5. ASSUME NEW y PROVE ~OutPlace(O, p, y) /\ ~InPlace(O, p, y)
    BY <2>3, <1>7 DEF Place, OutPlace, InPlace
  <2>6. ASSUME NEW y PROVE ~HeldPlace(G2, p, y)
    <3>1. ASSUME HeldPlace(G2, p, y) PROVE y = x
      BY <3>1, <1>6, <1>7 DEF Place
    <3> QED
      BY <3>1, <2>3, <1>2 DEF HeldPlace
  <2>7. Place(G2, O2, p, <<"in", n + 1, j>>)
    BY <2>2, <1>5 DEF Place
  <2>8. ASSUME NEW y, Place(G2, O2, p, y) PROVE y = <<"in", n + 1, j>>
    <3>1. Fresh(y)
      BY <2>5, <2>6, <2>8, <1>4, <1>5 DEF Place
    <3> QED
      BY <3>1, <2>4
  <2>9. Located(G2, O2, p)
    BY <2>7, <2>8, LocatedAt
  <2> QED
    BY <2>9 DEF G2, O2
<1>9. CASE ~ \E j \in 1 .. Len(a) : a[j] = p
  <2>1. \A y : Place(G2, O2, p, y) <=> Place(G, O, p, y)
    BY <1>4, <1>5, <1>6, <1>9 DEF Place
  <2>2. Located(G2, O2, p)
    BY <2>1, <1>7, LocatedAt
  <2> QED
    BY <2>2 DEF G2, O2
<1> QED
  BY <1>8, <1>9

Unseen(G, O, p) == \A y : ~Place(G, O, p, y)

(* A frame handed back on its own.                                         *)
LEMMA AppendLocates ==
  ASSUME NEW G, NEW O, IsSeq(O), NEW c, c.kind # "complete", NEW p,
         IF c.at = p THEN Unseen(G, O, p) ELSE Located(G, O, p)
  PROVE  Located(G, Append(O, c), p)
<1> DEFINE n  == Len(O)
           O2 == Append(O, c)
<1>1. /\ n \in Nat /\ Len(O2) = n + 1
      /\ \A i \in 1 .. n : O2[i] = O[i] /\ i \in 1 .. Len(O2)
      /\ O2[n + 1] = c /\ n + 1 \in 1 .. Len(O2)
      /\ \A i \in 1 .. Len(O2) : i \in 1 .. n \/ i = n + 1
  BY AppendedSeq
<1> HIDE DEF O2, n
<1>2. ASSUME NEW y PROVE InPlace(O2, p, y) <=> InPlace(O, p, y)
  <2>1. ASSUME NEW i \in 1 .. Len(O2), O2[i].kind = "complete" PROVE i \in 1 .. n
    BY <2>1, <1>1
  <2> QED
    BY <2>1, <1>1 DEF InPlace, n
<1>3. ASSUME NEW y
      PROVE  OutPlace(O2, p, y) <=> OutPlace(O, p, y) \/ (c.at = p /\ y = <<"out", n + 1, 0>>)
  <2>1. OutPlace(O, p, y) => OutPlace(O2, p, y)
    BY <1>1 DEF OutPlace, n
  <2>2. c.at = p /\ y = <<"out", n + 1, 0>> => OutPlace(O2, p, y)
    BY <1>1 DEF OutPlace
  <2>3. ASSUME NEW i \in 1 .. Len(O2), y = <<"out", i, 0>>,
               O2[i].kind # "complete", O2[i].at = p
        PROVE  OutPlace(O, p, y) \/ (c.at = p /\ y = <<"out", n + 1, 0>>)
    BY <2>3, <1>1 DEF OutPlace, n
  <2> QED
    BY <2>1, <2>2, <2>3 DEF OutPlace
<1>4. CASE c.at = p
  <2>1. ASSUME NEW y PROVE ~OutPlace(O, p, y) /\ ~InPlace(O, p, y) /\ ~HeldPlace(G, p, y)
    BY <1>4 DEF Unseen, Place
  <2>2. Place(G, O2, p, <<"out", n + 1, 0>>)
    BY <1>3, <1>4 DEF Place
  <2>3. ASSUME NEW y, Place(G, O2, p, y) PROVE y = <<"out", n + 1, 0>>
    BY <2>1, <2>3, <1>2, <1>3 DEF Place
  <2>4. Located(G, O2, p)
    BY <2>2, <2>3, LocatedAt
  <2> QED
    BY <2>4 DEF O2
<1>5. CASE c.at # p
  <2>1. \A y : Place(G, O2, p, y) <=> Place(G, O, p, y)
    BY <1>2, <1>3, <1>5 DEF Place
  <2>2. PICK x : Place(G, O, p, x) /\ \A y : Place(G, O, p, y) => y = x
    BY <1>5 DEF Located
  <2>3. Located(G, O2, p)
    BY <2>1, <2>2, LocatedAt
  <2> QED
    BY <2>3 DEF O2
<1> QED
  BY <1>4, <1>5

Put(G, k, g) == [j \in (DOMAIN G) \cup {k} |-> IF j = k THEN g ELSE G[j]]

(* A frame taken into its group, new or not.                               *)
LEMMA TakeLocates ==
  ASSUME NEW G, NEW O, NEW k, NEW old \in Seq(Nat), k \in DOMAIN G => G[k].at = old,
         k \notin DOMAIN G => Len(old) = 0, NEW new, NEW p \in Nat, new.at = Append(old, p),
         NEW q, IF p = q THEN Unseen(G, O, q) ELSE Located(G, O, q)
  PROVE  Located(Put(G, k, new), O, q)
<1> DEFINE G2 == Put(G, k, new)
           n  == Len(old)
           b  == Append(old, p)
<1>1. /\ n \in Nat /\ Len(b) = n + 1 /\ b[n + 1] = p
      /\ \A i \in 1 .. n : b[i] = old[i]
  BY OfAppend
<1>2. /\ DOMAIN G2 = (DOMAIN G) \cup {k} /\ G2[k].at = b
      /\ \A j \in DOMAIN G2 : j # k => j \in DOMAIN G /\ G2[j] = G[j]
  BY DEF Put
<1>3. k \notin DOMAIN G => n = 0
  OBVIOUS
<1> HIDE DEF G2, b, n
<1>4. /\ \A i \in 1 .. n : i \in 1 .. Len(b) /\ b[i] = old[i]
      /\ n + 1 \in 1 .. Len(b)
      /\ \A i \in 1 .. Len(b) : i \in 1 .. n \/ i = n + 1
      /\ n = 0 => \A i \in 1 .. n : FALSE
  BY <1>1
<1>5. ASSUME NEW y, HeldPlace(G, q, y) PROVE HeldPlace(G2, q, y)
  <2>1. PICK m \in DOMAIN G : \E j \in 1 .. Len(G[m].at) : y = <<"held", m, j>> /\ G[m].at[j] = q
    BY <1>5 DEF HeldPlace
  <2>2. PICK j \in 1 .. Len(G[m].at) : y = <<"held", m, j>> /\ G[m].at[j] = q
    BY <2>1
  <2>3. CASE m = k
    <3>1. G[m].at = old /\ j \in 1 .. n
      BY <2>3, <2>2 DEF n
    <3>2. j \in 1 .. Len(G2[k].at) /\ G2[k].at[j] = q
      BY <3>1, <2>2, <1>2, <1>4
    <3> QED
      BY <3>2, <2>2, <2>3, <1>2 DEF HeldPlace
  <2>4. CASE m # k
    BY <2>2, <2>4, <1>2 DEF HeldPlace
  <2> QED
    BY <2>3, <2>4
<1>6. ASSUME NEW y, HeldPlace(G2, q, y)
      PROVE  HeldPlace(G, q, y) \/ (p = q /\ y = <<"held", k, n + 1>>)
  <2>1. PICK m \in DOMAIN G2 : \E j \in 1 .. Len(G2[m].at) : y = <<"held", m, j>> /\ G2[m].at[j] = q
    BY <1>6 DEF HeldPlace
  <2>2. PICK j \in 1 .. Len(G2[m].at) : y = <<"held", m, j>> /\ G2[m].at[j] = q
    BY <2>1
  <2>3. CASE m # k
    BY <2>2, <2>3, <1>2 DEF HeldPlace
  <2>4. CASE m = k /\ j \in 1 .. n
    <3>1. k \in DOMAIN G /\ old[j] = q
      BY <2>2, <2>4, <1>2, <1>3, <1>4
    <3>2. j \in 1 .. Len(G[k].at) /\ G[k].at[j] = q
      BY <3>1, <2>4 DEF n
    <3> QED
      BY <3>1, <3>2, <2>2, <2>4 DEF HeldPlace
  <2>5. CASE m = k /\ j = n + 1
    BY <2>2, <2>5, <1>1, <1>2
  <2> QED
    BY <2>2, <2>3, <2>4, <2>5, <1>2, <1>4
<1>7. CASE p = q
  <2>1. ASSUME NEW y PROVE ~OutPlace(O, q, y) /\ ~InPlace(O, q, y) /\ ~HeldPlace(G, q, y)
    BY <1>7 DEF Unseen, Place
  <2>2. HeldPlace(G2, q, <<"held", k, n + 1>>)
    BY <1>1, <1>2, <1>4, <1>7 DEF HeldPlace
  <2>3. Place(G2, O, q, <<"held", k, n + 1>>)
    BY <2>2 DEF Place
  <2>4. ASSUME NEW y, Place(G2, O, q, y) PROVE y = <<"held", k, n + 1>>
    BY <2>1, <2>4, <1>6 DEF Place
  <2>5. Located(G2, O, q)
    BY <2>3, <2>4, LocatedAt
  <2> QED
    BY <2>5 DEF G2
<1>8. CASE p # q
  <2>1. PICK x : Place(G, O, q, x) /\ \A y : Place(G, O, q, y) => y = x
    BY <1>8 DEF Located
  <2>2. Place(G2, O, q, x)
    BY <2>1, <1>5 DEF Place
  <2>3. ASSUME NEW y, Place(G2, O, q, y) PROVE y = x
    BY <2>1, <2>3, <1>6, <1>8 DEF Place
  <2>4. Located(G2, O, q)
    BY <2>2, <2>3, LocatedAt
  <2> QED
    BY <2>4 DEF G2
<1> QED
  BY <1>7, <1>8

(* Sorting the output moves each piece to one place.                       *)
LEMMA SortLocates ==
  ASSUME NEW G, NEW O, NEW O2, NEW n \in Nat, Len(O) = n, Len(O2) = n,
         NEW keys, NEW f, NEW g, Resorted(O, keys, n, f, g, O2),
         NEW p, Located(G, O, p)
  PROVE  Located(G, O2, p)
<1>1. \A i \in 1 .. n : /\ f[i] \in 1 .. n /\ g[i] \in 1 .. n /\ f[g[i]] = i
                         /\ O2[f[i]] = O[i] /\ O2[i] = O[g[i]]
  BY DEF Resorted
<1>2. PICK x : Place(G, O, p, x) /\ \A y : Place(G, O, p, y) => y = x
  BY DEF Located
<1>3. ASSUME NEW r \in 1 .. n, O2[r].kind # "complete", O2[r].at = p
      PROVE  x = <<"out", g[r], 0>>
  <2>1. g[r] \in 1 .. Len(O) /\ O2[r] = O[g[r]]
    BY <1>1
  <2>2. OutPlace(O, p, <<"out", g[r], 0>>)
    BY <2>1, <1>3 DEF OutPlace
  <2> QED
    BY <2>2, <1>2 DEF Place
<1>4. ASSUME NEW r \in 1 .. n, NEW j \in 1 .. Len(O2[r].of), O2[r].kind = "complete",
             O2[r].of[j] = p
      PROVE  x = <<"in", g[r], j>>
  <2>1. /\ g[r] \in 1 .. Len(O) /\ O[g[r]].kind = "complete"
        /\ j \in 1 .. Len(O[g[r]].of) /\ O[g[r]].of[j] = p
    BY <1>1, <1>4
  <2>2. InPlace(O, p, <<"in", g[r], j>>)
    BY <2>1 DEF InPlace
  <2> QED
    BY <2>2, <1>2 DEF Place
<1>5. ASSUME NEW y, HeldPlace(G, p, y)
      PROVE  x = y
  BY <1>2, <1>5 DEF Place
<1>6. CASE OutPlace(O, p, x)
  <2>1. PICK i \in 1 .. n : x = <<"out", i, 0>> /\ O[i].kind # "complete" /\ O[i].at = p
    BY <1>6 DEF OutPlace
  <2> DEFINE w == <<"out", f[i], 0>>
  <2>2. Place(G, O2, p, w)
    BY <2>1, <1>1 DEF Place, OutPlace
  <2>3. ASSUME NEW y, Place(G, O2, p, y) PROVE y = w
    <3>1. CASE OutPlace(O2, p, y)
      <4>1. PICK r \in 1 .. n : y = <<"out", r, 0>> /\ O2[r].kind # "complete" /\ O2[r].at = p
        BY <3>1 DEF OutPlace
      <4>2. g[r] = i
        BY <4>1, <2>1, <1>3
      <4> QED
        BY <4>1, <4>2, <1>1
    <3>2. CASE InPlace(O2, p, y)
      BY <3>2, <2>1, <1>4 DEF InPlace
    <3>3. CASE HeldPlace(G, p, y)
      <4>1. \E k, j : y = <<"held", k, j>>
        BY <3>3 DEF HeldPlace
      <4> QED
        BY <4>1, <3>3, <2>1, <1>5
    <3> QED
      BY <2>3, <3>1, <3>2, <3>3 DEF Place
  <2> HIDE DEF w
  <2> QED
    BY <2>2, <2>3, LocatedAt
<1>7. CASE InPlace(O, p, x)
  <2>1. PICK i \in 1 .. n : \E j \in 1 .. Len(O[i].of) :
          x = <<"in", i, j>> /\ O[i].kind = "complete" /\ O[i].of[j] = p
    BY <1>7 DEF InPlace
  <2>2. PICK j \in 1 .. Len(O[i].of) : x = <<"in", i, j>> /\ O[i].kind = "complete" /\ O[i].of[j] = p
    BY <2>1
  <2> DEFINE w == <<"in", f[i], j>>
  <2>3. Place(G, O2, p, w)
    BY <2>2, <1>1 DEF Place, InPlace
  <2>4. ASSUME NEW y, Place(G, O2, p, y) PROVE y = w
    <3>1. CASE OutPlace(O2, p, y)
      BY <3>1, <2>2, <1>3 DEF OutPlace
    <3>2. CASE InPlace(O2, p, y)
      <4>1. PICK r \in 1 .. n : \E m \in 1 .. Len(O2[r].of) :
              y = <<"in", r, m>> /\ O2[r].kind = "complete" /\ O2[r].of[m] = p
        BY <3>2 DEF InPlace
      <4>2. PICK m \in 1 .. Len(O2[r].of) :
              y = <<"in", r, m>> /\ O2[r].kind = "complete" /\ O2[r].of[m] = p
        BY <4>1
      <4>3. g[r] = i /\ m = j
        BY <4>2, <2>2, <1>4
      <4> QED
        BY <4>2, <4>3, <1>1
    <3>3. CASE HeldPlace(G, p, y)
      <4>1. \E k, m : y = <<"held", k, m>>
        BY <3>3 DEF HeldPlace
      <4> QED
        BY <4>1, <3>3, <2>2, <1>5
    <3> QED
      BY <2>4, <3>1, <3>2, <3>3 DEF Place
  <2> HIDE DEF w
  <2> QED
    BY <2>3, <2>4, LocatedAt
<1>8. CASE HeldPlace(G, p, x)
  <2>1. PICK k \in DOMAIN G : \E j \in 1 .. Len(G[k].at) : x = <<"held", k, j>>
    BY <1>8 DEF HeldPlace
  <2>2. Place(G, O2, p, x)
    BY <1>8 DEF Place
  <2>3. ASSUME NEW y, Place(G, O2, p, y) PROVE y = x
    <3>1. CASE OutPlace(O2, p, y)
      BY <3>1, <2>1, <1>3 DEF OutPlace
    <3>2. CASE InPlace(O2, p, y)
      BY <3>2, <2>1, <1>4 DEF InPlace
    <3>3. CASE HeldPlace(G, p, y)
      BY <3>3, <1>5
    <3> QED
      BY <2>3, <3>1, <3>2, <3>3 DEF Place
  <2> QED
    BY <2>2, <2>3, LocatedAt
<1> QED
  BY <1>2, <1>6, <1>7, <1>8 DEF Place

----------------------------------------------------------------------------
(* The history, kept by each thing the reassembler does.                   *)

(* The frame about to be pushed is nowhere yet.                            *)
LEMMA NextUnseen ==
  ASSUME NEW G, NEW O, NEW inp, History(G, O, inp)
  PROVE  Unseen(G, O, Len(inp))
<1>1. Len(inp) \in Nat
  BY LenProperties DEF History
<1> DEFINE p == Len(inp)
<1>2. ASSUME NEW y, OutPlace(O, p, y) PROVE FALSE
  <2>1. \A i \in 1 .. Len(O) : O[i].at \in 0 .. (p - 1)
    BY DEF History, PieceTrue
  <2> HIDE DEF p
  <2>2. \A i \in 1 .. Len(O) : O[i].at # p
    BY <2>1, <1>1 DEF p
  <2> QED
    BY <2>2, <1>2 DEF OutPlace
<1>3. ASSUME NEW y, InPlace(O, p, y) PROVE FALSE
  <2>1. PICK i \in 1 .. Len(O) : \E j \in 1 .. Len(O[i].of) :
          O[i].kind = "complete" /\ O[i].of[j] = p
    BY <1>3 DEF InPlace
  <2>2. PICK j \in 1 .. Len(O[i].of) : O[i].kind = "complete" /\ O[i].of[j] = p
    BY <2>1
  <2>3. PICK k \in Keys : Gathered(O[i].of, k, inp)
    BY <2>2 DEF History, PieceTrue, CompleteTrue
  <2>4. O[i].of[j] < Len(inp)
    BY <2>3 DEF Gathered
  <2> QED
    BY <2>2, <2>4, <1>1
<1>4. ASSUME NEW y, HeldPlace(G, p, y) PROVE FALSE
  <2>1. PICK k \in DOMAIN G : \E j \in 1 .. Len(G[k].at) : G[k].at[j] = p
    BY <1>4 DEF HeldPlace
  <2>2. PICK j \in 1 .. Len(G[k].at) : G[k].at[j] = p
    BY <2>1
  <2>3. Gathered(G[k].at, k, inp)
    BY DEF History, GroupTrue
  <2>4. G[k].at[j] < Len(inp)
    BY <2>3 DEF Gathered
  <2> QED
    BY <2>2, <2>4, <1>1
<1> QED
  BY <1>2, <1>3, <1>4 DEF Unseen, Place

(* A capture that grows leaves what it fed before as true as it was.       *)
LEMMA HistoryStays ==
  ASSUME NEW G, NEW O, NEW inp, History(G, O, inp), NEW f \in Frames
  PROVE  /\ Append(inp, f) \in Seq(Frames)
         /\ \A k \in DOMAIN G : GroupTrue(G[k], k, Append(inp, f))
         /\ \A i \in 1 .. Len(O) : PieceTrue(O[i], Append(inp, f))
         /\ Len(inp) \in Nat /\ Len(Append(inp, f)) = Len(inp) + 1
         /\ \A p \in 0 .. (Len(Append(inp, f)) - 1) :
              IF Len(inp) = p THEN Unseen(G, O, p) ELSE Located(G, O, p)
<1>1. inp \in Seq(Frames)
  BY DEF History
<1>2. Len(inp) \in Nat /\ Len(Append(inp, f)) = Len(inp) + 1 /\ Append(inp, f) \in Seq(Frames)
  BY <1>1, CaptureGrows
<1>3. \A k \in DOMAIN G : GroupTrue(G[k], k, Append(inp, f))
  BY <1>1, GroupStays DEF History
<1>4. \A i \in 1 .. Len(O) : PieceTrue(O[i], Append(inp, f))
  BY <1>1, PieceStays DEF History
<1>5. ASSUME NEW p \in 0 .. (Len(Append(inp, f)) - 1)
      PROVE  IF Len(inp) = p THEN Unseen(G, O, p) ELSE Located(G, O, p)
  <2>1. Len(inp) = p \/ p \in 0 .. (Len(inp) - 1)
    BY <1>2
  <2>2. Unseen(G, O, Len(inp))
    BY NextUnseen
  <2>3. \A q \in 0 .. (Len(inp) - 1) : Located(G, O, q)
    BY DEF History
  <2> QED
    BY <2>1, <2>2, <2>3
<1> QED
  BY <1>2, <1>3, <1>4, <1>5

LEMMA TakeHistory ==
  ASSUME NEW G, NEW O, NEW inp, History(G, O, inp), NEW f \in Frames, NEW stamp, NEW old,
         old = IF f.key \in DOMAIN G THEN G[f.key] ELSE NewGroup(stamp),
         Len(old.at) < MaxFrags
  PROVE  History(Put(G, f.key, Fed(old, f, Len(inp))), O, Append(inp, f))
<1> DEFINE k    == f.key
           p    == Len(inp)
           new  == Fed(old, f, p)
           next == Append(inp, f)
           G2   == Put(G, k, new)
<1>1. /\ next \in Seq(Frames)
      /\ \A j \in DOMAIN G : GroupTrue(G[j], j, next)
      /\ \A i \in 1 .. Len(O) : PieceTrue(O[i], next)
      /\ p \in Nat
      /\ \A q \in 0 .. (Len(next) - 1) :
           IF p = q THEN Unseen(G, O, q) ELSE Located(G, O, q)
  BY HistoryStays
<1>2. IsSeq(O) /\ inp \in Seq(Frames) /\ DOMAIN G \subseteq Keys
      /\ \A j \in DOMAIN G : GroupTrue(G[j], j, inp)
  BY DEF History
<1>3. k \in Keys
  BY FrameFields
<1>4. GroupTrue(old, k, inp)
  BY <1>2, NewGroupTrue
<1>5. GroupTrue(new, k, next)
  BY <1>2, <1>4, FedTrue
<1>6. new.at = Append(old.at, p)
  BY DEF Fed
<1>7. old.at \in Seq(Nat)
  BY <1>4 DEF GroupTrue, Gathered
<1>8. /\ k \in DOMAIN G => G[k].at = old.at
      /\ k \notin DOMAIN G => Len(old.at) = 0
  BY EmptySeq DEF NewGroup
<1>9. DOMAIN G2 = (DOMAIN G) \cup {k} /\ G2[k] = new
      /\ \A j \in DOMAIN G : j # k => G2[j] = G[j]
  BY DEF Put
<1> HIDE DEF k, p, new, next
<1>10. ASSUME NEW q \in 0 .. (Len(next) - 1) PROVE Located(G2, O, q)
  <2>1. IF p = q THEN Unseen(G, O, q) ELSE Located(G, O, q)
    BY <1>1
  <2> QED
    BY <2>1, <1>1, <1>6, <1>7, <1>8, TakeLocates
<1> HIDE DEF G2
<1>11. \A j \in DOMAIN G2 : GroupTrue(G2[j], j, next)
  BY <1>1, <1>5, <1>9
<1>12. History(G2, O, next)
  BY <1>1, <1>2, <1>3, <1>9, <1>10, <1>11 DEF History
<1> QED
  BY <1>12 DEF G2, k, p, new, next

LEMMA PieceHistory ==
  ASSUME NEW G, NEW O, NEW inp, History(G, O, inp), NEW f \in Frames,
         NEW c, c.kind # "complete", c.at = Len(inp)
  PROVE  History(G, Append(O, c), Append(inp, f))
<1> DEFINE next == Append(inp, f)
           O2   == Append(O, c)
<1>1. /\ next \in Seq(Frames)
      /\ \A j \in DOMAIN G : GroupTrue(G[j], j, next)
      /\ \A i \in 1 .. Len(O) : PieceTrue(O[i], next)
      /\ Len(inp) \in Nat /\ Len(next) = Len(inp) + 1
      /\ \A q \in 0 .. (Len(next) - 1) :
           IF Len(inp) = q THEN Unseen(G, O, q) ELSE Located(G, O, q)
  BY HistoryStays
<1>2. IsSeq(O) /\ DOMAIN G \subseteq Keys
  BY DEF History
<1>3. /\ IsSeq(O2) /\ Len(O2) = Len(O) + 1
      /\ \A i \in 1 .. Len(O) : O2[i] = O[i]
      /\ O2[Len(O) + 1] = c
      /\ \A i \in 1 .. (Len(O) + 1) : i \in 1 .. Len(O) \/ i = Len(O) + 1
  BY <1>2, AppendedSeq
<1>4. ASSUME NEW q \in 0 .. (Len(next) - 1) PROVE Located(G, O2, q)
  <2>1. IF c.at = q THEN Unseen(G, O, q) ELSE Located(G, O, q)
    BY <1>1
  <2> QED
    BY <2>1, <1>2, AppendLocates
<1> HIDE DEF next, O2
<1>5. PieceTrue(c, next)
  BY <1>1 DEF PieceTrue
<1>6. \A i \in 1 .. Len(O2) : PieceTrue(O2[i], next)
  BY <1>1, <1>3, <1>5
<1>7. History(G, O2, next)
  BY <1>1, <1>2, <1>3, <1>4, <1>6 DEF History
<1> QED
  BY <1>7 DEF next, O2

LEMMA SpillHistory ==
  ASSUME NEW G, NEW O, NEW inp, History(G, O, inp), NEW k \in DOMAIN G
  PROVE  History(Removed(G, k), O \o Spilled(G[k].at), inp)
<1> DEFINE a  == G[k].at
           E  == Spilled(a)
           G2 == Removed(G, k)
           O2 == O \o E
<1>1. /\ IsSeq(O) /\ inp \in Seq(Frames) /\ DOMAIN G \subseteq Keys
      /\ \A j \in DOMAIN G : GroupTrue(G[j], j, inp)
      /\ \A i \in 1 .. Len(O) : PieceTrue(O[i], inp)
      /\ \A p \in 0 .. (Len(inp) - 1) : Located(G, O, p)
  BY DEF History
<1>2. Gathered(a, k, inp)
  BY <1>1 DEF GroupTrue
<1>3. a \in Seq(Nat)
  BY <1>2 DEF Gathered
<1>4. /\ IsSeq(E) /\ Len(E) = Len(a)
      /\ \A i \in 1 .. Len(a) : E[i].kind = "incomplete" /\ E[i].at = a[i]
  BY <1>3, SpilledSeq
<1>5. \A p \in 0 .. (Len(inp) - 1) : Located(G2, O2, p)
  BY <1>1, <1>3, SpillLocates
<1>6. DOMAIN G2 = (DOMAIN G) \ {k} /\ \A j \in DOMAIN G2 : G2[j] = G[j]
  BY DEF Removed
<1>7. IsSeq(O2) /\ Longer(O, E, O2)
  BY <1>1, <1>4, Joined
<1>8. Len(inp) \in Nat
  BY <1>1, LenProperties
<1> HIDE DEF a, E, G2, O2
<1>9. \A i \in 1 .. Len(a) : a[i] \in Of(a)
  BY DEF Of
<1>10. \A q \in Of(a) : q \in Nat /\ q < Len(inp)
  BY <1>1, <1>2, OfCapture
<1>11. \A i \in 1 .. Len(E) : E[i].kind # "complete" /\ E[i].at \in 0 .. (Len(inp) - 1)
  BY <1>4, <1>8, <1>9, <1>10
<1>12. \A i \in 1 .. Len(E) : PieceTrue(E[i], inp)
  BY <1>11 DEF PieceTrue
<1>13. \A i \in 1 .. Len(O2) : PieceTrue(O2[i], inp)
  BY <1>1, <1>7, <1>12 DEF Longer
<1>14. History(G2, O2, inp)
  BY <1>1, <1>5, <1>6, <1>7, <1>13 DEF History
<1> QED
  BY <1>14 DEF G2, O2, E, a

LEMMA CompleteHistory ==
  ASSUME NEW G, NEW O, NEW inp, History(G, O, inp), NEW k \in DOMAIN G,
         Complete(G[k]), G[k].head.hlen + G[k].len <= MaxDatagram
  PROVE  History(Removed(G, k), Append(O, CompletePiece(G[k])), inp)
<1> DEFINE c  == CompletePiece(G[k])
           G2 == Removed(G, k)
           O2 == Append(O, c)
<1>1. /\ IsSeq(O) /\ inp \in Seq(Frames) /\ DOMAIN G \subseteq Keys
      /\ \A j \in DOMAIN G : GroupTrue(G[j], j, inp)
      /\ \A i \in 1 .. Len(O) : PieceTrue(O[i], inp)
      /\ \A p \in 0 .. (Len(inp) - 1) : Located(G, O, p)
  BY DEF History
<1>2. PieceTrue(c, inp)
  BY <1>1, CompleteIsTrue
<1>3. c.kind = "complete" /\ c.of = G[k].at
  BY DEF CompletePiece
<1>4. /\ IsSeq(O2) /\ Len(O2) = Len(O) + 1
      /\ \A i \in 1 .. Len(O) : O2[i] = O[i]
      /\ O2[Len(O) + 1] = c
      /\ \A i \in 1 .. (Len(O) + 1) : i \in 1 .. Len(O) \/ i = Len(O) + 1
  BY <1>1, AppendedSeq
<1> HIDE DEF c
<1>5. \A p \in 0 .. (Len(inp) - 1) : Located(G2, O2, p)
  BY <1>1, <1>3, CompleteLocates
<1>6. DOMAIN G2 = (DOMAIN G) \ {k} /\ \A j \in DOMAIN G2 : G2[j] = G[j]
  BY DEF Removed
<1> HIDE DEF G2, O2
<1>7. \A i \in 1 .. Len(O2) : PieceTrue(O2[i], inp)
  BY <1>1, <1>2, <1>4
<1>8. History(G2, O2, inp)
  BY <1>1, <1>4, <1>5, <1>6, <1>7 DEF History
<1> QED
  BY <1>8 DEF G2, O2, c

(* No two pieces of the output have one position.                          *)
LEMMA PositionsDiffer ==
  ASSUME NEW G, NEW O, NEW inp, History(G, O, inp),
         NEW i \in 1 .. Len(O), NEW j \in 1 .. Len(O), O[i].at = O[j].at
  PROVE  i = j
<1> DEFINE p == O[i].at
<1>1. \A m \in 1 .. Len(O) : PieceTrue(O[m], inp)
  BY DEF History
<1>2. p \in 0 .. (Len(inp) - 1)
  BY <1>1 DEF PieceTrue
<1>3. Located(G, O, p)
  BY <1>2 DEF History
<1>4. PICK x : Place(G, O, p, x) /\ \A y : Place(G, O, p, y) => y = x
  BY <1>3 DEF Located
<1>5. ASSUME NEW m \in 1 .. Len(O), O[m].at = p
      PROVE  \E s \in {"out", "in"} : \E t : x = <<s, m, t>>
  <2>1. CASE O[m].kind # "complete"
    <3>1. OutPlace(O, p, <<"out", m, 0>>)
      BY <2>1, <1>5 DEF OutPlace
    <3> QED
      BY <3>1, <1>4 DEF Place
  <2>2. CASE O[m].kind = "complete"
    <3>1. First(O[m].at, Of(O[m].of))
      BY <2>2, <1>1 DEF PieceTrue, CompleteTrue
    <3>2. PICK t \in 1 .. Len(O[m].of) : O[m].of[t] = p
      BY <3>1, <1>5 DEF First, Of
    <3>3. InPlace(O, p, <<"in", m, t>>)
      BY <2>2, <3>2 DEF InPlace
    <3> QED
      BY <3>3, <1>4 DEF Place
  <2> QED
    BY <2>1, <2>2
<1>6. \E s \in {"out", "in"} : \E t : x = <<s, i, t>>
  BY <1>5
<1>7. \E s \in {"out", "in"} : \E t : x = <<s, j, t>>
  BY <1>5
<1>8. x[2] = i /\ x[2] = j
  BY <1>6, <1>7
<1> QED
  BY <1>8

LEMMA SortHistory ==
  ASSUME NEW G, NEW O, NEW inp, History(G, O, inp)
  PROVE  /\ History(G, Sorted(O), inp)
         /\ \A i, j \in 1 .. Len(Sorted(O)) : i < j => Sorted(O)[i].at < Sorted(O)[j].at
<1> DEFINE n    == Len(O)
           keys == [i \in 1 .. n |-> O[i].at]
           O2   == SortedBy(O, keys)
<1>1. /\ IsSeq(O) /\ inp \in Seq(Frames) /\ DOMAIN G \subseteq Keys
      /\ \A j \in DOMAIN G : GroupTrue(G[j], j, inp)
      /\ \A i \in 1 .. Len(O) : PieceTrue(O[i], inp)
      /\ \A p \in 0 .. (Len(inp) - 1) : Located(G, O, p)
  BY DEF History
<1>2. n \in Nat
  BY <1>1, SeqOfItself DEF IsSeq
<1>3. \A i \in 1 .. n : O[i].at \in Int
  BY <1>1 DEF PieceTrue
<1>4. keys \in [1 .. n -> Int] /\ \A i \in 1 .. n : keys[i] = O[i].at
  BY <1>3
<1>5. Sorted(O) = O2
  BY DEF Sorted
<1> HIDE DEF keys
<1>6. Len(keys) = n
  BY <1>2, <1>4, FunctionSeq
<1>7. PICK f, g : Resorted(O, keys, n, f, g, O2)
  <2>1. Len(O) = n /\ keys \in [1 .. n -> Int]
    BY <1>4
  <2> HIDE DEF n
  <2> QED
    BY <2>1, <1>2, <1>6, SortPermutes
<1>8. IsSeq(O2) /\ Len(O2) = n
  <2> DEFINE S == {O2[r] : r \in 1 .. n}
  <2>1. O2 = [r \in 1 .. n |-> O2[r]]
    BY DEF SortedBy
  <2> HIDE DEF O2
  <2>2. O2 \in [1 .. n -> S]
    BY <2>1
  <2> HIDE DEF S
  <2>3. O2 \in Seq(S) /\ Len(O2) = n
    BY <2>2, <1>2, FunctionSeq
  <2> QED
    BY <2>3, SeqOfItself
<1> HIDE DEF O2
<1>9. \A p \in 0 .. (Len(inp) - 1) : Located(G, O2, p)
  <2> SUFFICES ASSUME NEW p \in 0 .. (Len(inp) - 1) PROVE Located(G, O2, p)
    OBVIOUS
  <2>1. Located(G, O, p)
    BY <1>1
  <2>2. Len(O) = n /\ Len(O2) = n
    BY <1>8
  <2> HIDE DEF n
  <2> QED
    BY <2>1, <2>2, <1>2, <1>7, SortLocates
<1>10. /\ \A i \in 1 .. n : g[i] \in 1 .. n /\ f[g[i]] = i /\ O2[i] = O[g[i]]
       /\ \A i, j \in 1 .. n : keys[i] < keys[j] => f[i] < f[j]
  BY <1>7 DEF Resorted
<1>11. \A i \in 1 .. Len(O2) : PieceTrue(O2[i], inp)
  BY <1>1, <1>8, <1>10
<1>12. History(G, O2, inp)
  BY <1>1, <1>8, <1>9, <1>11 DEF History
<1>13. ASSUME NEW i \in 1 .. n, NEW j \in 1 .. n, i < j PROVE O2[i].at < O2[j].at
  <2>1. g[i] # g[j]
    BY <1>10, <1>13, <1>2
  <2>2. O[g[i]].at # O[g[j]].at
    BY <2>1, <1>10, PositionsDiffer
  <2>3. ~(keys[g[j]] < keys[g[i]])
    <3>1. keys[g[j]] < keys[g[i]] => f[g[j]] < f[g[i]]
      BY <1>10
    <3>2. f[g[i]] = i /\ f[g[j]] = j
      BY <1>10
    <3> QED
      BY <3>1, <3>2, <1>13, <1>2
  <2>4. keys[g[i]] = O[g[i]].at /\ keys[g[j]] = O[g[j]].at
    BY <1>4, <1>10
  <2>5. O[g[i]].at \in Int /\ O[g[j]].at \in Int
    BY <1>3, <1>10
  <2>6. O[g[i]].at < O[g[j]].at
    BY <2>2, <2>3, <2>4, <2>5
  <2> QED
    BY <2>6, <1>10
<1> QED
  BY <1>5, <1>8, <1>12, <1>13

----------------------------------------------------------------------------
(* HInv is an invariant.                                                   *)

LEMMA InitHInv == Init => HInv
<1> SUFFICES ASSUME Init PROVE HInv
  OBVIOUS
<1>1. /\ groups = <<>> /\ out = <<>> /\ input = <<>> /\ pc = "idle"
      /\ <<>> \in Seq(Frames) /\ Len(<<>>) = 0 /\ DOMAIN <<>> = {}
  BY EmptySeq DEF Init
<1>2. IsSeq(<<>>)
  BY <1>1, SeqOfItself
<1>3. \A i \in 1 .. 0 : FALSE
  OBVIOUS
<1>4. \A i \in 0 .. (0 - 1) : FALSE
  OBVIOUS
<1>5. History(groups, out, input)
  BY <1>1, <1>2, <1>3, <1>4 DEF History
<1> QED
  BY <1>1, <1>5 DEF HInv, Live

(* A frame that is not held leaves at once, behind the others.             *)
LEMMA PieceStep ==
  ASSUME HInv, NEW f \in Frames, PushWhole(f) \/ PushRefused(f)
  PROVE  HInv'
<1>1. PICK c : out' = Append(out, c) /\ c.kind # "complete" /\ c.at = Len(input)
  BY DEF PushWhole, PushRefused, Whole, Incomplete
<1>2. groups' = groups /\ input' = Append(input, f) /\ pc' # "done"
  BY DEF PushWhole, PushRefused, Pushing
<1>3. History(groups, out, input)
  BY DEF HInv
<1>4. History(groups, Append(out, c), Append(input, f))
  BY <1>1, <1>3, PieceHistory
<1>5. History(groups', out', input')
  BY <1>1, <1>2, <1>4
<1> QED
  BY <1>2, <1>5 DEF HInv, Live, Complete

(* spill hands back exactly the frames the group took.                     *)
LEMMA SpillIsSpilled ==
  ASSUME NEW g
  PROVE  spill(g) = Spilled(g.at)
BY DEF spill, Spilled

LEMMA JoinsOne ==
  ASSUME NEW O, IsSeq(O), NEW c
  PROVE  O \o <<c>> = Append(O, c)
<1> DEFINE S == Of(O) \cup {c}
<1>1. O \in Seq(S) /\ c \in S
  BY DEF IsSeq
<1> QED
  BY <1>1, AppendIsConcat

LEMMA GroupSizes ==
  ASSUME NEW inp \in Seq(Frames), NEW g, NEW k, GroupTrue(g, k, inp)
  PROVE  g.len \in Nat /\ g.head.hlen \in Nat
<1> DEFINE of == Of(g.at)
<1>1. Gathered(g.at, k, inp) /\ Headed(g.head, of, inp) /\ Ranged(g.got, g.len, of, inp)
  BY DEF GroupTrue
<1>2. \A q \in of : inp[q + 1] \in Frames
  BY <1>1, OfCapture
<1>3. \A q \in of : inp[q + 1].hlen \in Nat
  BY <1>2, FrameFields
<1> HIDE DEF of
<1>4. g.head.hlen \in Nat
  <2>1. CASE g.head = NoHead
    BY <2>1 DEF NoHead
  <2>2. CASE \E z \in of : g.head = [from |-> z, hlen |-> inp[z + 1].hlen]
    BY <2>2, <1>3
  <2> QED
    BY <2>1, <2>2, <1>1 DEF Headed
<1> QED
  BY <1>1, <1>4 DEF Ranged

LEMMA FragmentStep ==
  ASSUME HInv, NEW f \in Frames, PushFragment(f)
  PROVE  HInv'
<1> DEFINE k    == f.key
           old  == GroupFor(k)
           new  == Fed(old, f, Len(input))
           next == Append(input, f)
           G    == Put(groups, k, new)
<1>1. History(groups, out, input) /\ \A j \in Live : ~Complete(groups[j])
  BY DEF HInv
<1>2. input' = next /\ pc' = "evict" /\ Len(old.at) < MaxFrags
  BY DEF PushFragment, Pushing
<1>3. old = IF k \in DOMAIN groups THEN groups[k] ELSE NewGroup(seq)
  BY DEF GroupFor, Live
<1>4. \/ Complete(new) /\ groups' = Without(k) /\ out' = out \o Assembled(new)
      \/ ~Complete(new) /\ groups' = With(k, new) /\ out' = out
  BY DEF PushFragment
<1>5. History(G, out, next)
  <2> HIDE DEF old
  <2> QED
    BY <1>1, <1>2, <1>3, TakeHistory
<1>6. /\ DOMAIN G = (DOMAIN groups) \cup {k} /\ G[k] = new
      /\ \A j \in DOMAIN groups : j # k => G[j] = groups[j]
  BY DEF Put
<1>7. With(k, new) = G
  BY DEF With, Put, Live
<1>8. Without(k) = Removed(G, k)
  <2>1. Without(k) = [j \in (DOMAIN groups) \ {k} |-> groups[j]]
    BY DEF Without, Live
  <2>2. (DOMAIN G) \ {k} = (DOMAIN groups) \ {k}
    BY <1>6
  <2>3. \A j \in (DOMAIN groups) \ {k} : G[j] = groups[j]
    BY <1>6
  <2> HIDE DEF G
  <2> QED
    BY <2>1, <2>2, <2>3 DEF Removed
<1> HIDE DEF k, old, new, next, G
<1>9. CASE ~Complete(new) /\ groups' = With(k, new) /\ out' = out
  <2>1. History(groups', out', input')
    BY <1>2, <1>5, <1>7, <1>9
  <2>2. \A j \in DOMAIN G : ~Complete(G[j])
    BY <1>1, <1>6, <1>9 DEF Live
  <2>3. groups' = G
    BY <1>7, <1>9
  <2>4. \A j \in DOMAIN groups' : ~Complete(groups'[j])
    BY <2>2, <2>3
  <2> QED
    BY <2>1, <2>4, <1>2 DEF HInv, Live, Complete
<1>10. CASE Complete(new) /\ groups' = Without(k) /\ out' = out \o Assembled(new)
  <2>1. groups' = Removed(G, k) /\ k \in DOMAIN G
    BY <1>6, <1>8, <1>10
  <2>2. ASSUME new.head.hlen + new.len > MaxDatagram
        PROVE  History(groups', out', input')
    <3>1. out' = out \o Spilled(G[k].at)
      BY <2>2, <1>6, <1>10, SpillIsSpilled DEF Assembled
    <3> QED
      BY <3>1, <2>1, <1>2, <1>5, SpillHistory
  <2>3. ASSUME ~(new.head.hlen + new.len > MaxDatagram)
        PROVE  History(groups', out', input')
    <3>1. out' = out \o <<CompletePiece(G[k])>>
      BY <2>3, <1>6, <1>10 DEF Assembled
    <3>2. IsSeq(out)
      BY <1>1 DEF History
    <3>3. out \o <<CompletePiece(G[k])>> = Append(out, CompletePiece(G[k]))
      BY <3>2, JoinsOne
    <3>4. G[k].head.hlen + G[k].len <= MaxDatagram
      <4>1. next \in Seq(Frames) /\ GroupTrue(G[k], k, next)
        BY <2>1, <1>5 DEF History
      <4>2. G[k].len \in Nat /\ G[k].head.hlen \in Nat
        BY <4>1, GroupSizes
      <4> QED
        BY <4>2, <2>3, <1>6, BoundsAssumption
    <3>5. History(Removed(G, k), Append(out, CompletePiece(G[k])), next)
      BY <3>4, <2>1, <1>5, <1>6, <1>10, CompleteHistory
    <3> QED
      BY <3>1, <3>3, <3>5, <2>1, <1>2
  <2>4. History(groups', out', input')
    BY <2>2, <2>3
  <2>5. \A j \in DOMAIN groups' : j \in DOMAIN groups /\ groups'[j] = groups[j]
    BY <1>10 DEF Without, Live
  <2>6. \A j \in DOMAIN groups' : ~Complete(groups'[j])
    BY <2>5, <1>1 DEF Live
  <2> QED
    BY <2>4, <2>6, <1>2 DEF HInv, Live, Complete
<1> QED
  BY <1>4, <1>9, <1>10

LEMMA SpillStep ==
  ASSUME HInv, NEW k \in Live, groups' = Without(k), out' = out \o spill(groups[k]),
         input' = input, pc' # "done"
  PROVE  HInv'
<1>1. History(groups, out, input) /\ \A j \in DOMAIN groups : ~Complete(groups[j])
  BY DEF HInv, Live
<1>2. groups' = Removed(groups, k) /\ k \in DOMAIN groups
  BY DEF Without, Removed, Live
<1>3. out' = out \o Spilled(groups[k].at)
  BY SpillIsSpilled
<1>4. History(groups', out', input')
  BY <1>1, <1>2, <1>3, SpillHistory
<1>5. \A j \in DOMAIN groups' : j \in DOMAIN groups /\ groups'[j] = groups[j]
  BY <1>2 DEF Removed
<1>6. \A j \in DOMAIN groups' : ~Complete(groups'[j])
  BY <1>1, <1>5
<1> QED
  BY <1>4, <1>6 DEF HInv, Live, Complete

LEMMA NextHInv == HInv /\ [Next]_vars => HInv'
<1> SUFFICES ASSUME HInv, [Next]_vars PROVE HInv'
  OBVIOUS
<1>1. ASSUME NEW f \in Frames, PushWhole(f) \/ PushRefused(f) PROVE HInv'
  BY <1>1, PieceStep
<1>2. ASSUME NEW f \in Frames, PushFragment(f) PROVE HInv'
  BY <1>2, FragmentStep
<1>3. CASE EvictPop
  <2>1. CASE Answers(Front)
    <3>1. Front[2] \in Live
      BY <2>1 DEF Answers
    <3>2. /\ groups' = Without(Front[2]) /\ out' = out \o spill(groups[Front[2]])
          /\ input' = input /\ pc' # "done"
      BY <2>1, <1>3 DEF EvictPop
    <3> QED
      BY <3>1, <3>2, SpillStep
  <2>2. CASE ~Answers(Front)
    <3>1. UNCHANGED <<groups, out, input, pc>>
      BY <2>2, <1>3 DEF EvictPop
    <3> QED
      BY <3>1 DEF HInv, Live, Complete
  <2> QED
    BY <2>1, <2>2
<1>4. CASE EvictEnd \/ Finish
  <2>1. UNCHANGED <<groups, out, input>> /\ pc' # "done"
    BY <1>4 DEF EvictEnd, Finish
  <2> QED
    BY <2>1 DEF HInv, Live, Complete
<1>5. ASSUME NEW k \in Keys, FinishSpill(k) PROVE HInv'
  <2>1. /\ k \in Live /\ groups' = Without(k) /\ out' = out \o spill(groups[k])
        /\ input' = input /\ pc' # "done"
    BY <1>5 DEF FinishSpill
  <2> QED
    BY <2>1, SpillStep
<1>6. CASE FinishEnd
  <2>1. groups' = groups /\ out' = Sorted(out) /\ input' = input
    BY <1>6 DEF FinishEnd
  <2>2. History(groups, out, input)
    BY DEF HInv
  <2>3. /\ History(groups, Sorted(out), input)
        /\ \A i, j \in 1 .. Len(Sorted(out)) : i < j => Sorted(out)[i].at < Sorted(out)[j].at
    BY <2>2, SortHistory
  <2>4. /\ History(groups', out', input')
        /\ \A i, j \in 1 .. Len(out') : i < j => out'[i].at < out'[j].at
    BY <2>1, <2>3
  <2> QED
    BY <2>1, <2>4 DEF HInv, Live, Complete
<1>7. CASE UNCHANGED vars
  BY <1>7 DEF vars, HInv, Live, Complete
<1> QED
  BY <1>1, <1>2, <1>3, <1>4, <1>5, <1>6, <1>7 DEF Next

(* In every reachable state the reassembler's groups and pieces are what   *)
(* the frames pushed so far make of them (frag.rs, Reassembler::push,      *)
(* evict and finish).                                                      *)
THEOREM HistoryHolds == Spec => []HInv
<1>1. Init => HInv
  BY InitHInv
<1>2. HInv /\ [Next]_vars => HInv'
  BY NextHInv
<1> QED
  BY <1>1, <1>2, PTL DEF Spec

LEMMA PieceFirstWriter ==
  ASSUME HInv, NEW i \in 1 .. Len(out), out[i].kind = "complete"
  PROVE  LET c   == out[i]
             of  == Of(c.of)
             fin == Lasts(of, input)
             zer == Zeros(of, input)
         IN  /\ \A p, q \in of : input[p + 1].key = input[q + 1].key
             /\ c.at = Least(of)
             /\ c.head = Least(zer)
             /\ c.len = EndOf(input[Least(fin) + 1])
             /\ c.len + input[c.head + 1].hlen <= MaxDatagram
             /\ \A o \in 0 .. (c.len - 1) : c.data[o] = Least(Writers(of, input, o))
<1> DEFINE c   == out[i]
           of  == Of(c.of)
<1>1. CompleteTrue(c, input) /\ input \in Seq(Frames)
  BY DEF HInv, History, PieceTrue
<1>2. PICK k \in Keys : Gathered(c.of, k, input)
  BY <1>1 DEF CompleteTrue
<1>3. of \subseteq Nat
  BY <1>1, <1>2, OfCapture
<1>4. \A p \in of : input[p + 1].key = k
  BY <1>2 DEF Gathered, Of
<1>5. /\ Lasts(of, input) \subseteq Nat /\ Zeros(of, input) \subseteq Nat
      /\ \A o : Writers(of, input, o) \subseteq Nat
  BY <1>3 DEF Lasts, Zeros, Writers
<1>6. /\ First(c.at, of) /\ First(c.head, Zeros(of, input))
      /\ \E l \in of : First(l, Lasts(of, input)) /\ c.len = EndOf(input[l + 1])
      /\ c.len + input[c.head + 1].hlen <= MaxDatagram
      /\ \A o \in 0 .. (c.len - 1) : First(c.data[o], Writers(of, input, o))
  BY <1>1 DEF CompleteTrue
<1> HIDE DEF c, of
<1>7. c.at = Least(of) /\ c.head = Least(Zeros(of, input))
  BY <1>3, <1>5, <1>6, LeastFirst
<1>8. c.len = EndOf(input[Least(Lasts(of, input)) + 1])
  BY <1>5, <1>6, LeastFirst
<1>9. \A o \in 0 .. (c.len - 1) : c.data[o] = Least(Writers(of, input, o))
  BY <1>5, <1>6, LeastFirst
<1> QED
  BY <1>4, <1>6, <1>7, <1>8, <1>9 DEF c, of

(* Each reassembled datagram is the one its frames spell: every octet from *)
(* the earliest fragment that claimed it, the header and the length from   *)
(* the earliest that say them (frag.rs, Group::absorb and assemble).       *)
THEOREM FirstWriterAlwaysWins == Spec => []FirstWriterWins
<1>1. HInv => FirstWriterWins
  <2> SUFFICES ASSUME HInv, NEW i \in 1 .. Len(out), out[i].kind = "complete"
               PROVE  LET c   == out[i]
                          of  == {c.of[j] : j \in 1 .. Len(c.of)}
                          fin == {p \in of : ~Frame(p).more}
                          zer == {p \in of : Frame(p).at = 0}
                      IN  /\ \A p, q \in of : Frame(p).key = Frame(q).key
                          /\ c.at = Least(of)
                          /\ c.head = Least(zer)
                          /\ c.len = End(Least(fin))
                          /\ c.len + Frame(c.head).hlen <= MaxDatagram
                          /\ \A o \in 0 .. (c.len - 1) :
                               c.data[o] = Least({p \in of : Covers(p, o)})
    BY DEF FirstWriterWins
  <2> QED
    BY PieceFirstWriter
    DEF Of, Lasts, Zeros, Writers, Claim, EndOf, Frame, End, Covers
<1> QED
  BY <1>1, HistoryHolds, PTL

(* Nothing that could be delivered waits: a held datagram still lacks its  *)
(* start, its end or an octet between (frag.rs, Reassembler::push, the     *)
(* test that ends it).                                                     *)
THEOREM NothingFinishedWaits == Spec => []NothingFinishedIsHeld
<1>1. HInv => NothingFinishedIsHeld
  <2> SUFFICES ASSUME HInv, NEW k \in Live,
                      LET of  == {groups[k].at[j] : j \in 1 .. Len(groups[k].at)}
                          fin == {p \in of : ~Frame(p).more}
                      IN  /\ \E p \in of : Frame(p).at = 0
                          /\ fin # {}
                          /\ \A p \in of : End(p) <= End(Least(fin))
                          /\ \A o \in 0 .. (End(Least(fin)) - 1) : \E p \in of : Covers(p, o)
               PROVE  FALSE
    BY DEF NothingFinishedIsHeld
  <2> DEFINE g  == groups[k]
             of == Of(g.at)
             l  == Least(Lasts(of, input))
  <2>1. GroupTrue(g, k, input) /\ input \in Seq(Frames) /\ ~Complete(g)
    BY DEF HInv, History, Live
  <2>2. /\ \E p \in of : input[p + 1].at = 0
        /\ Lasts(of, input) # {}
        /\ \A p \in of : EndOf(input[p + 1]) <= EndOf(input[l + 1])
        /\ \A o \in 0 .. (EndOf(input[l + 1]) - 1) : \E p \in of : o \in Claim(input[p + 1])
    BY DEF Of, Lasts, Claim, EndOf, Frame, End, Covers
  <2>3. of \subseteq Nat
    BY <2>1, OfCapture DEF GroupTrue
  <2>4. Lasts(of, input) \subseteq Nat /\ Lasts(of, input) \subseteq of
    BY <2>3 DEF Lasts
  <2> HIDE DEF g, of
  <2>5. First(l, Lasts(of, input)) /\ l \in of
    <3>1. PICK m \in Lasts(of, input) : \A q \in Lasts(of, input) : m <= q
      BY <2>2, <2>4, LeastNatural
    <3>2. First(m, Lasts(of, input))
      BY <3>1 DEF First
    <3>3. l = m
      BY <3>2, <2>4, LeastFirst
    <3> QED
      BY <3>1, <3>2, <3>3, <2>4
  <2> HIDE DEF l
  <2>6. PICK z \in of : input[z + 1].at = 0
    BY <2>2
  <2>7. Complete(g)
    BY <2>1, <2>2, <2>5, <2>6, FinishedIsComplete DEF of
  <2> QED
    BY <2>1, <2>7
<1> QED
  BY <1>1, HistoryHolds, PTL

(* No frame is lost, none is reported twice, and `defragment` returns its  *)
(* pieces in the order of the capture (frag.rs, push, evict, finish).      *)
THEOREM EveryFrameOnce == Spec => []EveryFrameAccounted
<1>1. HInv => EveryFrameAccounted
  <2> SUFFICES ASSUME HInv, NEW p \in 0 .. (Len(input) - 1)
               PROVE  Cardinality(Places(p)) = 1
    BY DEF EveryFrameAccounted, HInv
  <2>1. Located(groups, out, p)
    BY DEF HInv, History
  <2>2. PICK x : Place(groups, out, p, x) /\ \A y : Place(groups, out, p, y) => y = x
    BY <2>1 DEF Located
  <2>3. ASSUME NEW i \in 1 .. Len(out), out[i].kind = "complete", NEW j \in 1 .. Len(out[i].of)
        PROVE  j \in 1 .. MaxFrags /\ j <= Len(out[i].of)
    <3>1. PICK k \in Keys : Gathered(out[i].of, k, input)
      BY <2>3 DEF HInv, History, PieceTrue, CompleteTrue
    <3>2. Len(out[i].of) \in Nat /\ Len(out[i].of) <= MaxFrags
      BY <3>1, LenProperties DEF Gathered
    <3> QED
      BY <3>2, BoundsAssumption
  <2>4. ASSUME NEW k \in Live, NEW j \in 1 .. Len(groups[k].at)
        PROVE  j \in 1 .. MaxFrags /\ j <= Len(groups[k].at)
    <3>1. Gathered(groups[k].at, k, input)
      BY DEF HInv, History, GroupTrue, Live
    <3>2. Len(groups[k].at) \in Nat /\ Len(groups[k].at) <= MaxFrags
      BY <3>1, LenProperties DEF Gathered
    <3> QED
      BY <3>2, BoundsAssumption
  <2>5. x \in Places(p)
    <3>1. CASE OutPlace(out, p, x)
      BY <3>1 DEF OutPlace, Places
    <3>2. CASE InPlace(out, p, x)
      <4>1. PICK i \in 1 .. Len(out) : \E j \in 1 .. Len(out[i].of) :
              x = <<"in", i, j>> /\ out[i].kind = "complete" /\ out[i].of[j] = p
        BY <3>2 DEF InPlace
      <4>2. PICK j \in 1 .. Len(out[i].of) :
              x = <<"in", i, j>> /\ out[i].kind = "complete" /\ out[i].of[j] = p
        BY <4>1
      <4>3. j \in 1 .. MaxFrags /\ j <= Len(out[i].of)
        BY <4>2, <2>3
      <4> QED
        BY <4>2, <4>3 DEF Places
    <3>3. CASE HeldPlace(groups, p, x)
      <4>1. PICK k \in Live : \E j \in 1 .. Len(groups[k].at) :
              x = <<"held", k, j>> /\ groups[k].at[j] = p
        BY <3>3 DEF HeldPlace, Live
      <4>2. PICK j \in 1 .. Len(groups[k].at) : x = <<"held", k, j>> /\ groups[k].at[j] = p
        BY <4>1
      <4>3. j \in 1 .. MaxFrags /\ j <= Len(groups[k].at)
        BY <2>4
      <4> QED
        BY <4>2, <4>3 DEF Places
    <3> QED
      BY <2>2, <3>1, <3>2, <3>3 DEF Place
  <2>6. ASSUME NEW y \in Places(p) PROVE y = x
    <3>1. CASE \E i \in 1 .. Len(out) :
                 y = <<"out", i, 0>> /\ out[i].kind # "complete" /\ out[i].at = p
      BY <3>1, <2>2 DEF Place, OutPlace
    <3>2. ASSUME NEW i \in 1 .. Len(out), NEW j \in 1 .. MaxFrags, y = <<"in", i, j>>,
                 out[i].kind = "complete", j <= Len(out[i].of), out[i].of[j] = p
          PROVE  y = x
      <4>1. PICK k \in Keys : Gathered(out[i].of, k, input)
        BY <3>2 DEF HInv, History, PieceTrue, CompleteTrue
      <4>2. Len(out[i].of) \in Nat
        BY <4>1, LenProperties DEF Gathered
      <4>3. j \in 1 .. Len(out[i].of)
        BY <4>2, <3>2, BoundsAssumption
      <4>4. InPlace(out, p, y)
        BY <4>3, <3>2 DEF InPlace
      <4> QED
        BY <4>4, <2>2 DEF Place
    <3>3. ASSUME NEW k \in Live, NEW j \in 1 .. MaxFrags, y = <<"held", k, j>>,
                 j <= Len(groups[k].at), groups[k].at[j] = p
          PROVE  y = x
      <4>1. Gathered(groups[k].at, k, input)
        BY DEF HInv, History, GroupTrue, Live
      <4>2. Len(groups[k].at) \in Nat
        BY <4>1, LenProperties DEF Gathered
      <4>3. j \in 1 .. Len(groups[k].at)
        BY <4>2, <3>3, BoundsAssumption
      <4>4. HeldPlace(groups, p, y)
        BY <4>3, <3>3 DEF HeldPlace, Live
      <4> QED
        BY <4>4, <2>2 DEF Place
    <3> QED
      BY <2>6, <3>1, <3>2, <3>3 DEF Places
  <2>7. Places(p) = {x}
    BY <2>5, <2>6
  <2> QED
    BY <2>7, FS_Singleton
<1> QED
  BY <1>1, HistoryHolds, PTL
----------------------------------------------------------------------------
(* FragRoundTrip.  `fragment`, one split.                                  *)

(* What a multiple of the unit is.                                         *)
LEMMA Multiple ==
  ASSUME NEW b \in Nat \ {0}, NEW q \in Nat
  PROVE  b * q \in Nat /\ (b * q) % b = 0 /\ (b * q) \div b = q
OBVIOUS

LEMMA Division ==
  ASSUME NEW a \in Nat, NEW b \in Nat \ {0}
  PROVE  /\ a \div b \in Nat /\ a % b \in 0 .. (b - 1)
         /\ a = b * (a \div b) + (a % b)
<1>1. a \in Int /\ a % b \in 0 .. (b - 1)
  OBVIOUS
<1>2. a \div b \in Nat
  OBVIOUS
<1>3. a = b * (a \div b) + (a % b)
  BY <1>1
<1> QED
  BY <1>1, <1>2, <1>3

LEMMA SumOfMultiples ==
  ASSUME NEW b \in Nat \ {0}, NEW x \in Nat, NEW y \in Nat, x % b = 0, y % b = 0
  PROVE  (x + y) % b = 0 /\ (x + y) \div b = x \div b + y \div b
<1>1. PICK q \in Nat : x = b * q /\ q = x \div b
  BY Division
<1>2. PICK r \in Nat : y = b * r /\ r = y \div b
  BY Division
<1>3. x + y = b * (q + r) /\ q + r \in Nat
  BY <1>1, <1>2
<1> QED
  BY <1>1, <1>2, <1>3, Multiple

LEMMA QuotientGrows ==
  ASSUME NEW b \in Nat \ {0}, NEW x \in Nat, NEW y \in Nat, x <= y
  PROVE  x \div b <= y \div b
<1>1. /\ x \div b \in Nat /\ x % b \in 0 .. (b - 1) /\ x = b * (x \div b) + (x % b)
      /\ y \div b \in Nat /\ y % b \in 0 .. (b - 1) /\ y = b * (y \div b) + (y % b)
  BY Division
<1> DEFINE p == x \div b
           q == y \div b
<1> HIDE DEF p, q
<1>2. p \in Nat /\ q \in Nat /\ b * p <= y /\ y < b * q + b
  BY <1>1 DEF p, q
<1>3. ASSUME q < p PROVE FALSE
  <2>1. b * q + b <= b * p
    BY <1>2, <1>3
  <2> QED
    BY <2>1, <1>2
<1> QED
  BY <1>2, <1>3 DEF p, q

LEMMA DividesThrough ==
  ASSUME NEW b \in Nat \ {0}, NEW c \in Nat \ {0}, c % b = 0, NEW x \in Nat, x % c = 0
  PROVE  x % b = 0
<1>1. PICK q \in Nat : c = b * q /\ q = c \div b
  BY Division
<1>2. PICK r \in Nat : x = c * r /\ r = x \div c
  BY Division
<1>3. x = b * (q * r) /\ q * r \in Nat
  BY <1>1, <1>2
<1> QED
  BY <1>3, Multiple

(* The chunk is whole units, and next to a header of the length it was     *)
(* chosen for it fits the 16-bit length.                                   *)
LEMMA ChunkFits ==
  ASSUME NEW size \in Nat, NEW h \in Nat
  PROVE  /\ Chunk(size, h) \in Nat /\ Chunk(size, h) % Unit = 0
         /\ Chunk(size, h) > 0 => h + Chunk(size, h) <= MaxLength
<1> DEFINE room == Larger(MaxLength - h, 0)
           a    == Larger(size \div Unit, 1)
           b    == room \div Unit
<1>1. Unit \in Nat \ {0} /\ MaxOffset \in Nat
  BY UnitsAssumption
<1>2. MaxLength \in Int
  BY <1>1 DEF MaxLength
<1>3. room \in Nat /\ (room > 0 => room = MaxLength - h)
  BY <1>2 DEF Larger
<1> HIDE DEF room
<1>4. b \in Nat /\ b * Unit <= room
  <2>1. /\ room \div Unit \in Nat /\ room % Unit \in 0 .. (Unit - 1)
        /\ room = Unit * (room \div Unit) + (room % Unit)
    BY <1>1, <1>3, Division
  <2> QED
    BY <2>1, <1>1
<1>5. a \in Nat
  <2>1. size \div Unit \in Nat
    BY <1>1, Division
  <2> QED
    BY <2>1 DEF Larger
<1> HIDE DEF a, b
<1>6. /\ Unit * a \in Nat /\ (Unit * a) % Unit = 0 /\ Unit * a = a * Unit
      /\ Unit * b \in Nat /\ (Unit * b) % Unit = 0 /\ Unit * b = b * Unit
  BY <1>1, <1>4, <1>5, Multiple
<1>7. Chunk(size, h) = LesserOf(a * Unit, b * Unit)
  BY DEF Chunk, unit_of, a, b, room
<1>8. Chunk(size, h) \in {a * Unit, b * Unit} /\ Chunk(size, h) <= b * Unit
  BY <1>6, <1>7 DEF LesserOf
<1>9. Chunk(size, h) \in Nat /\ Chunk(size, h) % Unit = 0
  BY <1>6, <1>8
<1>10. Chunk(size, h) > 0 => h + Chunk(size, h) <= MaxLength
  BY <1>2, <1>3, <1>4, <1>6, <1>8, <1>9
<1> QED
  BY <1>9, <1>10

(* The n octets from `at` on are one chunk of a payload of len octets.     *)
Chopped(len, chunk, at, n) ==
  /\ at \in Nat /\ n \in Nat /\ 0 < n /\ n <= chunk /\ at + n <= len
  /\ at % Unit = 0 /\ at \div Unit <= (len - 1) \div Unit

LEMMA ChopWithin ==
  ASSUME NEW len \in Nat, NEW chunk \in Nat, chunk > 0, chunk % Unit = 0,
         NEW at \in Starts(len, chunk)
  PROVE  Chopped(len, chunk, at, LesserOf(chunk, len - at))
<1>1. Unit \in Nat \ {0} /\ chunk \in Nat \ {0}
  BY UnitsAssumption
<1>2. at \in 0 .. (len - 1) /\ at % chunk = 0
  BY DEF Starts
<1>3. at \in Nat /\ len - 1 \in Nat /\ at <= len - 1
  BY <1>2
<1>4. at % Unit = 0
  BY <1>1, <1>2, <1>3, DividesThrough
<1>5. at \div Unit <= (len - 1) \div Unit
  BY <1>1, <1>3, QuotientGrows
<1>6. /\ LesserOf(chunk, len - at) \in Nat /\ 0 < LesserOf(chunk, len - at)
      /\ LesserOf(chunk, len - at) <= chunk /\ at + LesserOf(chunk, len - at) <= len
  BY <1>3 DEF LesserOf
<1> QED
  BY <1>3, <1>4, <1>5, <1>6 DEF Chopped

LEMMA ChopCovers ==
  ASSUME NEW len \in Nat, NEW chunk \in Nat, chunk > 0, NEW o \in 0 .. (len - 1)
  PROVE  \E at \in Starts(len, chunk) : at <= o /\ o < at + LesserOf(chunk, len - at)
<1> DEFINE at == o - (o % chunk)
<1>1. /\ o \div chunk \in Nat /\ o % chunk \in 0 .. (chunk - 1)
      /\ o = chunk * (o \div chunk) + (o % chunk)
  BY Division
<1>2. at = chunk * (o \div chunk)
  BY <1>1
<1>3. at \in Nat /\ at % chunk = 0
  BY <1>1, <1>2, Multiple
<1>4. at <= o /\ o < at + chunk
  BY <1>1
<1> HIDE DEF at
<1>5. at \in Starts(len, chunk)
  BY <1>3, <1>4 DEF Starts
<1>6. o < at + LesserOf(chunk, len - at)
  BY <1>3, <1>4 DEF LesserOf
<1> QED
  BY <1>4, <1>5, <1>6

(* A piece of an IPv4 datagram whose header is h octets and payload n.     *)
OnWire(f, h, n) ==
  /\ f \in [at : Nat, len : Nat, more : BOOLEAN, df : BOOLEAN, hlen : Nat, later : Nat]
  /\ f.later <= f.hlen
  /\ f.at + f.len <= n /\ (f.more <=> f.at + f.len < n)
  /\ f.at = 0 => f.hlen = h
  /\ f.len > 0 \/ f.at = 0
  /\ f.at % Unit = 0 /\ f.at \div Unit <= MaxOffset

(* What a split of d must give: pieces of the same datagram that together  *)
(* are d, one that begins it and one that ends it, and either d itself or  *)
(* shorter pieces that fit.                                                *)
Split(Q, d, h, n) ==
  /\ \A f \in Q : OnWire(f, h, n)
  /\ \A o \in Claim(d) : \E f \in Q : o \in Claim(f)
  /\ \E f \in Q : f.at = d.at
  /\ \E f \in Q : f.more = d.more
  /\ Q = {d} \/ \A f \in Q : f.len < d.len /\ f.hlen + f.len <= MaxLength

PieceOf(d, chunk, at) ==
  LET n == LesserOf(chunk, d.len - at)
  IN  [d EXCEPT !.at = d.at + at, !.len = n, !.more = More(d, at, n),
                !.hlen = IF at = 0 THEN d.hlen ELSE d.later]

Unsplit(d, chunk) ==
  d.df \/ chunk = 0 \/ d.len <= chunk \/ TooWide(d.at \div Unit, d.len)

LEMMA SplitCases ==
  ASSUME NEW d, NEW size
  PROVE  LET chunk == Chunk(size, d.hlen)
         IN  fragment_v4(d, size) =
               IF Unsplit(d, chunk) THEN {d}
               ELSE {PieceOf(d, chunk, at) : at \in Starts(d.len, chunk)}
BY DEF fragment_v4, Unsplit, PieceOf

LEMMA PieceFields ==
  ASSUME NEW h, NEW n, NEW d, OnWire(d, h, n), NEW chunk \in Nat, NEW at \in Nat,
         at <= d.len
  PROVE  LET f == PieceOf(d, chunk, at)
         IN  /\ f \in [at : Nat, len : Nat, more : BOOLEAN, df : BOOLEAN, hlen : Nat, later : Nat]
             /\ f.at = d.at + at /\ f.len = LesserOf(chunk, d.len - at)
             /\ f.more = (at + f.len < d.len \/ d.more)
             /\ f.hlen = (IF at = 0 THEN d.hlen ELSE d.later)
             /\ f.later = d.later
<1> DEFINE m == LesserOf(chunk, d.len - at)
<1>1. /\ d \in [at : Nat, len : Nat, more : BOOLEAN, df : BOOLEAN, hlen : Nat, later : Nat]
  BY DEF OnWire
<1>2. d.len - at \in Nat
  BY <1>1
<1>3. m \in Nat
  BY <1>2 DEF LesserOf
<1> HIDE DEF m
<1>4. More(d, at, m) = (at + m < d.len \/ d.more) /\ More(d, at, m) \in BOOLEAN
  BY <1>1, <1>3 DEF More
<1>5. PieceOf(d, chunk, at) =
        [d EXCEPT !.at = d.at + at, !.len = m, !.more = More(d, at, m),
                  !.hlen = IF at = 0 THEN d.hlen ELSE d.later]
  BY DEF PieceOf, m
<1> DEFINE hl == IF at = 0 THEN d.hlen ELSE d.later
           mo == More(d, at, m)
           f  == PieceOf(d, chunk, at)
<1>6. hl \in Nat
  BY <1>1
<1>7. f = [d EXCEPT !.at = d.at + at, !.len = m, !.more = mo, !.hlen = hl]
  BY <1>5
<1> HIDE DEF hl, mo, f
<1>8. /\ f.at = d.at + at /\ f.len = m /\ f.more = mo /\ f.hlen = hl /\ f.later = d.later
  BY <1>1, <1>7
<1>9. f = [at |-> d.at + at, len |-> m, more |-> mo, df |-> d.df, hlen |-> hl, later |-> d.later]
  BY <1>1, <1>7
<1>10. d.at + at \in Nat /\ mo \in BOOLEAN
  BY <1>1, <1>4 DEF mo
<1>11. f \in [at : Nat, len : Nat, more : BOOLEAN, df : BOOLEAN, hlen : Nat, later : Nat]
  BY <1>1, <1>3, <1>6, <1>9, <1>10
<1>12. f.more = (at + f.len < d.len \/ d.more)
  BY <1>4, <1>8 DEF mo
<1> QED
  BY <1>8, <1>11, <1>12 DEF m, hl, f

LEMMA PieceOnWire ==
  ASSUME NEW h, NEW n \in Nat, NEW d, OnWire(d, h, n), NEW size \in Nat,
         NEW chunk, chunk = Chunk(size, d.hlen), ~Unsplit(d, chunk),
         NEW at \in Starts(d.len, chunk)
  PROVE  LET f == PieceOf(d, chunk, at)
         IN  OnWire(f, h, n) /\ f.len < d.len /\ f.hlen + f.len <= MaxLength
<1> DEFINE f == PieceOf(d, chunk, at)
<1>1. /\ d.at \in Nat /\ d.len \in Nat /\ d.more \in BOOLEAN /\ d.hlen \in Nat /\ d.later \in Nat
      /\ d.later <= d.hlen /\ d.at + d.len <= n /\ (d.more <=> d.at + d.len < n)
      /\ d.at = 0 => d.hlen = h
      /\ d.at % Unit = 0
  BY DEF OnWire
<1>2. chunk \in Nat /\ chunk % Unit = 0 /\ (chunk > 0 => d.hlen + chunk <= MaxLength)
  BY <1>1, ChunkFits
<1>3. chunk > 0 /\ d.len > chunk /\ d.at \div Unit + (d.len - 1) \div Unit <= MaxOffset
  <2>1. chunk # 0 /\ ~(d.len <= chunk) /\ ~TooWide(d.at \div Unit, d.len)
    BY DEF Unsplit
  <2>2. d.at \div Unit \in Nat /\ (d.len - 1) \div Unit \in Nat
    <3>1. d.len - 1 \in Nat
      BY <2>1, <1>1, <1>2
    <3> QED
      BY <3>1, <1>1, UnitsAssumption, Division
  <2> QED
    BY <2>1, <2>2, <1>1, <1>2, UnitsAssumption DEF TooWide
<1>4. Chopped(d.len, chunk, at, LesserOf(chunk, d.len - at))
  BY <1>1, <1>2, <1>3, ChopWithin
<1>5. at \in Nat /\ at <= d.len
  BY <1>4, <1>1 DEF Chopped
<1>6. /\ f \in [at : Nat, len : Nat, more : BOOLEAN, df : BOOLEAN, hlen : Nat, later : Nat]
      /\ f.at = d.at + at /\ f.len = LesserOf(chunk, d.len - at)
      /\ f.more = (at + f.len < d.len \/ d.more)
      /\ f.hlen = (IF at = 0 THEN d.hlen ELSE d.later)
      /\ f.later = d.later
  BY <1>2, <1>5, PieceFields
<1>7. /\ f.len \in Nat /\ 0 < f.len /\ f.len <= chunk /\ at + f.len <= d.len
      /\ at % Unit = 0 /\ at \div Unit <= (d.len - 1) \div Unit
  BY <1>4, <1>6 DEF Chopped
<1> HIDE DEF f
<1>8. f.at % Unit = 0 /\ f.at \div Unit <= MaxOffset
  <2>1. (d.at + at) % Unit = 0 /\ (d.at + at) \div Unit = d.at \div Unit + at \div Unit
    BY <1>1, <1>5, <1>7, UnitsAssumption, SumOfMultiples
  <2>2. d.at \div Unit \in Nat /\ at \div Unit \in Nat /\ (d.len - 1) \div Unit \in Nat
    <3>1. d.len - 1 \in Nat
      BY <1>1, <1>2, <1>3
    <3> QED
      BY <3>1, <1>1, <1>5, UnitsAssumption, Division
  <2> QED
    BY <2>1, <2>2, <1>3, <1>6, <1>7, UnitsAssumption
<1>9. f.later <= f.hlen /\ f.hlen <= d.hlen /\ f.hlen \in Nat
  BY <1>1, <1>6
<1>10. f.at + f.len <= n /\ (f.at = 0 => f.hlen = h)
  BY <1>1, <1>5, <1>6, <1>7
<1>11. f.more <=> f.at + f.len < n
  <2>1. at + f.len < d.len => d.at + at + f.len < n
    BY <1>1, <1>5, <1>7
  <2>2. ~(at + f.len < d.len) => at + f.len = d.len
    BY <1>1, <1>5, <1>7
  <2>3. f.at + f.len = d.at + at + f.len
    BY <1>6
  <2>4. CASE at + f.len < d.len
    BY <2>1, <2>3, <2>4, <1>6
  <2>5. CASE ~(at + f.len < d.len)
    <3>1. d.at + at + f.len = d.at + d.len
      BY <2>2, <2>5, <1>1, <1>5, <1>7
    <3> QED
      BY <3>1, <2>3, <2>5, <1>1, <1>6
  <2> QED
    BY <2>4, <2>5
<1>12. OnWire(f, h, n)
  BY <1>6, <1>7, <1>8, <1>9, <1>10, <1>11 DEF OnWire
<1>13. MaxLength \in Int
  BY UnitsAssumption DEF MaxLength
<1>14. f.hlen + f.len <= MaxLength
  BY <1>1, <1>2, <1>3, <1>7, <1>9, <1>13
<1>15. f.len < d.len
  BY <1>1, <1>2, <1>3, <1>7
<1> QED
  BY <1>12, <1>14, <1>15 DEF f

(* fragment_v4 splits what it is given.                                    *)
LEMMA SplitsV4 ==
  ASSUME NEW h, NEW n \in Nat, NEW d, OnWire(d, h, n), NEW size \in Nat
  PROVE  Split(fragment_v4(d, size), d, h, n)
<1> DEFINE chunk == Chunk(size, d.hlen)
           Q     == fragment_v4(d, size)
<1>1. d.at \in Nat /\ d.len \in Nat /\ d.hlen \in Nat
  BY DEF OnWire
<1>2. Q = IF Unsplit(d, chunk) THEN {d}
          ELSE {PieceOf(d, chunk, at) : at \in Starts(d.len, chunk)}
  BY SplitCases
<1>3. CASE Unsplit(d, chunk)
  <2>1. Q = {d}
    BY <1>2, <1>3
  <2> QED
    BY <2>1 DEF Split
<1>4. CASE ~Unsplit(d, chunk)
  <2> HIDE DEF chunk, Q
  <2>1. Q = {PieceOf(d, chunk, at) : at \in Starts(d.len, chunk)}
    BY <1>2, <1>4
  <2>2. \A f \in Q : OnWire(f, h, n) /\ f.len < d.len /\ f.hlen + f.len <= MaxLength
    BY <2>1, <1>4, PieceOnWire DEF chunk
  <2>3. chunk \in Nat /\ chunk > 0 /\ chunk < d.len /\ chunk % Unit = 0
    <3>1. chunk \in Nat /\ chunk % Unit = 0
      BY <1>1, ChunkFits DEF chunk
    <3>2. chunk # 0 /\ ~(d.len <= chunk)
      BY <1>4 DEF Unsplit
    <3> QED
      BY <3>1, <3>2, <1>1
  <2>4. ASSUME NEW at \in Starts(d.len, chunk)
        PROVE  /\ PieceOf(d, chunk, at) \in Q
               /\ PieceOf(d, chunk, at).at = d.at + at
               /\ PieceOf(d, chunk, at).len = LesserOf(chunk, d.len - at)
               /\ PieceOf(d, chunk, at).more = (at + LesserOf(chunk, d.len - at) < d.len \/ d.more)
    <3>1. at \in Nat /\ at <= d.len
      BY <1>1 DEF Starts
    <3> QED
      BY <3>1, <2>1, <2>3, PieceFields
  <2>5. ASSUME NEW o \in 0 .. (d.len - 1)
        PROVE  \E at \in Starts(d.len, chunk) : /\ at \in Nat /\ at <= o
                                                /\ LesserOf(chunk, d.len - at) \in Nat
                                                /\ o < at + LesserOf(chunk, d.len - at)
                                                /\ at + LesserOf(chunk, d.len - at) <= d.len
    <3>1. PICK at \in Starts(d.len, chunk) : at <= o /\ o < at + LesserOf(chunk, d.len - at)
      BY <1>1, <2>3, ChopCovers
    <3>2. Chopped(d.len, chunk, at, LesserOf(chunk, d.len - at))
      BY <1>1, <2>3, ChopWithin
    <3> QED
      BY <3>1, <3>2 DEF Chopped
  <2>6. ASSUME NEW o \in Claim(d) PROVE \E f \in Q : o \in Claim(f)
    <3>1. o \in Int /\ o - d.at \in 0 .. (d.len - 1)
      BY <1>1 DEF Claim
    <3>2. PICK at \in Starts(d.len, chunk) : /\ at \in Nat /\ at <= o - d.at
                                             /\ LesserOf(chunk, d.len - at) \in Nat
                                             /\ o - d.at < at + LesserOf(chunk, d.len - at)
      BY <3>1, <2>5
    <3>3. o \in Claim(PieceOf(d, chunk, at))
      <4>1. o \in (d.at + at) .. (d.at + at + LesserOf(chunk, d.len - at) - 1)
        BY <3>1, <3>2, <1>1
      <4> QED
        BY <4>1, <2>4 DEF Claim
    <3> QED
      BY <3>3, <2>4
  <2>7. \E f \in Q : f.at = d.at
    <3>1. 0 \in 0 .. (d.len - 1)
      BY <1>1, <2>3
    <3>2. PICK at \in Starts(d.len, chunk) : at \in Nat /\ at <= 0
      BY <3>1, <2>5
    <3>3. PieceOf(d, chunk, at).at = d.at
      BY <3>2, <2>4, <1>1
    <3> QED
      BY <3>3, <2>4
  <2>8. \E f \in Q : f.more = d.more
    <3>1. d.len - 1 \in 0 .. (d.len - 1)
      BY <1>1, <2>3
    <3>2. PICK at \in Starts(d.len, chunk) : /\ at \in Nat
                                             /\ LesserOf(chunk, d.len - at) \in Nat
                                             /\ d.len - 1 < at + LesserOf(chunk, d.len - at)
                                             /\ at + LesserOf(chunk, d.len - at) <= d.len
      BY <3>1, <2>5
    <3>3. ~(at + LesserOf(chunk, d.len - at) < d.len)
      BY <3>2, <1>1
    <3>4. d.more \in BOOLEAN
      BY DEF OnWire
    <3>5. PieceOf(d, chunk, at).more = d.more
      BY <3>3, <3>4, <2>4
    <3> QED
      BY <3>5, <2>4
  <2>9. Split(Q, d, h, n)
    BY <2>2, <2>6, <2>7, <2>8 DEF Split
  <2> QED
    BY <2>9 DEF Q
<1> QED
  BY <1>3, <1>4

(* A split of every piece of a split is a split.                           *)
LEMMA SplitAgain ==
  ASSUME NEW h, NEW n \in Nat, NEW d, OnWire(d, h, n), NEW Q, Split(Q, d, h, n),
         NEW size \in Nat
  PROVE  Split(UNION {fragment_v4(f, size) : f \in Q}, d, h, n)
<1> DEFINE R(f) == fragment_v4(f, size)
           P    == UNION {R(f) : f \in Q}
<1>1. \A f \in Q : OnWire(f, h, n) /\ Split(R(f), f, h, n)
  <2>1. \A f \in Q : OnWire(f, h, n)
    BY DEF Split
  <2> QED
    BY <2>1, SplitsV4
<1> HIDE DEF R
<1>2. \A f \in Q : \A g \in R(f) : g \in P
  OBVIOUS
<1>3. \A g \in P : \E f \in Q : g \in R(f)
  OBVIOUS
<1> HIDE DEF P
<1>4. \A g \in P : OnWire(g, h, n)
  BY <1>1, <1>3 DEF Split
<1>5. \A o \in Claim(d) : \E g \in P : o \in Claim(g)
  <2> SUFFICES ASSUME NEW o \in Claim(d) PROVE \E g \in P : o \in Claim(g)
    OBVIOUS
  <2>1. PICK f \in Q : o \in Claim(f)
    BY DEF Split
  <2>2. PICK g \in R(f) : o \in Claim(g)
    BY <2>1, <1>1 DEF Split
  <2> QED
    BY <2>2, <1>2
<1>6. \E g \in P : g.at = d.at
  <2>1. PICK f \in Q : f.at = d.at
    BY DEF Split
  <2>2. PICK g \in R(f) : g.at = f.at
    BY <1>1 DEF Split
  <2> QED
    BY <2>1, <2>2, <1>2
<1>7. \E g \in P : g.more = d.more
  <2>1. PICK f \in Q : f.more = d.more
    BY DEF Split
  <2>2. PICK g \in R(f) : g.more = f.more
    BY <1>1 DEF Split
  <2> QED
    BY <2>1, <2>2, <1>2
<1>8. P = {d} \/ \A g \in P : g.len < d.len /\ g.hlen + g.len <= MaxLength
  <2>1. CASE Q = {d}
    <3>1. R(d) = {d} \/ \A g \in R(d) : g.len < d.len /\ g.hlen + g.len <= MaxLength
      BY <2>1, <1>1 DEF Split
    <3>2. P = R(d)
      BY <2>1 DEF P
    <3> QED
      BY <3>1, <3>2
  <2>2. CASE \A f \in Q : f.len < d.len /\ f.hlen + f.len <= MaxLength
    <3> SUFFICES ASSUME NEW g \in P PROVE g.len < d.len /\ g.hlen + g.len <= MaxLength
      OBVIOUS
    <3>1. PICK f \in Q : g \in R(f)
      BY <1>3
    <3>2. g = f \/ (g.len < f.len /\ g.hlen + g.len <= MaxLength)
      BY <3>1, <1>1 DEF Split
    <3>3. f.len < d.len /\ f.hlen + f.len <= MaxLength
      BY <2>2
    <3>4. f.len \in Nat /\ g.len \in Nat /\ d.len \in Nat
      BY <1>1, <1>4 DEF OnWire
    <3> QED
      BY <3>2, <3>3, <3>4
  <2> QED
    BY <2>1, <2>2 DEF Split
<1>9. Split(P, d, h, n)
  BY <1>4, <1>5, <1>6, <1>7, <1>8 DEF Split
<1> QED
  BY <1>9 DEF P, R

----------------------------------------------------------------------------
(* The pieces of one datagram: within it, one that begins it and one that  *)
(* ends it, every octet of it in one of them, its header on the first, and *)
(* a piece that is no fragment only where nothing was split.               *)
Cut(P, k, h, n) ==
  /\ n \in Nat /\ h \in Nat
  /\ \A f \in P : /\ f.key = k
                  /\ f.at + f.len <= n /\ (f.more <=> f.at + f.len < n)
                  /\ f.at = 0 => f.hlen = h
                  /\ f.len > 0 \/ f.at = 0
  /\ \E f \in P : f.at = 0
  /\ \E f \in P : ~f.more
  /\ \A o \in 0 .. (n - 1) : \E f \in P : o \in Claim(f)
  /\ \A f \in P : IsFragment(f) \/ \A g \in P : g.len = n

(* Offsets and lengths a header has room for.                              *)
Fitting(P, h, n) ==
  /\ \A f \in P : f.at % Unit = 0 /\ f.at \div Unit <= MaxOffset
  /\ \/ \A f \in P : f.hlen + f.len <= MaxDatagram
     \/ \E g \in P : P = {g} /\ g.hlen = h /\ g.len = n
  /\ \A f \in P : f.key \in V6Keys => f.hlen + Unit + f.len <= MaxDatagram

WireOK ==
  /\ wire \subseteq Frames
  /\ \E k \in Keys : Cut(wire, k, header, payload)
  /\ Fitting(wire, header, payload)

(* The frames the datagram may be fed in are held, from the first on.      *)
Absorbed ==
  \A p \in 0 .. (Len(input) - 1) : p < MaxFrags =>
    \E k \in Live : (\A f \in wire : f.key = k) /\ p \in Of(groups[k].at)

(* RoundTrips is not inductive: until the datagram is put back, every      *)
(* frame that came is held.                                                *)
RInv ==
  /\ WireOK
  /\ input \in Seq(wire)
  /\ header + payload <= MaxDatagram =>
       \/ PutBack
       \/ IF pc \in {"idle", "evict"} THEN Absorbed ELSE ~AllArrived

(* One datagram is within every cap.                                       *)
OneGroup ==
  /\ \A k \in Live : \A f \in wire : f.key = k
  /\ \A k \in Live : groups[k].len <= MaxDatagram

(* An IPv4 datagram split twice.                                           *)
LEMMA V4Cut ==
  ASSUME NEW k \in Keys \ V6Keys, NEW d \in V4Grams, NEW s \in Sizes, NEW t \in Sizes
  PROVE  Cut(V4Wire(k, d, s, t), k, d.hlen, d.len) /\ Fitting(V4Wire(k, d, s, t), d.hlen, d.len)
<1> DEFINE T == Twice(d, s, t)
           P == V4Wire(k, d, s, t)
<1>1. /\ d \in [at : {0}, len : Nat, more : {FALSE}, df : BOOLEAN, hlen : Nat, later : Nat]
      /\ d.later <= d.hlen /\ s \in Nat /\ t \in Nat
  BY GramsAssumption
<1>2. OnWire(d, d.hlen, d.len)
  <2>1. d \in [at : Nat, len : Nat, more : BOOLEAN, df : BOOLEAN, hlen : Nat, later : Nat]
    <3>1. {0} \subseteq Nat /\ {FALSE} \subseteq BOOLEAN
      OBVIOUS
    <3> QED
      BY <3>1, <1>1, Zenon
  <2>2. d.at = 0 /\ d.more = FALSE /\ d.len \in Nat
    BY <1>1
  <2>3. 0 % Unit = 0 /\ 0 \div Unit <= MaxOffset
    <3>1. Unit * 0 = 0 /\ MaxOffset \in Nat
      BY UnitsAssumption
    <3> QED
      BY <3>1, UnitsAssumption, Multiple
  <2> QED
    BY <2>1, <2>2, <2>3, <1>1 DEF OnWire
<1>3. Split(T, d, d.hlen, d.len)
  <2>1. Split(fragment_v4(d, s), d, d.hlen, d.len)
    BY <1>1, <1>2, SplitsV4
  <2>2. Split(UNION {fragment_v4(f, t) : f \in fragment_v4(d, s)}, d, d.hlen, d.len)
    BY <2>1, <1>1, <1>2, SplitAgain
  <2> QED
    BY <2>2 DEF Twice
<1> DEFINE n == d.len
           h == d.hlen
<1>4. n \in Nat /\ h \in Nat /\ d.at = 0 /\ ~d.more
  BY <1>1
<1>5. P = {V4Found(k, f) : f \in T}
  BY DEF V4Wire
<1> HIDE DEF T, P, n, h
<1>6. \A g \in P : \E f \in T : g = V4Found(k, f)
  BY <1>5
<1>7. \A f \in T : V4Found(k, f) \in P
  BY <1>5
<1>8. \A f : /\ V4Found(k, f).key = k /\ V4Found(k, f).at = f.at /\ V4Found(k, f).len = f.len
             /\ V4Found(k, f).more = f.more /\ V4Found(k, f).hlen = f.hlen
  BY DEF V4Found
<1>9. /\ \A f \in T : OnWire(f, h, n)
      /\ \A o \in Claim(d) : \E f \in T : o \in Claim(f)
      /\ \E f \in T : f.at = d.at
      /\ \E f \in T : f.more = d.more
      /\ T = {d} \/ \A f \in T : f.len < n /\ f.hlen + f.len <= MaxLength
  BY <1>3 DEF Split, h, n
<1>10. \A f \in T : /\ f.at \in Nat /\ f.len \in Nat /\ f.hlen \in Nat /\ f.more \in BOOLEAN
                    /\ f.at + f.len <= n /\ (f.more <=> f.at + f.len < n)
                    /\ f.at = 0 => f.hlen = h
                    /\ f.len > 0 \/ f.at = 0
                    /\ f.at % Unit = 0 /\ f.at \div Unit <= MaxOffset
  BY <1>9 DEF OnWire
<1>11. \A g \in P : /\ g.key = k
                    /\ g.at + g.len <= n /\ (g.more <=> g.at + g.len < n)
                    /\ g.at = 0 => g.hlen = h
                    /\ g.len > 0 \/ g.at = 0
                    /\ g.at % Unit = 0 /\ g.at \div Unit <= MaxOffset
  BY <1>6, <1>8, <1>10
<1>12. (\E g \in P : g.at = 0) /\ \E g \in P : ~g.more
  BY <1>4, <1>7, <1>8, <1>9
<1>13. \A o \in 0 .. (n - 1) : \E g \in P : o \in Claim(g)
  <2> SUFFICES ASSUME NEW o \in 0 .. (n - 1) PROVE \E g \in P : o \in Claim(g)
    OBVIOUS
  <2>1. o \in Claim(d)
    BY <1>4 DEF Claim, n
  <2>2. PICK f \in T : o \in Claim(f)
    BY <2>1, <1>9
  <2>3. o \in Claim(V4Found(k, f))
    BY <2>2, <1>8 DEF Claim
  <2> QED
    BY <2>3, <1>7
<1>14. T = {d} => P = {V4Found(k, d)}
  BY <1>5
<1>15. ASSUME NEW g \in P, ~IsFragment(g), NEW e \in P PROVE e.len = n
  <2>1. PICK f \in T : g = V4Found(k, f)
    BY <1>6
  <2>2. g.at = 0 /\ ~g.more
    BY <1>15 DEF IsFragment
  <2>3. f.at = 0 /\ ~f.more
    BY <2>1, <2>2, <1>8
  <2>4. f.len = n
    BY <2>3, <1>4, <1>10
  <2>5. T = {d}
    BY <2>4, <1>4, <1>9
  <2> QED
    BY <2>5, <1>8, <1>14 DEF n
<1>16. Cut(P, k, h, n)
  BY <1>4, <1>11, <1>12, <1>13, <1>15 DEF Cut
<1>17. \/ \A g \in P : g.hlen + g.len <= MaxDatagram
       \/ \E g \in P : P = {g} /\ g.hlen = h /\ g.len = n
  <2>1. CASE T = {d}
    BY <2>1, <1>8, <1>14 DEF h, n
  <2>2. CASE \A f \in T : f.hlen + f.len <= MaxLength
    BY <2>2, <1>6, <1>8, SameLimit
  <2> QED
    BY <2>1, <2>2, <1>9
<1>18. Fitting(P, h, n)
  BY <1>11, <1>17 DEF Fitting
<1> QED
  BY <1>16, <1>18 DEF P, h, n

----------------------------------------------------------------------------
(* The walk of a chain of IPv6 headers.                                    *)
LEMMA NamesOf ==
  ASSUME NEW S, NEW chain \in Seq(S)
  PROVE  /\ Len(chain) \in Nat /\ Len(Names(chain)) = Len(chain) + 1
         /\ \A i \in 1 .. Len(chain) : Names(chain)[i] = chain[i]
         /\ Names(chain)[Len(chain) + 1] = "payload"
BY DEF Names

(* It stops at the first name that is no extension header, or at MaxExt.   *)
LEMMA VisitedIs ==
  ASSUME NEW S, NEW chain \in Seq(S), NEW v \in 1 .. (Len(chain) + 1),
         ~IsExt(Names(chain)[v]), \A i \in 1 .. (v - 1) : IsExt(Names(chain)[i])
  PROVE  Visited(chain) = LesserOf(MaxExt, v)
<1> DEFINE V == {i \in 1 .. Len(Names(chain)) : ~IsExt(Names(chain)[i])}
<1>1. Len(chain) \in Nat /\ Len(Names(chain)) = Len(chain) + 1
  BY NamesOf
<1>2. V \subseteq Int /\ v \in V
  BY <1>1
<1>3. \A y \in V : v <= y
  BY <1>1
<1> HIDE DEF V
<1>4. Least(V) = v
  BY <1>2, <1>3, LeastIs
<1> QED
  BY <1>4 DEF Visited, V

LEMMA VisitedWithin ==
  ASSUME NEW S, NEW chain \in Seq(S)
  PROVE  /\ Visited(chain) \in Nat /\ 1 <= Visited(chain) /\ Visited(chain) <= MaxExt
         /\ Visited(chain) <= Len(chain) + 1
         /\ \A i \in 1 .. (Visited(chain) - 1) : IsExt(chain[i])
<1> DEFINE V == {i \in 1 .. Len(Names(chain)) : ~IsExt(Names(chain)[i])}
<1>1. /\ Len(chain) \in Nat /\ Len(Names(chain)) = Len(chain) + 1
      /\ \A i \in 1 .. Len(chain) : Names(chain)[i] = chain[i]
      /\ Names(chain)[Len(chain) + 1] = "payload"
  BY NamesOf
<1>2. Len(chain) + 1 \in V
  BY <1>1 DEF IsExt
<1>3. V \subseteq Nat
  BY <1>1
<1>4. PICK v \in V : \A y \in V : v <= y
  BY <1>2, <1>3, LeastNatural
<1>5. v \in 1 .. (Len(chain) + 1) /\ ~IsExt(Names(chain)[v])
  BY <1>1, <1>4
<1>6. ASSUME NEW i \in 1 .. (v - 1) PROVE IsExt(Names(chain)[i])
  <2>1. i \in 1 .. Len(Names(chain)) /\ ~(v <= i)
    BY <1>1, <1>5
  <2> QED
    BY <2>1, <1>4
<1> HIDE DEF V
<1>7. Visited(chain) = LesserOf(MaxExt, v)
  BY <1>5, <1>6, VisitedIs
<1>8. /\ Visited(chain) \in Nat /\ 1 <= Visited(chain) /\ Visited(chain) <= MaxExt
      /\ Visited(chain) <= v
  BY <1>5, <1>7, UnitsAssumption DEF LesserOf
<1>9. ASSUME NEW i \in 1 .. (Visited(chain) - 1) PROVE IsExt(chain[i])
  <2>1. i \in 1 .. (v - 1) /\ i \in 1 .. Len(chain)
    BY <1>1, <1>5, <1>8
  <2> QED
    BY <2>1, <1>1, <1>6
<1> QED
  BY <1>1, <1>5, <1>8, <1>9

(* What every fragment repeats lies within the walk.                       *)
LEMMA FixedWithin ==
  ASSUME NEW S, NEW chain \in Seq(S)
  PROVE  /\ Fixed(chain) \in Nat /\ Fixed(chain) < MaxExt /\ Fixed(chain) <= Len(chain)
         /\ \A i \in 1 .. Fixed(chain) : IsExt(chain[i])
<1> DEFINE V == {0} \cup {i \in 1 .. (Visited(chain) - 1) : chain[i] # "dest"}
<1>1. /\ Visited(chain) \in Nat /\ 1 <= Visited(chain) /\ Visited(chain) <= MaxExt
      /\ Visited(chain) <= Len(chain) + 1 /\ Len(chain) \in Nat
      /\ \A i \in 1 .. (Visited(chain) - 1) : IsExt(chain[i])
  BY VisitedWithin
<1>2. V \subseteq Nat /\ V # {} /\ Visited(chain) \in Nat /\ \A x \in V : x < Visited(chain)
  BY <1>1
<1>3. Fixed(chain) = Greatest(V)
  BY DEF Fixed
<1> HIDE DEF V
<1>4. Fixed(chain) \in V
  <2>1. \A x \in V : x <= Visited(chain)
    BY <1>2
  <2>2. PICK m \in V : \A y \in V : y <= m
    BY <2>1, <1>2, GreatestNatural
  <2>3. V \subseteq Int
    BY <1>2
  <2>4. Greatest(V) = m
    BY <2>2, <2>3, GreatestIs
  <2> QED
    BY <2>2, <2>4, <1>3
<1>5. Fixed(chain) \in Nat /\ Fixed(chain) < Visited(chain)
  BY <1>2, <1>4
<1>6. Fixed(chain) < MaxExt /\ Fixed(chain) <= Len(chain)
  BY <1>1, <1>5, UnitsAssumption
<1>7. \A i \in 1 .. Fixed(chain) : IsExt(chain[i])
  BY <1>1, <1>5
<1> QED
  BY <1>5, <1>6, <1>7

(* The walk of a piece's chain reaches its Fragment header.                *)
LEMMA HeaderReached ==
  ASSUME NEW S, NEW chain \in Seq(S), NEW c, c = Append(SubSeq(chain, 1, Fixed(chain)), "frag")
  PROVE  HasFragmentHeader(c) /\ Len(c) = Fixed(chain) + 1
<1> DEFINE x == Fixed(chain)
           s == SubSeq(chain, 1, x)
<1>1. /\ x \in Nat /\ x < MaxExt /\ x <= Len(chain) /\ Len(chain) \in Nat
      /\ \A i \in 1 .. x : IsExt(chain[i])
  BY FixedWithin
<1>2. s \in Seq(S) /\ Len(s) = x /\ \A i \in 1 .. x : s[i] = chain[i]
  BY <1>1, SubSeqProperties
<1> HIDE DEF x, s
<1>3. c = Append(s, "frag")
  BY DEF s, x
<1>4. c \in Seq(S \cup {"frag"}) /\ Len(c) = x + 1 /\ c[x + 1] = "frag" /\ \A i \in 1 .. x : c[i] = s[i]
  <2>1. s \in Seq(S \cup {"frag"}) /\ "frag" \in S \cup {"frag"}
    BY <1>2
  <2>2. Append(s, "frag") \in Seq(S \cup {"frag"})
    BY <2>1, AppendProperties
  <2>3. /\ Len(Append(s, "frag")) = Len(s) + 1 /\ Append(s, "frag")[Len(s) + 1] = "frag"
        /\ \A i \in 1 .. Len(s) : Append(s, "frag")[i] = s[i]
    BY <2>1, AppendProperties
  <2> QED
    BY <2>2, <2>3, <1>2, <1>3
<1>5. \A i \in 1 .. (x + 1) : Names(c)[i] = c[i]
  BY <1>1, <1>4, NamesOf
<1>6. Names(c)[x + 1] = "frag" /\ x + 1 \in 1 .. (Len(c) + 1)
  BY <1>1, <1>4, <1>5
<1>7. \A i \in 1 .. ((x + 1) - 1) : IsExt(Names(c)[i])
  BY <1>1, <1>2, <1>4, <1>5
<1>8. ~IsExt("frag")
  BY DEF IsExt
<1>9. Visited(c) = LesserOf(MaxExt, x + 1)
  BY <1>4, <1>6, <1>7, <1>8, VisitedIs
<1>10. x + 1 \in 1 .. Visited(c)
  BY <1>1, <1>9, UnitsAssumption DEF LesserOf
<1> QED
  BY <1>4, <1>6, <1>10 DEF HasFragmentHeader, x

(* What the reassembler finds in the piece at `at`.                        *)
FoundAt(k, fixed, len, chunk, at) ==
  LET n == LesserOf(chunk, len - at)
  IN  [key |-> k, at |-> at, more |-> at + n < len, len |-> n, hlen |-> fixed * Unit]

AllFound(k, fixed, len, chunk) ==
  {FoundAt(k, fixed, len, chunk, at) : at \in Starts(len, chunk)}

LEMMA V6Pieces ==
  ASSUME NEW k, NEW d \in V6Grams, NEW s \in Sizes, fragment_v6(d, s) # {}
  PROVE  LET fixed == Fixed(d.chain)
             len   == Fragmentable(d)
             chunk == Chunk(s, fixed * Unit + Unit)
         IN  /\ chunk # 0 /\ ~(len <= chunk) /\ ~TooWide(0, len)
             /\ V6Wire(k, d, s) = AllFound(k, fixed, len, chunk)
<1> DEFINE fixed == Fixed(d.chain)
           len   == Fragmentable(d)
           chunk == Chunk(s, fixed * Unit + Unit)
           c     == Append(SubSeq(d.chain, 1, fixed), "frag")
           n(at) == LesserOf(chunk, len - at)
           piece(at) == [chain |-> c, at |-> at, len |-> n(at), more |-> at + n(at) < len]
           Q == fragment_v6(d, s)
<1>1. d.chain \in Seq(STRING)
  BY GramsAssumption
<1>2. Q = IF \/ HasFragmentHeader(d.chain) \/ TooDeep(d.chain)
             \/ chunk = 0 \/ len <= chunk \/ TooWide(0, len)
          THEN {} ELSE {piece(at) : at \in Starts(len, chunk)}
  BY DEF fragment_v6
<1>3. HasFragmentHeader(c) /\ Len(c) = fixed + 1 /\ fixed \in Nat
  BY <1>1, HeaderReached, FixedWithin
<1>4. V6Wire(k, d, s) = {V6Found(k, f) : f \in {g \in Q : HasFragmentHeader(g.chain)}}
  BY DEF V6Wire
<1>5. chunk # 0 /\ ~(len <= chunk) /\ ~TooWide(0, len)
  BY <1>2
<1>6. Q = {piece(at) : at \in Starts(len, chunk)}
  BY <1>2
<1> HIDE DEF Q, c, fixed, len, chunk
<1>7. \A g \in Q : HasFragmentHeader(g.chain)
  BY <1>3, <1>6
<1>8. {g \in Q : HasFragmentHeader(g.chain)} = Q
  BY <1>7
<1>9. \A at : V6Found(k, piece(at)) = FoundAt(k, fixed, len, chunk, at)
  <2>1. (fixed + 1) - 1 = fixed
    BY <1>3
  <2> QED
    BY <2>1, <1>3 DEF V6Found, FoundAt
<1> HIDE DEF n, piece
<1>10. V6Wire(k, d, s) = {V6Found(k, piece(at)) : at \in Starts(len, chunk)}
  BY <1>4, <1>6, <1>8
<1>11. V6Wire(k, d, s) = {FoundAt(k, fixed, len, chunk, at) : at \in Starts(len, chunk)}
  BY <1>9, <1>10
<1> QED
  BY <1>5, <1>11 DEF AllFound, fixed, len, chunk

LEMMA V6Cut ==
  ASSUME NEW k \in V6Keys, NEW d \in V6Grams, NEW s \in Sizes, fragment_v6(d, s) # {}
  PROVE  /\ Cut(V6Wire(k, d, s), k, Fixed(d.chain) * Unit, Fragmentable(d))
         /\ Fitting(V6Wire(k, d, s), Fixed(d.chain) * Unit, Fragmentable(d))
<1> DEFINE fixed == Fixed(d.chain)
           len   == Fragmentable(d)
           h     == fixed * Unit
           chunk == Chunk(s, fixed * Unit + Unit)
           P     == V6Wire(k, d, s)
           F(at) == FoundAt(k, fixed, len, chunk, at)
           n(at) == LesserOf(chunk, len - at)
<1>1. d.chain \in Seq(STRING) /\ d.body \in Nat /\ s \in Nat /\ Unit \in Nat \ {0}
  BY GramsAssumption, UnitsAssumption
<1>2. fixed \in Nat /\ fixed <= Len(d.chain) /\ Len(d.chain) \in Nat
  BY <1>1, FixedWithin
<1>3. h \in Nat /\ h + Unit \in Nat
  <2> HIDE DEF fixed
  <2> QED
    BY <1>1, <1>2
<1>4. len \in Nat
  <2>1. len = (Len(d.chain) - fixed) * Unit + d.body
    BY DEF Fragmentable
  <2>2. Len(d.chain) - fixed \in Nat
    BY <1>2
  <2> DEFINE q == Len(d.chain) - fixed
  <2> HIDE DEF q
  <2>3. q * Unit \in Nat
    BY <2>2, <1>1 DEF q
  <2> QED
    BY <2>1, <2>3, <1>1 DEF q
<1>5. chunk \in Nat /\ chunk % Unit = 0 /\ (chunk > 0 => h + Unit + chunk <= MaxLength)
  BY <1>1, <1>3, ChunkFits
<1>6. /\ chunk # 0 /\ ~(len <= chunk) /\ ~TooWide(0, len)
      /\ P = {F(at) : at \in Starts(len, chunk)}
  <2>1. /\ chunk # 0 /\ ~(len <= chunk) /\ ~TooWide(0, len)
        /\ P = AllFound(k, fixed, len, chunk)
    BY V6Pieces
  <2> QED
    BY <2>1 DEF AllFound
<1>7. \A at : F(at) = [key |-> k, at |-> at, more |-> at + n(at) < len, len |-> n(at), hlen |-> h]
  BY DEF FoundAt
<1> HIDE DEF fixed, len, h, chunk, P, F, n
<1>8. chunk > 0 /\ len > chunk /\ (len - 1) \div Unit <= MaxOffset
  <2>1. len - 1 \in Nat
    BY <1>4, <1>5, <1>6
  <2>2. (len - 1) \div Unit \in Nat /\ MaxOffset \in Nat
    BY <2>1, <1>1, UnitsAssumption, Division
  <2> QED
    BY <2>2, <1>4, <1>5, <1>6 DEF TooWide
<1>9. ASSUME NEW at \in Starts(len, chunk)
      PROVE  /\ at \in Nat /\ n(at) \in Nat /\ 0 < n(at) /\ n(at) <= chunk /\ at + n(at) <= len
             /\ at % Unit = 0 /\ at \div Unit <= MaxOffset
  <2>1. Chopped(len, chunk, at, n(at))
    BY <1>4, <1>5, <1>8, ChopWithin DEF n
  <2>2. at \in Nat /\ at \div Unit <= (len - 1) \div Unit /\ len - 1 \in Nat
    BY <2>1, <1>4, <1>5, <1>8 DEF Chopped
  <2>3. at \div Unit \in Nat /\ (len - 1) \div Unit \in Nat /\ MaxOffset \in Nat
    BY <2>2, <1>1, UnitsAssumption, Division
  <2> QED
    BY <2>1, <2>2, <2>3, <1>8 DEF Chopped
<1>10. ASSUME NEW o \in 0 .. (len - 1)
       PROVE  \E at \in Starts(len, chunk) : at <= o /\ o < at + n(at)
  BY <1>4, <1>5, <1>8, ChopCovers DEF n
<1>11. \A at \in Starts(len, chunk) :
         /\ F(at) \in P /\ F(at).key = k /\ F(at).at = at /\ F(at).len = n(at) /\ F(at).hlen = h
         /\ F(at).more = (at + n(at) < len)
  BY <1>6, <1>7
<1>12. \A f \in P : \E at \in Starts(len, chunk) : f = F(at)
  BY <1>6
<1>13. MaxLength \in Int /\ MaxDatagram = MaxLength
  BY SameLimit, UnitsAssumption DEF MaxLength
<1>14. ASSUME NEW f \in P
       PROVE  /\ f.key = k
              /\ f.at + f.len <= len /\ (f.more <=> f.at + f.len < len)
              /\ f.hlen = h
              /\ f.len > 0
              /\ f.at % Unit = 0 /\ f.at \div Unit <= MaxOffset
              /\ f.hlen + f.len <= MaxDatagram
              /\ f.hlen + Unit + f.len <= MaxDatagram
  <2>1. PICK at \in Starts(len, chunk) : f = F(at)
    BY <1>12
  <2>2. /\ f.key = k /\ f.at = at /\ f.len = n(at) /\ f.hlen = h
        /\ f.more = (at + n(at) < len)
    BY <2>1, <1>11
  <2>3. /\ at \in Nat /\ n(at) \in Nat /\ 0 < n(at) /\ n(at) <= chunk /\ at + n(at) <= len
        /\ at % Unit = 0 /\ at \div Unit <= MaxOffset
    BY <1>9
  <2>4. h + Unit + n(at) <= MaxDatagram /\ h + n(at) <= MaxDatagram
    BY <2>3, <1>1, <1>3, <1>5, <1>8, <1>13
  <2> QED
    BY <2>2, <2>3, <2>4
<1>15. ASSUME NEW o \in 0 .. (len - 1)
       PROVE  \E f \in P : o \in Claim(f) /\ f.at <= o /\ o < f.at + f.len /\ f.at \in Nat /\ f.len \in Nat
  <2>1. PICK at \in Starts(len, chunk) : at <= o /\ o < at + n(at)
    BY <1>10
  <2>2. at \in Nat /\ n(at) \in Nat
    BY <1>9
  <2>3. F(at) \in P /\ F(at).at = at /\ F(at).len = n(at)
    BY <1>11
  <2>4. o \in at .. (at + n(at) - 1)
    BY <2>1, <2>2, <1>4
  <2> QED
    BY <2>1, <2>2, <2>3, <2>4 DEF Claim
<1>16. \E f \in P : f.at = 0
  <2>1. 0 \in 0 .. (len - 1)
    BY <1>4, <1>5, <1>8
  <2>2. PICK f \in P : f.at <= 0 /\ f.at \in Nat
    BY <2>1, <1>15
  <2> QED
    BY <2>2
<1>17. \E f \in P : ~f.more
  <2>1. len - 1 \in 0 .. (len - 1)
    BY <1>4, <1>5, <1>8
  <2>2. PICK f \in P : len - 1 < f.at + f.len /\ f.at \in Nat /\ f.len \in Nat
    BY <2>1, <1>15
  <2>3. ~(f.at + f.len < len)
    BY <2>2, <1>4
  <2> QED
    BY <2>3, <1>14
<1>18. \A f \in P : IsFragment(f)
  BY <1>14 DEF IsFragment
<1>19. Cut(P, k, h, len)
  BY <1>3, <1>4, <1>14, <1>15, <1>16, <1>17, <1>18 DEF Cut
<1>20. Fitting(P, h, len)
  BY <1>14 DEF Fitting
<1> QED
  BY <1>19, <1>20 DEF P, h, len, fixed

----------------------------------------------------------------------------
(* The pieces on the wire, and what they make of FragReassembler.          *)
LEMMA InitWire == RTInit => WireOK
<1> SUFFICES ASSUME RTInit PROVE WireOK
  OBVIOUS
<1>1. ASSUME NEW k \in Keys \ V6Keys, NEW d \in V4Grams, NEW s \in Sizes, NEW t \in Sizes,
             Travels(V4Wire(k, d, s, t), d.hlen, d.len)
      PROVE  WireOK
  <2>1. wire = V4Wire(k, d, s, t) /\ header = d.hlen /\ payload = d.len
    BY <1>1 DEF Travels
  <2>2. V4Wire(k, d, s, t) \subseteq Frames
    <3>1. V4Wire(k, d, s, t) \in V4Wires
      BY DEF V4Wires
    <3> QED
      BY <3>1, PiecesAssumption DEF Pieces
  <2>3. Cut(wire, k, header, payload) /\ Fitting(wire, header, payload)
    BY <2>1, V4Cut
  <2> QED
    BY <2>1, <2>2, <2>3 DEF WireOK
<1>2. ASSUME NEW k \in V6Keys, NEW d \in V6Grams, NEW s \in Sizes, fragment_v6(d, s) # {},
             Travels(V6Wire(k, d, s), Fixed(d.chain) * Unit, Fragmentable(d))
      PROVE  WireOK
  <2>1. wire = V6Wire(k, d, s) /\ header = Fixed(d.chain) * Unit /\ payload = Fragmentable(d)
    BY <1>2 DEF Travels
  <2>2. V6Wire(k, d, s) \subseteq Frames
    <3>1. V6Wire(k, d, s) \in V6Wires
      BY DEF V6Wires
    <3> QED
      BY <3>1, PiecesAssumption DEF Pieces
  <2>3. Cut(wire, k, header, payload) /\ Fitting(wire, header, payload)
    BY <2>1, <1>2, V6Cut
  <2>4. k \in Keys
    BY KeysAssumption
  <2> QED
    BY <2>1, <2>2, <2>3, <2>4 DEF WireOK
<1> QED
  BY <1>1, <1>2 DEF RTInit

LEMMA WireStays ==
  WireOK /\ [RTNext]_<<vars, header, payload, wire>> => WireOK'
<1> SUFFICES ASSUME WireOK, [RTNext]_<<vars, header, payload, wire>> PROVE WireOK'
  OBVIOUS
<1>1. wire' = wire /\ header' = header /\ payload' = payload
  BY DEF RTNext
<1> QED
  BY <1>1 DEF WireOK

LEMMA FeedsReassembler ==
  WireOK /\ [RTNext]_<<vars, header, payload, wire>> => [Next]_vars
<1> SUFFICES ASSUME WireOK, RTNext PROVE Next
  BY DEF vars
<1>1. wire \subseteq Frames
  BY DEF WireOK
<1> QED
  BY <1>1 DEF RTNext, Next

(* The pieces on the wire never change.                                    *)
LEMMA WireHolds == RTSpec => []WireOK
<1>1. RTInit => WireOK
  BY InitWire
<1>2. WireOK /\ [RTNext]_<<vars, header, payload, wire>> => WireOK'
  BY WireStays
<1> QED
  BY <1>1, <1>2, PTL DEF RTSpec

(* The composition is a behaviour of the reassembler, so all that is       *)
(* proved of it holds here (frag.rs, `defragment` fed what `fragment`      *)
(* returned).                                                              *)
THEOREM RoundTripFeedsReassembler == RTSpec => Spec
<1>1. RTInit => Init
  BY DEF RTInit
<1>2. WireOK /\ [RTNext]_<<vars, header, payload, wire>> => [Next]_vars
  BY FeedsReassembler
<1> QED
  BY <1>1, <1>2, WireHolds, PTL DEF RTSpec, Spec

(* Every piece that `fragment` makes, of whatever datagram and fragsize,   *)
(* is one its headers can describe (frag.rs, fragment_v4, fragment_v6).    *)
THEOREM PiecesAlwaysDescribable == RTSpec => []PiecesDescribable
<1>1. WireOK => PiecesDescribable
  <2> SUFFICES ASSUME WireOK, NEW f \in wire
               PROVE  /\ header + payload <= MaxDatagram \/ Cardinality(wire) > 1
                           => f.hlen + f.len <= MaxDatagram
                      /\ f.at % Unit = 0 /\ f.at \div Unit <= MaxOffset
                      /\ f.more <=> f.at + f.len < payload
                      /\ f.key \in V6Keys => f.hlen + Unit + f.len <= MaxDatagram
    BY DEF PiecesDescribable
  <2>1. PICK k \in Keys : Cut(wire, k, header, payload)
    BY DEF WireOK
  <2>2. f.more <=> f.at + f.len < payload
    BY <2>1 DEF Cut
  <2>3. Fitting(wire, header, payload)
    BY DEF WireOK
  <2>4. /\ f.at % Unit = 0 /\ f.at \div Unit <= MaxOffset
        /\ f.key \in V6Keys => f.hlen + Unit + f.len <= MaxDatagram
    BY <2>3 DEF Fitting
  <2>5. ASSUME header + payload <= MaxDatagram \/ Cardinality(wire) > 1
        PROVE  f.hlen + f.len <= MaxDatagram
    <3>1. CASE \A e \in wire : e.hlen + e.len <= MaxDatagram
      BY <3>1
    <3>2. ASSUME NEW g \in wire, wire = {g}, g.hlen = header, g.len = payload
          PROVE  f.hlen + f.len <= MaxDatagram
      <4>1. Cardinality(wire) = 1 /\ f = g
        BY <3>2, FS_Singleton
      <4> QED
        BY <4>1, <3>2, <2>5
    <3> QED
      BY <3>1, <3>2, <2>3 DEF Fitting
  <2> QED
    BY <2>2, <2>4, <2>5
<1> QED
  BY <1>1, WireHolds, PTL

----------------------------------------------------------------------------
(* The datagram comes back.                                                *)

(* A group fed only pieces of the datagram, once complete, is it.          *)
LEMMA CompleteIsWhole ==
  ASSUME NEW P, NEW k, NEW h, NEW n, Cut(P, k, h, n),
         NEW inp \in Seq(Frames), \A i \in 1 .. Len(inp) : inp[i] \in P,
         NEW g, GroupTrue(g, k, inp), Complete(g)
  PROVE  g.len = n /\ g.head.hlen = h /\ inp[g.head.from + 1].hlen = h
<1> DEFINE of == Of(g.at)
<1>1. /\ Gathered(g.at, k, inp) /\ Headed(g.head, of, inp) /\ Ended(g.total, of, inp)
      /\ Ranged(g.got, g.len, of, inp)
  BY DEF GroupTrue
<1>2. /\ Len(inp) \in Nat
      /\ \A q \in of : q \in Nat /\ q < Len(inp) /\ inp[q + 1] \in Frames
  BY <1>1, OfCapture
<1>3. \A q \in of : inp[q + 1] \in P
  <2>1. \A q \in of : q + 1 \in 1 .. Len(inp)
    BY <1>2
  <2> QED
    BY <2>1
<1>4. \A q \in of : inp[q + 1].at \in Nat /\ inp[q + 1].len \in Nat
  BY <1>2, FrameFields
<1> HIDE DEF of
<1>5. g.head # NoHead /\ g.total # NoTotal /\ g.got = {[lo |-> 0, hi |-> g.total]}
  BY DEF Complete
<1>6. PICK z \in of : First(z, Zeros(of, inp)) /\ g.head = [from |-> z, hlen |-> inp[z + 1].hlen]
  BY <1>1, <1>5 DEF Headed
<1>7. inp[z + 1].at = 0
  BY <1>6 DEF First, Zeros
<1>8. inp[z + 1].hlen = h
  BY <1>3, <1>6, <1>7 DEF Cut
<1>9. PICK l \in of : First(l, Lasts(of, inp)) /\ g.total = EndOf(inp[l + 1])
  BY <1>1, <1>5 DEF Ended
<1>10. ~inp[l + 1].more
  BY <1>9 DEF First, Lasts
<1>11. n \in Nat /\ \A q \in of : EndOf(inp[q + 1]) \in Nat /\ EndOf(inp[q + 1]) <= n
  BY <1>3, <1>4 DEF Cut, EndOf
<1>12. g.total = n
  <2>1. inp[l + 1].more <=> EndOf(inp[l + 1]) < n
    BY <1>3, <1>9 DEF Cut, EndOf
  <2> QED
    BY <2>1, <1>9, <1>10, <1>11
<1>13. g.len \in Nat /\ g.total <= g.len
  <2>1. [lo |-> 0, hi |-> g.total] \in g.got
    BY <1>5
  <2>2. [lo |-> 0, hi |-> g.total].hi <= g.len
    BY <2>1, <1>1 DEF Ranged
  <2> QED
    BY <2>2, <1>1 DEF Ranged
<1>14. g.len <= n
  <2>1. g.len = 0 \/ \E p \in of : EndOf(inp[p + 1]) = g.len
    BY <1>1 DEF Ranged
  <2> QED
    BY <2>1, <1>11
<1> QED
  BY <1>6, <1>8, <1>11, <1>12, <1>13, <1>14

(* While every piece that came is held, they have not all come: the group  *)
(* would have been complete.                                               *)
LEMMA HeldIsUnfinished ==
  ASSUME HInv, WireOK, input \in Seq(wire), Absorbed, AllArrived
  PROVE  FALSE
<1>1. PICK k \in Keys : Cut(wire, k, header, payload)
  BY DEF WireOK
<1>2. /\ payload \in Nat
      /\ \A f \in wire : /\ f.key = k
                         /\ f.at + f.len <= payload /\ (f.more <=> f.at + f.len < payload)
      /\ \A o \in 0 .. (payload - 1) : \E f \in wire : o \in Claim(f)
  BY <1>1 DEF Cut
<1>3. PICK f0 \in wire : f0.at = 0
  BY <1>1 DEF Cut
<1>4. PICK f1 \in wire : ~f1.more
  BY <1>1 DEF Cut
<1>5. input \in Seq(Frames) /\ wire \subseteq Frames
  BY DEF HInv, History, WireOK
<1>6. Len(input) \in Nat /\ \A i \in 1 .. Len(input) : input[i] \in wire
  BY LenProperties, ElementOfSeq
<1>7. ASSUME NEW f \in wire
      PROVE  k \in Live /\ \E p \in Of(groups[k].at) : input[p + 1] = f
  <2>1. PICK p \in 0 .. (MaxFrags - 1) : p < Len(input) /\ input[p + 1] = f
    BY DEF AllArrived, Frame
  <2>2. p \in 0 .. (Len(input) - 1) /\ p < MaxFrags
    BY <2>1, <1>6, BoundsAssumption
  <2>3. PICK j \in Live : (\A e \in wire : e.key = j) /\ p \in Of(groups[j].at)
    BY <2>2 DEF Absorbed
  <2>4. j = k
    BY <2>3, <1>2
  <2> QED
    BY <2>1, <2>3, <2>4
<1> DEFINE g  == groups[k]
           of == Of(g.at)
<1>8. GroupTrue(g, k, input) /\ ~Complete(g)
  BY <1>3, <1>7 DEF HInv, History, Live
<1>9. /\ \A q \in of : q \in Nat /\ q < Len(input) /\ input[q + 1] \in Frames
  BY <1>5, <1>8, OfCapture DEF GroupTrue
<1>10. \A q \in of : input[q + 1] \in wire
  <2>1. \A q \in of : q + 1 \in 1 .. Len(input)
    BY <1>6, <1>9
  <2> QED
    BY <2>1, <1>6
<1>11. \A f \in wire : \E p \in of : input[p + 1] = f
  BY <1>7
<1> HIDE DEF g, of
<1>12. \A q \in of : EndOf(input[q + 1]) \in Nat /\ EndOf(input[q + 1]) <= payload
  <2>1. \A q \in of : input[q + 1].at \in Nat /\ input[q + 1].len \in Nat
    BY <1>9, FrameFields
  <2> QED
    BY <2>1, <1>2, <1>10 DEF EndOf
<1>13. PICK z \in of : input[z + 1].at = 0
  BY <1>3, <1>11
<1>14. PICK l \in Lasts(of, input) : \A q \in Lasts(of, input) : l <= q
  <2>1. Lasts(of, input) \subseteq Nat /\ Lasts(of, input) # {}
    BY <1>4, <1>9, <1>11 DEF Lasts
  <2> QED
    BY <2>1, LeastNatural
<1>15. l \in of /\ ~input[l + 1].more /\ First(l, Lasts(of, input))
  BY <1>14 DEF Lasts, First
<1>16. EndOf(input[l + 1]) = payload
  <2>1. input[l + 1].more <=> EndOf(input[l + 1]) < payload
    BY <1>2, <1>10, <1>15 DEF EndOf
  <2> QED
    BY <2>1, <1>2, <1>12, <1>15
<1>17. \A o \in 0 .. (payload - 1) : \E q \in of : o \in Claim(input[q + 1])
  <2> SUFFICES ASSUME NEW o \in 0 .. (payload - 1)
               PROVE  \E q \in of : o \in Claim(input[q + 1])
    OBVIOUS
  <2>1. PICK f \in wire : o \in Claim(f)
    BY <1>2
  <2> QED
    BY <2>1, <1>11
<1>18. Complete(g)
  <2>1. \A q \in of : EndOf(input[q + 1]) <= EndOf(input[l + 1])
    BY <1>12, <1>16
  <2>2. \A o \in 0 .. (EndOf(input[l + 1]) - 1) : \E q \in of : o \in Claim(input[q + 1])
    BY <1>16, <1>17
  <2> QED
    BY <2>1, <2>2, <1>5, <1>8, <1>13, <1>15, FinishedIsComplete DEF of
<1> QED
  BY <1>8, <1>18

(* A group holds no more fragments than have come.                         *)
LEMMA HoldsWhatCame ==
  ASSUME NEW inp \in Seq(Frames), NEW at, NEW k, Gathered(at, k, inp)
  PROVE  Len(at) <= Len(inp)
<1> DEFINE n == Len(at)
           m == Len(inp)
<1>1. n \in Nat /\ m \in Nat
  BY LenProperties DEF Gathered
<1>2. at \in [1 .. n -> 0 .. (m - 1)]
  <2>1. at \in [1 .. n -> Nat]
    BY LenProperties DEF Gathered
  <2>2. \A i \in 1 .. n : at[i] < m
    BY DEF Gathered
  <2> HIDE DEF n, m
  <2> QED
    BY <2>1, <2>2, <1>1
<1>3. \A i, j \in 1 .. n : i < j => at[i] < at[j]
  BY DEF Gathered
<1> HIDE DEF n, m
<1>4. /\ IsFiniteSet(1 .. n) /\ Cardinality(1 .. n) = n
      /\ IsFiniteSet(0 .. (m - 1)) /\ Cardinality(0 .. (m - 1)) = m
  <2>1. /\ IsFiniteSet(1 .. n) /\ Cardinality(1 .. n) = IF 1 > n THEN 0 ELSE n - 1 + 1
        /\ IsFiniteSet(0 .. (m - 1))
        /\ Cardinality(0 .. (m - 1)) = IF 0 > m - 1 THEN 0 ELSE (m - 1) - 0 + 1
    BY <1>1, FS_Interval
  <2> QED
    BY <2>1, <1>1
<1>5. ASSUME m < n PROVE FALSE
  <2>1. PICK i, j \in 1 .. n : i # j /\ at[i] = at[j]
    BY <1>2, <1>4, <1>5, FS_PigeonHole
  <2>2. at[i] \in Int /\ at[j] \in Int
    BY <1>2
  <2>3. i < j \/ j < i
    BY <2>1, <1>1
  <2> QED
    BY <2>1, <2>2, <2>3, <1>3
<1> QED
  BY <1>1, <1>5 DEF n, m

(* A fragment leaves its group true to the longer capture.                 *)
LEMMA FedInCapture ==
  ASSUME HInv, WireOK, NEW f \in wire, PushFragment(f)
  PROVE  GroupTrue(Fed(GroupFor(f.key), f, Len(input)), f.key, Append(input, f))
<1> DEFINE k    == f.key
           old  == GroupFor(k)
           new  == Fed(old, f, Len(input))
           next == Append(input, f)
           G    == Put(groups, k, new)
<1>1. History(groups, out, input) /\ f \in Frames
  BY DEF HInv, WireOK
<1>2. Len(old.at) < MaxFrags
  BY DEF PushFragment
<1>3. old = IF k \in DOMAIN groups THEN groups[k] ELSE NewGroup(seq)
  BY DEF GroupFor, Live
<1>4. History(G, out, next)
  <2> HIDE DEF old
  <2> QED
    BY <1>1, <1>2, <1>3, TakeHistory
<1>5. k \in DOMAIN G /\ G[k] = new
  BY DEF Put
<1> HIDE DEF k, new, next, G
<1>6. GroupTrue(new, k, next)
  BY <1>4, <1>5 DEF History
<1> QED
  BY <1>6 DEF k, new, next

(* Every piece of O is still in O2.                                        *)
Kept(O, O2) == \A i \in 1 .. Len(O) : \E j \in 1 .. Len(O2) : O2[j] = O[i]

LEMMA JoinKeeps ==
  ASSUME NEW O, NEW E, IsSeq(O), IsSeq(E)
  PROVE  Kept(O, O \o E)
<1>1. Longer(O, E, O \o E)
  BY Joined
<1>2. \A i \in 1 .. Len(O) : i \in 1 .. Len(O \o E) /\ (O \o E)[i] = O[i]
  BY <1>1 DEF Longer
<1> QED
  BY <1>2 DEF Kept

LEMMA SortKeeps ==
  ASSUME NEW G, NEW O, NEW inp, History(G, O, inp)
  PROVE  Kept(O, Sorted(O))
<1> DEFINE n    == Len(O)
           keys == [i \in 1 .. n |-> O[i].at]
           O2   == SortedBy(O, keys)
<1>1. n \in Nat
  BY SeqOfItself DEF History, IsSeq
<1>2. \A i \in 1 .. n : O[i].at \in Int
  BY DEF History, PieceTrue
<1>3. keys \in [1 .. n -> Int]
  BY <1>2
<1>4. Sorted(O) = O2
  BY DEF Sorted
<1> HIDE DEF keys
<1>5. Len(keys) = n
  BY <1>1, <1>3, FunctionSeq
<1>6. PICK f, g : Resorted(O, keys, n, f, g, O2)
  <2>1. Len(O) = n
    OBVIOUS
  <2> HIDE DEF n
  <2> QED
    BY <2>1, <1>1, <1>3, <1>5, SortPermutes
<1>7. Len(O2) = n
  <2> DEFINE S == {O2[r] : r \in 1 .. n}
  <2>1. O2 = [r \in 1 .. n |-> O2[r]]
    BY DEF SortedBy
  <2> HIDE DEF O2
  <2>2. O2 \in [1 .. n -> S]
    BY <2>1
  <2> HIDE DEF S
  <2> QED
    BY <2>2, <1>1, FunctionSeq
<1> HIDE DEF O2
<1>8. \A i \in 1 .. n : f[i] \in 1 .. n /\ O2[f[i]] = O[i]
  BY <1>6 DEF Resorted
<1>9. Kept(O, O2)
  BY <1>7, <1>8 DEF Kept
<1> QED
  BY <1>4, <1>9

LEMMA SpillIsSeq ==
  ASSUME HInv, NEW k \in Live
  PROVE  IsSeq(spill(groups[k]))
<1>1. groups[k].at \in Seq(Nat)
  BY DEF HInv, History, GroupTrue, Gathered, Live
<1> QED
  BY <1>1, SpilledSeq, SpillIsSpilled

(* No step takes a piece back.                                             *)
LEMMA PiecesKept ==
  ASSUME HInv, HInv', WireOK, RTNext
  PROVE  Kept(out, out')
<1>1. IsSeq(out) /\ History(groups, out, input) /\ wire \subseteq Frames
  BY DEF HInv, History, WireOK
<1>2. ASSUME out' = out PROVE Kept(out, out')
  BY <1>2 DEF Kept
<1>3. ASSUME NEW c, out' = Append(out, c) PROVE Kept(out, out')
  <2>1. /\ \A i \in 1 .. Len(out) : i \in 1 .. (Len(out) + 1) /\ Append(out, c)[i] = out[i]
        /\ Len(Append(out, c)) = Len(out) + 1
    BY <1>1, AppendedSeq
  <2> QED
    BY <2>1, <1>3 DEF Kept
<1>4. ASSUME NEW f \in wire, PushFragment(f) PROVE Kept(out, out')
  <2> DEFINE new == Fed(GroupFor(f.key), f, Len(input))
  <2>1. out' = out \/ out' = out \o Assembled(new)
    BY <1>4 DEF PushFragment
  <2> HIDE DEF new
  <2>2. Assembled(new) = spill(new) \/ Assembled(new) = <<CompletePiece(new)>>
    BY DEF Assembled
  <2>3. out \o <<CompletePiece(new)>> = Append(out, CompletePiece(new))
    BY <1>1, JoinsOne
  <2>4. ASSUME out' = out \o spill(new) PROVE Kept(out, out')
    <3>1. new.at \in Seq(Nat)
      <4>1. GroupTrue(new, f.key, Append(input, f))
        BY <1>4, FedInCapture DEF new
      <4> QED
        BY <4>1 DEF GroupTrue, Gathered
    <3>2. IsSeq(spill(new))
      BY <3>1, SpilledSeq, SpillIsSpilled
    <3> QED
      BY <3>2, <2>4, <1>1, JoinKeeps
  <2> QED
    BY <2>1, <2>2, <2>3, <2>4, <1>2, <1>3
<1>5. ASSUME NEW k \in Keys, FinishSpill(k) PROVE Kept(out, out')
  <2>1. k \in Live /\ out' = out \o spill(groups[k])
    BY <1>5 DEF FinishSpill
  <2> QED
    BY <2>1, <1>1, SpillIsSeq, JoinKeeps
<1>6. ASSUME FinishEnd PROVE Kept(out, out')
  BY <1>6, <1>1, SortKeeps DEF FinishEnd
<1>7. ASSUME NEW f \in wire, PushWhole(f) \/ PushRefused(f) PROVE Kept(out, out')
  BY <1>7, <1>3 DEF PushWhole, PushRefused
<1>8. ASSUME EvictEnd \/ Finish PROVE Kept(out, out')
  BY <1>8, <1>2 DEF EvictEnd, Finish
<1> QED
  BY <1>4, <1>5, <1>6, <1>7, <1>8 DEF RTNext

(* What was put back stays.                                                *)
Returned(c, inp, P, h, n) ==
  \/ c.kind = "complete" /\ c.len = n /\ inp[c.head + 1].hlen = h
  \/ c.kind = "whole" /\ \A f \in P : f.len = n

LEMMA PutBackStays ==
  ASSUME HInv, HInv', WireOK, RTNext, PutBack
  PROVE  PutBack'
<1>1. wire' = wire /\ header' = header /\ payload' = payload
  BY DEF RTNext
<1>2. Kept(out, out')
  BY PiecesKept
<1>3. PICK i \in 1 .. Len(out) : Returned(out[i], input, wire, header, payload)
  BY DEF PutBack, Returned, Frame
<1>4. PICK j \in 1 .. Len(out') : out'[j] = out[i]
  BY <1>2 DEF Kept
<1>5. input' = input \/ \E f \in wire : input' = Append(input, f)
  BY DEF RTNext, PushWhole, PushRefused, PushFragment, Pushing, EvictEnd, Finish, FinishSpill,
         FinishEnd
<1>6. input \in Seq(Frames) /\ wire \subseteq Frames /\ PieceTrue(out[i], input)
  BY DEF HInv, History, WireOK
<1>7. ASSUME out[i].kind = "complete"
      PROVE  input'[out[i].head + 1] = input[out[i].head + 1]
  <2>1. PICK k \in Keys : Gathered(out[i].of, k, input)
    BY <1>6, <1>7 DEF PieceTrue, CompleteTrue
  <2>2. out[i].head \in Of(out[i].of)
    BY <1>6, <1>7 DEF PieceTrue, CompleteTrue, First, Zeros
  <2>3. ASSUME NEW f \in wire, input' = Append(input, f)
        PROVE  input'[out[i].head + 1] = input[out[i].head + 1]
    BY <2>1, <2>2, <2>3, <1>6, GatheredStays
  <2> QED
    BY <2>3, <1>5
<1>8. Returned(out'[j], input', wire', header', payload')
  BY <1>1, <1>3, <1>4, <1>7 DEF Returned
<1> QED
  BY <1>8 DEF PutBack, Returned, Frame

(* The last piece of those that came puts the datagram back.               *)
LEMMA PuttingBack ==
  ASSUME NEW c, Returned(c, input', wire', header', payload'), IsSeq(out), out' = Append(out, c)
  PROVE  PutBack'
<1>1. /\ Append(out, c)[Len(out) + 1] = c /\ Len(Append(out, c)) = Len(out) + 1
      /\ Len(out) + 1 \in 1 .. (Len(out) + 1)
  BY AppendedSeq
<1>2. Len(out) + 1 \in 1 .. Len(out') /\ out'[Len(out) + 1] = c
  BY <1>1
<1> QED
  BY <1>2 DEF PutBack, Returned, Frame

(* One fragment of a datagram not yet put back.                            *)
LEMMA AbsorbStep ==
  ASSUME HInv, HInv', WireOK, input \in Seq(wire), header + payload <= MaxDatagram, Absorbed,
         wire' = wire, header' = header, payload' = payload,
         NEW f \in wire, PushFragment(f)
  PROVE  PutBack' \/ Absorbed'
<1> DEFINE k    == f.key
           old  == GroupFor(k)
           new  == Fed(old, f, Len(input))
           next == Append(input, f)
<1>1. /\ IsSeq(out) /\ input \in Seq(Frames) /\ wire \subseteq Frames
      /\ \A j \in DOMAIN groups : GroupTrue(groups[j], j, input)
  BY DEF HInv, History, WireOK
<1>2. PICK kk \in Keys : Cut(wire, kk, header, payload)
  BY DEF WireOK
<1>3. kk = k /\ \A e \in wire : e.key = k
  BY <1>2 DEF Cut
<1>4. GroupTrue(new, k, next)
  BY FedInCapture
<1>5. input' = next /\ Len(input) \in Nat /\ Len(next) = Len(input) + 1 /\ next \in Seq(wire)
  BY AppendProperties, LenProperties DEF PushFragment, Pushing
<1>6. \/ Complete(new) /\ out' = out \o Assembled(new)
      \/ ~Complete(new) /\ groups' = With(k, new)
  BY DEF PushFragment
<1>7. /\ k \in Live => old = groups[k]
      /\ k \notin Live => old = NewGroup(seq)
      /\ new.at = Append(old.at, Len(input))
  BY DEF GroupFor, Fed
<1>8. old.at \in Seq(Nat)
  <2>1. CASE k \in Live
    BY <2>1, <1>1, <1>7 DEF Live, GroupTrue, Gathered
  <2>2. CASE k \notin Live
    <3>1. old.at = <<>>
      BY <2>2, <1>7 DEF NewGroup
    <3> QED
      BY <3>1, EmptySeq
  <2> QED
    BY <2>1, <2>2
<1> HIDE DEF k, old, new, next
<1>9. CASE Complete(new) /\ out' = out \o Assembled(new)
  <2>1. next \in Seq(Frames) /\ \A i \in 1 .. Len(next) : next[i] \in wire
    BY <1>1, <1>5, ElementOfSeq, AppendProperties DEF next
  <2>2. /\ new.len = payload /\ new.head.hlen = header
        /\ next[new.head.from + 1].hlen = header
    BY <2>1, <1>2, <1>3, <1>4, <1>9, CompleteIsWhole
  <2>3. header \in Nat /\ payload \in Nat
    BY <1>2 DEF Cut
  <2>4. Assembled(new) = <<CompletePiece(new)>>
    BY <2>2, <2>3, BoundsAssumption DEF Assembled
  <2>5. out' = Append(out, CompletePiece(new))
    BY <2>4, <1>1, <1>9, JoinsOne
  <2>6. /\ CompletePiece(new).kind = "complete" /\ CompletePiece(new).len = new.len
        /\ CompletePiece(new).head = new.head.from
    BY DEF CompletePiece
  <2>7. Returned(CompletePiece(new), input', wire', header', payload')
    BY <2>2, <2>6, <1>5 DEF Returned
  <2> QED
    BY <2>5, <2>7, <1>1, PuttingBack
<1>10. CASE ~Complete(new) /\ groups' = With(k, new)
  <2>1. k \in DOMAIN groups' /\ groups'[k] = new
    BY <1>10 DEF With
  <2>2. Of(new.at) = Of(old.at) \cup {Len(input)}
    BY <1>5, <1>7, <1>8, OfAppend
  <2>3. ASSUME NEW p \in 0 .. (Len(input') - 1), p < MaxFrags
        PROVE  p \in Of(new.at)
    <3>1. p = Len(input) \/ p \in 0 .. (Len(input) - 1)
      BY <1>5
    <3>2. ASSUME p \in 0 .. (Len(input) - 1) PROVE p \in Of(old.at)
      <4>1. PICK j \in Live : (\A e \in wire : e.key = j) /\ p \in Of(groups[j].at)
        BY <3>2, <2>3 DEF Absorbed
      <4>2. j = k
        BY <4>1 DEF k
      <4> QED
        BY <4>1, <4>2, <1>7
    <3> QED
      BY <3>1, <3>2, <2>2
  <2>4. \A e \in wire' : e.key = k
    BY <1>3
  <2> QED
    BY <2>1, <2>3, <2>4 DEF Absorbed, Live
<1> QED
  BY <1>6, <1>9, <1>10

(* Only the MAX_FRAGS cap refuses a piece.                                 *)
LEMMA RefusedLate ==
  ASSUME HInv, WireOK, header + payload <= MaxDatagram, NEW f \in wire, PushRefused(f)
  PROVE  Len(input) >= MaxFrags
<1> DEFINE k == f.key
<1>1. PICK kk \in Keys : Cut(wire, kk, header, payload)
  BY DEF WireOK
<1>2. /\ f.at + f.len <= payload /\ (f.len > 0 \/ f.at = 0)
      /\ header \in Nat /\ payload \in Nat
  BY <1>1 DEF Cut
<1>3. f.at \in Nat /\ f.len \in Nat
  BY FrameFields DEF WireOK
<1>4. ~OutOfRange(f)
  BY <1>2, <1>3, BoundsAssumption DEF OutOfRange
<1>5. Len(GroupFor(k).at) >= MaxFrags
  BY <1>4 DEF PushRefused
<1>6. k \in Live /\ GroupFor(k) = groups[k]
  <2>1. ASSUME k \notin Live PROVE FALSE
    <3>1. GroupFor(k).at = <<>> /\ Len(<<>>) = 0
      BY <2>1 DEF GroupFor, NewGroup
    <3> QED
      BY <3>1, <1>5, BoundsAssumption
  <2> QED
    BY <2>1 DEF GroupFor
<1>7. Gathered(groups[k].at, k, input) /\ input \in Seq(Frames)
  BY <1>6 DEF HInv, History, GroupTrue, Live
<1>8. Len(groups[k].at) <= Len(input) /\ Len(groups[k].at) \in Nat /\ Len(input) \in Nat
  BY <1>7, HoldsWhatCame, LenProperties DEF Gathered
<1> QED
  BY <1>5, <1>6, <1>8, BoundsAssumption

LEMMA InitRInv == RTInit => RInv
<1> SUFFICES ASSUME RTInit PROVE RInv
  OBVIOUS
<1>1. WireOK
  BY InitWire
<1>2. input = <<>> /\ pc = "idle" /\ Len(<<>>) = 0 /\ <<>> \in Seq(wire)
  BY EmptySeq DEF RTInit, Init
<1>3. \A p \in 0 .. (0 - 1) : FALSE
  OBVIOUS
<1>4. Absorbed
  BY <1>2, <1>3 DEF Absorbed
<1> QED
  BY <1>1, <1>2, <1>4 DEF RInv

LEMMA CaptureStep ==
  ASSUME input \in Seq(wire), RTNext
  PROVE  input' \in Seq(wire')
<1>1. wire' = wire
  BY DEF RTNext
<1>2. input' = input \/ \E f \in wire : input' = Append(input, f)
  BY DEF RTNext, PushWhole, PushRefused, PushFragment, Pushing, EvictEnd, Finish, FinishSpill,
         FinishEnd
<1> QED
  BY <1>1, <1>2, AppendProperties

(* A step of a datagram that could come back and has not yet.              *)
LEMMA WaitingStep ==
  ASSUME HInv, HInv', WireOK, input \in Seq(wire), header + payload <= MaxDatagram, RTNext,
         IF pc \in {"idle", "evict"} THEN Absorbed ELSE ~AllArrived
  PROVE  PutBack' \/ IF pc' \in {"idle", "evict"} THEN Absorbed' ELSE ~AllArrived'
<1>1. wire' = wire /\ header' = header /\ payload' = payload
  BY DEF RTNext
<1>2. IsSeq(out) /\ Len(input) \in Nat
  BY LenProperties DEF HInv, History
<1>3. ASSUME NEW f \in wire, PushWhole(f) PROVE PutBack'
  <2>1. out' = Append(out, Whole(Len(input))) /\ ~IsFragment(f)
    BY <1>3 DEF PushWhole
  <2>2. \A g \in wire : g.len = payload
    BY <2>1 DEF WireOK, Cut
  <2>3. Returned(Whole(Len(input)), input', wire', header', payload')
    BY <2>2, <1>1 DEF Returned, Whole
  <2> QED
    BY <2>1, <2>3, <1>2, PuttingBack
<1>4. ASSUME NEW f \in wire, PushRefused(f) PROVE Absorbed' /\ pc' = "idle"
  <2>1. /\ pc = "idle" /\ pc' = pc /\ groups' = groups /\ input' = Append(input, f)
    BY <1>4 DEF PushRefused, Pushing
  <2>2. Len(input) >= MaxFrags
    BY <1>4, RefusedLate
  <2>3. Len(input') = Len(input) + 1
    BY <2>1, AppendProperties
  <2>4. \A p \in 0 .. (Len(input') - 1) : p < MaxFrags => p \in 0 .. (Len(input) - 1)
    BY <2>2, <2>3, <1>2, BoundsAssumption
  <2>5. Absorbed
    BY <2>1
  <2> QED
    BY <2>1, <2>4, <2>5, <1>1 DEF Absorbed, Live
<1>5. ASSUME NEW f \in wire, PushFragment(f) PROVE pc' = "evict" /\ (PutBack' \/ Absorbed')
  <2>1. pc = "idle" /\ pc' = "evict"
    BY <1>5 DEF PushFragment, Pushing
  <2>2. Absorbed
    BY <2>1
  <2> QED
    BY <2>1, <2>2, <1>1, <1>5, AbsorbStep
<1>6. ASSUME EvictEnd PROVE pc' = "idle" /\ Absorbed'
  <2>1. pc = "evict" /\ pc' = "idle" /\ groups' = groups /\ input' = input
    BY <1>6 DEF EvictEnd
  <2> QED
    BY <2>1, <1>1 DEF Absorbed, Live
<1>7. ASSUME Finish PROVE pc' = "finish" /\ ~AllArrived'
  <2>1. pc = "idle" /\ pc' = "finish" /\ input' = input
    BY <1>7 DEF Finish
  <2>2. Absorbed
    BY <2>1
  <2>3. ~AllArrived
    BY <2>2, HeldIsUnfinished
  <2> QED
    BY <2>1, <2>3, <1>1 DEF AllArrived, Frame
<1>8. ASSUME FinishEnd \/ \E k \in Keys : FinishSpill(k)
      PROVE  pc' \notin {"idle", "evict"} /\ ~AllArrived'
  <2>1. pc = "finish" /\ pc' \in {"finish", "done"} /\ input' = input
    BY <1>8 DEF FinishEnd, FinishSpill
  <2>2. ~AllArrived
    BY <2>1
  <2> QED
    BY <2>1, <2>2, <1>1 DEF AllArrived, Frame
<1> QED
  BY <1>3, <1>4, <1>5, <1>6, <1>7, <1>8 DEF RTNext

LEMMA NextRInv ==
  RInv /\ HInv /\ HInv' /\ [RTNext]_<<vars, header, payload, wire>> => RInv'
<1> SUFFICES ASSUME RInv, HInv, HInv', [RTNext]_<<vars, header, payload, wire>> PROVE RInv'
  OBVIOUS
<1>1. WireOK'
  BY WireStays DEF RInv
<1>2. CASE RTNext
  <2>1. WireOK /\ input \in Seq(wire)
    BY DEF RInv
  <2>2. header' = header /\ payload' = payload
    BY <1>2 DEF RTNext
  <2>3. input' \in Seq(wire')
    BY <2>1, <1>2, CaptureStep
  <2>4. ASSUME header + payload <= MaxDatagram
        PROVE  PutBack' \/ IF pc' \in {"idle", "evict"} THEN Absorbed' ELSE ~AllArrived'
    <3>1. CASE PutBack
      BY <3>1, <2>1, <1>2, PutBackStays
    <3>2. CASE ~PutBack
      <4>1. IF pc \in {"idle", "evict"} THEN Absorbed ELSE ~AllArrived
        BY <3>2, <2>4 DEF RInv
      <4> QED
        BY <4>1, <2>1, <2>4, <1>2, WaitingStep
    <3> QED
      BY <3>1, <3>2
  <2> QED
    BY <2>2, <2>3, <2>4, <1>1 DEF RInv
<1>3. CASE UNCHANGED <<vars, header, payload, wire>>
  BY <1>1, <1>3 DEF RInv, vars, Absorbed, AllArrived, PutBack, Frame, Live
<1> QED
  BY <1>2, <1>3

(* A datagram that a 16-bit length can describe, split by `fragment`, and  *)
(* an IPv4 one split again, comes back from `defragment` once its pieces   *)
(* have arrived, in whatever order and however often, with its own header  *)
(* and length (frag.rs, fragment_v4, fragment_v6, Reassembler::push).      *)
THEOREM RoundTripsAlways == RTSpec => []RoundTrips
<1>1. RTInit => RInv
  BY InitRInv
<1>2. RInv /\ HInv /\ HInv' /\ [RTNext]_<<vars, header, payload, wire>> => RInv'
  BY NextRInv
<1>3. RInv /\ HInv => RoundTrips
  <2> SUFFICES ASSUME RInv, HInv, header + payload <= MaxDatagram, AllArrived PROVE PutBack
    BY DEF RoundTrips
  <2>1. WireOK /\ input \in Seq(wire)
    BY DEF RInv
  <2>2. PutBack \/ Absorbed
    BY DEF RInv
  <2> QED
    BY <2>1, <2>2, HeldIsUnfinished
<1>4. RTSpec => []HInv
  BY RoundTripFeedsReassembler, HistoryHolds, PTL
<1> QED
  BY <1>1, <1>2, <1>3, <1>4, PTL DEF RTSpec
----------------------------------------------------------------------------
(* The eviction loop takes no turn.                                        *)
LEMMA OneGroupStep ==
  OneGroup /\ WireOK /\ IInv /\ [RTNext]_<<vars, header, payload, wire>> => OneGroup'
<1> SUFFICES ASSUME OneGroup, WireOK, IInv, [RTNext]_<<vars, header, payload, wire>>
             PROVE  OneGroup'
  OBVIOUS
<1>1. wire' = wire
  BY DEF RTNext
<1>2. ASSUME DOMAIN groups' \subseteq Live, \A k \in DOMAIN groups' : groups'[k] = groups[k]
      PROVE  OneGroup'
  <2>1. \A k \in DOMAIN groups' : \A f \in wire' : f.key = k
    BY <1>1, <1>2 DEF OneGroup
  <2>2. \A k \in DOMAIN groups' : groups'[k].len <= MaxDatagram
    BY <1>2 DEF OneGroup
  <2> QED
    BY <2>1, <2>2 DEF OneGroup, Live
<1>3. ASSUME groups' = groups PROVE OneGroup'
  BY <1>2, <1>3 DEF Live
<1>4. ASSUME NEW f \in wire, PushFragment(f) PROVE OneGroup'
  <2> DEFINE k   == f.key
             old == GroupFor(k)
             new == Fed(old, f, Len(input))
  <2>1. groups' = Without(k) \/ groups' = With(k, new)
    BY <1>4 DEF PushFragment
  <2>2. CASE groups' = Without(k)
    BY <2>2, <1>2 DEF Without, Live
  <2>3. CASE groups' = With(k, new)
    <3>1. ~(f.at >= MaxDatagram) /\ ~(f.len > MaxDatagram - f.at)
      BY <1>4 DEF PushFragment, OutOfRange
    <3>2. f.at \in Nat /\ f.len \in Nat /\ f \in Frames
      BY FrameFields DEF WireOK
    <3>3. f.at + f.len <= MaxDatagram
      BY <3>1, <3>2, BoundsAssumption
    <3>4. old.len <= MaxDatagram /\ old.len \in Nat
      <4>1. CASE k \in Live
        BY <4>1 DEF OneGroup, GroupFor, IInv, TypeOK
      <4>2. CASE k \notin Live
        <5>1. old.len = 0
          BY <4>2 DEF GroupFor, NewGroup
        <5> QED
          BY <5>1, BoundsAssumption
      <4> QED
        BY <4>1, <4>2
    <3>5. new.len = Larger(old.len, f.at + f.len)
      BY DEF Fed
    <3>6. new.len <= MaxDatagram
      BY <3>3, <3>4, <3>5 DEF Larger
    <3>7. \A e \in wire : e.key = k
      BY DEF WireOK, Cut
    <3> HIDE DEF k, new
    <3>8. /\ DOMAIN groups' = Live \cup {k} /\ groups'[k] = new
          /\ \A j \in Live : j # k => groups'[j] = groups[j]
      BY <2>3 DEF With
    <3>9. \A j \in DOMAIN groups' : (\A e \in wire' : e.key = j) /\ groups'[j].len <= MaxDatagram
      BY <3>6, <3>7, <3>8, <1>1 DEF OneGroup
    <3> QED
      BY <3>9 DEF OneGroup, Live
  <2> QED
    BY <2>1, <2>2, <2>3
<1>5. ASSUME NEW k \in Keys, FinishSpill(k) PROVE OneGroup'
  BY <1>5, <1>2 DEF FinishSpill, Without, Live
<1>6. ASSUME NEW f \in wire, PushWhole(f) \/ PushRefused(f) PROVE OneGroup'
  BY <1>6, <1>3 DEF PushWhole, PushRefused
<1>7. ASSUME EvictEnd \/ Finish \/ FinishEnd \/ UNCHANGED vars PROVE OneGroup'
  BY <1>7, <1>3 DEF EvictEnd, Finish, FinishEnd, vars
<1> QED
  BY <1>4, <1>5, <1>6, <1>7 DEF RTNext

(* One datagram, whatever its size, is within MAX_INFLIGHT and             *)
(* MAX_BUFFERED: evict (frag.rs) never drops a group while its pieces come. *)
THEOREM NeverEvicts == RTSpec => [](pc = "evict" => ~OverLimit)
<1>1. RTInit => OneGroup
  <2> SUFFICES ASSUME RTInit PROVE OneGroup
    OBVIOUS
  <2>1. Live = {}
    BY DEF RTInit, Init, Live
  <2> QED
    BY <2>1 DEF OneGroup
<1>2. OneGroup /\ WireOK /\ IInv /\ [RTNext]_<<vars, header, payload, wire>> => OneGroup'
  BY OneGroupStep
<1>3. OneGroup /\ WireOK /\ IInv => (pc = "evict" => ~OverLimit)
  <2> SUFFICES ASSUME OneGroup, WireOK, IInv, pc = "evict" PROVE ~OverLimit
    OBVIOUS
  <2>1. PICK f \in wire : TRUE
    BY DEF WireOK, Cut
  <2> DEFINE k == f.key
  <2>2. \A j \in Live : j = k
    BY <2>1 DEF OneGroup
  <2>3. buffered = Cardinality(HeldOctets)
    BY DEF IInv, BufferedExact
  <2>4. /\ MaxInflight \in Nat /\ MaxInflight >= 1
        /\ MaxDatagram \in Nat /\ MaxBuffered \in Nat /\ MaxBuffered >= MaxDatagram
    BY BoundsAssumption, RoomForOne
  <2>5. CASE Live = {}
    <3>1. HeldOctets = {}
      BY <2>5 DEF HeldOctets
    <3>2. Cardinality(Live) = 0 /\ Cardinality(HeldOctets) = 0
      BY <3>1, <2>5, FS_EmptySet
    <3> QED
      BY <3>2, <2>3, <2>4 DEF OverLimit
  <2>6. CASE Live # {}
    <3>1. Live = {k}
      BY <2>2, <2>6
    <3>2. Cardinality(Live) = 1
      BY <3>1, FS_Singleton
    <3>3. groups[k].len \in Nat /\ groups[k].len <= MaxDatagram
      BY <3>1 DEF IInv, TypeOK, OneGroup
    <3>4. HeldOctets = Share(k, groups[k].len)
      BY <3>1 DEF HeldOctets, Share
    <3>5. Cardinality(HeldOctets) = groups[k].len
      BY <3>3, <3>4, ShareSize
    <3> QED
      BY <3>2, <3>3, <3>5, <2>3, <2>4 DEF OverLimit
  <2> QED
    BY <2>5, <2>6
<1>4. RTSpec => []IInv
  BY RoundTripFeedsReassembler, InvariantHolds, PTL
<1> QED
  BY <1>1, <1>2, <1>3, <1>4, WireHolds, PTL DEF RTSpec
=============================================================================
