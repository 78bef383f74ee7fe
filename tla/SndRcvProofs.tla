---------------------------- MODULE SndRcvProofs ----------------------------
(***************************************************************************)
(* Proofs about SndRcv, for any packets, replies, sockets and calls.       *)
(*                                                                         *)
(* None of the three invariants is inductive.  What carries them is the    *)
(* place of every packet of a round: not yet recorded, and then nothing    *)
(* has answered it; recorded and waiting in hsent, and then nothing has    *)
(* either; or answered.  Recording and pairing move a packet from one to   *)
(* the next, in whichever order the two threads get there, and the         *)
(* counters are the sizes of those parts.                                  *)
(***************************************************************************)
EXTENDS SndRcv, FiniteSetTheorems, FunctionTheorems, SequenceTheorems,
        WellFoundedInduction, TLAPS

Entry == [pkt : Packets, answered : BOOLEAN]

(* Where the two threads can be.                                           *)
CallerPlaces ==
  {"round", "sending", "poll", "scan", "settle", "close", "join", "tally",
   "returned", "raised"}
SenderPlaces ==
  {"next", "send", "batch", "fin", "fin2", "settle", "wait", "done"}

(* The types of the state, and where one thread is when the other waits    *)
(* for it.                                                                 *)
Typed ==
  /\ opt \in Options /\ pc \in CallerPlaces /\ spc \in SenderPlaces
  /\ tobesent \in Seq(Packets) /\ si \in Nat \ {0} /\ sentn \in Nat
  /\ hsent \in Seq(Entry) /\ notans \in Nat /\ noans \in Nat
  /\ sendDone \in BOOLEAN /\ failed \in BOOLEAN /\ interrupted \in BOOLEAN
  /\ ans \in [Packets -> Nat] /\ skipped \subseteq Packets
  /\ queue \in [Socks -> Seq(Replies)] /\ live \subseteq Socks
  /\ todo \subseteq Socks

Joined ==
  /\ pc \in {"round", "tally", "returned"} => spc = "done"
  /\ ~Background /\ pc \notin {"sending", "raised"} => spc = "done"
  /\ Background => pc # "sending"

(* hsent and tobesent speak of the same round.                             *)
InRound == pc \notin {"round", "returned"}

(* The packets of tobesent the sender has come past.                       *)
Past(i) == IF Flooding THEN i <= Len(hsent) ELSE i < si \/ (i = si /\ spc # "next")

(* No packet is twice in a list.                                           *)
Distinct ==
  /\ \A i, j \in DOMAIN tobesent : tobesent[i] = tobesent[j] => i = j
  /\ \A j, k \in DOMAIN hsent : hsent[j].pkt = hsent[k].pkt => j = k

(* What is recorded is what the sender has come past; a flood records in   *)
(* order and loses nothing, so its length says how far it came.            *)
FromRound ==
  /\ InRound => \A k \in DOMAIN hsent : \E i \in DOMAIN tobesent :
                  Past(i) /\ hsent[k].pkt = tobesent[i]
  /\ InRound /\ Flooding => /\ Len(hsent) <= Len(tobesent)
                            /\ \A k \in DOMAIN hsent : hsent[k].pkt = tobesent[k]
  /\ Flooding => Len(hsent) >= si - 1 /\ (spc = "send" => Len(hsent) >= si)

(* The three places of a packet of this round.                             *)
Unpaired ==
  /\ \A i \in DOMAIN tobesent : (InRound => ~Past(i)) => ans[tobesent[i]] = 0
  /\ InRound => \A k \in DOMAIN hsent : hsent[k].answered <=> ans[hsent[k].pkt] > 0
  /\ ~Keeps => /\ \A k \in DOMAIN hsent : ~hsent[k].answered
               /\ \A p \in Packets : ans[p] <= 1

(* No packet of the call is forgotten.                                     *)
Accounted ==
  \A p \in Packets :
    ans[p] > 0 \/ p \in skipped \/ \E k \in DOMAIN tobesent : tobesent[k] = p

Answered == {k \in DOMAIN hsent : hsent[k].answered}

(* The counters against the lists.  A send that fails, or one the user     *)
(* interrupts, leaves a packet recorded and not counted.                   *)
Whole == ~failed /\ ~interrupted
Counted ==
  /\ ~Keeps /\ Whole =>
       Len(hsent) + noans = IF spc = "send" THEN sentn + 1 ELSE sentn
  /\ Flooding => noans = Cardinality(Answered)
  /\ spc = "batch" => Flooding
  /\ sendDone => spc \in {"settle", "wait", "done"}
  /\ (spc = "fin2" \/ sendDone) /\ Whole =>
       notans = IF Flooding THEN Len(hsent) ELSE sentn

IInv ==
  /\ Typed /\ Joined /\ Distinct /\ FromRound /\ Unpaired /\ Accounted /\ Counted
-----------------------------------------------------------------------------
(* The lists.                                                              *)

LEMMA SeqDomain ==
  ASSUME NEW S, NEW s \in Seq(S)
  PROVE  /\ Len(s) \in Nat /\ DOMAIN s = 1 .. Len(s)
         /\ \A k \in DOMAIN s : s[k] \in S
BY LenProperties

(* remove: the entries before k stay, those after it move up by one.       *)
LEMMA RemoveAtProperties ==
  ASSUME NEW S, NEW s \in Seq(S), NEW k \in DOMAIN s
  PROVE  /\ RemoveAt(s, k) \in Seq(S) /\ Len(RemoveAt(s, k)) = Len(s) - 1
         /\ \A j \in 1 .. Len(s) - 1 :
              RemoveAt(s, k)[j] = IF j < k THEN s[j] ELSE s[j + 1]
<1> DEFINE a == SubSeq(s, 1, k - 1)
           b == SubSeq(s, k + 1, Len(s))
<1>0. Len(s) \in Nat /\ k \in 1 .. Len(s) /\ \A i \in 1 .. Len(s) : s[i] \in S
  BY SeqDomain
<1>1. /\ a \in Seq(S) /\ Len(a) = k - 1
      /\ \A i \in 1 .. k - 1 : a[i] = s[i]
  <2>1. \A i \in 1 .. k - 1 : s[i] \in S
    BY <1>0
  <2>2. /\ a \in Seq(S) /\ Len(a) = IF 1 <= k - 1 THEN (k - 1) - 1 + 1 ELSE 0
        /\ \A i \in 1 .. (k - 1) - 1 + 1 : a[i] = s[1 + i - 1]
    BY <1>0, <2>1, SubSeqProperties
  <2> QED
    BY <1>0, <2>2
<1>2. /\ b \in Seq(S) /\ Len(b) = Len(s) - k
      /\ \A i \in 1 .. Len(s) - k : b[i] = s[k + i]
  <2>1. \A i \in k + 1 .. Len(s) : s[i] \in S
    BY <1>0
  <2>2. /\ b \in Seq(S) /\ Len(b) = IF k + 1 <= Len(s) THEN Len(s) - (k + 1) + 1 ELSE 0
        /\ \A i \in 1 .. Len(s) - (k + 1) + 1 : b[i] = s[(k + 1) + i - 1]
    BY <1>0, <2>1, SubSeqProperties
  <2> QED
    BY <1>0, <2>2
<1> HIDE DEF a, b
<1>3. /\ a \o b \in Seq(S) /\ Len(a \o b) = Len(a) + Len(b)
      /\ \A i \in 1 .. Len(a) + Len(b) :
           (a \o b)[i] = IF i <= Len(a) THEN a[i] ELSE b[i - Len(a)]
  BY <1>1, <1>2, ConcatProperties
<1>4. RemoveAt(s, k) = a \o b
  BY DEF RemoveAt, a, b
<1>5. ASSUME NEW j \in 1 .. Len(s) - 1
      PROVE  (a \o b)[j] = IF j < k THEN s[j] ELSE s[j + 1]
  <2>0. Len(a) = k - 1 /\ Len(b) = Len(s) - k
    BY <1>1, <1>2
  <2>1. CASE j < k
    <3>1. j \in 1 .. Len(a) + Len(b) /\ j <= Len(a) /\ j \in 1 .. k - 1
      BY <1>0, <2>0, <2>1
    <3>2. (a \o b)[j] = a[j] /\ a[j] = s[j]
      BY <1>1, <1>3, <3>1
    <3> QED
      BY <2>1, <3>2
  <2>2. CASE ~(j < k)
    <3>0. j \in 1 .. Len(a) + Len(b) /\ ~(j <= Len(a)) /\ j - (k - 1) \in 1 .. Len(s) - k
      <4>1. Len(a) + Len(b) = Len(s) - 1
        BY <1>0, <2>0
      <4>2. k \in Nat /\ j \in Nat /\ 1 <= k /\ k <= j /\ j <= Len(s) - 1
        BY <1>0, <2>2
      <4>3. j - (k - 1) \in 1 .. Len(s) - k /\ ~(j <= k - 1)
        BY <1>0, <4>2
      <4> QED
        BY <2>0, <4>1, <4>3
    <3>1. (a \o b)[j] = b[j - (k - 1)]
      BY <1>1, <1>3, <3>0
    <3>2. b[j - (k - 1)] = s[k + (j - (k - 1))]
      BY <1>2, <3>0
    <3>3. k + (j - (k - 1)) = j + 1
      BY <1>0
    <3> QED
      BY <2>2, <3>1, <3>2, <3>3
  <2> QED
    BY <2>1, <2>2
<1>6. Len(a \o b) = Len(s) - 1
  BY <1>0, <1>1, <1>2, <1>3
<1> QED
  BY <1>3, <1>4, <1>5, <1>6

(* A non-empty set of positions has a least one.                           *)
LEMMA SomeLeast ==
  ASSUME NEW S, S \subseteq Nat, S # {}
  PROVE  \E x \in S : \A y \in S : x <= y
<1>1. PICK x \in S : \A y \in S : ~ (<<y, x>> \in OpToRel(<, Nat))
  BY NatLessThanWellFounded, WFMin
<1>2. \A y \in S : ~ (y < x)
  BY <1>1 DEF OpToRel
<1> QED
  BY <1>2

(* Filtering: the positions of S, each once.                               *)
Enumerates(f, n, S) ==
  /\ f \in [1 .. n -> S]
  /\ \A i, j \in 1 .. n : f[i] = f[j] => i = j
  /\ \A k \in S : \E i \in 1 .. n : f[i] = k

LEMMA InOrderEnumerates ==
  ASSUME NEW n \in Nat, NEW S, S \subseteq 1 .. n
  PROVE  Cardinality(S) \in Nat /\ Enumerates(InOrder(S), Cardinality(S), S)
<1> DEFINE c == Cardinality(S)
           Upto(k) == {j \in S : j <= k}
           rank == [k \in S |-> Cardinality(Upto(k))]
<1>1. IsFiniteSet(S) /\ c \in Nat /\ \A k \in S : k \in Nat
  <2>1. IsFiniteSet(1 .. n)
    BY FS_Interval
  <2>2. IsFiniteSet(S)
    BY <2>1, FS_Subset
  <2>3. c \in Nat
    BY <2>2, FS_CardinalityType
  <2> QED
    BY <2>2, <2>3
<1>2. ASSUME NEW k \in S
      PROVE  IsFiniteSet(Upto(k)) /\ Cardinality(Upto(k)) \in 1 .. c
  <2>1. IsFiniteSet(Upto(k)) /\ Cardinality(Upto(k)) <= c
    BY <1>1, FS_Subset
  <2>2. Cardinality(Upto(k)) \in Nat
    BY <2>1, FS_CardinalityType
  <2>3. k \in Upto(k)
    BY <1>1
  <2>4. Cardinality(Upto(k)) # 0
    BY <2>1, <2>3, FS_EmptySet
  <2> QED
    BY <1>1, <2>1, <2>2, <2>4
<1>3. ASSUME NEW j \in S, NEW k \in S, j < k
      PROVE  rank[j] < rank[k]
  <2>0. j \in Nat /\ k \in Nat /\ \A i \in S : i \in Nat
    BY <1>1
  <2>1. Upto(j) \in SUBSET Upto(k) /\ k \in Upto(k) /\ k \notin Upto(j)
    <3>1. k \in Upto(k) /\ k \notin Upto(j)
      BY <1>3, <2>0
    <3>2. \A i \in S : i <= j => i <= k
      BY <1>3, <2>0
    <3> QED
      BY <3>1, <3>2
  <2>2. Cardinality(Upto(j)) <= Cardinality(Upto(k)) /\ Upto(j) # Upto(k)
    BY <1>2, <2>1, FS_Subset
  <2>3. Cardinality(Upto(j)) # Cardinality(Upto(k))
    BY <1>2, <2>1, <2>2, FS_Subset
  <2>4. Cardinality(Upto(j)) \in Nat /\ Cardinality(Upto(k)) \in Nat
    BY <1>2
  <2> HIDE DEF Upto
  <2> QED
    BY <2>2, <2>3, <2>4
<1>4. rank \in [S -> 1 .. c] /\ \A j, k \in S : rank[j] = rank[k] => j = k
  <2>1. rank \in [S -> 1 .. c]
    BY <1>2
  <2>2. ASSUME NEW j \in S, NEW k \in S, rank[j] = rank[k], j # k
        PROVE  FALSE
    <3>1. rank[j] \in Nat /\ rank[k] \in Nat /\ (j < k \/ k < j)
      BY <1>1, <2>1, <2>2
    <3> HIDE DEF rank
    <3>2. rank[j] < rank[k] \/ rank[k] < rank[j]
      BY <1>3, <3>1
    <3> QED
      BY <2>2, <3>1, <3>2
  <2> QED
    BY <2>1, <2>2
<1>5. IsFiniteSet(1 .. c) /\ Cardinality(1 .. c) = c
  <2>1. IsFiniteSet(1 .. c) /\ Cardinality(1 .. c) = IF 1 > c THEN 0 ELSE c - 1 + 1
    BY <1>1, FS_Interval
  <2> QED
    BY <1>1, <2>1
<1> HIDE DEF rank
<1>6. \A i \in 1 .. c : \E k \in S : rank[k] = i
  <2>1. rank \in Injection(S, 1 .. c)
    BY <1>4 DEF Injection, IsInjective
  <2>2. rank \in Surjection(S, 1 .. c)
    BY <1>1, <1>5, <2>1, FS_Injection
  <2> QED
    BY <2>2 DEF Surjection
<1> DEFINE f == [i \in 1 .. c |-> CHOOSE k \in S : rank[k] = i]
           Rising(g) == \A i, j \in DOMAIN g : i < j => g[i] < g[j]
<1>7. f \in [1 .. c -> S] /\ \A i \in 1 .. c : rank[f[i]] = i
  BY <1>6
<1> HIDE DEF f
<1>8. Rising(f)
  <2>1. ASSUME NEW i \in DOMAIN f, NEW j \in DOMAIN f, i < j
        PROVE  f[i] < f[j]
    <3>1. /\ f[i] \in S /\ f[j] \in S /\ rank[f[i]] = i /\ rank[f[j]] = j
          /\ i \in Nat /\ j \in Nat
      BY <1>1, <1>7
    <3>3. f[i] \in Nat /\ f[j] \in Nat
      BY <1>1, <3>1
    <3>2. f[j] # f[i] /\ ~(f[j] < f[i])
      <4>1. f[j] # f[i]
        BY <2>1, <3>1
      <4>2. f[j] < f[i] => rank[f[j]] < rank[f[i]]
        BY <1>3, <3>1
      <4> QED
        BY <2>1, <3>1, <4>1, <4>2
    <3> QED
      BY <3>1, <3>2, <3>3
  <2> QED
    BY <2>1
<1> DEFINE g == InOrder(S)
<1>9. g \in [1 .. c -> S] /\ Rising(g)
  BY <1>7, <1>8 DEF InOrder
<1> HIDE DEF g
<1>10. \A i, j \in 1 .. c : g[i] = g[j] => i = j
  <2>1. ASSUME NEW i \in 1 .. c, NEW j \in 1 .. c, g[i] = g[j], i # j
        PROVE  FALSE
    <3>1. i \in Nat /\ j \in Nat /\ g[i] \in Nat /\ g[j] \in Nat
      <4>1. g[i] \in S /\ g[j] \in S /\ i \in Nat /\ j \in Nat
        BY <1>9
      <4> QED
        BY <1>1, <4>1
    <3>2. g[i] < g[j] \/ g[j] < g[i]
      BY <1>9, <2>1, <3>1
    <3> QED
      BY <2>1, <3>1, <3>2
  <2> QED
    BY <2>1
<1>11. \A k \in S : \E i \in 1 .. c : g[i] = k
  <2>1. g \in Injection(1 .. c, S)
    BY <1>9, <1>10 DEF Injection, IsInjective
  <2>2. g \in Surjection(1 .. c, S)
    BY <1>1, <1>5, <2>1, FS_Injection
  <2> QED
    BY <2>2 DEF Surjection
<1> QED
  BY <1>1, <1>9, <1>10, <1>11 DEF Enumerates, g

-----------------------------------------------------------------------------
(* _match: whichever packet it names, it is one that waits and that the    *)
(* reply answers.                                                          *)
LEMMA GroupOfWaits ==
  ASSUME Typed, NEW k \in Waiting
  PROVE  GroupOf(k) \in Nat
<1> DEFINE G == {i \in Waiting : Link[hsent[i].pkt] = Link[hsent[k].pkt]}
<1>1. Waiting \subseteq Nat
  BY SeqDomain DEF Typed, Waiting
<1>2. G \subseteq Nat /\ k \in G
  BY <1>1
<1>3. PICK j \in G : \A i \in G : j <= i
  BY <1>2, SomeLeast
<1>4. \E j1 \in Waiting :
        /\ Link[hsent[j1].pkt] = Link[hsent[k].pkt]
        /\ \A i \in Waiting : Link[hsent[i].pkt] = Link[hsent[k].pkt] => j1 <= i
  BY <1>3
<1>5. GroupOf(k) \in Waiting
  BY <1>4, Zenon DEF GroupOf
<1> QED
  BY <1>1, <1>5

LEMMA MatchHits ==
  ASSUME Typed, NEW r, Hits(r) # {}
  PROVE  Match(r) \in Hits(r)
<1> DEFINE H == Hits(r)
           gs == {GroupOf(k) : k \in H}
           Before(k, j) == GroupOf(k) < GroupOf(j) \/ (GroupOf(k) = GroupOf(j) /\ k <= j)
<1>1. H \subseteq Waiting /\ Waiting \subseteq Nat /\ \A k \in H : GroupOf(k) \in Nat
  <2>1. H \subseteq Waiting
    BY DEF Hits
  <2>2. Waiting \subseteq Nat
    BY SeqDomain DEF Typed, Waiting
  <2> QED
    BY <2>1, <2>2, GroupOfWaits
<1> HIDE DEF H
<1>2. gs \subseteq Nat /\ gs # {}
  BY <1>1 DEF H
<1>3. PICK m \in gs : \A x \in gs : m <= x
  BY <1>2, SomeLeast
<1> DEFINE M == {k \in H : GroupOf(k) = m}
<1>4. M \subseteq Nat /\ M # {}
  BY <1>1, <1>3
<1>5. PICK k \in M : \A j \in M : k <= j
  BY <1>4, SomeLeast
<1>6. ASSUME NEW j \in H
      PROVE  Before(k, j)
  <2>1. GroupOf(k) = m /\ m <= GroupOf(j) /\ m \in Nat /\ GroupOf(j) \in Nat
    BY <1>1, <1>2, <1>3, <1>5
  <2>2. GroupOf(j) = m => k <= j
    BY <1>5
  <2> QED
    BY <2>1, <2>2
<1>7. \E x \in H : \A j \in H : Before(x, j)
  BY <1>5, <1>6
<1> QED
  BY <1>7, Zenon DEF Match, H

-----------------------------------------------------------------------------
(* The first round.                                                        *)
LEMMA InitIInv == Init => IInv
<1> SUFFICES ASSUME Init
             PROVE  IInv
  OBVIOUS
<1> USE DEF Init
<1>e. hsent \in Seq(Entry) /\ Len(hsent) = 0 /\ DOMAIN hsent = {}
  BY EmptySeq
<1>o. Order \in [1 .. Len(Order) -> Packets] /\ Len(Order) \in Nat /\ DOMAIN Order = 1 .. Len(Order)
  BY PacketsAssumption, SeqDomain
<1>1. Typed
  <2>1. queue \in [Socks -> Seq(Replies)]
    BY EmptySeq
  <2>2. ans \in [Packets -> Nat]
    OBVIOUS
  <2>3. tobesent \in Seq(Packets)
    BY PacketsAssumption
  <2>4. /\ opt \in Options /\ pc \in CallerPlaces /\ spc \in SenderPlaces
    BY DEF CallerPlaces, SenderPlaces
  <2>5. si \in Nat \ {0} /\ sentn \in Nat /\ notans \in Nat /\ noans \in Nat
    OBVIOUS
  <2>6. /\ sendDone \in BOOLEAN /\ failed \in BOOLEAN /\ interrupted \in BOOLEAN
        /\ skipped \subseteq Packets /\ todo \subseteq Socks /\ live \subseteq Socks
    BY Zenon
  <2> QED
    BY <1>e, <2>1, <2>2, <2>3, <2>4, <2>5, <2>6 DEF Typed
<1>2. Joined
  BY DEF Joined
<1>3. Distinct
  <2>1. \A i, j \in DOMAIN Order : Order[i] = Order[j] => i = j
    <3>1. Order \in Surjection(1 .. Len(Order), Packets)
      BY <1>o, PacketsAssumption DEF Surjection
    <3>2. IsFiniteSet(1 .. Len(Order)) /\ Cardinality(1 .. Len(Order)) = Len(Order)
      <4>0. 1 \in Int /\ Len(Order) \in Int
        BY <1>o
      <4>1. /\ IsFiniteSet(1 .. Len(Order))
            /\ Cardinality(1 .. Len(Order)) = IF 1 > Len(Order) THEN 0 ELSE Len(Order) - 1 + 1
        BY ONLY <4>0, FS_Interval
      <4> QED
        BY <1>o, <4>1
    <3>3. Order \in Injection(1 .. Len(Order), Packets)
      BY <3>1, <3>2, PacketsAssumption, FS_Surjection
    <3> QED
      BY <1>o, <3>3 DEF Injection, IsInjective
  <2> QED
    BY <1>e, <2>1 DEF Distinct
<1>4. FromRound
  BY <1>e DEF FromRound, InRound
<1>5. Unpaired
  <2>1. \A i \in DOMAIN tobesent : ans[tobesent[i]] = 0
    BY <1>o
  <2> QED
    BY <1>e, <2>1 DEF Unpaired, InRound
<1>6. Accounted
  BY PacketsAssumption DEF Accounted
<1>7. Counted
  <2>1. Answered = {}
    BY <1>e DEF Answered
  <2> QED
    BY <1>e, <2>1, FS_EmptySet DEF Counted
<1> QED
  BY <1>1, <1>2, <1>3, <1>4, <1>5, <1>6, <1>7 DEF IInv

-----------------------------------------------------------------------------
(* Steps that leave the lists alone.  The sender may come past more        *)
(* packets; it comes past none without recording it.                       *)
Lists == <<opt, tobesent, hsent, ans, skipped>>

LEMMA ListsStay ==
  ASSUME IInv, UNCHANGED Lists, InRound' <=> InRound,
         InRound => \A i \in DOMAIN tobesent : Past(i) => Past(i)',
         Flooding => Len(hsent) >= si' - 1 /\ (spc' = "send" => Len(hsent) >= si')
  PROVE  Distinct' /\ FromRound' /\ Unpaired' /\ Accounted'
<1> USE DEF Lists
<1>1. Distinct'
  BY DEF IInv, Distinct
<1>2. FromRound'
  <2>1. (Flooding' <=> Flooding) /\ UNCHANGED <<hsent, tobesent>>
    BY DEF Flooding
  <2>2. FromRound
    BY DEF IInv
  <2>3. InRound' => \A k \in DOMAIN hsent : \E i \in DOMAIN tobesent :
                      Past(i)' /\ hsent[k].pkt = tobesent[i]
    BY <2>2 DEF FromRound
  <2>4. InRound' /\ Flooding' => /\ Len(hsent) <= Len(tobesent)
                                 /\ \A k \in DOMAIN hsent : hsent[k].pkt = tobesent[k]
    BY <2>1, <2>2 DEF FromRound
  <2> QED
    BY <2>1, <2>3, <2>4 DEF FromRound
<1>3. Unpaired'
  <2>1. (Keeps' <=> Keeps) /\ UNCHANGED <<hsent, tobesent, ans>>
    BY DEF Keeps, Flooding
  <2>2. Unpaired
    BY DEF IInv
  <2>3. \A i \in DOMAIN tobesent : (InRound' => ~Past(i)') => ans[tobesent[i]] = 0
    BY <2>2 DEF Unpaired
  <2> QED
    BY <2>1, <2>2, <2>3 DEF Unpaired
<1>4. Accounted'
  BY DEF IInv, Accounted
<1> QED
  BY <1>1, <1>2, <1>3, <1>4

(* Steps of the caller, the network and the user that leave the sender and *)
(* the counters alone too.                                                 *)
Counters == <<spc, si, sentn, notans, noans, sendDone, failed>>

LEMMA QuietStep ==
  ASSUME IInv, UNCHANGED Lists, UNCHANGED Counters, InRound' <=> InRound,
         interrupted => interrupted', Joined',
         pc' \in CallerPlaces, interrupted' \in BOOLEAN,
         queue' \in [Socks -> Seq(Replies)], live' \subseteq Socks, todo' \subseteq Socks
  PROVE  IInv'
<1> USE DEF Lists, Counters
<1>1. Typed'
  BY DEF IInv, Typed
<1>2. Distinct' /\ FromRound' /\ Unpaired' /\ Accounted'
  <2>1. \A i \in DOMAIN tobesent : Past(i) => Past(i)'
    BY DEF Past, Flooding
  <2>2. Flooding => Len(hsent) >= si' - 1 /\ (spc' = "send" => Len(hsent) >= si')
    BY DEF IInv, FromRound
  <2> QED
    BY <2>1, <2>2, ListsStay
<1>3. Counted'
  <2>1. /\ Keeps' <=> Keeps
        /\ Flooding' <=> Flooding
        /\ Answered' = Answered
        /\ Whole' => Whole
    BY DEF Keeps, Flooding, Answered, Whole
  <2> QED
    BY <2>1 DEF IInv, Counted
<1> QED
  BY <1>1, <1>2, <1>3 DEF IInv

LEMMA CallerQuiet ==
  ASSUME IInv,
         \/ AllSent \/ Poll \/ ReceiverSettles \/ EndScan \/ StopSender
         \/ JoinSender \/ Interrupt \/ Deadline
  PROVE  IInv'
<1> USE DEF Lists, Counters, roundVars, senderVars, netVars, loopVars, callVars,
            CallerPlaces, Receiving
<1>1. Typed /\ Joined
  BY DEF IInv
<1>2. UNCHANGED Lists /\ UNCHANGED Counters /\ UNCHANGED queue
  BY DEF AllSent, Poll, ReceiverSettles, EndScan, StopSender, JoinSender, Interrupt,
         Deadline
<1>3. Background' <=> Background
  BY <1>2 DEF Background, Flooding
<1>4. /\ live' \subseteq Socks /\ todo' \subseteq Socks /\ pc' \in CallerPlaces
      /\ interrupted' \in BOOLEAN /\ (interrupted => interrupted')
      /\ InRound' <=> InRound
  <2>1. CASE Poll
    <3>1. live \subseteq Socks
      BY <1>1 DEF Typed
    <3> QED
      BY <1>1, <2>1, <3>1 DEF Poll, Typed, InRound
  <2>2. CASE AllSent \/ ReceiverSettles \/ EndScan \/ StopSender \/ JoinSender \/ Interrupt
             \/ Deadline
    BY <1>1, <2>2 DEF AllSent, ReceiverSettles, EndScan, StopSender, JoinSender,
                      Interrupt, Deadline, Typed, InRound
  <2> QED
    BY <2>1, <2>2
<1>5. Joined'
  BY <1>1, <1>2, <1>3 DEF AllSent, Poll, ReceiverSettles, EndScan, StopSender, JoinSender,
        Interrupt, Deadline, Joined
<1> QED
  BY <1>1, <1>2, <1>4, <1>5, QuietStep DEF Typed

(* What arrives, is read and is passed over, and a socket that ends.       *)
LEMMA NetQuiet ==
  ASSUME IInv, NEW s \in Socks,
         \/ ReceiveNothing(s) \/ SocketEnds(s) \/ SocketRaises(s) \/ End(s)
         \/ \E r \in Replies : Arrive(s, r)
  PROVE  IInv'
<1> USE DEF Lists, Counters, roundVars, senderVars, netVars, loopVars, callVars,
            CallerPlaces
<1>1. Typed /\ Joined
  BY DEF IInv
<1>2. UNCHANGED Lists /\ UNCHANGED Counters /\ UNCHANGED interrupted
  BY DEF ReceiveNothing, SocketEnds, SocketRaises, End, Arrive
<1>3. Background' <=> Background
  BY <1>2 DEF Background, Flooding
<1>4. /\ live' \subseteq Socks /\ todo' \subseteq Socks /\ pc' \in CallerPlaces
      /\ InRound' <=> InRound
  BY <1>1 DEF ReceiveNothing, SocketEnds, SocketRaises, End, Arrive, Typed, InRound
<1>5. queue' \in [Socks -> Seq(Replies)]
  <2>0. queue \in [Socks -> Seq(Replies)]
    BY <1>1 DEF Typed
  <2>1. CASE ReceiveNothing(s)
    <3>1. Tail(queue[s]) \in Seq(Replies)
      BY <2>0, <2>1, HeadTailProperties DEF ReceiveNothing
    <3> QED
      BY <2>0, <2>1, <3>1 DEF ReceiveNothing
  <2>2. ASSUME NEW r \in Replies, Arrive(s, r)
        PROVE  queue' \in [Socks -> Seq(Replies)]
    <3>1. Append(queue[s], r) \in Seq(Replies)
      BY <2>0, AppendProperties
    <3> QED
      BY <2>0, <2>2, <3>1 DEF Arrive
  <2>3. CASE SocketEnds(s) \/ SocketRaises(s) \/ End(s)
    BY <2>0, <2>3 DEF SocketEnds, SocketRaises, End
  <2> QED
    BY <2>1, <2>2, <2>3
<1>6. Joined'
  BY <1>1, <1>2, <1>3 DEF ReceiveNothing, SocketEnds, SocketRaises, End, Arrive, Joined
<1> QED
  BY <1>1, <1>2, <1>4, <1>5, <1>6, QuietStep DEF Typed

-----------------------------------------------------------------------------
(* The sender's steps that record nothing.                                 *)
LEMMA SenderMoves ==
  ASSUME IInv,
         \/ SendAgain \/ Send \/ Exhausted \/ Batch \/ SendFails \/ CountSent
         \/ PublishDone \/ SenderSettles \/ SenderWaits \/ InterruptSending
  PROVE  /\ UNCHANGED Lists /\ UNCHANGED <<noans, queue, live, todo>>
         /\ Typed' /\ Joined' /\ InRound /\ InRound'
<1> USE DEF Lists, roundVars, senderVars, netVars, loopVars, callVars
<1>1. Typed /\ Joined
  BY DEF IInv
<1>2. UNCHANGED Lists /\ UNCHANGED <<noans, queue, live, todo>>
  BY DEF SendAgain, Send, Exhausted, Batch, SendFails, CountSent, PublishDone,
         SenderSettles, SenderWaits, InterruptSending
<1>3. (Background' <=> Background) /\ (Flooding' <=> Flooding)
  BY <1>2 DEF Background, Flooding
<1>4. opt \in Options /\ opt.maxretries \in Nat /\ FloodPasses \in Nat \ {0}
  BY <1>1, OptionsAssumption DEF Typed
<1>5. Len(hsent) \in Nat /\ Len(tobesent) \in Nat
  BY <1>1, LenProperties DEF Typed
<1>6. spc # "done" /\ InRound
  BY <1>1 DEF SendAgain, Send, Exhausted, Batch, SendFails, AtRecord, CountSent, PublishDone,
         SenderSettles, SenderWaits, InterruptSending, Joined, InRound
<1>7. pc' \in CallerPlaces /\ spc' \in SenderPlaces /\ InRound'
  <2>1. CASE InterruptSending
    BY <2>1 DEF InterruptSending, CallerPlaces, SenderPlaces, InRound
  <2>2. CASE ~InterruptSending
    <3>1. pc' = pc
      BY <2>2 DEF SendAgain, Send, Exhausted, Batch, SendFails, CountSent, PublishDone,
           SenderSettles, SenderWaits
    <3>2. spc' \in SenderPlaces
      BY <1>1, <2>2 DEF SendAgain, Send, Exhausted, Batch, SendFails, CountSent, PublishDone,
           SenderSettles, SenderWaits, SenderPlaces
    <3> QED
      BY <1>1, <1>6, <3>1, <3>2 DEF Typed, InRound
  <2> QED
    BY <2>1, <2>2
<1>8. si' \in Nat \ {0} /\ sentn' \in Nat /\ notans' \in Nat
  <2>0. si \in Nat \ {0} /\ sentn \in Nat /\ notans \in Nat
    BY <1>1 DEF Typed
  <2>1. CASE Send \/ SendAgain \/ Exhausted
    BY <2>0, <2>1 DEF Send, SendAgain, Exhausted
  <2>2. CASE Batch
    BY <1>4, <2>0, <2>2 DEF Batch
  <2>3. CASE SendFails \/ CountSent \/ PublishDone \/ SenderSettles \/ SenderWaits
             \/ InterruptSending
    BY <1>5, <2>0, <2>3 DEF SendFails, CountSent, PublishDone, SenderSettles, SenderWaits,
                            InterruptSending
  <2> QED
    BY <2>1, <2>2, <2>3
<1>9. sendDone' \in BOOLEAN /\ failed' \in BOOLEAN /\ interrupted' \in BOOLEAN
  BY <1>1 DEF SendAgain, Send, Exhausted, Batch, SendFails, CountSent, PublishDone,
         SenderSettles, SenderWaits, InterruptSending, Typed
<1>10. Typed'
  BY <1>1, <1>2, <1>7, <1>8, <1>9 DEF Typed
<1>11. Joined'
  BY <1>1, <1>3 DEF SendAgain, Send, Exhausted, Batch, SendFails, AtRecord, CountSent, PublishDone,
         SenderSettles, SenderWaits, InterruptSending, Joined
<1> QED
  BY <1>2, <1>6, <1>7, <1>10, <1>11

LEMMA SenderIInv ==
  ASSUME IInv,
         \/ SendAgain \/ Send \/ Exhausted \/ Batch \/ SendFails \/ CountSent
         \/ PublishDone \/ SenderSettles \/ SenderWaits \/ InterruptSending
  PROVE  IInv'
<1>1. /\ UNCHANGED Lists /\ UNCHANGED <<noans, queue, live, todo>>
      /\ Typed' /\ Joined' /\ InRound /\ InRound' /\ Typed
  BY SenderMoves DEF IInv
<1>2. /\ Flooding' <=> Flooding
      /\ Keeps' <=> Keeps
      /\ Answered' = Answered
      /\ UNCHANGED <<hsent, noans, tobesent>>
  BY <1>1 DEF Lists, Flooding, Keeps, Answered
<1>3. /\ Len(hsent) \in Nat /\ Len(tobesent) \in Nat /\ DOMAIN tobesent = 1 .. Len(tobesent)
      /\ si \in Nat \ {0} /\ sentn \in Nat
  BY <1>1, SeqDomain DEF Typed
<1>4. \A i \in DOMAIN tobesent : Past(i) => Past(i)'
  <2>1. CASE Flooding
    BY <1>2, <2>1 DEF Past
  <2>2. CASE ~Flooding
    <3>1. CASE Send
      BY <1>2, <1>3, <2>2, <3>1 DEF Send, Past
    <3>2. CASE Exhausted
      BY <1>2, <1>3, <2>2, <3>2 DEF Exhausted, Past, Flooding
    <3>3. CASE \/ SendAgain \/ Batch \/ SendFails \/ CountSent \/ PublishDone
               \/ SenderSettles \/ SenderWaits \/ InterruptSending
      <4>1. si' = si /\ spc' # "next"
        BY <3>3 DEF SendAgain, Batch, SendFails, CountSent, PublishDone, SenderSettles,
                    SenderWaits, InterruptSending
      <4> QED
        BY <1>2, <2>2, <4>1 DEF Past
    <3> QED
      BY <3>1, <3>2, <3>3
  <2> QED
    BY <2>1, <2>2
<1>5. Flooding => Len(hsent) >= si' - 1 /\ (spc' = "send" => Len(hsent) >= si')
  <2> SUFFICES ASSUME Flooding
               PROVE  Len(hsent) >= si' - 1 /\ (spc' = "send" => Len(hsent) >= si')
    OBVIOUS
  <2>1. Len(hsent) >= si - 1 /\ (spc = "send" => Len(hsent) >= si)
    BY DEF IInv, FromRound
  <2>2. CASE Send
    BY <1>3, <2>1, <2>2 DEF Send
  <2>3. CASE SendAgain
    BY <1>3, <2>1, <2>3 DEF SendAgain, NeedsRecord
  <2>4. CASE Exhausted
    BY <1>3, <2>1, <2>4 DEF Exhausted
  <2>5. CASE \/ Batch \/ SendFails \/ CountSent \/ PublishDone
             \/ SenderSettles \/ SenderWaits \/ InterruptSending
    <3>1. si' = si /\ spc' # "send"
      BY <2>5 DEF Batch, SendFails, CountSent, PublishDone, SenderSettles,
                  SenderWaits, InterruptSending
    <3> QED
      BY <2>1, <3>1
  <2> QED
    BY <2>2, <2>3, <2>4, <2>5
<1>6. Distinct' /\ FromRound' /\ Unpaired' /\ Accounted'
  BY <1>1, <1>4, <1>5, ListsStay
<1>7. Counted'
  <2>0. Counted /\ (Flooding <=> opt.flood # "no") /\ (Flooding => Keeps)
    BY DEF IInv, Flooding, Keeps
  <2> DEFINE Len1 == Len(hsent) + noans
             Due(c, n) == IF c = "send" THEN n + 1 ELSE n
  <2>1. ~Keeps /\ Whole' => Len1 = Due(spc', sentn')
    <3> SUFFICES ASSUME ~Keeps, Whole'
                 PROVE  Len1 = Due(spc', sentn')
      OBVIOUS
    <3>1. ~Flooding /\ opt.flood = "no"
      BY <2>0
    <3>2. Whole => Len1 = Due(spc, sentn)
      BY <2>0 DEF Counted
    <3>3. CASE Send
      <4>1. Whole
        BY <3>3 DEF Send, Whole, roundVars, netVars, loopVars, callVars
      <4> QED
        BY <1>3, <3>1, <3>2, <3>3, <4>1 DEF Send
    <3>4. CASE \/ SendAgain \/ Batch \/ SendFails \/ InterruptSending
      BY <2>0, <3>1, <3>4 DEF SendAgain, Batch, SendFails, InterruptSending, Whole, Counted
    <3>5. CASE \/ Exhausted \/ CountSent \/ PublishDone \/ SenderSettles \/ SenderWaits
      <4>1. spc # "send" /\ spc' # "send" /\ sentn' = sentn /\ (Whole' => Whole)
        BY <3>1, <3>5 DEF Exhausted, CountSent, PublishDone, SenderSettles, SenderWaits, Whole
      <4> QED
        BY <3>2, <4>1
    <3> QED
      BY <3>3, <3>4, <3>5
  <2>2. sendDone' => spc' \in {"settle", "wait", "done"}
    BY <2>0 DEF Counted, SendAgain, Send, Exhausted, Batch, SendFails, AtRecord, CountSent,
         PublishDone, SenderSettles, SenderWaits, InterruptSending, roundVars
  <2>3. spc' = "batch" => Flooding
    BY <2>0 DEF Counted, SendAgain, Send, Exhausted, Batch, SendFails, CountSent,
         PublishDone, SenderSettles, SenderWaits, InterruptSending
  <2>4. (spc' = "fin2" \/ sendDone') /\ Whole' =>
          notans' = IF Flooding THEN Len(hsent) ELSE sentn'
    <3>1. CASE CountSent
      BY <3>1 DEF CountSent
    <3>2. CASE PublishDone \/ SenderSettles \/ SenderWaits
      <4>1. /\ spc = "fin2" \/ sendDone' = sendDone
            /\ spc' # "fin2" /\ UNCHANGED <<notans, sentn>> /\ (Whole' => Whole)
        BY <3>2 DEF PublishDone, SenderSettles, SenderWaits, Whole
      <4> QED
        BY <2>0, <4>1 DEF Counted
    <3>3. CASE SendAgain \/ Send \/ Exhausted \/ Batch \/ SendFails \/ InterruptSending
      <4>1. InterruptSending => ~Whole'
        BY DEF InterruptSending, Whole
      <4>2. ~InterruptSending => spc' # "fin2" /\ ~sendDone'
        BY <2>0, <3>3 DEF Counted, SendAgain, Send, Exhausted, Batch, SendFails, AtRecord, roundVars
      <4> QED
        BY <4>1, <4>2
    <3> QED
      BY <3>1, <3>2, <3>3
  <2> QED
    BY <1>2, <2>0, <2>1, <2>2, <2>3, <2>4 DEF Counted
<1> QED
  BY <1>1, <1>6, <1>7 DEF IInv

-----------------------------------------------------------------------------
(* _record: the packet joins hsent, where nothing has its name yet.        *)
LEMMA RecordStep ==
  ASSUME IInv, Record
  PROVE  IInv'
<1> DEFINE n == Len(hsent)
           e == [pkt |-> tobesent[si], answered |-> FALSE]
<1>1. /\ Typed /\ Joined /\ Distinct /\ FromRound /\ Unpaired /\ Accounted /\ Counted
  BY DEF IInv
<1>2. /\ spc = "next" /\ si <= Len(tobesent) /\ NeedsRecord
      /\ hsent' = Append(hsent, e)
      /\ UNCHANGED <<opt, tobesent, ans, skipped, pc, notans, noans, sendDone, sentn,
                     failed, interrupted, queue, live, todo>>
      /\ opt.flood = "bulk" => si' = si + 1 /\ spc' = spc
      /\ opt.flood # "bulk" => si' = si /\ spc' = "send"
  BY DEF Record, AtRecord, Recorded, netVars, loopVars, callVars
<1>3. /\ Flooding' <=> Flooding
      /\ Keeps' <=> Keeps
      /\ Background' <=> Background
      /\ InRound' /\ InRound
      /\ opt.flood = "bulk" => Flooding
  BY <1>1, <1>2 DEF Flooding, Keeps, Background, InRound, Joined
<1>4. /\ n \in Nat /\ Len(tobesent) \in Nat /\ si \in Nat \ {0} /\ sentn \in Nat
      /\ DOMAIN tobesent = 1 .. Len(tobesent) /\ DOMAIN hsent = 1 .. n
      /\ \A k \in 1 .. n : hsent[k] \in Entry
      /\ si \in DOMAIN tobesent /\ e \in Entry
  <2>1. si \in DOMAIN tobesent /\ tobesent[si] \in Packets
    BY <1>1, <1>2, SeqDomain DEF Typed
  <2> QED
    BY <1>1, <2>1, SeqDomain DEF Typed, Entry
<1>5. /\ hsent' \in Seq(Entry) /\ Len(hsent') = n + 1 /\ DOMAIN hsent' = 1 .. (n + 1)
      /\ \A k \in 1 .. n : hsent'[k] = hsent[k]
      /\ hsent'[n + 1] = e
  <2>1. hsent \in Seq(Entry)
    BY <1>1 DEF Typed
  <2>2. /\ hsent' \in Seq(Entry) /\ Len(hsent') = n + 1
        /\ \A k \in 1 .. n : hsent'[k] = hsent[k]
        /\ hsent'[n + 1] = e
    BY <1>2, <1>4, <2>1, AppendProperties
  <2> QED
    BY <2>2, SeqDomain
<1>6. Flooding => n = si - 1
  BY <1>1, <1>2, <1>4 DEF FromRound, NeedsRecord
<1>7. ~Past(si) /\ \A i \in DOMAIN tobesent : Past(i)' <=> Past(i) \/ i = si
  <2>1. CASE Flooding
    BY <1>3, <1>4, <1>5, <1>6, <2>1 DEF Past
  <2>2. CASE ~Flooding
    BY <1>2, <1>3, <1>4, <2>2 DEF Past
  <2> QED
    BY <2>1, <2>2
<1>8. \A k \in 1 .. n : hsent[k].pkt # tobesent[si]
  <2> SUFFICES ASSUME NEW k \in 1 .. n, hsent[k].pkt = tobesent[si]
               PROVE  FALSE
    OBVIOUS
  <2>1. PICK i \in DOMAIN tobesent : Past(i) /\ hsent[k].pkt = tobesent[i]
    BY <1>1, <1>3, <1>4 DEF FromRound
  <2>2. i = si
    BY <1>1, <1>4, <2>1 DEF Distinct
  <2> QED
    BY <1>7, <2>1, <2>2
<1> HIDE DEF n, e
<1>9. e.pkt = tobesent[si] /\ e.answered = FALSE
  BY DEF e
<1>10. \A k \in 1 .. (n + 1) : k \in 1 .. n \/ k = n + 1
  BY <1>4
<1>11. Typed'
  BY <1>1, <1>2, <1>4, <1>5 DEF Typed, SenderPlaces
<1>12. Joined'
  BY <1>1, <1>2, <1>3 DEF Joined
<1>13. Distinct'
  <2>1. \A j, k \in 1 .. (n + 1) : hsent'[j].pkt = hsent'[k].pkt => j = k
    BY <1>1, <1>4, <1>5, <1>8, <1>9, <1>10 DEF Distinct
  <2> QED
    BY <1>1, <1>2, <1>5, <2>1 DEF Distinct
<1>14. FromRound'
  <2>1. ASSUME NEW k \in 1 .. (n + 1)
        PROVE  \E i \in DOMAIN tobesent : Past(i)' /\ hsent'[k].pkt = tobesent[i]
    <3>1. CASE k = n + 1
      BY <1>4, <1>5, <1>7, <1>9, <3>1
    <3>2. CASE k \in 1 .. n
      <4>1. PICK i \in DOMAIN tobesent : Past(i) /\ hsent[k].pkt = tobesent[i]
        BY <1>1, <1>3, <1>4, <3>2 DEF FromRound
      <4> QED
        BY <1>5, <1>7, <3>2, <4>1
    <3> QED
      BY <1>10, <3>1, <3>2
  <2>2. Flooding => /\ n + 1 <= Len(tobesent)
                    /\ \A k \in 1 .. (n + 1) : hsent'[k].pkt = tobesent[k]
    <3> SUFFICES ASSUME Flooding
                 PROVE  /\ n + 1 <= Len(tobesent)
                        /\ \A k \in 1 .. (n + 1) : hsent'[k].pkt = tobesent[k]
      OBVIOUS
    <3>1. n + 1 = si
      BY <1>4, <1>6
    <3>2. \A k \in 1 .. n : hsent[k].pkt = tobesent[k]
      BY <1>1, <1>3, <1>4 DEF FromRound
    <3> QED
      BY <1>2, <1>5, <1>9, <1>10, <3>1, <3>2
  <2>3. Flooding => n + 1 >= si' - 1 /\ (spc' = "send" => n + 1 >= si')
    BY <1>2, <1>4, <1>6
  <2> QED
    BY <1>2, <1>3, <1>5, <2>1, <2>2, <2>3 DEF FromRound
<1>15. Unpaired'
  <2>1. \A i \in DOMAIN tobesent : ~Past(i)' => ans[tobesent[i]] = 0
    BY <1>1, <1>7 DEF Unpaired
  <2>2. \A k \in 1 .. (n + 1) : hsent'[k].answered <=> ans[hsent'[k].pkt] > 0
    <3>1. ans[tobesent[si]] = 0
      BY <1>1, <1>4, <1>7 DEF Unpaired
    <3>2. hsent'[n + 1].answered <=> ans[hsent'[n + 1].pkt] > 0
      BY <1>5, <1>9, <3>1
    <3>3. \A k \in 1 .. n : hsent[k].answered <=> ans[hsent[k].pkt] > 0
      BY <1>1, <1>3, <1>4 DEF Unpaired
    <3> QED
      BY <1>5, <1>10, <3>2, <3>3
  <2>3. ~Keeps => \A k \in 1 .. (n + 1) : ~hsent'[k].answered
    <3>1. ~Keeps => \A k \in 1 .. n : ~hsent[k].answered
      BY <1>1, <1>4 DEF Unpaired
    <3> QED
      BY <1>5, <1>9, <1>10, <3>1
  <2>4. ~Keeps => \A p \in Packets : ans[p] <= 1
    BY <1>1 DEF Unpaired
  <2> QED
    BY <1>2, <1>3, <1>5, <2>1, <2>2, <2>3, <2>4 DEF Unpaired
<1>16. Accounted'
  BY <1>1, <1>2 DEF Accounted
<1>17. Counted'
  <2>1. Answered' = Answered
    <3>1. \A k \in 1 .. (n + 1) : hsent'[k].answered <=> k \in 1 .. n /\ hsent[k].answered
      BY <1>4, <1>5, <1>9, <1>10
    <3> QED
      BY <1>4, <1>5, <3>1 DEF Answered
  <2>2. (Flooding => Keeps) /\ (Flooding <=> opt.flood # "no")
    BY DEF Flooding, Keeps
  <2>3. ~Keeps /\ Whole' =>
          (n + 1) + noans = IF spc' = "send" THEN sentn + 1 ELSE sentn
    <3> SUFFICES ASSUME ~Keeps, Whole'
                 PROVE  (n + 1) + noans = IF spc' = "send" THEN sentn + 1 ELSE sentn
      OBVIOUS
    <3>1. Whole /\ spc' = "send" /\ noans \in Nat
      BY <1>1, <1>2, <2>2 DEF Whole, Typed
    <3>2. n + noans = sentn
      BY <1>1, <1>2, <3>1 DEF Counted, n
    <3> QED
      BY <1>4, <3>1, <3>2
  <2>4. ~sendDone' /\ spc' # "fin2" /\ spc' # "batch"
    BY <1>1, <1>2 DEF Counted
  <2> QED
    BY <1>1, <1>2, <1>3, <1>5, <2>1, <2>3, <2>4 DEF Counted
<1> QED
  BY <1>11, <1>12, <1>13, <1>14, <1>15, <1>16, <1>17 DEF IInv

-----------------------------------------------------------------------------
(* A round starts with nothing recorded and nothing of it answered.        *)
LEMMA StartRoundStep ==
  ASSUME IInv, StartRound
  PROVE  IInv'
<1>1. /\ Typed /\ Joined /\ Distinct /\ Unpaired /\ Accounted
  BY DEF IInv
<1>2. /\ pc = "round" /\ hsent' = <<>> /\ noans' = 0 /\ notans' = 0 /\ ~sendDone'
      /\ spc' = "next" /\ si' = 1 /\ sentn' = 0 /\ ~failed'
      /\ UNCHANGED <<opt, tobesent, ans, skipped, interrupted, queue>>
      /\ live' = Socks /\ todo' = {} /\ sendDone' = FALSE /\ failed' = FALSE
      /\ pc' = IF Background THEN "poll" ELSE "sending"
  BY DEF StartRound, netVars, callVars
<1>3. /\ Flooding' <=> Flooding
      /\ Keeps' <=> Keeps
      /\ Background' <=> Background
      /\ InRound' /\ ~InRound
  BY <1>2 DEF Flooding, Keeps, Background, InRound
<1>4. /\ hsent' \in Seq(Entry) /\ Len(hsent') = 0 /\ DOMAIN hsent' = {}
      /\ Len(tobesent) \in Nat
  BY <1>1, <1>2, EmptySeq, LenProperties DEF Typed
<1>5. Typed'
  <2>1. pc' \in CallerPlaces /\ spc' \in SenderPlaces
    BY <1>2 DEF CallerPlaces, SenderPlaces
  <2>2. si' \in Nat \ {0} /\ sentn' \in Nat /\ notans' \in Nat /\ noans' \in Nat
    BY <1>2
  <2>3. sendDone' \in BOOLEAN /\ failed' \in BOOLEAN
    BY <1>2
  <2> QED
    BY <1>1, <1>2, <1>4, <2>1, <2>2, <2>3 DEF Typed
<1>6. Joined'
  BY <1>2, <1>3 DEF Joined
<1>7. Distinct'
  BY <1>1, <1>2, <1>4 DEF Distinct
<1>8. FromRound'
  BY <1>2, <1>4 DEF FromRound
<1>9. Unpaired'
  <2>1. \A i \in DOMAIN tobesent : ans[tobesent[i]] = 0
    BY <1>1, <1>3 DEF Unpaired
  <2>2. ~Keeps => \A p \in Packets : ans[p] <= 1
    BY <1>1 DEF Unpaired
  <2> QED
    BY <1>2, <1>3, <1>4, <2>1, <2>2 DEF Unpaired
<1>10. Accounted'
  BY <1>1, <1>2 DEF Accounted
<1>11. Counted'
  <2>1. Answered' = {}
    BY <1>4 DEF Answered
  <2> QED
    BY <1>2, <1>4, <2>1, FS_EmptySet DEF Counted
<1> QED
  BY <1>5, <1>6, <1>7, <1>8, <1>9, <1>10, <1>11 DEF IInv

-----------------------------------------------------------------------------
(* The packets that remain: each unanswered entry once, and nothing else.  *)
LEMMA RemainIs ==
  ASSUME IInv
  PROVE  /\ Remain \in Seq(Packets)
         /\ \A i \in DOMAIN Remain : \E k \in Left : Remain[i] = hsent[k].pkt
         /\ \A k \in Left : \E i \in DOMAIN Remain : Remain[i] = hsent[k].pkt
         /\ \A i, j \in DOMAIN Remain : Remain[i] = Remain[j] => i = j
<1> DEFINE c == Cardinality(Left)
           f == InOrder(Left)
<1>1. Typed /\ Distinct
  BY DEF IInv
<1>2. /\ Len(hsent) \in Nat /\ DOMAIN hsent = 1 .. Len(hsent)
      /\ \A k \in DOMAIN hsent : hsent[k].pkt \in Packets
  <2>1. /\ Len(hsent) \in Nat /\ DOMAIN hsent = 1 .. Len(hsent)
        /\ \A k \in DOMAIN hsent : hsent[k] \in Entry
    BY <1>1, SeqDomain DEF Typed
  <2> QED
    BY <2>1 DEF Entry
<1>3. Left \subseteq 1 .. Len(hsent)
  BY <1>2 DEF Left
<1>4. c \in Nat /\ Enumerates(f, c, Left)
  BY <1>2, <1>3, InOrderEnumerates
<1>5. Remain = [i \in 1 .. c |-> hsent[f[i]].pkt]
  BY DEF Remain
<1> HIDE DEF c, f
<1>6. /\ \A i \in 1 .. c : f[i] \in Left
      /\ \A i, j \in 1 .. c : f[i] = f[j] => i = j
      /\ \A k \in Left : \E i \in 1 .. c : f[i] = k
  BY <1>4 DEF Enumerates
<1>7. Remain \in [1 .. c -> Packets] /\ DOMAIN Remain = 1 .. c
  BY <1>2, <1>3, <1>5, <1>6
<1>8. Remain \in Seq(Packets)
  BY <1>4, <1>7, SeqDef
<1>9. \A i \in 1 .. c : Remain[i] = hsent[f[i]].pkt
  BY <1>5
<1>10. \A i, j \in 1 .. c : Remain[i] = Remain[j] => i = j
  <2> SUFFICES ASSUME NEW i \in 1 .. c, NEW j \in 1 .. c, Remain[i] = Remain[j]
               PROVE  i = j
    OBVIOUS
  <2>1. f[i] \in DOMAIN hsent /\ f[j] \in DOMAIN hsent /\ hsent[f[i]].pkt = hsent[f[j]].pkt
    BY <1>2, <1>3, <1>6, <1>9
  <2>2. f[i] = f[j]
    BY <1>1, <2>1 DEF Distinct
  <2> QED
    BY <1>6, <2>2
<1>11. \A k \in Left : \E i \in 1 .. c : Remain[i] = hsent[k].pkt
  BY <1>6, <1>9
<1> QED
  BY <1>6, <1>7, <1>8, <1>9, <1>10, <1>11

(* The end of a round.                                                     *)
LEMMA TallyStep ==
  ASSUME IInv, Tally
  PROVE  IInv'
<1>1. /\ Typed /\ Joined /\ Distinct /\ FromRound /\ Unpaired /\ Accounted /\ Counted
  BY DEF IInv
<1>2. /\ pc = "tally" /\ pc' \in {"round", "returned"}
      /\ tobesent' = Remain /\ skipped' = skipped \cup NeverRecorded
      /\ UNCHANGED <<opt, hsent, notans, noans, sendDone, spc, si, sentn, failed, queue,
                     live, todo, ans, interrupted>>
  BY DEF Tally, roundVars, senderVars, netVars, loopVars
<1>3. /\ Flooding' <=> Flooding
      /\ Keeps' <=> Keeps
      /\ Answered' = Answered
      /\ Whole' <=> Whole
      /\ InRound /\ ~InRound' /\ spc = "done"
  BY <1>1, <1>2 DEF Flooding, Keeps, InRound, Answered, Whole, Joined
<1>4. /\ Remain \in Seq(Packets)
      /\ \A i \in DOMAIN Remain : \E k \in Left : Remain[i] = hsent[k].pkt
      /\ \A k \in Left : \E i \in DOMAIN Remain : Remain[i] = hsent[k].pkt
      /\ \A i, j \in DOMAIN Remain : Remain[i] = Remain[j] => i = j
  BY RemainIs
<1>5. \A k \in DOMAIN hsent : k \in Left <=> ~hsent[k].answered
  BY <1>1 DEF Left, Unpaired
<1>6. Left \subseteq DOMAIN hsent /\ \A k \in DOMAIN hsent : hsent[k].answered <=> ans[hsent[k].pkt] > 0
  BY <1>1, <1>3 DEF Left, Unpaired
<1>7. \A k \in DOMAIN hsent : ans[hsent[k].pkt] \in Nat
  <2>1. \A k \in DOMAIN hsent : hsent[k] \in Entry
    BY <1>1, SeqDomain DEF Typed
  <2> QED
    BY <1>1, <2>1 DEF Typed, Entry
<1>8. Typed'
  <2>1. tobesent' \in Seq(Packets) /\ skipped' \subseteq Packets
    <3>1. \A k \in DOMAIN tobesent : tobesent[k] \in Packets
      BY <1>1, SeqDomain DEF Typed
    <3> QED
      BY <1>1, <1>2, <1>4, <3>1 DEF NeverRecorded, Typed
  <2> QED
    BY <1>1, <1>2, <2>1 DEF Typed, CallerPlaces
<1>9. Joined'
  BY <1>2, <1>3 DEF Joined
<1>10. Distinct'
  BY <1>1, <1>2, <1>4 DEF Distinct
<1>11. FromRound'
  BY <1>1, <1>2, <1>3 DEF FromRound
<1>12. Unpaired'
  <2>1. \A i \in DOMAIN Remain : ans[Remain[i]] = 0
    <3> SUFFICES ASSUME NEW i \in DOMAIN Remain
                 PROVE  ans[Remain[i]] = 0
      OBVIOUS
    <3>1. PICK k \in Left : Remain[i] = hsent[k].pkt
      BY <1>4
    <3> QED
      BY <1>5, <1>6, <1>7, <3>1
  <2> QED
    BY <1>1, <1>2, <1>3, <2>1 DEF Unpaired
<1>13. Accounted'
  <2> SUFFICES ASSUME NEW p \in Packets, ~(ans[p] > 0), p \notin skipped'
               PROVE  \E k \in DOMAIN Remain : Remain[k] = p
    BY <1>2 DEF Accounted
  <2>1. PICK k \in DOMAIN tobesent : tobesent[k] = p
    BY <1>1, <1>2 DEF Accounted
  <2>2. PICK j \in DOMAIN hsent : hsent[j].pkt = p
    BY <1>2, <2>1 DEF NeverRecorded
  <2>3. j \in Left
    BY <1>5, <1>6, <2>2
  <2> QED
    BY <1>4, <2>2, <2>3
<1>14. Counted'
  BY <1>1, <1>2, <1>3 DEF Counted
<1> QED
  BY <1>8, <1>9, <1>10, <1>11, <1>12, <1>13, <1>14 DEF IInv

-----------------------------------------------------------------------------
(* Pairing.  k is the entry a reply was paired with.                       *)
PairedWith(k) ==
  /\ k \in DOMAIN hsent /\ (~Keeps => ~hsent[k].answered)
  /\ ans' = [ans EXCEPT ![hsent[k].pkt] = @ + 1]
  /\ noans' = IF hsent[k].answered THEN noans ELSE noans + 1
  /\ hsent' = IF Keeps THEN [hsent EXCEPT ![k].answered = TRUE] ELSE RemoveAt(hsent, k)

(* What a Receive leaves alone.                                            *)
Reading ==
  /\ pc = "scan" /\ pc' = "settle"
  /\ UNCHANGED <<opt, tobesent, skipped, spc, si, sentn, notans, sendDone, failed,
                 interrupted, live>>
  /\ queue' \in [Socks -> Seq(Replies)] /\ todo' \subseteq Socks

LEMMA PairIs ==
  ASSUME Typed, NEW r, Pair(r)
  PROVE  UNCHANGED <<hsent, noans, ans>> \/ \E k \in DOMAIN hsent : PairedWith(k)
<1>1. CASE Hits(r) = {}
  BY <1>1 DEF Pair
<1>2. CASE Hits(r) # {}
  <2>1. Match(r) \in Hits(r)
    BY <1>2, MatchHits
  <2>2. Match(r) \in DOMAIN hsent /\ (~Keeps => ~hsent[Match(r)].answered)
    BY <2>1 DEF Hits, Waiting
  <2>3. PairedWith(Match(r))
    BY <1>2, <2>2 DEF Pair, PairedWith
  <2> QED
    BY <2>2, <2>3
<1> QED
  BY <1>1, <1>2

(* The answered packet is one the sender has come past, so no packet still *)
(* to be recorded is answered by it.                                       *)
LEMMA PairedAns ==
  ASSUME IInv, InRound, NEW k \in DOMAIN hsent, PairedWith(k)
  PROVE  /\ ans' \in [Packets -> Nat] /\ hsent[k].pkt \in Packets
         /\ ans'[hsent[k].pkt] = ans[hsent[k].pkt] + 1
         /\ \A p \in Packets : p # hsent[k].pkt => ans'[p] = ans[p]
         /\ \A i \in DOMAIN tobesent : ~Past(i) => ans'[tobesent[i]] = 0
<1>1. Typed /\ Distinct /\ FromRound /\ Unpaired
  BY DEF IInv
<1>2. hsent[k] \in Entry /\ hsent[k].pkt \in Packets /\ ans \in [Packets -> Nat]
  <2>1. hsent[k] \in Entry
    BY <1>1, SeqDomain DEF Typed
  <2> QED
    BY <1>1, <2>1 DEF Entry, Typed
<1>3. /\ ans' \in [Packets -> Nat]
      /\ ans'[hsent[k].pkt] = ans[hsent[k].pkt] + 1
      /\ \A p \in Packets : p # hsent[k].pkt => ans'[p] = ans[p]
  BY <1>2 DEF PairedWith
<1>4. ASSUME NEW i \in DOMAIN tobesent, ~Past(i)
      PROVE  ans'[tobesent[i]] = 0
  <2>1. PICK j \in DOMAIN tobesent : Past(j) /\ hsent[k].pkt = tobesent[j]
    BY <1>1 DEF FromRound
  <2>2. tobesent[i] # hsent[k].pkt
    BY <1>1, <1>4, <2>1 DEF Distinct
  <2>3. tobesent[i] \in Packets
    BY <1>1, SeqDomain DEF Typed
  <2>4. ans[tobesent[i]] = 0
    BY <1>1, <1>4 DEF Unpaired
  <2> QED
    BY <1>3, <2>2, <2>3, <2>4
<1> QED
  BY <1>2, <1>3, <1>4

(* A packet that was answered stays answered.                              *)
LEMMA PairedAccounted ==
  ASSUME IInv, InRound, NEW k \in DOMAIN hsent, PairedWith(k), UNCHANGED <<tobesent, skipped>>
  PROVE  Accounted'
<1>1. Accounted /\ ans \in [Packets -> Nat]
  BY DEF IInv, Typed
<1>2. \A p \in Packets : ans'[p] >= ans[p] /\ ans'[p] \in Nat /\ ans[p] \in Nat
  BY <1>1, PairedAns
<1> QED
  BY <1>1, <1>2 DEF Accounted

LEMMA MarkedEntry ==
  ASSUME NEW e \in Entry
  PROVE  LET m == [e EXCEPT !.answered = TRUE]
         IN  m \in Entry /\ m.pkt = e.pkt /\ m.answered
BY DEF Entry

(* One that is kept is marked.                                             *)
LEMMA PairKeeps ==
  ASSUME IInv, Reading, Keeps, NEW k \in DOMAIN hsent, PairedWith(k)
  PROVE  IInv'
<1> DEFINE n == Len(hsent)
<1>1. /\ Typed /\ Joined /\ Distinct /\ FromRound /\ Unpaired /\ Accounted /\ Counted
  BY DEF IInv
<1>2. /\ Flooding' <=> Flooding
      /\ Keeps'
      /\ Background' <=> Background
      /\ InRound' /\ InRound
  BY DEF Flooding, Keeps, Background, InRound, Reading
<1>3. /\ n \in Nat /\ DOMAIN hsent = 1 .. n
      /\ \A j \in 1 .. n : hsent[j] \in Entry
      /\ hsent \in [1 .. n -> Entry]
  BY <1>1, SeqDomain, LenProperties DEF Typed
<1>4. /\ hsent' \in [1 .. n -> Entry]
      /\ \A j \in 1 .. n : hsent'[j].pkt = hsent[j].pkt
      /\ hsent'[k].answered
      /\ \A j \in 1 .. n : j # k => hsent'[j].answered = hsent[j].answered
  <2>1. hsent' = [hsent EXCEPT ![k] = [hsent[k] EXCEPT !.answered = TRUE]]
    BY <1>3 DEF PairedWith
  <2> DEFINE e == [hsent[k] EXCEPT !.answered = TRUE]
  <2>2. e \in Entry /\ e.pkt = hsent[k].pkt /\ e.answered
    BY <1>3, MarkedEntry
  <2> HIDE DEF e
  <2> QED
    BY <1>3, <2>1, <2>2 DEF e
<1>5. hsent' \in Seq(Entry) /\ Len(hsent') = n /\ DOMAIN hsent' = 1 .. n
  <2>1. hsent' \in Seq(Entry)
    BY <1>3, <1>4, SeqDef
  <2>2. DOMAIN hsent' = 1 .. n
    BY <1>4
  <2> QED
    BY <1>3, <2>1, <2>2, LenProperties
<1>6. /\ ans' \in [Packets -> Nat] /\ hsent[k].pkt \in Packets
      /\ ans'[hsent[k].pkt] = ans[hsent[k].pkt] + 1
      /\ \A p \in Packets : p # hsent[k].pkt => ans'[p] = ans[p]
      /\ \A i \in DOMAIN tobesent : ~Past(i) => ans'[tobesent[i]] = 0
  BY <1>2, PairedAns
<1>7. \A i \in DOMAIN tobesent : Past(i)' <=> Past(i)
  BY <1>2, <1>5 DEF Past, Reading
<1>8. Typed'
  <2>1. noans' \in Nat
    BY <1>1 DEF PairedWith, Typed
  <2> QED
    BY <1>1, <1>5, <1>6, <2>1 DEF Typed, Reading, CallerPlaces
<1>9. Joined'
  BY <1>1, <1>2 DEF Joined, Reading
<1>10. Distinct'
  BY <1>1, <1>3, <1>4, <1>5 DEF Distinct, Reading
<1>11. FromRound'
  <2>1. /\ Flooding => Len(hsent) >= si - 1 /\ (spc = "send" => Len(hsent) >= si)
        /\ Flooding => /\ Len(hsent) <= Len(tobesent)
                       /\ \A j \in 1 .. n : hsent[j].pkt = tobesent[j]
        /\ \A j \in 1 .. n : \E i \in DOMAIN tobesent :
             Past(i) /\ hsent[j].pkt = tobesent[i]
    BY <1>1, <1>2, <1>3 DEF FromRound
  <2>2. \A j \in 1 .. n : \E i \in DOMAIN tobesent :
          Past(i)' /\ hsent'[j].pkt = tobesent[i]
    BY <1>4, <1>7, <2>1
  <2> QED
    BY <1>2, <1>4, <1>5, <2>1, <2>2 DEF FromRound, Reading
<1>12. Unpaired'
  <2>1. \A j \in 1 .. n : hsent'[j].answered <=> ans'[hsent'[j].pkt] > 0
    <3> SUFFICES ASSUME NEW j \in 1 .. n
                 PROVE  hsent'[j].answered <=> ans'[hsent[j].pkt] > 0
      BY <1>4
    <3>1. CASE j = k
      BY <1>1, <1>4, <1>6, <3>1 DEF Typed
    <3>2. CASE j # k
      <4>1. hsent[j].pkt # hsent[k].pkt /\ hsent[j].pkt \in Packets
        BY <1>1, <1>3, <3>2 DEF Distinct, Entry
      <4>2. hsent[j].answered <=> ans[hsent[j].pkt] > 0
        BY <1>1, <1>2, <1>3 DEF Unpaired
      <4> QED
        BY <1>4, <1>6, <3>2, <4>1, <4>2
    <3> QED
      BY <3>1, <3>2
  <2> QED
    BY <1>2, <1>5, <1>6, <1>7, <2>1 DEF Unpaired, Reading
<1>13. Accounted'
  BY <1>2, PairedAccounted DEF Reading
<1>14. Counted'
  <2>1. Flooding => noans' = Cardinality(Answered')
    <3> SUFFICES ASSUME Flooding
                 PROVE  noans' = Cardinality(Answered')
      OBVIOUS
    <3>1. noans = Cardinality(Answered) /\ noans \in Nat
      BY <1>1 DEF Counted, Typed
    <3>2. Answered' = Answered \cup {k}
      BY <1>3, <1>4, <1>5 DEF Answered
    <3>3. IsFiniteSet(Answered)
      <4>1. IsFiniteSet(1 .. n)
        BY <1>3, FS_Interval
      <4> QED
        BY <1>3, <4>1, FS_Subset DEF Answered
    <3>4. CASE hsent[k].answered
      <4>1. Answered' = Answered
        BY <1>3, <3>2, <3>4 DEF Answered
      <4> QED
        BY <3>1, <3>4, <4>1 DEF PairedWith
    <3>5. CASE ~hsent[k].answered
      <4>1. k \notin Answered
        BY <3>5 DEF Answered
      <4>2. Cardinality(Answered \cup {k}) = Cardinality(Answered) + 1
        BY <3>3, <4>1, FS_AddElement
      <4> QED
        BY <3>1, <3>2, <3>5, <4>2 DEF PairedWith
    <3> QED
      BY <3>4, <3>5
  <2>2. Whole' <=> Whole
    BY DEF Whole, Reading
  <2> QED
    BY <1>1, <1>2, <1>5, <2>1, <2>2 DEF Counted, Reading
<1> QED
  BY <1>8, <1>9, <1>10, <1>11, <1>12, <1>13, <1>14 DEF IInv

(* Otherwise it leaves the list, and the rest keep their order.            *)
LEMMA PairRemoves ==
  ASSUME IInv, Reading, ~Keeps, NEW k \in DOMAIN hsent, PairedWith(k)
  PROVE  IInv'
<1> DEFINE n == Len(hsent)
           Old(j) == IF j < k THEN j ELSE j + 1
<1>1. /\ Typed /\ Joined /\ Distinct /\ FromRound /\ Unpaired /\ Accounted /\ Counted
  BY DEF IInv
<1>2. /\ ~Flooding' /\ ~Flooding /\ ~Keeps'
      /\ Background' <=> Background
      /\ InRound' /\ InRound
  BY DEF Flooding, Keeps, Background, InRound, Reading
<1>3. /\ n \in Nat /\ DOMAIN hsent = 1 .. n /\ hsent \in Seq(Entry)
      /\ \A j \in 1 .. n : hsent[j] \in Entry
  BY <1>1, SeqDomain DEF Typed
<1>4. /\ hsent' \in Seq(Entry) /\ Len(hsent') = n - 1
      /\ \A j \in 1 .. n - 1 : hsent'[j] = IF j < k THEN hsent[j] ELSE hsent[j + 1]
  <2>1. hsent' = RemoveAt(hsent, k)
    BY DEF PairedWith
  <2> QED
    BY <1>3, <2>1, RemoveAtProperties
<1>5. /\ DOMAIN hsent' = 1 .. n - 1
      /\ \A j \in 1 .. n - 1 : Old(j) \in 1 .. n /\ Old(j) # k /\ hsent'[j] = hsent[Old(j)]
      /\ \A i, j \in 1 .. n - 1 : Old(i) = Old(j) => i = j
  <2>1. DOMAIN hsent' = 1 .. n - 1
    BY <1>4, SeqDomain
  <2>2. k \in 1 .. n
    BY <1>3
  <2>3. \A j \in 1 .. n - 1 : Old(j) \in 1 .. n /\ Old(j) # k
    BY <1>3, <2>2
  <2>4. \A i, j \in 1 .. n - 1 : Old(i) = Old(j) => i = j
    BY <1>3, <2>2
  <2> QED
    BY <1>4, <2>1, <2>3, <2>4
<1> HIDE DEF Old
<1>6. /\ ans' \in [Packets -> Nat] /\ hsent[k].pkt \in Packets
      /\ ans'[hsent[k].pkt] = ans[hsent[k].pkt] + 1
      /\ \A p \in Packets : p # hsent[k].pkt => ans'[p] = ans[p]
      /\ \A i \in DOMAIN tobesent : ~Past(i) => ans'[tobesent[i]] = 0
  BY <1>2, PairedAns
<1>7. \A i \in DOMAIN tobesent : Past(i)' <=> Past(i)
  BY <1>2 DEF Past, Reading
<1>8. ~hsent[k].answered /\ noans' = noans + 1 /\ noans \in Nat
  BY <1>1 DEF PairedWith, Typed
<1>9. \A j \in 1 .. n : j # k => hsent[j].pkt # hsent[k].pkt /\ hsent[j].pkt \in Packets
  <2>1. \A j \in 1 .. n : hsent[j].pkt \in Packets
    BY <1>3 DEF Entry
  <2> QED
    BY <1>1, <1>3, <2>1 DEF Distinct
<1>10. Typed'
  BY <1>1, <1>4, <1>6, <1>8 DEF Typed, Reading, CallerPlaces
<1>11. Joined'
  BY <1>1, <1>2 DEF Joined, Reading
<1>12. Distinct'
  <2>1. \A i, j \in 1 .. n - 1 : hsent'[i].pkt = hsent'[j].pkt => i = j
    <3> SUFFICES ASSUME NEW i \in 1 .. n - 1, NEW j \in 1 .. n - 1,
                        hsent'[i].pkt = hsent'[j].pkt
                 PROVE  i = j
      OBVIOUS
    <3>1. Old(i) \in DOMAIN hsent /\ Old(j) \in DOMAIN hsent
          /\ hsent[Old(i)].pkt = hsent[Old(j)].pkt
      BY <1>3, <1>5
    <3>2. Old(i) = Old(j)
      BY <1>1, <3>1 DEF Distinct
    <3> QED
      BY <1>5, <3>2
  <2> QED
    BY <1>1, <1>5, <2>1 DEF Distinct, Reading
<1>13. FromRound'
  <2>1. \A j \in 1 .. n : \E i \in DOMAIN tobesent : Past(i) /\ hsent[j].pkt = tobesent[i]
    BY <1>1, <1>2, <1>3 DEF FromRound
  <2>2. \A j \in 1 .. n - 1 : \E i \in DOMAIN tobesent :
          Past(i)' /\ hsent'[j].pkt = tobesent[i]
    <3> SUFFICES ASSUME NEW j \in 1 .. n - 1
                 PROVE  \E i \in DOMAIN tobesent : Past(i)' /\ hsent'[j].pkt = tobesent[i]
      OBVIOUS
    <3>1. PICK i \in DOMAIN tobesent : Past(i) /\ hsent[Old(j)].pkt = tobesent[i]
      BY <1>5, <2>1
    <3> QED
      BY <1>5, <1>7, <3>1
  <2>3. /\ UNCHANGED tobesent
        /\ \A j \in DOMAIN hsent' : \E i \in DOMAIN tobesent :
             Past(i)' /\ hsent'[j].pkt = tobesent[i]
    BY <1>5, <2>2 DEF Reading
  <2> QED
    BY <1>2, <2>3 DEF FromRound
<1>14. Unpaired'
  <2>1. /\ \A j \in 1 .. n : ~hsent[j].answered
        /\ \A j \in 1 .. n : hsent[j].answered <=> ans[hsent[j].pkt] > 0
        /\ \A p \in Packets : ans[p] <= 1
    BY <1>1, <1>2, <1>3 DEF Unpaired
  <2>2. \A j \in 1 .. n - 1 : /\ ~hsent'[j].answered
                              /\ hsent'[j].answered <=> ans'[hsent'[j].pkt] > 0
    <3> SUFFICES ASSUME NEW j \in 1 .. n - 1
                 PROVE  /\ ~hsent'[j].answered
                        /\ hsent'[j].answered <=> ans'[hsent'[j].pkt] > 0
      OBVIOUS
    <3>1. Old(j) \in 1 .. n /\ Old(j) # k /\ hsent'[j] = hsent[Old(j)]
      BY <1>5
    <3>2. ans'[hsent[Old(j)].pkt] = ans[hsent[Old(j)].pkt]
      BY <1>6, <1>9, <3>1
    <3> QED
      BY <2>1, <3>1, <3>2
  <2>3. \A p \in Packets : ans'[p] <= 1
    <3>1. ans[hsent[k].pkt] = 0
      <4>1. ans[hsent[k].pkt] \in Nat /\ ~(ans[hsent[k].pkt] > 0)
        BY <1>1, <1>3, <1>6, <2>1 DEF Typed
      <4> QED
        BY <4>1
    <3> QED
      BY <1>6, <2>1, <3>1
  <2> QED
    BY <1>2, <1>5, <1>6, <1>7, <2>2, <2>3 DEF Unpaired, Reading
<1>15. Accounted'
  BY <1>2, PairedAccounted DEF Reading
<1>16. Counted'
  <2>1. Whole' <=> Whole
    BY DEF Whole, Reading
  <2>2. Len(hsent') + noans' = Len(hsent) + noans
    BY <1>3, <1>4, <1>8
  <2> QED
    BY <1>1, <1>2, <2>1, <2>2 DEF Counted, Reading
<1> QED
  BY <1>10, <1>11, <1>12, <1>13, <1>14, <1>15, <1>16 DEF IInv

LEMMA ReceiveStep ==
  ASSUME IInv, NEW s \in Socks, Receive(s)
  PROVE  IInv'
<1>1. Typed /\ Joined
  BY DEF IInv
<1>2. Reading
  <2>1. queue \in [Socks -> Seq(Replies)] /\ todo \subseteq Socks
    BY <1>1 DEF Typed
  <2>2. Tail(queue[s]) \in Seq(Replies)
    BY <2>1, HeadTailProperties DEF Receive
  <2> QED
    BY <2>1, <2>2 DEF Receive, Reading, senderVars
<1>3. CASE UNCHANGED <<hsent, noans, ans>>
  <2>1. /\ UNCHANGED Lists /\ UNCHANGED Counters /\ (InRound' <=> InRound)
        /\ pc' \in CallerPlaces
    BY <1>2, <1>3 DEF Reading, Lists, Counters, InRound, CallerPlaces
  <2>2. Joined'
    BY <1>1, <1>2 DEF Reading, Joined, Background, Flooding
  <2> QED
    BY <1>1, <1>2, <2>1, <2>2, QuietStep DEF Reading, Typed
<1>4. ASSUME NEW k \in DOMAIN hsent, PairedWith(k)
      PROVE  IInv'
  BY <1>2, <1>4, PairKeeps, PairRemoves
<1> QED
  BY <1>1, <1>3, <1>4, PairIs DEF Receive

-----------------------------------------------------------------------------
LEMMA NextIInv == IInv /\ [Next]_vars => IInv'
<1> SUFFICES ASSUME IInv, [Next]_vars
             PROVE  IInv'
  OBVIOUS
<1>1. CASE UNCHANGED vars
  <2>1. /\ UNCHANGED Lists /\ UNCHANGED Counters
        /\ UNCHANGED <<pc, interrupted, queue, live, todo>>
    BY <1>1 DEF vars, roundVars, senderVars, netVars, loopVars, callVars, Lists, Counters
  <2>2. Typed /\ Joined
    BY DEF IInv
  <2>3. Joined' /\ (InRound' <=> InRound)
    BY <2>1, <2>2 DEF Joined, InRound, Background, Flooding, Lists, Counters
  <2> QED
    BY <2>1, <2>2, <2>3, QuietStep DEF Typed
<1>2. CASE Sender
  BY <1>2, RecordStep, SenderIInv DEF Sender
<1>3. CASE Caller
  <2>1. ASSUME NEW s \in Socks,
               Receive(s) \/ ReceiveNothing(s) \/ SocketEnds(s) \/ SocketRaises(s)
        PROVE  IInv'
    BY <2>1, ReceiveStep, NetQuiet
  <2> QED
    BY <1>3, <2>1, StartRoundStep, CallerQuiet, TallyStep DEF Caller
<1>4. CASE InterruptSending \/ Interrupt \/ Deadline
  BY <1>4, SenderIInv, CallerQuiet
<1>5. ASSUME NEW s \in Socks, End(s) \/ \E r \in Replies : Arrive(s, r)
      PROVE  IInv'
  BY <1>5, NetQuiet
<1> QED
  BY <1>1, <1>2, <1>3, <1>4, <1>5 DEF Next

(* Every packet of a round is in one of its places, and the counters are   *)
(* their sizes, after any steps of the two threads, the network and the    *)
(* user.                                                                   *)
THEOREM InvariantHolds == Spec => []IInv
<1>1. IInv /\ [Next]_vars => IInv'
  BY NextIInv
<1> QED
  BY InitIInv, <1>1, PTL DEF Spec

(* No retry sends a packet that something has answered: what a round is    *)
(* still to record was never paired, in this round or an earlier one.      *)
THEOREM OnlyUnansweredResent == Spec => []ResendsOnlyUnanswered
<1>1. IInv => ResendsOnlyUnanswered
  <2> SUFFICES ASSUME IInv, opt.flood = "no", NEW k \in DOMAIN tobesent,
                      pc = "round" \/ k > si \/ (k = si /\ spc = "next")
               PROVE  ans[tobesent[k]] = 0
    BY DEF ResendsOnlyUnanswered
  <2>1. si \in Nat /\ Len(tobesent) \in Nat /\ DOMAIN tobesent = 1 .. Len(tobesent)
    BY SeqDomain DEF IInv, Typed
  <2>2. InRound => ~Past(k)
    BY <2>1 DEF Past, Flooding, InRound
  <2> QED
    BY <2>2 DEF IInv, Unpaired
<1> QED
  BY <1>1, InvariantHolds, PTL

(* The two results divide the packets of the call: nothing is reported     *)
(* both answered and unanswered, nothing twice, and nothing is missing but *)
(* what no round came to record.                                           *)
THEOREM ResultsAlwaysPartition == Spec => []ResultsPartition
<1>1. IInv => ResultsPartition
  <2> SUFFICES ASSUME IInv, pc = "returned"
               PROVE  /\ \A k \in DOMAIN tobesent : ans[tobesent[k]] = 0
                      /\ IsInjective(tobesent)
                      /\ Keeps \/ \A p \in Packets : ans[p] <= 1
                      /\ Accounted
    BY DEF ResultsPartition, Accounted
  <2>1. \A k \in DOMAIN tobesent : ans[tobesent[k]] = 0
    BY DEF IInv, Unpaired, InRound
  <2>2. IsInjective(tobesent)
    BY DEF IInv, Distinct, IsInjective
  <2> QED
    BY <2>1, <2>2 DEF IInv, Unpaired
<1> QED
  BY <1>1, InvariantHolds, PTL

(* The counters end a round early only when all it sent is answered,       *)
(* whichever thread compares them and whatever the other is doing.         *)
THEOREM SettledOnlyAnswered == Spec => []SettledMeansAnswered
<1>1. IInv => SettledMeansAnswered
  <2> SUFFICES ASSUME IInv, sendDone, noans >= notans, ~opt.multi, ~failed, ~interrupted,
                      NEW k \in DOMAIN hsent
               PROVE  hsent[k].answered
    BY DEF SettledMeansAnswered
  <2>1. /\ Len(hsent) \in Nat /\ DOMAIN hsent = 1 .. Len(hsent)
        /\ noans \in Nat /\ sentn \in Nat
    BY SeqDomain DEF IInv, Typed
  <2>2. notans = IF Flooding THEN Len(hsent) ELSE sentn
    BY DEF IInv, Counted, Whole
  <2>3. CASE Flooding
    <3>1. IsFiniteSet(1 .. Len(hsent)) /\ Cardinality(1 .. Len(hsent)) = Len(hsent)
      <4>1. /\ IsFiniteSet(1 .. Len(hsent))
            /\ Cardinality(1 .. Len(hsent)) =
                 IF 1 > Len(hsent) THEN 0 ELSE Len(hsent) - 1 + 1
        BY <2>1, FS_Interval
      <4> QED
        BY <2>1, <4>1
    <3>2. Answered \in SUBSET (1 .. Len(hsent)) /\ noans = Cardinality(Answered)
      BY <2>1, <2>3 DEF Answered, IInv, Counted
    <3>3. /\ Cardinality(Answered) <= Len(hsent)
          /\ Cardinality(Answered) = Len(hsent) => Answered = 1 .. Len(hsent)
      BY <3>1, <3>2, FS_Subset
    <3>4. Answered = 1 .. Len(hsent)
      BY <2>1, <2>2, <2>3, <3>2, <3>3
    <3> QED
      BY <2>1, <3>4 DEF Answered
  <2>4. CASE ~Flooding
    <3>1. Len(hsent) + noans = sentn
      BY <2>4 DEF IInv, Counted, Whole, Keeps
    <3>2. Len(hsent) = 0
      BY <2>1, <2>2, <2>4, <3>1
    <3> QED
      BY <2>1, <3>2
  <2> QED
    BY <2>3, <2>4
<1> QED
  BY <1>1, InvariantHolds, PTL
=============================================================================
