-------------------------- MODULE AbsorbLoopProofs --------------------------
(***************************************************************************)
(* Group::absorb's loop implements Claims, for datagrams of any length and *)
(* any number of claims.                                                   *)
(***************************************************************************)
EXTENDS AbsorbLoop, ReassemblyLemmas

Ranges == [lo : Nat, hi : Nat]

WellFormed(G) == G \subseteq Ranges /\ \A r \in G : r.lo <= r.hi

(* The ranges G account for the octets d[0..l) that some fragment wrote,   *)
(* and reach to l.                                                         *)
Tiled(G, d, l) ==
  /\ \A o \in Nat : o \in Octets(G) <=> o < l /\ d[o] # Zero
  /\ \A r \in G : r.hi <= l
  /\ l = 0 \/ \E r \in G : r.hi = l

(* The ranges absorb has swallowed so far.                                 *)
Swallowed == got0 \ got

(* `data` once the unclaimed octets of [start, end) below at are written.  *)
WrittenUpTo(a) ==
  [o \in 0 .. (len - 1) |->
     IF start <= o /\ o < end /\ o < a /\ o \notin Octets(got0) THEN n
     ELSE IF o < len0 THEN data0[o] ELSE Zero]

(* Between the turns of the loop: lo, hi and at are the extent of what was *)
(* swallowed, everything swallowed lies before everything still to be      *)
(* walked, and nothing that reaches the claim from below is left.          *)
LoopInv ==
  /\ start \in Nat /\ end \in Nat /\ lo \in Nat /\ hi \in Nat /\ at \in Nat
  /\ start <= end /\ end <= MaxDatagram /\ n < MaxClaims
  /\ Tiled(got0, data0, len0)
  /\ len0 \in Nat /\ len = Larger(len0, end)
  /\ WellFormed(got0) /\ Apart(got0) /\ got \subseteq got0
  /\ lo <= start /\ end <= hi /\ start <= at
  /\ lo = start \/ \E r \in Swallowed : lo = r.lo
  /\ hi = end \/ \E r \in Swallowed : hi = r.hi
  /\ at = start \/ \E r \in Swallowed : at = r.hi
  /\ \A r \in Swallowed : /\ r.lo <= end /\ start <= r.hi
                          /\ lo <= r.lo /\ r.hi <= hi /\ r.hi <= at
  /\ \A r \in got : r.lo < start => r.hi < start
  /\ \A r \in Swallowed : \A q \in Inside : r.hi < q.lo
  /\ data = WrittenUpTo(at)

IInv ==
  /\ n \in Nat /\ len \in Nat /\ pc \in {"idle", "loop"}
  /\ pc = "idle" => /\ WellFormed(got) /\ Apart(got)
                    /\ Tiled(got, data, len)
                    /\ data = [o \in 0 .. (len - 1) |-> data[o]]
  /\ pc = "loop" => LoopInv

LEMMA EnterStep ==
  ASSUME IInv, NEW s \in 0 .. MaxDatagram, NEW size \in 0 .. (MaxDatagram - s),
         Enter(s, size)
  PROVE  IInv'
<1>1. s \in Nat /\ size \in Nat /\ s + size \in Nat /\ s + size <= MaxDatagram
  BY LoopBounds
<1>2. /\ pc = "idle" /\ pc' = "loop" /\ n' = n /\ n < MaxClaims
      /\ start' = s /\ end' = s + size
      /\ len' = Larger(len, s + size)
      /\ data' = Resized(s + size)
      /\ got0' = got /\ data0' = data /\ len0' = len
  BY DEF Enter
<1>3. /\ n \in Nat /\ len \in Nat /\ WellFormed(got) /\ Apart(got)
      /\ Tiled(got, data, len)
  BY <1>2 DEF IInv
<1>4. len' \in Nat
  BY <1>1, <1>2, <1>3 DEF Larger
<1>5. CASE /\ Predecessor(s) = {}
           /\ got' = got /\ lo' = s /\ hi' = s + size /\ at' = s
  <2>1. Swallowed' = {}
    BY <1>2, <1>5 DEF Swallowed
  <2>2. \A r \in got : r.lo < s => r.hi < s
    <3> SUFFICES ASSUME NEW r \in got, r.lo < s, ~(r.hi < s) PROVE FALSE
      OBVIOUS
    <3>1. \A q \in got : q.lo \in Nat /\ q.hi \in Nat /\ q.lo <= q.hi
      BY <1>3 DEF WellFormed, Ranges
    <3>2. PICK q \in got : q.lo <= s /\ r.lo < q.lo
      BY <1>1, <1>5, <3>1 DEF Predecessor
    <3>3. r # q /\ (r.hi < q.lo \/ q.hi < r.lo)
      BY <3>1, <3>2, <1>3 DEF Apart
    <3> QED
      BY <1>1, <3>1, <3>2, <3>3
  <2>3. data' = WrittenUpTo(at)'
    BY <1>1, <1>2, <1>5 DEF Resized, WrittenUpTo
  <2>4. LoopInv'
    BY <2>1, <2>2, <2>3, <1>1, <1>2, <1>3, <1>5 DEF LoopInv
  <2> QED
    BY <2>4, <1>2, <1>3, <1>4 DEF IInv
<1>6. ASSUME NEW r \in Predecessor(s),
             got' = got \ {r}, lo' = r.lo,
             hi' = Larger(s + size, r.hi), at' = Larger(s, r.hi)
      PROVE  IInv'
  <2>1. \A q \in got : q.lo \in Nat /\ q.hi \in Nat /\ q.lo <= q.hi
    BY <1>3 DEF WellFormed, Ranges
  <2>2. r \in got /\ r.lo <= s /\ s <= r.hi
    BY <1>6 DEF Predecessor
  <2>3. Swallowed' = {r} /\ got' \subseteq got /\ got0' = got
    BY <1>2, <1>6, <2>2 DEF Swallowed
  <2>4. \A q \in got' : r.hi < q.lo \/ q.hi < r.lo
    BY <1>3, <1>6, <2>2 DEF Apart
  <2>5. \A q \in got' : q.lo < s => q.hi < s
    BY <2>1, <2>2, <2>3, <2>4, <1>1
  <2>6. \A q \in Inside' : r.hi < q.lo
    BY <2>1, <2>2, <2>3, <2>4, <1>1, <1>2 DEF Inside
  <2>7. at' = r.hi /\ hi' \in Nat /\ s + size <= hi' /\ r.hi <= hi'
        /\ (hi' = s + size \/ hi' = r.hi)
    BY <2>1, <2>2, <1>1, <1>6 DEF Larger
  <2>8. data' = WrittenUpTo(at)'
    <3>1. \A o \in 0 .. (len' - 1) : s <= o /\ o < r.hi => o \in Octets(got)
      BY <2>1, <2>2, <1>1, <1>4 DEF Octets
    <3> QED
      BY <3>1, <2>7, <1>1, <1>2, <1>4 DEF Resized, WrittenUpTo
  <2>9. LoopInv'
    <3>1. r.lo <= s + size /\ r.lo \in Nat /\ r.hi \in Nat /\ r.hi <= r.hi /\ r.lo <= r.lo
      BY <2>1, <2>2, <1>1
    <3>2. \A q \in Swallowed' : /\ q.lo <= end' /\ start' <= q.hi
                               /\ lo' <= q.lo /\ q.hi <= hi' /\ q.hi <= at'
      BY <3>1, <2>2, <2>3, <2>7, <1>2, <1>6
    <3>3. \A p \in Swallowed' : \A q \in Inside' : p.hi < q.lo
      BY <2>3, <2>6
    <3>4. /\ \E p \in Swallowed' : lo' = p.lo
          /\ \E p \in Swallowed' : at' = p.hi
          /\ hi' = end' \/ \E p \in Swallowed' : hi' = p.hi
      BY <2>3, <2>7, <1>2, <1>6
    <3>5. \A q \in got' : q.lo < start' => q.hi < start'
      BY <2>5, <1>2
    <3>6. s <= s + size
      BY <1>1
    <3>7. WellFormed(got0)' /\ Apart(got0)' /\ got' \subseteq got0'
      BY <1>2, <1>3, <2>3 DEF WellFormed, Apart
    <3> QED
      BY <3>1, <3>2, <3>3, <3>4, <3>5, <3>6, <3>7, <2>2, <2>7, <2>8, <1>1, <1>2, <1>3, <1>6
      DEF LoopInv
  <2> QED
    BY <2>9, <1>2, <1>3, <1>4 DEF IInv
<1> QED
  BY <1>5, <1>6 DEF Enter

LEMMA TurnStep ==
  ASSUME IInv, Turn
  PROVE  IInv'
<1>1. PICK r \in Inside :
        /\ \A q \in Inside : r.lo <= q.lo
        /\ data' = IF Smaller(r.lo, end) > at THEN Copied(at, Smaller(r.lo, end)) ELSE data
        /\ at' = Larger(at, r.hi)
        /\ hi' = Larger(hi, r.hi)
        /\ got' = got \ {r}
  BY DEF Turn
<1>2. /\ pc = "loop" /\ pc' = "loop"
      /\ len' = len /\ n' = n /\ start' = start /\ end' = end /\ lo' = lo
      /\ got0' = got0 /\ data0' = data0 /\ len0' = len0
  BY DEF Turn, ghosts
<1>3. LoopInv /\ n \in Nat /\ len \in Nat
  BY <1>2 DEF IInv
<1>4. \A q \in got0 : q.lo \in Nat /\ q.hi \in Nat /\ q.lo <= q.hi
  BY <1>3 DEF LoopInv, WellFormed, Ranges
<1>5. r \in got /\ r \in got0 /\ start <= r.lo /\ r.lo <= end
  BY <1>3 DEF Inside, LoopInv
<1>6. Swallowed' = Swallowed \cup {r} /\ Inside' = Inside \ {r}
  BY <1>1, <1>2, <1>3, <1>5 DEF Swallowed, Inside, LoopInv
<1>7. at <= r.lo /\ at \in Nat /\ start \in Nat /\ end \in Nat
  BY <1>3, <1>4, <1>5 DEF LoopInv, Swallowed
<1>8. \A q \in Inside' : r.hi < q.lo
  <2> SUFFICES ASSUME NEW q \in Inside' PROVE r.hi < q.lo
    OBVIOUS
  <2>1. q \in Inside /\ q # r /\ q \in got0 /\ r.lo <= q.lo
    BY <1>1, <1>3, <1>6 DEF Inside, LoopInv
  <2>2. r.hi < q.lo \/ q.hi < r.lo
    BY <2>1, <1>3, <1>5 DEF LoopInv, Apart
  <2> QED
    BY <2>1, <2>2, <1>4, <1>5
<1>9. at' = r.hi /\ hi' \in Nat /\ hi <= hi' /\ r.hi <= hi' /\ (hi' = hi \/ hi' = r.hi)
  BY <1>1, <1>3, <1>4, <1>5, <1>7 DEF Larger, LoopInv
<1>10. \A o \in Nat : at <= o /\ o < r.lo => o \notin Octets(got0)
  <2> SUFFICES ASSUME NEW o \in Nat, at <= o, o < r.lo, NEW q \in got0,
                      o \in q.lo .. (q.hi - 1)
               PROVE  FALSE
    BY DEF Octets
  <2>1. q.lo <= o /\ o < q.hi
    BY <1>4
  <2>2. q \in got
    BY <2>1, <1>3, <1>4, <1>7 DEF LoopInv, Swallowed
  <2>3. start <= q.lo
    BY <2>1, <2>2, <1>3, <1>4, <1>7 DEF LoopInv
  <2>4. q \in Inside
    BY <2>1, <2>2, <2>3, <1>4, <1>5, <1>7 DEF Inside
  <2> QED
    BY <2>1, <2>4, <1>1, <1>4, <1>5
<1>11. data' = WrittenUpTo(at)'
  <2>1. DOMAIN data = 0 .. (len - 1) /\ data = WrittenUpTo(at)
    BY <1>3 DEF LoopInv, WrittenUpTo
  <2>2. \A o \in Nat : r.lo <= o /\ o < r.hi => o \in Octets(got0)
    BY <1>4, <1>5 DEF Octets
  <2>3. Smaller(r.lo, end) = r.lo
    BY <1>4, <1>5, <1>7 DEF Smaller
  <2>4. data' = [o \in 0 .. (len - 1) |->
                   IF at <= o /\ o < r.lo THEN n ELSE WrittenUpTo(at)[o]]
    <3>1. CASE r.lo > at
      BY <3>1, <2>1, <2>3, <1>1 DEF Copied
    <3>2. CASE ~(r.lo > at)
      <4>1. data' = data /\ \A o \in 0 .. (len - 1) : ~(at <= o /\ o < r.lo)
        BY <3>2, <2>3, <1>1, <1>3, <1>4, <1>5, <1>7
      <4> QED
        BY <4>1, <2>1 DEF WrittenUpTo
    <3> QED
      BY <3>1, <3>2
  <2>5. \A o \in 0 .. (len - 1) :
          (IF at <= o /\ o < r.lo THEN n ELSE WrittenUpTo(at)[o]) =
          (IF start <= o /\ o < end /\ o < r.hi /\ o \notin Octets(got0) THEN n
           ELSE IF o < len0 THEN data0[o] ELSE Zero)
    <3> SUFFICES ASSUME NEW o \in 0 .. (len - 1)
                 PROVE  (IF at <= o /\ o < r.lo THEN n ELSE WrittenUpTo(at)[o]) =
                        (IF start <= o /\ o < end /\ o < r.hi /\ o \notin Octets(got0)
                         THEN n ELSE IF o < len0 THEN data0[o] ELSE Zero)
      OBVIOUS
    <3>1. WrittenUpTo(at)[o] =
            IF start <= o /\ o < end /\ o < at /\ o \notin Octets(got0) THEN n
            ELSE IF o < len0 THEN data0[o] ELSE Zero
      BY DEF WrittenUpTo
    <3>2. o \in Nat
      BY <1>3
    <3>3. CASE at <= o /\ o < r.lo
      BY <3>2, <3>3, <1>3, <1>4, <1>5, <1>7, <1>10 DEF LoopInv
    <3>4. CASE ~(at <= o /\ o < r.lo)
      BY <3>1, <3>2, <3>4, <2>2, <1>4, <1>5, <1>7
    <3> QED
      BY <3>3, <3>4
  <2> QED
    BY <2>4, <2>5, <1>2, <1>9 DEF WrittenUpTo
<1>12. LoopInv'
  <2>1. /\ \A q \in Swallowed' : /\ q.lo <= end' /\ start' <= q.hi
                                /\ lo' <= q.lo /\ q.hi <= hi' /\ q.hi <= at'
    <3>1. \A q \in Swallowed : /\ q \in got0 /\ q.lo <= end /\ start <= q.hi
                               /\ lo <= q.lo /\ q.hi <= hi /\ q.hi <= at
      BY <1>3 DEF LoopInv, Swallowed
    <3>2. \A q \in Swallowed : q.hi <= hi' /\ q.hi <= r.hi
      BY <3>1, <1>3, <1>4, <1>5, <1>7, <1>9 DEF LoopInv
    <3>3. lo <= r.lo /\ start <= r.hi
      BY <1>3, <1>4, <1>5, <1>7 DEF LoopInv
    <3> QED
      BY <3>1, <3>2, <3>3, <1>2, <1>4, <1>5, <1>6, <1>9
  <2>2. \A q \in Swallowed' : \A p \in Inside' : q.hi < p.lo
    BY <1>3, <1>6, <1>8 DEF LoopInv
  <2>3. end <= hi' /\ start <= r.hi
    BY <1>3, <1>4, <1>5, <1>7, <1>9 DEF LoopInv
  <2>4. /\ lo' = start' \/ \E q \in Swallowed' : lo' = q.lo
        /\ hi' = end' \/ \E q \in Swallowed' : hi' = q.hi
        /\ at' = start' \/ \E q \in Swallowed' : at' = q.hi
    BY <1>2, <1>3, <1>6, <1>9 DEF LoopInv
  <2>5. \A q \in got' : q.lo < start' => q.hi < start'
    BY <1>1, <1>2, <1>3 DEF LoopInv
  <2> QED
    BY <2>1, <2>2, <2>3, <2>4, <2>5, <1>1, <1>2, <1>3, <1>4, <1>5, <1>9, <1>11 DEF LoopInv
<1> QED
  BY <1>2, <1>3, <1>12 DEF IInv

(* What absorb leaves behind is the closed form of ClaimedRanges.          *)
LEMMA LeaveComputes ==
  ASSUME IInv, Leave
  PROVE  /\ LoopInv /\ n \in Nat
         /\ got' = Merged(got0, start, end)
         /\ data' = Written(data0, len0, got0, start, end, n)
         /\ len' = Larger(len0, end)
         /\ n' = n + 1 /\ pc = "loop" /\ pc' = "idle"
         /\ lo \in Nat /\ hi \in Nat /\ lo <= start /\ end <= hi
         /\ got' = got \cup {[lo |-> lo, hi |-> hi]}
         /\ \A r \in got : r.hi < lo \/ hi < r.lo
         /\ \A r \in Swallowed : lo <= r.lo /\ r.hi <= hi
<1>1. /\ pc = "loop" /\ pc' = "idle" /\ n' = n + 1 /\ len' = len
      /\ Inside = {}
      /\ data' = IF at < end THEN Copied(at, end) ELSE data
      /\ got' = got \cup {[lo |-> lo, hi |-> hi]}
  BY DEF Leave
<1>2. LoopInv /\ n \in Nat /\ len \in Nat
  BY <1>1 DEF IInv
<1>3. \A q \in got0 : q.lo \in Nat /\ q.hi \in Nat /\ q.lo <= q.hi
  BY <1>2 DEF LoopInv, WellFormed, Ranges
<1>4. /\ start \in Nat /\ end \in Nat /\ lo \in Nat /\ hi \in Nat /\ at \in Nat
      /\ start <= end /\ lo <= start /\ end <= hi /\ start <= at
      /\ got \subseteq got0
  BY <1>2 DEF LoopInv
<1>5. \A q \in got : q.hi < start \/ end < q.lo
  BY <1>1, <1>2, <1>3, <1>4 DEF LoopInv, Inside
<1>6. Touching(got0, start, end) = Swallowed
  <2>1. \A q \in got : q \notin Touching(got0, start, end)
    BY <1>3, <1>4, <1>5 DEF Touching
  <2>2. \A q \in Swallowed : q \in Touching(got0, start, end)
    BY <1>2 DEF LoopInv, Touching, Swallowed
  <2> QED
    BY <2>1, <2>2 DEF Swallowed, Touching
<1>7. got = got0 \ Swallowed
  BY <1>4 DEF Swallowed
<1>8. Least({start} \cup {r.lo : r \in Swallowed}) = lo
  <2> DEFINE S == {start} \cup {r.lo : r \in Swallowed}
  <2>1. S \subseteq Int /\ lo \in S /\ \A y \in S : lo <= y
    BY <1>2, <1>3, <1>4 DEF LoopInv, Swallowed
  <2> HIDE DEF S
  <2>2. Least(S) = lo
    BY <2>1, LeastIs
  <2> QED
    BY <2>2 DEF S
<1>9. Greatest({end} \cup {r.hi : r \in Swallowed}) = hi
  <2> DEFINE S == {end} \cup {r.hi : r \in Swallowed}
  <2>1. S \subseteq Int /\ hi \in S /\ \A y \in S : y <= hi
    BY <1>2, <1>3, <1>4 DEF LoopInv, Swallowed
  <2> HIDE DEF S
  <2>2. Greatest(S) = hi
    BY <2>1, GreatestIs
  <2> QED
    BY <2>2 DEF S
<1>10. got' = Merged(got0, start, end)
  BY <1>1, <1>6, <1>7, <1>8, <1>9 DEF Merged
<1>11. \A o \in Nat : at <= o /\ o < end => o \notin Octets(got0)
  <2> SUFFICES ASSUME NEW o \in Nat, at <= o, o < end, NEW q \in got0,
                      o \in q.lo .. (q.hi - 1)
               PROVE  FALSE
    BY DEF Octets
  <2>1. q.lo <= o /\ o < q.hi
    BY <1>3
  <2>2. q \in got
    BY <2>1, <1>2, <1>3, <1>4 DEF LoopInv, Swallowed
  <2> QED
    BY <2>1, <2>2, <1>3, <1>4, <1>5
<1>12. data' = Written(data0, len0, got0, start, end, n)
  <2>1. DOMAIN data = 0 .. (len - 1) /\ data = WrittenUpTo(at)
    BY <1>2 DEF LoopInv, WrittenUpTo
  <2>2. data' = [o \in 0 .. (len - 1) |->
                   IF at <= o /\ o < end THEN n ELSE WrittenUpTo(at)[o]]
    <3>1. CASE at < end
      BY <3>1, <2>1, <1>1 DEF Copied
    <3>2. CASE ~(at < end)
      <4>1. data' = data /\ \A o \in 0 .. (len - 1) : ~(at <= o /\ o < end)
        BY <3>2, <1>1, <1>2, <1>4
      <4> QED
        BY <4>1, <2>1 DEF WrittenUpTo
    <3> QED
      BY <3>1, <3>2
  <2>3. \A o \in 0 .. (len - 1) :
          (IF at <= o /\ o < end THEN n ELSE WrittenUpTo(at)[o]) =
          (IF o \in start .. (end - 1) /\ o \notin Octets(got0) THEN n
           ELSE IF o < len0 THEN data0[o] ELSE Zero)
    <3> SUFFICES ASSUME NEW o \in 0 .. (len - 1)
                 PROVE  (IF at <= o /\ o < end THEN n ELSE WrittenUpTo(at)[o]) =
                        (IF o \in start .. (end - 1) /\ o \notin Octets(got0) THEN n
                         ELSE IF o < len0 THEN data0[o] ELSE Zero)
      OBVIOUS
    <3>1. WrittenUpTo(at)[o] =
            IF start <= o /\ o < end /\ o < at /\ o \notin Octets(got0) THEN n
            ELSE IF o < len0 THEN data0[o] ELSE Zero
      BY DEF WrittenUpTo
    <3>2. o \in Nat /\ (o \in start .. (end - 1) <=> start <= o /\ o < end)
      BY <1>2, <1>4
    <3>3. CASE at <= o /\ o < end
      BY <3>2, <3>3, <1>4, <1>11
    <3>4. CASE ~(at <= o /\ o < end)
      BY <3>1, <3>2, <3>4, <1>4
    <3> QED
      BY <3>3, <3>4
  <2>4. len = Larger(len0, end)
    BY <1>2 DEF LoopInv
  <2> QED
    BY <2>2, <2>3, <2>4 DEF Written
<1>13. \A r \in got : r.hi < lo \/ hi < r.lo
  <2> SUFFICES ASSUME NEW r \in got PROVE r.hi < lo \/ hi < r.lo
    OBVIOUS
  <2>1. \A q \in Swallowed : q \in got0 /\ (r.hi < q.lo \/ q.hi < r.lo)
    BY <1>2, <1>4 DEF LoopInv, Apart, Swallowed
  <2>2. CASE r.hi < start
    BY <2>1, <2>2, <1>2, <1>3, <1>4 DEF LoopInv
  <2>3. CASE end < r.lo
    BY <2>1, <2>3, <1>2, <1>3, <1>4 DEF LoopInv
  <2> QED
    BY <2>2, <2>3, <1>5
<1> QED
  BY <1>1, <1>2, <1>4, <1>10, <1>12, <1>13 DEF LoopInv

LEMMA LeaveStep ==
  ASSUME IInv, Leave
  PROVE  IInv'
<1> DEFINE m == [lo |-> lo, hi |-> hi]
<1>1. /\ LoopInv /\ n \in Nat /\ n' = n + 1 /\ pc' = "idle"
      /\ data' = Written(data0, len0, got0, start, end, n)
      /\ len' = Larger(len0, end)
      /\ lo \in Nat /\ hi \in Nat /\ lo <= start /\ end <= hi
      /\ got' = got \cup {m}
      /\ \A r \in got : r.hi < lo \/ hi < r.lo
      /\ \A r \in Swallowed : lo <= r.lo /\ r.hi <= hi
  BY LeaveComputes
<1>2. /\ start \in Nat /\ end \in Nat /\ start <= end /\ len0 \in Nat
      /\ got \subseteq got0 /\ Apart(got0) /\ Tiled(got0, data0, len0)
  BY <1>1 DEF LoopInv
<1>3. \A q \in got0 : q \in Ranges /\ q.lo \in Nat /\ q.hi \in Nat /\ q.lo <= q.hi
  BY <1>1 DEF LoopInv, WellFormed, Ranges
<1>4. m \in Ranges /\ m.lo = lo /\ m.hi = hi /\ lo <= hi
  BY <1>1, <1>2 DEF Ranges
<1>5. WellFormed(got')
  BY <1>1, <1>2, <1>3, <1>4 DEF WellFormed
<1>6. Apart(got')
  <2> SUFFICES ASSUME NEW r \in got', NEW s \in got', r # s
               PROVE  r.hi < s.lo \/ s.hi < r.lo
    BY DEF Apart
  <2>1. CASE r \in got /\ s \in got
    BY <2>1, <1>2 DEF Apart
  <2>2. CASE r = m /\ s \in got
    BY <2>2, <1>1, <1>4
  <2>3. CASE s = m /\ r \in got
    BY <2>3, <1>1, <1>4
  <2> QED
    BY <2>1, <2>2, <2>3, <1>1
<1>7. len' \in Nat /\ len0 <= len' /\ end <= len' /\ (len' = len0 \/ len' = end)
  BY <1>1, <1>2 DEF Larger
<1>8. /\ data' = [o \in 0 .. (len' - 1) |-> data'[o]]
      /\ \A o \in 0 .. (len' - 1) :
           data'[o] = IF o \in start .. (end - 1) /\ o \notin Octets(got0) THEN n
                      ELSE IF o < len0 THEN data0[o] ELSE Zero
  BY <1>1 DEF Written
<1>9. \A o \in Nat : o \in Octets(got') <=> o \in Octets(got0) \/ (start <= o /\ o < end)
  <2> SUFFICES ASSUME NEW o \in Nat
               PROVE  o \in Octets(got') <=>
                        o \in Octets(got0) \/ (start <= o /\ o < end)
    OBVIOUS
  <2>1. ASSUME o \in Octets(got0) PROVE o \in Octets(got')
    <3>1. PICK q \in got0 : q.lo <= o /\ o < q.hi
      BY <2>1, <1>3 DEF Octets
    <3>2. CASE q \in got
      BY <3>1, <3>2, <1>1, <1>3 DEF Octets
    <3>3. CASE q \in Swallowed
      <4>1. lo <= o /\ o < hi
        BY <3>1, <3>3, <1>1, <1>3
      <4> QED
        BY <4>1, <1>1, <1>4 DEF Octets
    <3> QED
      BY <3>2, <3>3 DEF Swallowed
  <2>2. ASSUME start <= o, o < end PROVE o \in Octets(got')
    <3>1. lo <= o /\ o < hi
      BY <2>2, <1>1, <1>2
    <3> QED
      BY <3>1, <1>1, <1>4 DEF Octets
  <2>3. ASSUME o \in Octets(got'), ~(start <= o /\ o < end) PROVE o \in Octets(got0)
    <3>1. PICK q \in got' : q.lo <= o /\ o < q.hi
      BY <2>3, <1>5 DEF Octets, WellFormed, Ranges
    <3>2. CASE q \in got
      BY <3>1, <3>2, <1>2, <1>3 DEF Octets
    <3>3. CASE q = m
      <4>1. CASE o < start
        <5>1. PICK p \in Swallowed : lo = p.lo
          BY <4>1, <3>1, <3>3, <1>1, <1>2, <1>4 DEF LoopInv
        <5>2. p \in got0 /\ start <= p.hi /\ p.lo <= o /\ o < p.hi
          BY <5>1, <4>1, <3>1, <3>3, <1>1, <1>2, <1>3, <1>4 DEF LoopInv, Swallowed
        <5> QED
          BY <5>2, <1>3 DEF Octets
      <4>2. CASE end <= o
        <5>1. PICK p \in Swallowed : hi = p.hi
          BY <4>2, <3>1, <3>3, <1>1, <1>2, <1>4 DEF LoopInv
        <5>2. p \in got0 /\ p.lo <= end /\ p.lo <= o /\ o < p.hi
          BY <5>1, <4>2, <3>1, <3>3, <1>1, <1>2, <1>3, <1>4 DEF LoopInv, Swallowed
        <5> QED
          BY <5>2, <1>3 DEF Octets
      <4> QED
        BY <4>1, <4>2, <2>3, <1>2
    <3> QED
      BY <3>2, <3>3, <1>1
  <2> QED
    BY <2>1, <2>2, <2>3
<1>10. Tiled(got', data', len')
  <2>1. \A o \in Nat : o \in Octets(got') <=> o < len' /\ data'[o] # Zero
    <3> SUFFICES ASSUME NEW o \in Nat
                 PROVE  o \in Octets(got') <=> o < len' /\ data'[o] # Zero
      OBVIOUS
    <3>1. o \in Octets(got0) <=> o < len0 /\ data0[o] # Zero
      BY <1>2 DEF Tiled
    <3>2. o < len' => data'[o] = IF (start <= o /\ o < end) /\ o \notin Octets(got0) THEN n
                                 ELSE IF o < len0 THEN data0[o] ELSE Zero
      BY <1>2, <1>7, <1>8
    <3>3. n # Zero
      BY <1>1 DEF Zero
    <3> QED
      BY <3>1, <3>2, <3>3, <1>2, <1>7, <1>9
  <2>2. /\ \A r \in got0 : r.hi <= len0
        /\ len0 = 0 \/ \E r \in got0 : r.hi = len0
    BY <1>2 DEF Tiled
  <2>3. hi <= len'
    BY <2>2, <1>1, <1>2, <1>3, <1>7 DEF LoopInv, Swallowed
  <2>4. \A r \in got' : r.hi <= len'
    BY <2>2, <2>3, <1>1, <1>2, <1>3, <1>4, <1>7
  <2>5. len' = 0 \/ \E r \in got' : r.hi = len'
    <3> m \in got' /\ m.hi = hi /\ hi \in Nat /\ end <= hi
      BY <1>1, <1>4
    <3> HIDE DEF m
    <3>1. CASE len' = end
      <4>1. hi = len'
        BY <3>1, <2>3, <1>2
      <4> QED
        BY <4>1
    <3>2. CASE len' = len0 /\ len0 # 0
      <4>1. PICK r \in got0 : r.hi = len0
        BY <3>2, <2>2
      <4>2. CASE r \in got
        BY <4>1, <4>2, <3>2, <1>1
      <4>3. CASE r \in Swallowed
        <5>1. r.hi <= hi
          BY <4>3, <1>1
        <5>2. hi = len'
          BY <5>1, <4>1, <3>2, <2>3, <1>2
        <5> QED
          BY <5>2
      <4> QED
        BY <4>2, <4>3 DEF Swallowed
    <3> QED
      BY <3>1, <3>2, <1>7
  <2> QED
    BY <2>1, <2>4, <2>5 DEF Tiled
<1> QED
  BY <1>1, <1>5, <1>6, <1>7, <1>8, <1>10 DEF IInv

----------------------------------------------------------------------------
LEMMA InitIInv == Init => IInv
BY DEF Init, IInv, WellFormed, Ranges, Apart, Tiled, Octets

LEMMA NextIInv == IInv /\ [Next]_vars => IInv'
<1> SUFFICES ASSUME IInv, [Next]_vars PROVE IInv'
  OBVIOUS
<1>1. ASSUME NEW s \in 0 .. MaxDatagram, NEW size \in 0 .. (MaxDatagram - s), Enter(s, size)
      PROVE  IInv'
  BY <1>1, EnterStep
<1>2. CASE Turn
  BY <1>2, TurnStep
<1>3. CASE Leave
  BY <1>3, LeaveStep
<1>4. CASE UNCHANGED vars
  BY <1>4 DEF vars, IInv, LoopInv, WellFormed, Apart, Tiled, Swallowed, Inside, WrittenUpTo
<1> QED
  BY <1>1, <1>2, <1>3, <1>4 DEF Next

THEOREM LoopInvariant == Spec => []IInv
BY InitIInv, NextIInv, PTL DEF Spec

(* Outside absorb the ranges are disjoint and apart, and say exactly which *)
(* octets have been written: the fast path may search them, and `complete` *)
(* may trust them.                                                         *)
THEOREM RangesStayMerged == Spec => []RangesMerged
<1>1. IInv => RangesMerged
  <2> SUFFICES ASSUME IInv, pc = "idle" PROVE RangesMerged
    BY DEF RangesMerged
  <2>1. WellFormed(got) /\ Apart(got) /\ Tiled(got, data, len) /\ len \in Nat
    BY DEF IInv
  <2>2. \A r \in got : r.lo \in Nat /\ r.hi \in Nat /\ r.lo <= r.hi
    BY <2>1 DEF WellFormed, Ranges
  <2>3. Octets(got) = {o \in 0 .. (len - 1) : data[o] # Zero}
    <3>1. Octets(got) \subseteq Nat
      BY <2>2 DEF Octets
    <3>2. \A o \in Nat : o \in Octets(got) <=> o < len /\ data[o] # Zero
      BY <2>1 DEF Tiled
    <3>3. \A o : o \in 0 .. (len - 1) <=> o \in Nat /\ o < len
      BY <2>1
    <3> QED
      BY <3>1, <3>2, <3>3
  <2>4. got # {} => len = Greatest({r.hi : r \in got})
    <3> SUFFICES ASSUME got # {} PROVE len = Greatest({r.hi : r \in got})
      OBVIOUS
    <3> DEFINE S == {r.hi : r \in got}
    <3>1. S \subseteq Int /\ len \in S /\ \A y \in S : y <= len
      BY <2>1, <2>2 DEF Tiled
    <3> HIDE DEF S
    <3>2. Greatest(S) = len
      BY <3>1, GreatestIs
    <3> QED
      BY <3>2 DEF S
  <2> QED
    BY <2>1, <2>2, <2>3, <2>4 DEF RangesMerged
<1> QED
  BY <1>1, LoopInvariant, PTL

(* Group::absorb's loop implements the one-step claim.                     *)
THEOREM AbsorbImplementsClaims == Spec => ImplementsClaims
<1>1. Init => Abstract!Init
  BY DEF Init, Abstract!Init, Stable
<1>2. IInv /\ [Next]_vars =>
        [Abstract!Next]_<<Stable(got0, got), Stable(data0, data), Stable(len0, len), n>>
  <2> SUFFICES ASSUME IInv, [Next]_vars
               PROVE  \/ Abstract!Next
                      \/ UNCHANGED <<Stable(got0, got), Stable(data0, data),
                                     Stable(len0, len), n>>
    OBVIOUS
  <2>1. ASSUME NEW s \in 0 .. MaxDatagram, NEW size \in 0 .. (MaxDatagram - s),
               Enter(s, size)
        PROVE  UNCHANGED <<Stable(got0, got), Stable(data0, data), Stable(len0, len), n>>
    BY <2>1 DEF Enter, Stable
  <2>2. CASE Turn
    BY <2>2 DEF Turn, Stable, ghosts
  <2>3. CASE Leave
    <3>1. /\ LoopInv /\ pc = "loop" /\ pc' = "idle" /\ n' = n + 1
          /\ got' = Merged(got0, start, end)
          /\ data' = Written(data0, len0, got0, start, end, n)
          /\ len' = Larger(len0, end)
      BY <2>3, LeaveComputes
    <3>2. /\ start \in 0 .. MaxDatagram /\ end - start \in 0 .. (MaxDatagram - start)
          /\ start + (end - start) = end /\ n < MaxClaims
      BY <3>1, LoopBounds DEF LoopInv
    <3>3. /\ Abstract!Merged(got0, start, end) = Merged(got0, start, end)
          /\ Abstract!Written(data0, len0, got0, start, end, n) =
               Written(data0, len0, got0, start, end, n)
          /\ Abstract!Larger(len0, end) = Larger(len0, end)
      BY DEF Abstract!Merged, Merged, Abstract!Touching, Touching, Abstract!Least, Least,
             Abstract!Greatest, Greatest, Abstract!Written, Written, Abstract!Octets, Octets,
             Abstract!Larger, Larger, Abstract!Zero, Zero
    <3>4. Abstract!Claim(start, end - start)
      BY <3>1, <3>2, <3>3 DEF Abstract!Claim, Stable
    <3> QED
      BY <3>2, <3>4 DEF Abstract!Next
  <2>4. CASE UNCHANGED vars
    BY <2>4 DEF vars, Stable
  <2> QED
    BY <2>1, <2>2, <2>3, <2>4 DEF Next
<1> QED
  BY <1>1, <1>2, LoopInvariant, PTL DEF Spec, ImplementsClaims, Abstract!Spec
=============================================================================
