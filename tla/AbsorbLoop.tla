----------------------------- MODULE AbsorbLoop -----------------------------
(***************************************************************************)
(* The loop of Group::absorb (crates/wiry-core/src/frag.rs), one turn per  *)
(* step: the probe for a predecessor, the walk over the ranges that start  *)
(* inside the claim, and the tail.  `got` is the BTreeMap and lo, hi, at   *)
(* are the code's own locals.  Implements Claims.                          *)
(***************************************************************************)
EXTENDS ClaimedRanges

CONSTANTS MaxDatagram, MaxClaims

ASSUME LoopBounds == MaxDatagram \in Nat /\ MaxClaims \in Nat

VARIABLES
  got, data, len,   \* the group's fields
  n,                \* the number of claims made, and the next writer
  start, end, lo, hi, at,   \* absorb's argument and locals
  pc,               \* "idle" outside absorb, "loop" inside it
  got0, data0, len0 \* ghosts: the fields as absorb found them

fields == <<got, data, len>>
ghosts == <<got0, data0, len0>>
vars == <<got, data, len, n, start, end, lo, hi, at, pc, got0, data0, len0>>

Smaller(a, b) == IF a <= b THEN a ELSE b

Init ==
  /\ got = {} /\ data = <<>> /\ len = 0 /\ n = 0
  /\ start = 0 /\ end = 0 /\ lo = 0 /\ hi = 0 /\ at = 0
  /\ pc = "idle"
  /\ got0 = {} /\ data0 = <<>> /\ len0 = 0

(* self.data.resize(end, 0) when the claim ends past the data.             *)
Resized(e) == [o \in 0 .. (Larger(len, e) - 1) |-> IF o < len THEN data[o] ELSE Zero]

(* Mutant: the copy starts over at the claim's own start.                  *)
CopiedFromStart(from, to) ==
  [o \in DOMAIN data |-> IF start <= o /\ o < to THEN n ELSE data[o]]
(* self.data[from..to] copied from the fragment.                           *)
Copied(from, to) ==
  [o \in DOMAIN data |-> IF from <= o /\ o < to THEN n ELSE data[o]]

(* Mutant: a range that only touches the claim is no predecessor.          *)
PredecessorOver(s) ==
  {r \in got : /\ r.lo <= s
               /\ \A q \in got : q.lo <= s => q.lo <= r.lo
               /\ r.hi > s}
(* got.range(..=s).next_back(), when it reaches s.                         *)
Predecessor(s) ==
  {r \in got : /\ r.lo <= s
               /\ \A q \in got : q.lo <= s => q.lo <= r.lo
               /\ r.hi >= s}

Enter(s, size) ==
  /\ pc = "idle"
  /\ n < MaxClaims
  /\ start' = s /\ end' = s + size
  /\ len' = Larger(len, s + size)
  /\ data' = Resized(s + size)
  /\ \/ /\ Predecessor(s) = {}
        /\ got' = got /\ lo' = s /\ hi' = s + size /\ at' = s
     \/ \E r \in Predecessor(s) :
          /\ got' = got \ {r}
          /\ lo' = r.lo
          /\ hi' = Larger(s + size, r.hi)
          /\ at' = Larger(s, r.hi)
  /\ pc' = "loop"
  /\ got0' = got /\ data0' = data /\ len0' = len
  /\ UNCHANGED n

Inside == {r \in got : start <= r.lo /\ r.lo <= end}

(* One turn: the first range that starts inside the claim is swallowed and *)
(* the gap before it written.                                              *)
Turn ==
  /\ pc = "loop"
  /\ \E r \in Inside :
       /\ \A q \in Inside : r.lo <= q.lo
       /\ LET upto == Smaller(r.lo, end)
          IN  data' = IF upto > at THEN Copied(at, upto) ELSE data
       /\ at' = Larger(at, r.hi)
       /\ hi' = Larger(hi, r.hi)
       /\ got' = got \ {r}
  /\ UNCHANGED <<len, n, start, end, lo, pc, ghosts>>

Leave ==
  /\ pc = "loop"
  /\ Inside = {}
  /\ data' = IF at < end THEN Copied(at, end) ELSE data
  /\ got' = got \cup {[lo |-> lo, hi |-> hi]}
  /\ n' = n + 1
  /\ pc' = "idle"
  /\ UNCHANGED <<len, start, end, lo, hi, at, ghosts>>

Next ==
  \/ \E s \in 0 .. MaxDatagram : \E size \in 0 .. (MaxDatagram - s) : Enter(s, size)
  \/ Turn
  \/ Leave

Spec == Init /\ [][Next]_vars
----------------------------------------------------------------------------
Stable(old, now) == IF pc = "idle" THEN now ELSE old

Abstract == INSTANCE Claims WITH
  got <- Stable(got0, got), data <- Stable(data0, data), len <- Stable(len0, len)

(* The loop, with its single predecessor probe and its forward walk, lands *)
(* every claim exactly as the one-step specification does: no octet that   *)
(* was claimed is rewritten, none that was free is missed, and one range   *)
(* covers what the claim joined.                                           *)
ImplementsClaims == Abstract!Spec

(* What the single probe relies on: outside absorb the ranges are disjoint *)
(* and never touch, they hold exactly the octets some fragment wrote, and  *)
(* `data` ends where the last range does.                                  *)
RangesMerged ==
  pc = "idle" =>
    /\ Apart(got)
    /\ \A r \in got : r.lo <= r.hi
    /\ Octets(got) = {o \in 0 .. (len - 1) : data[o] # Zero}
    /\ got # {} => len = Greatest({r.hi : r \in got})
=============================================================================
