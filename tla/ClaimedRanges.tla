--------------------------- MODULE ClaimedRanges ---------------------------
(***************************************************************************)
(* What Group::absorb of crates/wiry-core/src/frag.rs does to a group's    *)
(* claimed ranges (`got`) and octets (`data`), in closed form.  AbsorbLoop *)
(* is the loop the code runs and is checked to compute exactly this.       *)
(*                                                                         *)
(* A range is [lo, hi) as a record.  An octet of `data` is abstracted to   *)
(* the position of the frame that wrote it, or Zero where Vec::resize put  *)
(* a filler that no fragment has claimed yet.                              *)
(***************************************************************************)
EXTENDS Integers, FiniteSets

Zero == -1

Least(S) == CHOOSE x \in S : \A y \in S : x <= y
Greatest(S) == CHOOSE x \in S : \A y \in S : y <= x

Larger(a, b) == IF a >= b THEN a ELSE b

Octets(got) == UNION {r.lo .. (r.hi - 1) : r \in got}

(* Mutant: a range that only meets the claim is left apart.                *)
TouchingOverlap(got, start, end) == {r \in got : r.lo < end /\ start < r.hi}
(* The ranges the new claim [start, end) swallows: the predecessor when it *)
(* reaches start, and every range that begins in start..=end.              *)
Touching(got, start, end) == {r \in got : r.lo <= end /\ start <= r.hi}

Merged(got, start, end) ==
  LET T == Touching(got, start, end)
  IN  (got \ T) \cup
        {[lo |-> Least({start} \cup {r.lo : r \in T}),
          hi |-> Greatest({end} \cup {r.hi : r \in T})]}

(* Mutant: the later writer overwrites.                                    *)
WrittenOver(data, len, got, start, end, writer) ==
  [o \in 0 .. (Larger(len, end) - 1) |->
     IF o \in start .. (end - 1) THEN writer ELSE IF o < len THEN data[o] ELSE Zero]
(* data.resize(end, 0), then the unclaimed part of [start, end) written.   *)
Written(data, len, got, start, end, writer) ==
  [o \in 0 .. (Larger(len, end) - 1) |->
     IF o \in start .. (end - 1) /\ o \notin Octets(got) THEN writer
     ELSE IF o < len THEN data[o] ELSE Zero]

(* Disjoint, and never touching: what makes one predecessor probe enough.  *)
Apart(got) == \A r, s \in got : r = s \/ r.hi < s.lo \/ s.hi < r.lo
=============================================================================
