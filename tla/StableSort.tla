----------------------------- MODULE StableSort -----------------------------
(***************************************************************************)
(* slice::sort_by_key of the Rust standard library, by which both          *)
(* reassemblers put their results in order: a stable sort, said by the     *)
(* rank each element takes.                                                *)
(***************************************************************************)
EXTENDS Integers, Sequences, FiniteSets

(* What comes before element i: smaller keys, and equal keys to its left.  *)
Ahead(keys, i) ==
  {j \in 1 .. Len(keys) : keys[j] < keys[i] \/ (keys[j] = keys[i] /\ j < i)}

SortRank(keys, i) == Cardinality(Ahead(keys, i)) + 1

SortedBy(s, keys) ==
  [r \in 1 .. Len(s) |-> s[CHOOSE i \in 1 .. Len(s) : SortRank(keys, i) = r]]
=============================================================================
