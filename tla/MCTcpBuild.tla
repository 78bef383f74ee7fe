----------------------------- MODULE MCTcpBuild -----------------------------
(* Short captures of one direction around a wrap of a 16-number sequence   *)
(* space.  The bounds keep the code's order: OriginWindow segments at full *)
(* size exceed MaxHeldBytes, and Reach stays under half the space.         *)
EXTENDS TcpBuild

Seg(t, len, f) == [t |-> t, len |-> len, flags |-> f]

(* Mid-stream captures: no SYN is ever seen.                               *)
MidStream ==
  {Seg(t, len, {}) : t \in 13 .. 19, len \in {1, 2}} \cup
  {Seg(14, 4, {}), Seg(12, 1, {}), Seg(21, 1, {}), Seg(16, 0, {"FIN"})}

(* Captures with a SYN, before, between or after the data it opens.        *)
WithSyn ==
  {Seg(t, len, {}) : t \in {12, 14, 15, 17, 19}, len \in {1, 3}} \cup
  {Seg(14, 0, {"SYN"}), Seg(14, 2, {"SYN"}), Seg(17, 1, {"FIN"}), Seg(18, 0, {"RST"})}

AllSegments == MidStream \cup WithSyn

(* A capture is of one kind or the other.                                  *)
OneKind ==
  \E kind \in {MidStream, WithSyn} : \A i \in 1 .. Len(fed) : fed[i] \in kind
=============================================================================
