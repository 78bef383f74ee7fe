------------------------------ MODULE MCSndRcv ------------------------------
(* The instance of SndRcv that TLC explores: two packets at different link  *)
(* layers, an answer to each, one to both, and every combination of the     *)
(* arguments that changes the control flow.                                 *)
EXTENDS SndRcv

CONSTANTS p1, p2, a1, a2, both

MCPackets == {p1, p2}
MCOrder == <<p1, p2>>
MCLink == p1 :> "IP" @@ p2 :> "Ether"
MCReplies == {a1, a2, both}
MCAnswers == a1 :> {p1} @@ a2 :> {p2} @@ both :> {p1, p2}

Call(r, m, f, t, to, cc, ex, sf, st, fl, mx) ==
  [retry |-> r, multi |-> m, first |-> f, threaded |-> t, timeout |-> to,
   chainCC |-> cc, chainEX |-> ex, stop_filter |-> sf, strict |-> st,
   flood |-> fl, maxretries |-> mx]

\* Plain, repeated and persistent exchanges; multi; first; an error that is
\* passed on; floods; and one call with every exit it can have.
Exchanges ==
  {Call(-1, FALSE, FALSE, t, to, FALSE, FALSE, FALSE, FALSE, "no", 0) :
     t \in BOOLEAN, to \in BOOLEAN}
  \cup {Call(0, TRUE, FALSE, t, TRUE, FALSE, FALSE, FALSE, FALSE, "no", 0) :
          t \in BOOLEAN}
  \cup {Call(1, TRUE, TRUE, TRUE, FALSE, FALSE, FALSE, FALSE, FALSE, "no", 0)}
  \cup {Call(0, FALSE, FALSE, t, TRUE, FALSE, TRUE, FALSE, FALSE, "no", 0) :
          t \in BOOLEAN}
  \cup {Call(1, FALSE, FALSE, FALSE, FALSE, TRUE, FALSE, TRUE, TRUE, "no", 0)}
Floods ==
  {Call(0, FALSE, FALSE, TRUE, to, FALSE, FALSE, FALSE, FALSE, fl,
        IF to THEN 0 ELSE 2) :
     to \in BOOLEAN, fl \in {"each", "bulk"}}
MCOptions == Exchanges \cup Floods
=============================================================================
