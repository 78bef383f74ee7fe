------------------------------- MODULE Claims -------------------------------
(***************************************************************************)
(* What one datagram's group promises about its octets: a claim lands in   *)
(* one step, first writer wins, and the claimed ranges are merged.  This   *)
(* is the abstract specification that AbsorbLoop implements.               *)
(***************************************************************************)
EXTENDS ClaimedRanges

CONSTANTS MaxDatagram,  \* MAX_DATAGRAM, the end no claim passes
          MaxClaims     \* bound: claims on one datagram

VARIABLES got, data, len, n

(* The claim [start, start + size) by the n-th fragment.                   *)
Claim(start, size) ==
  /\ n < MaxClaims
  /\ got' = Merged(got, start, start + size)
  /\ data' = Written(data, len, got, start, start + size, n)
  /\ len' = Larger(len, start + size)
  /\ n' = n + 1

Init == got = {} /\ data = <<>> /\ len = 0 /\ n = 0

Next == \E start \in 0 .. MaxDatagram :
          \E size \in 0 .. (MaxDatagram - start) : Claim(start, size)

Spec == Init /\ [][Next]_<<got, data, len, n>>
=============================================================================
