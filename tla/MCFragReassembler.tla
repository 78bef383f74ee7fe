------------------------- MODULE MCFragReassembler -------------------------
(* Small captures for FragReassembler: offsets count units of 2 octets     *)
(* where the code counts 8, and a datagram is at most MaxDatagram long.    *)
(* k1 is an IPv4 datagram's key, k2 and k3 are IPv6 ones.                  *)
EXTENDS FragReassembler

CONSTANTS k1, k2, k3

Piece(k, at, more, len, hlen) ==
  [key |-> k, at |-> at, more |-> more, len |-> len, hlen |-> hlen]

(* Overlapping, adjacent, empty and misplaced fragments of two datagrams.  *)
(* hlen 3 pushes a full datagram past MaxDatagram.                         *)
OverlapFrames ==
  { Piece(k1, 0, TRUE, 2, 1), Piece(k1, 0, TRUE, 3, 3), Piece(k1, 2, TRUE, 2, 1),
    Piece(k1, 2, FALSE, 2, 1), Piece(k1, 4, FALSE, 1, 1), Piece(k1, 2, TRUE, 0, 1),
    Piece(k2, 0, FALSE, 2, 1), Piece(k2, 0, TRUE, 2, 1),
    Piece(k1, 0, FALSE, 2, 1), Piece(k1, 4, TRUE, 3, 1) }

(* Three datagrams contending for two slots and eight octets.              *)
ContentionFrames ==
  { Piece(k1, 0, TRUE, 2, 1), Piece(k1, 2, FALSE, 2, 1), Piece(k2, 0, TRUE, 3, 1),
    Piece(k2, 2, FALSE, 3, 1), Piece(k3, 0, TRUE, 1, 1), Piece(k3, 0, FALSE, 1, 1) }

(* Datagrams that finish at once leave their queue entries behind.         *)
SweepFrames ==
  { Piece(k2, 0, FALSE, 1, 1), Piece(k3, 0, FALSE, 1, 1), Piece(k2, 0, TRUE, 1, 1),
    Piece(k3, 2, TRUE, 1, 1), Piece(k1, 0, TRUE, 1, 1) }

AllFrames == OverlapFrames \cup ContentionFrames \cup SweepFrames

(* A capture is of one kind, and as long as that kind needs.               *)
OneKind ==
  \E kind \in {<<OverlapFrames, 4>>, <<ContentionFrames, 5>>, <<SweepFrames, 6>>} :
    /\ Len(input) <= kind[2]
    /\ \A i \in 1 .. Len(input) : input[i] \in kind[1]
=============================================================================
