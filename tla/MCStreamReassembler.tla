------------------------ MODULE MCStreamReassembler ------------------------
(* Short captures of three connections contending for two slots and a few  *)
(* held octets.                                                            *)
EXTENDS StreamReassembler

CONSTANTS k1, k2, k3

Tcp(k, e, synack, len) ==
  [tcp |-> TRUE, key |-> k, from |-> e, synack |-> synack, len |-> len]

(* Both sides of two connections, one opened by its SYN-ACK, a third that  *)
(* needs a slot, and a frame that is not TCP.                              *)
ContendingFrames ==
  { Tcp(k1, "a", FALSE, 2), Tcp(k1, "b", TRUE, 0), Tcp(k2, "b", FALSE, 1),
    Tcp(k2, "a", FALSE, 2), Tcp(k3, "a", FALSE, 1),
    [Tcp(k3, "a", FALSE, 0) EXCEPT !.tcp = FALSE] }

(* Busy streams: every frame after a stream's first leaves a stale entry.  *)
BusyFrames ==
  { Tcp(k1, "a", FALSE, 2), Tcp(k2, "a", FALSE, 1), Tcp(k2, "b", FALSE, 0),
    Tcp(k3, "b", FALSE, 1) }
AllFrames == ContendingFrames \cup BusyFrames

(* A capture is of one kind, and as long as that kind needs.               *)
OneKind ==
  \E kind \in {<<ContendingFrames, 4>>, <<BusyFrames, 5>>} :
    /\ Len(input) <= kind[2]
    /\ \A i \in 1 .. Len(input) : input[i] \in kind[1]
=============================================================================
