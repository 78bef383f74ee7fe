--------------------------- MODULE FragRoundTrip ---------------------------
(***************************************************************************)
(* `fragment` and `defragment` together: a datagram is split, an IPv4 one  *)
(* perhaps a second time on its way, and its pieces reach a reassembler    *)
(* (FragReassembler) in any order, duplicates included.                    *)
(***************************************************************************)
EXTENDS FragReassembler, Fragmentation

CONSTANTS
  V4Grams,   \* IPv4 datagrams
  V6Grams,   \* IPv6 datagrams
  Sizes      \* the fragsize of each split

(* Options that are not copied make a later header shorter, never longer.  *)
ASSUME GramsAssumption ==
  /\ V4Grams \subseteq [at : {0}, len : Nat, more : {FALSE}, df : BOOLEAN,
                        hlen : Nat, later : Nat]
  /\ \A d \in V4Grams : d.later <= d.hlen
  /\ V6Grams \subseteq [chain : Seq(STRING), body : Nat]
  /\ Sizes \subseteq Nat

ASSUME SameLimit == MaxDatagram = MaxLength

(* One datagram exceeds no cap, so evict's loop never takes a turn here.   *)
ASSUME RoomForOne == MaxInflight >= 1 /\ MaxBuffered >= MaxDatagram

VARIABLES
  header, payload,   \* the octets `assemble` will put back: header and payload
  wire               \* the pieces that travel, as FragReassembler's frames

(* What `inspect` reads of a piece.  An IPv6 piece whose Fragment header   *)
(* the chain walk does not reach is no fragment at all.                    *)
V4Found(k, f) == [key |-> k, at |-> f.at, more |-> f.more, len |-> f.len, hlen |-> f.hlen]
V6Found(k, f) ==
  [key |-> k, at |-> f.at, more |-> f.more, len |-> f.len,
   hlen |-> (Len(f.chain) - 1) * Unit]

Twice(d, s, t) == UNION {fragment_v4(f, t) : f \in fragment_v4(d, s)}

V4Wire(k, d, s, t) == {V4Found(k, f) : f \in Twice(d, s, t)}
V6Wire(k, d, s) ==
  {V6Found(k, f) : f \in {g \in fragment_v6(d, s) : HasFragmentHeader(g.chain)}}

(* Every piece any split makes: frames the reassembler may be fed.         *)
V4Wires ==
  {V4Wire(k, d, s, t) : k \in Keys \ V6Keys, d \in V4Grams, s \in Sizes, t \in Sizes}
V6Wires == {V6Wire(k, d, s) : k \in V6Keys, d \in V6Grams, s \in Sizes}
Pieces == UNION (V4Wires \cup V6Wires)

ASSUME PiecesAssumption == Pieces \subseteq Frames

Travels(frames, h, n) ==
  /\ wire = frames
  /\ header = h
  /\ payload = n

RTInit ==
  /\ Init
  /\ \/ \E k \in Keys \ V6Keys, d \in V4Grams : \E s, t \in Sizes :
          Travels(V4Wire(k, d, s, t), d.hlen, d.len)
     \/ \E k \in V6Keys, d \in V6Grams, s \in Sizes :
          /\ fragment_v6(d, s) # {}
          /\ Travels(V6Wire(k, d, s), Fixed(d.chain) * Unit, Fragmentable(d))

RTNext ==
  /\ \/ \E f \in wire : PushWhole(f) \/ PushRefused(f) \/ PushFragment(f)
     \/ EvictEnd
     \/ Finish
     \/ \E k \in Keys : FinishSpill(k)
     \/ FinishEnd
  /\ UNCHANGED <<header, payload, wire>>

RTSpec == RTInit /\ [][RTNext]_<<vars, header, payload, wire>>
----------------------------------------------------------------------------
(* Every piece arrived, and within the MAX_FRAGS one datagram may be fed.  *)
AllArrived ==
  \A f \in wire : \E p \in 0 .. (MaxFrags - 1) : p < Len(input) /\ Frame(p) = f

PutBack ==
  \E i \in 1 .. Len(out) :
    \/ /\ out[i].kind = "complete"
       /\ out[i].len = payload
       /\ Frame(out[i].head).hlen = header
    \/ out[i].kind = "whole" /\ \A f \in wire : f.len = payload

(* Splitting, splitting again and reassembling gives the datagram back,    *)
(* with its own header and length, in whatever order the pieces come, for  *)
(* every datagram a 16-bit length can describe.  MAX_FRAGS is enough.      *)
RoundTrips ==
  /\ header + payload <= MaxDatagram
  /\ pc # "evict"
  /\ AllArrived
  => PutBack

(* Every piece is one a wire can carry: header and chunk fit a 16-bit      *)
(* length, the offset its 13 bits and its unit, and only the piece that    *)
(* ends the datagram lacks more-fragments.                                 *)
PiecesDescribable ==
  \A f \in wire :
    /\ header + payload <= MaxDatagram \/ Cardinality(wire) > 1 => f.hlen + f.len <= MaxDatagram
    /\ f.at % Unit = 0 /\ f.at \div Unit <= MaxOffset
    /\ f.more <=> f.at + f.len < payload
    /\ f.key \in V6Keys => f.hlen + Unit + f.len <= MaxDatagram
=============================================================================
