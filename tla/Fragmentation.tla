--------------------------- MODULE Fragmentation ---------------------------
(***************************************************************************)
(* `fragment` of crates/wiry-core/src/frag.rs: what fragment_v4 and        *)
(* fragment_v6 make of a datagram, as operators.                           *)
(*                                                                         *)
(* A datagram is what the code reads of it.  IPv4: offset and payload      *)
(* length in octets, more-fragments, don't-fragment, the header length and *)
(* the header length a later fragment gets (options not marked copied are  *)
(* left out of those).  IPv6: the chain of extension headers, each Unit    *)
(* octets long and within the datagram, and the length of what follows the *)
(* chain.  Octets themselves are not modelled: a piece carries the ones at *)
(* its offset.                                                             *)
(***************************************************************************)
EXTENDS ClaimedRanges, Sequences

CONSTANTS
  Unit,         \* 8, the octets one offset counts
  MaxOffset,    \* 0x1fff, a 13-bit offset
  MaxExt        \* MAX_EXT, 8

ASSUME UnitsAssumption ==
  /\ Unit \in Nat \ {0} /\ MaxOffset \in Nat /\ MaxExt \in Nat \ {0}

(* MAX_DATAGRAM, 65535: one octet short of what the offsets can reach.     *)
MaxLength == Unit * (MaxOffset + 1) - 1

LesserOf(a, b) == IF a <= b THEN a ELSE b

unit_of(size) == Larger(size \div Unit, 1) * Unit

(* Mutant: the chunk a caller asked for, whatever its header.              *)
ChunkUncapped(size, header) == unit_of(size)
(* The chunk a caller asked for, cut to what a 16-bit length can describe  *)
(* next to `header` octets.                                                *)
Chunk(size, header) ==
  LesserOf(unit_of(size), (Larger(MaxLength - header, 0) \div Unit) * Unit)

(* An offset is 13 bits; a payload past it cannot be described.            *)
TooWide(base, len) == base + (len - 1) \div Unit > MaxOffset

(* Where each chunk starts.                                                *)
Starts(len, chunk) == {at \in 0 .. (len - 1) : at % chunk = 0}

(* Mutant: more-fragments of the datagram being split is forgotten.        *)
MoreLost(d, at, n) == at + n < d.len
(* MF on every piece but the last, or'd with the incoming one.             *)
More(d, at, n) == at + n < d.len \/ d.more

fragment_v4(d, size) ==
  LET chunk == Chunk(size, d.hlen)
      piece(at) ==
        LET n == LesserOf(chunk, d.len - at)
        IN  [d EXCEPT !.at = d.at + at, !.len = n, !.more = More(d, at, n),
                      !.hlen = IF at = 0 THEN d.hlen ELSE d.later]
  IN  IF d.df \/ chunk = 0 \/ d.len <= chunk \/ TooWide(d.at \div Unit, d.len)
      THEN {d}
      ELSE {piece(at) : at \in Starts(d.len, chunk)}
----------------------------------------------------------------------------
IsExt(h) == h \in {"hop", "routing", "dest"}

(* The positions of ext_chain: the headers and what the last one names, up *)
(* to the first that is not an extension header and at most MaxExt.        *)
Names(chain) == Append(chain, "payload")
Visited(chain) ==
  LesserOf(MaxExt, Least({i \in 1 .. Len(Names(chain)) : ~IsExt(Names(chain)[i])}))

(* v6_frag_header                                                          *)
HasFragmentHeader(chain) == \E i \in 1 .. Visited(chain) : Names(chain)[i] = "frag"

(* v6_unfragmentable: how many headers every fragment repeats, and how     *)
(* many the walk passed.                                                   *)
Fixed(chain) ==
  Greatest({0} \cup {i \in 1 .. (Visited(chain) - 1) : chain[i] # "dest"})
Depth(chain) == Cardinality({i \in 1 .. Visited(chain) : IsExt(Names(chain)[i])})

(* The Fragment header would sit past where reassembly walks.              *)
TooDeep(chain) == Depth(chain) >= MaxExt

(* What the datagram carries past the headers every fragment repeats.      *)
Fragmentable(d) == (Len(d.chain) - Fixed(d.chain)) * Unit + d.body

(* A piece is its chain up to the Fragment header, and its extent.         *)
fragment_v6(d, size) ==
  LET fixed == Fixed(d.chain)
      len   == Fragmentable(d)
      chunk == Chunk(size, fixed * Unit + Unit)
      piece(at) ==
        LET n == LesserOf(chunk, len - at)
        IN  [chain |-> Append(SubSeq(d.chain, 1, fixed), "frag"),
             at |-> at, len |-> n, more |-> at + n < len]
  IN  IF \/ HasFragmentHeader(d.chain)
         \/ TooDeep(d.chain)
         \/ chunk = 0 \/ len <= chunk \/ TooWide(0, len)
      THEN {}
      ELSE {piece(at) : at \in Starts(len, chunk)}
=============================================================================
