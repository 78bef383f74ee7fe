------------------------------ MODULE TcpBuild ------------------------------
(***************************************************************************)
(* One direction of a TCP stream: Build of crates/wiry-core/src/stream.rs, *)
(* fed one captured segment at a time.                                     *)
(*                                                                         *)
(* A segment comes from a sender whose octets have true positions t; the   *)
(* wire carries t modulo SeqSpace.  An octet is the record of the absolute *)
(* position the code gave it, its true position and the packet it came in, *)
(* so order, origin and first-writer-wins can be read off `data`.          *)
(*                                                                         *)
(* feed is one call; the loops it ends in (drain, relieve) run as steps of *)
(* their own under `pc`, and no segment is fed until they are over.        *)
(***************************************************************************)
EXTENDS Integers, Sequences, FiniteSets

CONSTANTS
  SeqSpace,      \* 2^32
  MaxStream,     \* MAX_STREAM
  MaxHeldSegs,   \* MAX_HELD_SEGS
  MaxHeldBytes,  \* MAX_HELD_BYTES
  MaxAhead,      \* MAX_AHEAD
  OriginWindow,  \* ORIGIN_WINDOW
  Segments,      \* [t, len, flags] a capture may hold
  Reach,         \* how far from the frontier a sender's segment may lie
  MaxPackets     \* bound: segments fed

ASSUME SizesAssumption ==
  /\ {SeqSpace, MaxStream, MaxHeldSegs, MaxHeldBytes, MaxAhead, OriginWindow,
      Reach, MaxPackets} \subseteq Nat
  /\ 0 < OriginWindow /\ OriginWindow <= MaxHeldSegs
  /\ Reach < SeqSpace \div 2
  /\ Segments \subseteq [t : Nat, len : Nat, flags : SUBSET {"SYN", "FIN", "RST"}]

VARIABLES
  data,       \* the delivered octets, in stream order: [at, t, pkt]
  segs,       \* provenance: [at, len, pkt]
  gaps,       \* [at, len], with the ghost `from`, the position it begins at
  flags,      \* of SYN, FIN, RST, LOSSY, TRUNCATED
  dropped,    \* octets a bound refused
  held,       \* the BTreeMap: a set of [at, len, pkt, t]
  heldBytes,
  next, origin, started, open,
  pc,         \* "idle", in a loop ("drain", "relieve", "finish") or "done"
  caller,     \* the pc drain returns to
  fed,        \* ghost: the segments fed, packet p at fed[p]
  lost        \* ghost: the positions counted in `dropped`

half == <<data, segs, gaps, flags, dropped, lost>>
holding == <<held, heldBytes>>
frontier == <<next, origin, started, open>>
vars == <<half, holding, frontier, pc, caller, fed>>

Span(at, len) == at .. (at + len - 1)
HeldPositions == UNION {Span(h.at, h.len) : h \in held}
Smaller(a, b) == IF a <= b THEN a ELSE b
Distance(a, b) == IF a >= b THEN a - b ELSE b - a

(* Mutant: the difference of two wire numbers taken as unsigned.           *)
SignedNever(d) == d

(* `as i32`: the difference of two wire numbers as a signed one.           *)
Signed(d) == IF d >= SeqSpace \div 2 THEN d - SeqSpace ELSE d

absolute(reference, seq) == reference + Signed((seq - reference) % SeqSpace)

(* held.first_key_value()                                                  *)
First(H) == CHOOSE h \in H : \A g \in H : h.at <= g.at
----------------------------------------------------------------------------
(* Mutant: the first number seen is itself the reference.                  *)
FirstReferenceAtZero(seq) == seq

(* "One wrap in": the reference a first segment sets.                      *)
FirstReference(seq) == seq + SeqSpace

(* Mutant: every SYN opens the direction anew.                             *)
OpensAgain(s) == "SYN" \in s.flags

(* Only the SYN of a direction with no frontier yet opens it.              *)
Opens(s) == "SYN" \in s.flags /\ ~open

(* What feed works out before it looks at the payload: the reference a     *)
(* first segment sets, where this one lands, and what a SYN opens.         *)
Arrival(s) ==
  LET seq   == s.t % SeqSpace
      ref   == IF started THEN next ELSE FirstReference(seq)
      start == IF started THEN origin ELSE ref
      at    == absolute(ref, seq)
      syn   == "SYN" \in s.flags
  IN  [at     |-> IF syn THEN at + 1 ELSE at,
       t      |-> IF syn THEN s.t + 1 ELSE s.t,
       len    |-> s.len,
       pkt    |-> Len(fed) + 1,
       next   |-> IF Opens(s) THEN at + 1 ELSE ref,
       origin |-> IF Opens(s) THEN at ELSE start,
       open   |-> open \/ syn]

(* True and absolute positions differ by a constant the first segment sets.*)
Shift == FirstReference(fed[1].t % SeqSpace) - fed[1].t

(* A sender's segment lies within half the sequence space of the frontier. *)
Plausible(s) == fed # <<>> => Distance(s.t + Shift, next) <= Reach

(* The octets of an arrival below the origin, refused and reported.        *)
BelowOrigin(a) == IF a.at < a.origin THEN Smaller(a.origin - a.at, a.len) ELSE 0

Arrives(s) ==
  /\ pc = "idle"
  /\ Len(fed) < MaxPackets
  /\ Plausible(s)
  /\ fed' = Append(fed, s)
  /\ started' = TRUE
  /\ UNCHANGED gaps

Refuses(s, from, len) ==
  /\ flags' = flags \cup s.flags \cup (IF len > 0 THEN {"LOSSY"} ELSE {})
  /\ dropped' = dropped + len
  /\ lost' = lost \cup Span(from, len)

(* Mutant: what is already held is claimed again.                          *)
UnheldOver(a) == Span(a.at, a.len)

(* hold: the runs of [at, at + len) that no held segment claims, each an   *)
(* entry of its own.                                                       *)
Unheld(a) == Span(a.at, a.len) \ HeldPositions

Runs(a) ==
  {r \in [at : Unheld(a), len : 1 .. a.len, pkt : {a.pkt}, t : {a.t}] :
     /\ Span(r.at, r.len) \subseteq Unheld(a)
     /\ r.at - 1 \notin Unheld(a)
     /\ r.at + r.len \notin Unheld(a)}

WithHeld(a) == held \cup {[r EXCEPT !.t = @ + (r.at - a.at)] : r \in Runs(a)}

(* Mutant: the whole segment is charged, its held part too.                *)
holdWhole(a) ==
  /\ held' = WithHeld(a)
  /\ heldBytes' = heldBytes + a.len

hold(a) ==
  /\ held' = WithHeld(a)
  /\ heldBytes' = heldBytes + Cardinality(Unheld(a))

(* The last entry of `segs` is this packet's and ends where data does.     *)
Continues(last, pkt) == last.pkt = pkt /\ last.at + last.len = Len(data)

(* append: [from, from + len) of packet pkt is delivered, as far as        *)
(* MAX_STREAM leaves room.  f, d and l are flags, dropped and lost before. *)
append(from, len, t, pkt, f, d, l) ==
  LET room == MaxStream - Len(data)
      n    == Smaller(len, room)
      last == segs[Len(segs)]
  IN  /\ data' = data \o [i \in 1 .. n |->
                            [at |-> from + i - 1, t |-> t + i - 1, pkt |-> pkt]]
      /\ flags' = IF n < len THEN f \cup {"TRUNCATED"} ELSE f
      /\ dropped' = d + (len - n)
      /\ lost' = l \cup Span(from + n, len - n)
      /\ segs' = IF room = 0 THEN segs
                 ELSE IF segs # <<>> /\ Continues(last, pkt)
                 THEN [segs EXCEPT ![Len(segs)].len = @ + n]
                 ELSE Append(segs, [at |-> Len(data), len |-> n, pkt |-> pkt])
      /\ next' = from + len
----------------------------------------------------------------------------
Init ==
  /\ data = <<>> /\ segs = <<>> /\ gaps = <<>> /\ flags = {} /\ dropped = 0
  /\ held = {} /\ heldBytes = 0
  /\ next = 0 /\ origin = 0 /\ started = FALSE /\ open = FALSE
  /\ pc = "idle" /\ caller = "idle"
  /\ fed = <<>> /\ lost = {}

(* feed, no payload.                                                       *)
FeedEmpty(s) ==
  LET a == Arrival(s)
  IN  /\ Arrives(s)
      /\ a.len = 0
      /\ flags' = flags \cup s.flags
      /\ next' = a.next /\ origin' = a.origin /\ open' = a.open
      /\ UNCHANGED <<data, segs, dropped, lost, holding, pc, caller>>

(* feed before there is an origin: hold, and fix the origin once enough    *)
(* segments are held to trust the earliest.                                *)
FeedUnopened(s) ==
  LET a == Arrival(s)
      o == First(held').at
  IN  /\ Arrives(s)
      /\ a.len > 0 /\ ~a.open
      /\ Distance(a.at, a.next) <= MaxAhead
      /\ hold(a)
      /\ flags' = flags \cup s.flags
      /\ IF Cardinality(held') >= OriginWindow
         THEN next' = o /\ origin' = o /\ open' = TRUE /\ pc' = "drain" /\ caller' = "idle"
         ELSE next' = a.next /\ origin' = a.origin /\ open' = FALSE /\ UNCHANGED <<pc, caller>>
      /\ UNCHANGED <<data, segs, dropped, lost>>

(* feed, too far from the frontier or from the first number seen.          *)
FeedTooFar(s) ==
  LET a == Arrival(s)
  IN  /\ Arrives(s)
      /\ a.len > 0
      /\ IF a.open THEN a.at > a.next /\ a.at - a.next > MaxAhead
                   ELSE Distance(a.at, a.next) > MaxAhead
      /\ Refuses(s, a.at, a.len)
      /\ next' = a.next /\ origin' = a.origin /\ open' = a.open
      /\ UNCHANGED <<data, segs, holding, pc, caller>>

(* feed, nothing past the frontier: a retransmission, or below the origin. *)
FeedOld(s) ==
  LET a == Arrival(s)
  IN  /\ Arrives(s)
      /\ a.len > 0 /\ a.open
      /\ a.at + a.len <= a.next
      /\ Refuses(s, a.at, BelowOrigin(a))
      /\ next' = a.next /\ origin' = a.origin /\ open' = TRUE
      /\ UNCHANGED <<data, segs, holding, pc, caller>>

(* feed, past a hole: held, then relieve.                                  *)
FeedAhead(s) ==
  LET a == Arrival(s)
  IN  /\ Arrives(s)
      /\ a.len > 0 /\ a.open
      /\ a.at > a.next /\ a.at - a.next <= MaxAhead
      /\ hold(a)
      /\ flags' = flags \cup s.flags
      /\ next' = a.next /\ origin' = a.origin /\ open' = TRUE
      /\ pc' = "relieve"
      /\ UNCHANGED <<data, segs, dropped, lost, caller>>

(* Mutant: a segment that straddles the frontier is taken from its start.  *)
CutNone(a) == 0

(* How much of an arrival lies behind the frontier.                        *)
Cut(a) == a.next - a.at

(* feed, the next octets: cut to the frontier, appended, and drain.        *)
FeedNext(s) ==
  LET a   == Arrival(s)
      cut == Cut(a)
      b   == BelowOrigin(a)
  IN  /\ Arrives(s)
      /\ a.len > 0 /\ a.open
      /\ a.at <= a.next /\ a.next < a.at + a.len
      /\ append(a.next, a.len - cut, a.t + cut, a.pkt,
                flags \cup s.flags \cup (IF b > 0 THEN {"LOSSY"} ELSE {}),
                dropped + b, lost \cup Span(a.at, b))
      /\ origin' = a.origin /\ open' = TRUE
      /\ pc' = "drain" /\ caller' = "idle"
      /\ UNCHANGED holding

(* One turn of drain: what starts at or before the frontier leaves `held`. *)
Drain ==
  /\ pc = "drain"
  /\ held # {}
  /\ LET h == First(held)
         skip == next - h.at
     IN  /\ h.at <= next
         /\ held' = held \ {h}
         /\ heldBytes' = heldBytes - h.len
         /\ IF h.at + h.len <= next
            THEN UNCHANGED <<data, segs, flags, dropped, lost, next>>
            ELSE append(next, h.len - skip, h.t + skip, h.pkt, flags, dropped, lost)
  /\ UNCHANGED <<gaps, origin, started, open, pc, caller, fed>>

DrainEnd ==
  /\ pc = "drain"
  /\ \A h \in held : h.at > next
  /\ pc' = caller
  /\ UNCHANGED <<half, holding, frontier, caller, fed>>

OverHeld == Cardinality(held) > MaxHeldSegs \/ heldBytes > MaxHeldBytes

(* Mutant: the gap stops an octet short of what waited behind it.          *)
HoleShort(f) == [at |-> Len(data), len |-> f - next - 1, from |-> next]

(* The gap in front of what is held at f.                                  *)
Hole(f) == [at |-> Len(data), len |-> f - next, from |-> next]

(* give_up_on_front, from relieve while a bound is exceeded and from       *)
(* finish until nothing is held.                                           *)
GiveUpOnFront ==
  /\ \/ pc = "relieve" /\ OverHeld
     \/ pc = "finish"
  /\ held # {}
  /\ LET f == First(held).at
     IN  IF f > next
         THEN /\ gaps' = Append(gaps, Hole(f))
              /\ next' = f
         ELSE UNCHANGED <<gaps, next>>
  /\ pc' = "drain" /\ caller' = pc
  /\ UNCHANGED <<data, segs, flags, dropped, lost, holding, origin, started, open, fed>>

RelieveEnd ==
  /\ pc = "relieve"
  /\ OverHeld => held = {}
  /\ pc' = "idle"
  /\ UNCHANGED <<half, holding, frontier, caller, fed>>

(* Mutant: a direction that never opened is given no origin.               *)
FinishUnfixed ==
  /\ pc = "idle"
  /\ pc' = "finish"
  /\ UNCHANGED <<half, holding, frontier, caller, fed>>

(* finish: an origin for a direction that never opened, then the loop.     *)
Finish ==
  /\ pc = "idle"
  /\ IF ~open /\ held # {}
     THEN /\ next' = First(held).at /\ origin' = First(held).at
          /\ open' = TRUE /\ UNCHANGED started
     ELSE UNCHANGED frontier
  /\ pc' = "finish"
  /\ UNCHANGED <<half, holding, caller, fed>>

FinishEnd ==
  /\ pc = "finish"
  /\ held = {}
  /\ pc' = "done"
  /\ UNCHANGED <<half, holding, frontier, caller, fed>>

Feed(s) ==
  \/ FeedEmpty(s) \/ FeedUnopened(s) \/ FeedTooFar(s)
  \/ FeedOld(s) \/ FeedAhead(s) \/ FeedNext(s)

Next ==
  \/ \E s \in Segments : Feed(s)
  \/ Drain \/ DrainEnd
  \/ GiveUpOnFront \/ RelieveEnd
  \/ Finish \/ FinishEnd

Spec == Init /\ [][Next]_vars
----------------------------------------------------------------------------
(* Properties.                                                             *)

Held == [at : Nat, len : Nat, pkt : Nat, t : Nat]

(* Types of Build's fields; held_bytes and dropped are unsigned.           *)
TypeOK ==
  /\ data \in Seq([at : Nat, t : Nat, pkt : Nat])
  /\ segs \in Seq([at : Nat, len : Nat \ {0}, pkt : Nat])
  /\ gaps \in Seq([at : Nat, len : Nat \ {0}, from : Nat])
  /\ flags \subseteq {"SYN", "FIN", "RST", "LOSSY", "TRUNCATED"}
  /\ dropped \in Nat
  /\ held \subseteq Held
  /\ heldBytes \in Nat
  /\ next \in Nat /\ origin \in Nat
  /\ started \in BOOLEAN /\ open \in BOOLEAN
  /\ pc \in {"idle", "drain", "relieve", "finish", "done"}
  /\ caller \in {"idle", "relieve", "finish"}
  /\ fed \in Seq(Segments) /\ lost \subseteq Nat

Delivered == {data[i].at : i \in 1 .. Len(data)}
GapPositions == UNION {Span(gaps[i].from, gaps[i].len) : i \in 1 .. Len(gaps)}

(* Where a packet's payload truly lies in the sender's stream.             *)
TruePositions(p) ==
  Span(IF "SYN" \in fed[p].flags THEN fed[p].t + 1 ELSE fed[p].t, fed[p].len)

(* Reading 32-bit numbers against the frontier loses nothing: every octet  *)
(* delivered or held sits at its true position, across any number of       *)
(* wraps, whatever arrived out of order.                                   *)
PositionsTrue ==
  /\ \A i \in 1 .. Len(data) : data[i].at = data[i].t + Shift
  /\ \A h \in held : h.at = h.t + Shift

(* Octets come out in the order the sender numbered them, each once,       *)
(* whatever feed had to hold back, cut or give up on.                      *)
DeliveredInOrder ==
  \A i \in 1 .. (Len(data) - 1) : data[i].t < data[i + 1].t

(* Among out-of-order segments the first writer wins: hold keeps an octet  *)
(* from a later packet only where a bound refused the earlier copy.        *)
FirstHolderWins ==
  \A h \in held : \A q \in Span(h.at, h.len) : \A p \in 1 .. (h.pkt - 1) :
    q - Shift \in TruePositions(p) => q \in lost

(* Every octet captured: the packet it came in, and where in its payload.  *)
FedOctets == UNION {{p} \X (0 .. (fed[p].len - 1)) : p \in 1 .. Len(fed)}

(* held_bytes is what `held` holds, its entries never overlap, between     *)
(* segments nothing deliverable is left in `held` of a direction that has  *)
(* begun to deliver, and no octet is both kept and counted as dropped.     *)
HeldExact ==
  /\ heldBytes = Cardinality(HeldPositions)
  /\ \A g, h \in held : g # h => Span(g.at, g.len) \cap Span(h.at, h.len) = {}
  /\ pc = "idle" /\ data # <<>> => \A h \in held : h.at > next
  /\ Len(data) + heldBytes + dropped <= Cardinality(FedOctets)

(* The results describe the stream they come with: `segs` tiles the data,  *)
(* in order, and maps every offset back to the packet its octet came from; *)
(* behind the frontier every position is delivered, named by a gap, or     *)
(* counted as dropped, and a gap stands where its octets would have been.  *)
Provenance ==
  /\ \A i \in 1 .. Len(segs) :
       segs[i].at = IF i = 1 THEN 0 ELSE segs[i - 1].at + segs[i - 1].len
  /\ Len(data) = IF segs = <<>> THEN 0 ELSE segs[Len(segs)].at + segs[Len(segs)].len
  /\ \A i \in 1 .. Len(segs) : \A o \in Span(segs[i].at, segs[i].len) :
       data[o + 1].pkt = segs[i].pkt
  /\ open => \A q \in (origin + 1) .. (next - 1) : q \in Delivered \cup GapPositions \cup lost
  /\ Delivered \cap GapPositions = {}
  /\ \A i \in 1 .. Len(gaps) :
       gaps[i].at = Cardinality({q \in Delivered : q < gaps[i].from})

(* No captured octet at or past the origin disappears: it is delivered,    *)
(* held, in a hole given up on before it came, or counted in `dropped`.    *)
(* The number a SYN takes, which `origin` then is, carries no octet.       *)
NothingVanishes ==
  \A p \in 1 .. Len(fed) : \A x \in TruePositions(p) :
    \/ x + Shift \in Delivered \cup HeldPositions \cup GapPositions \cup lost
    \/ open /\ x + Shift < origin
    \/ open /\ x + Shift = origin /\ "SYN" \in flags

(* Once open the frontier only moves forward, and the origin stays.        *)
FrontierForward == [][open => next' >= next /\ origin' = origin]_vars

(* The module's overlap rule in full, first writer wins: an octet is the   *)
(* one its earliest packet brought, unless a bound refused that copy.      *)
FirstWriterWins ==
  \A i \in 1 .. Len(data) : \A p \in 1 .. (data[i].pkt - 1) :
    data[i].t \in TruePositions(p) => data[i].at \in lost
=============================================================================
