-------------------------- MODULE FragReassembler --------------------------
(***************************************************************************)
(* The datagram reassembler of crates/wiry-core/src/frag.rs: Reassembler   *)
(* with its groups, eviction queue, byte account and output, fed one frame *)
(* at a time by `defragment`.                                              *)
(*                                                                         *)
(* A frame is abstracted to what `inspect` reads of it: the reassembly     *)
(* key, the offset, more-fragments, the payload length and the length of   *)
(* the header its datagram would keep.  Frame bytes are abstracted to the  *)
(* position of the frame that supplied them (ClaimedRanges).               *)
(*                                                                         *)
(* The VecDeque `order` is a set of <<stamp, key>>: stamps only grow, so   *)
(* its front is the entry with the least stamp.                            *)
(***************************************************************************)
EXTENDS ClaimedRanges, StableSort

CONSTANTS
  Keys,         \* (source, destination, id, protocol) tuples
  V6Keys,       \* the keys of IPv6 datagrams
  Frames,       \* the frames a capture may hold
  MaxDatagram,  \* MAX_DATAGRAM, 65535
  MaxInflight,  \* MAX_INFLIGHT, 1024
  MaxBuffered,  \* MAX_BUFFERED, 16 MiB
  MaxFrags,     \* MAX_FRAGS, 8192
  SweepFactor,  \* the 4 of `order.len() > 4 * MAX_INFLIGHT`
  MaxInput      \* bound: frames in one capture

Fragment == [key : Keys, at : Nat, more : BOOLEAN, len : Nat, hlen : Nat]

ASSUME KeysAssumption == IsFiniteSet(Keys) /\ V6Keys \subseteq Keys
ASSUME FramesAssumption == Frames \subseteq Fragment
ASSUME BoundsAssumption ==
  /\ MaxDatagram \in Nat \ {0}
  /\ MaxInflight \in Nat
  /\ MaxBuffered \in Nat
  /\ MaxFrags \in Nat \ {0}
  /\ SweepFactor \in Nat \ {0}
  /\ MaxInput \in Nat

VARIABLES
  groups,    \* HashMap<Key, Group>: a function on the live keys
  order,     \* the eviction queue, a set of <<stamp, key>>
  seq,       \* the next stamp
  buffered,  \* the running count of octets held
  out,       \* Vec<Piece>
  input,     \* ghost: the frames pushed so far, position p at input[p + 1]
  pc         \* "idle" between frames, "evict" in evict's loop, "finish", "done"

vars == <<groups, order, seq, buffered, out, input, pc>>

----------------------------------------------------------------------------
(* Groups and pieces.                                                      *)

NoHead == [from |-> Zero, hlen |-> 0]
NoTotal == -1

NewGroup(stamp) ==
  [seq |-> stamp, at |-> <<>>, head |-> NoHead, data |-> <<>>, len |-> 0,
   got |-> {}, total |-> NoTotal]

Whole(p) == [kind |-> "whole", at |-> p]
Incomplete(p) == [kind |-> "incomplete", at |-> p]

(* A reassembled frame: whose header it kept and who wrote each octet.     *)
(* `of` is a ghost, the positions of the fragments it stands for.          *)
CompletePiece(g) ==
  [kind |-> "complete", at |-> g.at[1], head |-> g.head.from,
   data |-> g.data, len |-> g.len, of |-> g.at]

(* Mutant: the first frame a group took is forgotten.                      *)
SpillButFirst(g) == [i \in 1 .. (Len(g.at) - 1) |-> Incomplete(g.at[i + 1])]
spill(g) == [i \in 1 .. Len(g.at) |-> Incomplete(g.at[i])]

(* RFC 791 fragments have an offset or more-fragments set; an IPv6 frame   *)
(* with a Fragment header is one whatever the header says.                 *)
IsFragment(f) == f.key \in V6Keys \/ f.at # 0 \/ f.more

(* No datagram MAX_DATAGRAM long has room for this fragment.               *)
OutOfRange(f) == f.at >= MaxDatagram \/ f.len > MaxDatagram - f.at

Live == DOMAIN groups

GroupFor(k) == IF k \in Live THEN groups[k] ELSE NewGroup(seq)

(* push from g.at.push to the total: what one fragment does to its group.  *)
Fed(g, f, p) ==
  LET end == f.at + f.len
  IN  [seq   |-> g.seq,
       at    |-> Append(g.at, p),
       head  |-> IF g.head = NoHead /\ f.at = 0
                 THEN [from |-> p, hlen |-> f.hlen] ELSE g.head,
       data  |-> Written(g.data, g.len, g.got, f.at, end, p),
       len   |-> Larger(g.len, end),
       got   |-> Merged(g.got, f.at, end),
       total |-> IF ~f.more /\ g.total = NoTotal THEN end ELSE g.total]

Complete(g) ==
  /\ g.head # NoHead
  /\ g.total # NoTotal
  /\ g.got = {[lo |-> 0, hi |-> g.total]}

(* assemble: refused when header and data outgrow a 16-bit length.         *)
Assembled(g) ==
  IF g.head.hlen + g.len > MaxDatagram THEN spill(g)
  ELSE <<CompletePiece(g)>>

(* Mutant: the octets already counted are counted again.                   *)
GrowthWhole(old, new) == new.len
(* self.buffered += g.data.len() - held                                    *)
Growth(old, new) == new.len - old.len

Without(k) == [j \in Live \ {k} |-> groups[j]]
With(k, g) == [j \in Live \cup {k} |-> IF j = k THEN g ELSE groups[j]]
----------------------------------------------------------------------------
Init ==
  /\ groups = <<>>
  /\ order = {}
  /\ seq = 0
  /\ buffered = 0
  /\ out = <<>>
  /\ input = <<>>
  /\ pc = "idle"

Pushing(f) ==
  /\ pc = "idle"
  /\ Len(input) < MaxInput
  /\ input' = Append(input, f)

(* push, `inspect` finds no fragment.                                      *)
PushWhole(f) ==
  /\ Pushing(f)
  /\ ~IsFragment(f)
  /\ out' = Append(out, Whole(Len(input)))
  /\ UNCHANGED <<groups, order, seq, buffered, pc>>

(* push, the early returns that refuse a fragment without keeping it.      *)
PushRefused(f) ==
  /\ Pushing(f)
  /\ IsFragment(f)
  /\ OutOfRange(f) \/ Len(GroupFor(f.key).at) >= MaxFrags
  /\ out' = Append(out, Incomplete(Len(input)))
  /\ UNCHANGED <<groups, order, seq, buffered, pc>>

(* push, a fragment its group absorbs; evict() follows before the next one. *)
PushFragment(f) ==
  LET k   == f.key
      old == GroupFor(k)
      new == Fed(old, f, Len(input))
  IN  /\ Pushing(f)
      /\ IsFragment(f)
      /\ ~OutOfRange(f)
      /\ Len(old.at) < MaxFrags
      /\ IF k \in Live
         THEN UNCHANGED <<order, seq>>
         ELSE order' = order \cup {<<seq, k>>} /\ seq' = seq + 1
      /\ IF Complete(new)
         THEN /\ groups' = Without(k)
              /\ buffered' = (buffered + Growth(old, new)) - new.len
              /\ out' = out \o Assembled(new)
         ELSE /\ groups' = With(k, new)
              /\ buffered' = buffered + Growth(old, new)
              /\ UNCHANGED out
      /\ pc' = "evict"

(* Mutant: one group too many is let stand.                                *)
OverLimitLate ==
  Cardinality(Live) > MaxInflight + 1 \/ buffered > MaxBuffered
OverLimit == Cardinality(Live) > MaxInflight \/ buffered > MaxBuffered

Front == CHOOSE e \in order : \A d \in order : e[1] <= d[1]

(* Mutant: any entry of a live key answers for it, stale or not.           *)
AnswersByKey(e) == e[2] \in Live
Answers(e) == e[2] \in Live /\ groups[e[2]].seq = e[1]

(* One turn of evict's loop: pop the front and drop its group if the stamp *)
(* still names it.                                                         *)
EvictPop ==
  /\ pc = "evict"
  /\ OverLimit
  /\ order # {}
  /\ LET e == Front
     IN  /\ order' = order \ {e}
         /\ IF Answers(e)
            THEN /\ groups' = Without(e[2])
                 /\ buffered' = buffered - groups[e[2]].len
                 /\ out' = out \o spill(groups[e[2]])
            ELSE UNCHANGED <<groups, buffered, out>>
  /\ UNCHANGED <<seq, input, pc>>

(* evict's loop is over; sweep the queue when it has grown long.           *)
EvictEnd ==
  /\ pc = "evict"
  /\ ~OverLimit \/ order = {}
  /\ order' = IF Cardinality(order) > SweepFactor * MaxInflight
              THEN {e \in order : Answers(e)} ELSE order
  /\ pc' = "idle"
  /\ UNCHANGED <<groups, seq, buffered, out, input>>

(* finish: what never completed is spilled, group by group in whatever     *)
(* order the hash map drains them, and the pieces sorted.                  *)
Finish ==
  /\ pc = "idle"
  /\ pc' = "finish"
  /\ UNCHANGED <<groups, order, seq, buffered, out, input>>

FinishSpill(k) ==
  /\ pc = "finish"
  /\ k \in Live
  /\ groups' = Without(k)
  /\ out' = out \o spill(groups[k])
  /\ UNCHANGED <<order, seq, buffered, input, pc>>

Sorted(pieces) == SortedBy(pieces, [i \in 1 .. Len(pieces) |-> pieces[i].at])

FinishEnd ==
  /\ pc = "finish"
  /\ Live = {}
  /\ out' = Sorted(out)
  /\ pc' = "done"
  /\ UNCHANGED <<groups, order, seq, buffered, input>>

Next ==
  \/ \E f \in Frames : PushWhole(f) \/ PushRefused(f) \/ PushFragment(f)
  \/ EvictPop
  \/ EvictEnd
  \/ Finish
  \/ \E k \in Keys : FinishSpill(k)
  \/ FinishEnd

Spec == Init /\ [][Next]_vars
----------------------------------------------------------------------------
(* Properties.                                                             *)

(* The types of the reassembler's fields.  `buffered` is unsigned in the   *)
(* code, so its staying in Nat says no subtraction ever underflows.        *)
TypeOK ==
  /\ Live \subseteq Keys
  /\ \A k \in Live : /\ groups[k].seq \in Nat
                     /\ groups[k].len \in Nat
                     /\ groups[k].at \in Seq(Nat)
                     /\ groups[k].head \in [from : Int, hlen : Nat]
                     /\ groups[k].total \in Int
  /\ order \subseteq Nat \X Keys
  /\ seq \in Nat
  /\ buffered \in Nat
  /\ input \in Seq(Frames)
  /\ pc \in {"idle", "evict", "finish", "done"}

HeldOctets == UNION {{k} \X (0 .. (groups[k].len - 1)) : k \in Live}

(* `buffered` is exactly the number of octets the live groups hold, across *)
(* growth, completion, refused assembly and eviction; finish keeps none.   *)
BufferedExact == pc \in {"idle", "evict"} => buffered = Cardinality(HeldOctets)

(* Between frames the reassembler is inside every cap it declares: groups, *)
(* octets, and the length of the queue (the sweep is not optional).        *)
WithinCaps ==
  pc = "idle" => /\ Cardinality(Live) <= MaxInflight
                 /\ buffered <= MaxBuffered
                 /\ Cardinality(order) <= SweepFactor * MaxInflight

(* Every live group can be found by eviction: the queue holds the entry    *)
(* with its stamp, whatever was popped, swept or left behind by finished   *)
(* datagrams of the same key.  Without this the loop could run out of      *)
(* entries with the caps still exceeded.                                   *)
EveryGroupQueued ==
  \A k \in Live : <<groups[k].seq, k>> \in order

(* Eviction takes the group that was created first among the live ones,    *)
(* never a younger one that reclaimed a finished datagram's key.           *)
EvictsOldest ==
  [][pc = "evict" =>
       \A k \in Live \ DOMAIN groups' :
         \A j \in Live : groups[k].seq <= groups[j].seq]_vars

(* Where position p ended up: a piece of its own, inside a reassembled     *)
(* datagram, or waiting in a live group.                                   *)
Places(p) ==
  {<<"out", i, 0>> : i \in {i \in 1 .. Len(out) :
                              out[i].kind # "complete" /\ out[i].at = p}}
  \cup {x \in {"in"} \X (1 .. Len(out)) \X (1 .. MaxFrags) :
           /\ out[x[2]].kind = "complete"
           /\ x[3] <= Len(out[x[2]].of)
           /\ out[x[2]].of[x[3]] = p}
  \cup {x \in {"held"} \X Live \X (1 .. MaxFrags) :
           x[3] <= Len(groups[x[2]].at) /\ groups[x[2]].at[x[3]] = p}

(* No frame is lost and none is reported twice, through completion,        *)
(* refusal, eviction and the final spill, and `defragment` returns them in *)
(* input order.                                                            *)
EveryFrameAccounted ==
  /\ \A p \in 0 .. (Len(input) - 1) : Cardinality(Places(p)) = 1
  /\ pc = "done" => \A i, j \in 1 .. Len(out) : i < j => out[i].at < out[j].at

Frame(p) == input[p + 1]
Covers(p, o) == o \in Frame(p).at .. (Frame(p).at + Frame(p).len - 1)
End(p) == Frame(p).at + Frame(p).len

(* The rule of the module's header comment, from the frames alone: each    *)
(* octet of a reassembled datagram comes from the earliest fragment that   *)
(* claimed it, its header from the earliest fragment at offset zero, its   *)
(* length from the earliest last fragment, and its position is that of     *)
(* its first fragment.  All its fragments are of one datagram.             *)
FirstWriterWins ==
  \A i \in 1 .. Len(out) :
    LET c   == out[i]
        of  == {c.of[j] : j \in 1 .. Len(c.of)}
        fin == {p \in of : ~Frame(p).more}
        zer == {p \in of : Frame(p).at = 0}
    IN  c.kind = "complete" =>
          /\ \A p, q \in of : Frame(p).key = Frame(q).key
          /\ c.at = Least(of)
          /\ c.head = Least(zer)
          /\ c.len = End(Least(fin))
          /\ c.len + Frame(c.head).hlen <= MaxDatagram
          /\ \A o \in 0 .. (c.len - 1) :
               c.data[o] = Least({p \in of : Covers(p, o)})

(* A datagram whose fragments cover exactly the length its last fragment   *)
(* gave is never left waiting: it left `groups` with the frame that        *)
(* closed its last gap.                                                    *)
NothingFinishedIsHeld ==
  \A k \in Live :
    LET of  == {groups[k].at[j] : j \in 1 .. Len(groups[k].at)}
        fin == {p \in of : ~Frame(p).more}
    IN  ~ /\ \E p \in of : Frame(p).at = 0
          /\ fin # {}
          /\ \A p \in of : End(p) <= End(Least(fin))
          /\ \A o \in 0 .. (End(Least(fin)) - 1) : \E p \in of : Covers(p, o)
=============================================================================
