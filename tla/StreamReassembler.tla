-------------------------- MODULE StreamReassembler --------------------------
(***************************************************************************)
(* The stream table of crates/wiry-core/src/stream.rs: Reassembler with    *)
(* its live streams, least-recently-active eviction queue and account of   *)
(* held octets, fed one frame at a time by `reassemble`.                   *)
(*                                                                         *)
(* A frame is what `inspect` reads of it: the direction-free key, which of *)
(* the key's two endpoints sent it, whether it is a SYN-ACK, and its       *)
(* payload length.  The two Builds of a stream (TcpBuild) are abstracted   *)
(* to held_bytes, which one feed takes anywhere from nothing to all it     *)
(* held and the whole payload; the ghost `pkts` records what was fed to    *)
(* each.                                                                   *)
(*                                                                         *)
(* The VecDeque `order` is a set of <<stamp, key>>: stamps only grow, so   *)
(* its front is the entry with the least stamp.                            *)
(***************************************************************************)
EXTENDS StableSort

CONSTANTS
  Keys,           \* direction-free address and port pairs
  Frames,         \* the frames a capture may hold
  MaxStreams,     \* MAX_STREAMS, 65536
  MaxHeldTotal,   \* MAX_HELD_TOTAL, 32 MiB
  SweepFactor,    \* the 4 of `order.len() > 4 * live + 4 * ORIGIN_WINDOW`
  OriginWindow,   \* ORIGIN_WINDOW, 8
  MaxInput        \* bound: frames in one capture

Endpoints == {"a", "b"}
Dirs == {0, 1}

(* tcp is FALSE for a frame `inspect` cannot key.                          *)
Segment == [tcp : BOOLEAN, key : Keys, from : Endpoints, synack : BOOLEAN, len : Nat]

ASSUME KeysAssumption == IsFiniteSet(Keys)
ASSUME FramesAssumption == Frames \subseteq Segment
ASSUME BoundsAssumption ==
  /\ {MaxStreams, MaxHeldTotal, SweepFactor, OriginWindow, MaxInput} \subseteq Nat
  /\ SweepFactor > 0

VARIABLES
  live,    \* HashMap<Key, Live>: a function on the live keys
  order,   \* the eviction queue, a set of <<stamp, key>>
  seq,     \* the next stamp
  held,    \* the running count of octets held behind gaps
  out,     \* Vec<Stream>
  input,   \* ghost: the frames pushed so far, position p at input[p + 1]
  pc       \* "idle" between frames, "evict" in evict's loop, "finish", "done"

vars == <<live, order, seq, held, out, input, pc>>

LiveKeys == DOMAIN live
----------------------------------------------------------------------------
Other(e) == CHOOSE f \in Endpoints : f # e

(* A SYN-ACK comes from the server, so its reverse is direction 0.         *)
Opener(s) == IF s.synack THEN Other(s.from) ELSE s.from

NewStream(s, p) ==
  [src |-> Opener(s), first |-> p, seq |-> seq,
   held |-> [d \in Dirs |-> 0], pkts |-> [d \in Dirs |-> {}]]

StreamFor(s, p) == IF s.key \in LiveKeys THEN live[s.key] ELSE NewStream(s, p)

(* Mutant: one build takes both sides.                                     *)
DirectionOne(l, s) == 0
Direction(l, s) == IF l.src # s.from THEN 1 ELSE 0

(* The stream after its build d was fed frame p and holds h octets.        *)
Touched(l, d, p, h) ==
  [src |-> l.src, first |-> l.first, seq |-> seq,
   held |-> [l.held EXCEPT ![d] = h], pkts |-> [l.pkts EXCEPT ![d] = @ \cup {p}]]

(* Mutant: the octets held before are not taken off.                       *)
HeldAfterMore(before, now) == held + now
(* self.held + held_bytes - before                                         *)
HeldAfter(before, now) == held + now - before

(* order.push_back on every touch.                                         *)
Queued(k) == order \cup {<<seq, k>>}

With(k, l) == [j \in LiveKeys \cup {k} |-> IF j = k THEN l ELSE live[j]]
Without(k) == [j \in LiveKeys \ {k} |-> live[j]]

(* What a stream's two builds hold.                                        *)
HeldOf(l) == l.held[0] + l.held[1]

(* retire: both builds leave the account and the Stream is handed back.    *)
retire(k, evicted) ==
  /\ live' = Without(k)
  /\ held' = held - HeldOf(live[k])
  /\ out' = Append(out, [key |-> k, src |-> live[k].src, first |-> live[k].first,
                         evicted |-> evicted, pkts |-> live[k].pkts])
----------------------------------------------------------------------------
Init ==
  /\ live = <<>>
  /\ order = {}
  /\ seq = 0
  /\ held = 0
  /\ out = <<>>
  /\ input = <<>>
  /\ pc = "idle"

Pushing(s) ==
  /\ pc = "idle"
  /\ Len(input) < MaxInput
  /\ input' = Append(input, s)

(* push, no TCP segment `inspect` can key.                                 *)
PushOther(s) ==
  /\ Pushing(s)
  /\ ~s.tcp
  /\ UNCHANGED <<live, order, seq, held, out, pc>>

(* push up to evict(), which follows before the next frame.                *)
Push(s) ==
  LET p == Len(input)
      l == StreamFor(s, p)
      d == Direction(l, s)
  IN  /\ Pushing(s)
      /\ s.tcp
      /\ \E h \in 0 .. (l.held[d] + s.len) :
           /\ live' = With(s.key, Touched(l, d, p, h))
           /\ held' = HeldAfter(l.held[d], h)
      /\ order' = Queued(s.key)
      /\ seq' = seq + 1
      /\ pc' = "evict"
      /\ UNCHANGED out

(* Mutant: only the number of streams is bounded.                          *)
OverLimitStreams == Cardinality(LiveKeys) > MaxStreams
OverLimit == Cardinality(LiveKeys) > MaxStreams \/ held > MaxHeldTotal

Front == CHOOSE e \in order : \A d \in order : e[1] <= d[1]

(* Mutant: any entry of a live stream answers for it, stale or not.        *)
AnswersByKey(e) == e[2] \in LiveKeys
Answers(e) == e[2] \in LiveKeys /\ live[e[2]].seq = e[1]

(* One turn of evict's loop: pop the front and retire its stream if the    *)
(* stamp is still the stream's last.                                       *)
EvictPop ==
  /\ pc = "evict"
  /\ OverLimit
  /\ order # {}
  /\ LET e == Front
         k == Front[2]
     IN  /\ order' = order \ {e}
         /\ IF Answers(e)
            THEN retire(k, TRUE)
            ELSE UNCHANGED <<live, held, out>>
  /\ UNCHANGED <<seq, input, pc>>

(* evict's loop is over; sweep the queue when stale entries dominate it.   *)
EvictEnd ==
  /\ pc = "evict"
  /\ OverLimit => order = {}
  /\ order' = IF Cardinality(order) >
                   SweepFactor * Cardinality(LiveKeys) + SweepFactor * OriginWindow
              THEN {e \in order : Answers(e)} ELSE order
  /\ pc' = "idle"
  /\ UNCHANGED <<live, seq, held, out, input>>

(* finish: every stream left is retired, in whatever order the hash map    *)
(* lists the keys, and the streams sorted by their first packet.           *)
Finish ==
  /\ pc = "idle"
  /\ pc' = "finish"
  /\ UNCHANGED <<live, order, seq, held, out, input>>

FinishRetire(k) ==
  /\ pc = "finish"
  /\ k \in LiveKeys
  /\ retire(k, FALSE)
  /\ UNCHANGED <<order, seq, input, pc>>

Sorted(streams) == SortedBy(streams, [i \in 1 .. Len(streams) |-> streams[i].first])

FinishEnd ==
  /\ pc = "finish"
  /\ LiveKeys = {}
  /\ out' = Sorted(out)
  /\ pc' = "done"
  /\ UNCHANGED <<live, order, seq, held, input>>

Next ==
  \/ \E s \in Frames : PushOther(s) \/ Push(s)
  \/ EvictPop
  \/ EvictEnd
  \/ Finish
  \/ \E k \in Keys : FinishRetire(k)
  \/ FinishEnd

Spec == Init /\ [][Next]_vars
----------------------------------------------------------------------------
(* Properties.                                                             *)

(* The types of the table's fields.  `held` is unsigned in the code, so    *)
(* its staying in Nat says no subtraction ever underflows.                 *)
TypeOK ==
  /\ LiveKeys \subseteq Keys
  /\ \A k \in LiveKeys : live[k] \in [src : Endpoints, first : Nat, seq : Nat,
                                      held : [Dirs -> Nat], pkts : [Dirs -> SUBSET Nat]]
  /\ order \subseteq Nat \X Keys
  /\ seq \in Nat
  /\ held \in Nat
  /\ input \in Seq(Frames)
  /\ pc \in {"idle", "evict", "finish", "done"}

HeldOctets == UNION {{k} \X (0 .. (HeldOf(live[k]) - 1)) : k \in LiveKeys}

(* `held` is exactly what the builds of the live streams hold, whatever a  *)
(* feed delivered, whichever stream was retired.                           *)
HeldExact == held = Cardinality(HeldOctets)

(* Between frames the table is inside both of its bounds, and the queue is *)
(* no longer than the sweep allows.                                        *)
WithinBounds ==
  pc = "idle" =>
    /\ Cardinality(LiveKeys) <= MaxStreams
    /\ held <= MaxHeldTotal
    /\ Cardinality(order) <=
         SweepFactor * Cardinality(LiveKeys) + SweepFactor * OriginWindow

(* Every live stream can be found by eviction: the queue holds the entry   *)
(* with its last stamp, whatever was popped or swept.                      *)
EveryStreamQueued ==
  \A k \in LiveKeys : <<live[k].seq, k>> \in order

Frame(p) == input[p + 1]
Fed(pkts) == pkts[0] \cup pkts[1]
Latest(pkts) == CHOOSE p \in Fed(pkts) : \A q \in Fed(pkts) : q <= p

(* Eviction takes the stream whose last packet is the oldest, however many *)
(* stale entries its earlier packets left in the queue.                    *)
EvictsLeastRecent ==
  [][pc = "evict" =>
       \A k \in LiveKeys \ DOMAIN live' : \A j \in LiveKeys :
         Latest(live[k].pkts) <= Latest(live[j].pkts)]_vars

(* The streams of key k, live and handed back.                             *)
StreamsOf(k) ==
  {[first |-> out[i].first, src |-> out[i].src, pkts |-> out[i].pkts] :
     i \in {i \in 1 .. Len(out) : out[i].key = k}}
  \cup {[first |-> live[k].first, src |-> live[k].src, pkts |-> live[k].pkts] :
          i \in {i \in {0} : k \in LiveKeys}}

(* No packet is lost to eviction: the streams of one key partition its     *)
(* packets into consecutive runs, each starting at its stream's `first`,   *)
(* and a stream's halves are what its two endpoints sent.  `reassemble`    *)
(* returns them ordered by first packet.                                   *)
EveryPacketInOneStream ==
  /\ pc = "done" => \A i, j \in 1 .. Len(out) : i < j => out[i].first < out[j].first
  /\ \A k \in Keys :
      /\ UNION {Fed(s.pkts) : s \in StreamsOf(k)} =
           {p \in 0 .. (Len(input) - 1) : Frame(p).tcp /\ Frame(p).key = k}
      /\ \A s, t \in StreamsOf(k) : s.first < t.first => Latest(s.pkts) < t.first
      /\ \A s \in StreamsOf(k) :
           /\ s.first \in Fed(s.pkts) /\ \A p \in Fed(s.pkts) : s.first <= p
           /\ \A p \in s.pkts[0] : Frame(p).from = s.src
           /\ \A p \in s.pkts[1] : Frame(p).from # s.src

=============================================================================
