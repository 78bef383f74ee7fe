# Verification of wiry's reassembly, live capture, exchanges and automata

wiry is a packet library: a Rust core that dissects, builds and reassembles
packets (`crates/wiry-core`), a capture backend over libpcap
(`crates/wiry-capture`, `crates/wiry-pcap`), a PyO3 layer (`crates/wiry-py`) and
a scapy-shaped Python facade (`python/wiry`). Most of it is stateless: a
dissector is a walk over bytes driven by generated tables. This directory
specifies, model-checks and proves the parts that keep state, are fed in an
order somebody else picks, or run on more than one thread.

## 1. Inventory

| Part | State | Operations | What is hard | What makes it correct |
|---|---|---|---|---|
| IP reassembly, `frag.rs` | groups by key, stamped eviction queue, octet account, output | `push`, `absorb`, `evict`, `finish` | fragments overlap, repeat, contradict each other, arrive in any order; keys are reused; the table is bounded | first writer wins; nothing finished waits; every frame comes out once, in order; accounts exact; caps hold; eviction oldest first |
| IP fragmentation, `frag.rs` | none | `fragment_v4`, `fragment_v6` | 13-bit offsets against 16-bit lengths; options not copied; header chains; fragments of fragments | a split datagram is put back as it was |
| One TCP direction, `stream.rs` `Build` | delivered octets, provenance, gaps, held segments, frontier, origin | `feed`, `hold`, `drain`, `relieve`, `finish` | wrap of sequence numbers; capture starts mid-stream; a late SYN; four bounds | octets in the sender's order at their true positions; holes named; losses counted; provenance true |
| TCP stream table, `stream.rs` `Reassembler` | live streams, stamped queue with stale entries, account of held octets | `push`, `evict`, `retire`, `finish` | eviction in mid-connection; direction of a restarted stream | least recently active goes first; every packet in one stream; accounts exact; bounds hold |
| Live capture, `live.rs`, `sniff.rs`, `capture.py` | Python lock and fields, Rust object under PyO3's borrow, stop flag, done signal, capture thread | `start`, `join`, `stop`, `results`, `Drop`, capture loop, `prn` | threads on both sides of the GIL, self-join, Ctrl-C, timeouts, failure of the thread, finalisation | one capture; nothing captured is lost; no list before the thread ended; stop stops; join returns |
| `SndRcvHandler`, `sendrecv.py`, in `_sniff_sockets`, `capture.py` | packets sent and not yet answered, counters, `breakout`, results, retries left | sending thread, receive loop, rounds, floods | two threads share the list and the counters; answers come early, late, twice or unasked; a send fails; Ctrl-C | nothing answered is resent; every packet in one result; a round stops early only when all is answered; a timeout returns |
| Automaton, `automaton.py`, over `ObjectPipe`, `supersocket.py` | control thread, lock `started`, two command pipes, state, breakpoint, single-step flag | `start`, `run`, `runbg`, `next`, `stop`, `forcestop`, `restart`, verdicts | everyone may wait on everyone; a pipe is a deque and a descriptor, written in two steps | a byte always has its object; one control thread; `forcestop` ends a machine that does not pass its command over, and returns; `start` returns |
| Timers of an automaton, `automaton.py` | time left, expired and just-expired flags, the loop's clock | `reset`, `decrement`, `expired`, `until_next` | late loops, early wakings, objects shared by the class | never early; a timeout once in a stay, and it does run |
| `sr_live` and `Exchange`, `live.rs` | what is unanswered | send, offer, retry | late answers counted for a later attempt | not modelled: one thread, tested without a wire by `pair_replies` |
| GSS mechanisms, `layers/spnego.py`, `ntlm.py`, `kerberos.py` | context of a handshake | token exchange | cryptography and encodings | not modelled |
| Capture files, `pcap.rs`, `pcapng.rs`, `writer.rs` | writer buffer, append checks | write, flush, close | partial writes | not modelled |
| Stream messages, reframing | growth budget | `messages`, splice | bounded growth | not modelled |
| Dissector, layers, reply matching, routing, lists, rendering, ASN.1, tools, console | none that survives a call | | pure functions of bytes | not modelled |

`PROJECT.json` lists every part with its sources under `components`, and under
`hazards` the lines where it can go wrong in a way a test would hardly reach,
with the properties that would catch it.

How the parts meet: `defragment` and `reassemble` are calls over a whole
capture, one frame at a time; a `session=` of `sniff` runs them after the
capture filter. A live capture hands frames to Python one at a time (`prn`) on
its own thread, and its list to whoever joins it. `sr` over a socket runs
`SndRcvHandler` around the receive loop `_sniff_sockets`; automata read their own
socket in `_do_iter` and are driven over two `ObjectPipe`s.

## 2. Modules

| Module | Models | Notes |
|---|---|---|
| `ClaimedRanges` | what `Group::absorb` does to `got` and `data` | closed form, used by the reassembler |
| `Claims` | one datagram's promise: a claim lands in one step | abstract specification |
| `AbsorbLoop` | the loop of `absorb`, one turn per step | implements `Claims` |
| `StableSort` | `slice::sort_by_key`, by which both reassemblers order their results | external; said by ranks |
| `FragReassembler` | `Reassembler` of `frag.rs` | eviction and `finish` are stepped, one group per step |
| `Fragmentation` | `fragment_v4`, `fragment_v6` | operators |
| `FragRoundTrip` | `fragment` composed with `defragment` | pieces in any order, duplicated, split twice |
| `TcpBuild` | `Build` of `stream.rs` | `feed`'s early returns are one action each; `drain` and `relieve` are stepped |
| `StreamReassembler` | `Reassembler` of `stream.rs` | a direction is how much it holds |
| `LiveSniffer` | `AsyncSniffer` (live) over `LiveSniffer` and `LiveRun` | a step is what runs without the GIL changing hands |
| `SndRcv` | `SndRcvHandler` and `_sniff_sockets` | sender and receiver interleave at each shared read and write |
| `ObjectPipe` | `send`, `recv`, `empty` | operators; `send` has two halves |
| `Automaton` | `Automaton` and its `_do_iter`, composed with two `ObjectPipe`s | the user's machine is a constant |
| `AtmtTimers` | `Timer`, `_TimerList` and the waiting loop of `_do_iter` | one state, one or several machines of a class, discrete time |
| `FragReassemblerProofs`, `AbsorbLoopProofs`, `TcpBuildProofs`, `StreamReassemblerProofs`, `LiveSnifferProofs`, `SndRcvProofs`, `AutomatonProofs` | proofs | the first covers `FragRoundTrip` too, the last `AtmtTimers`; shared lemmas are in `ReassemblyLemmas` |
| `MC*` | instances for TLC | frames, datagrams and segments to feed |

### How state and actions correspond to the code

**Frames.** A frame is what `inspect` reads of it. Payload octets are replaced
by who supplied them: in `FragReassembler` an octet of `data` is the position of
the frame that wrote it, or `Zero` for `Vec::resize`'s filler; in `TcpBuild` it
is a record of its absolute position, its true position in the sender's stream
and its packet. First-writer-wins, order and provenance can then be read off the
state and compared with the frames alone.

**Queues.** `order`, a `VecDeque<(u64, Key)>`, is a set of `<<stamp, key>>`.
Stamps only grow, so the front is the entry with the least stamp.

**Loops.** `evict`, `drain`, `relieve`, `give_up_on_front` and `finish` run under
a `pc`, one turn per step, and no frame is fed until they end, as in the code.
Invariants that hold only between frames say `pc = "idle"`.

**Numbers.** Sequence numbers are taken modulo `SeqSpace` and differences are
read as signed, as `wrapping_sub as i32` does. `Plausible` restricts a sender to
segments within `Reach` (under half the space) of the frontier, the assumption
every TCP receiver makes; `PositionsTrue` is what it buys. Unsigned accounts
(`buffered`, `held`, `held_bytes`) are integers whose staying in `Nat` is checked.

**Threads.** In `LiveSniffer` each client has a place (`pc`) inside the call it is
in. `lock` is `AsyncSniffer._lock`; `borrow` is PyO3's exclusive borrow of the
Rust object, held for as long as a `&mut self` method runs, its GIL-releasing
waits included; another call meanwhile raises, inside or outside the `try` it is
made in, as the code has it. The capture thread is `thread`. Everything clients
do between two points where the GIL may change hands is one step; `_keep`
is two, because building the `PacketList` runs Python code. External behaviour
(reference counting, thread exit, the borrow check) is marked so in the map.

**Exchanges.** `SndRcv` runs one call, with its keyword arguments chosen in
`Init`. `spc` is the place in the sending code, whichever thread runs it, `pc` the
caller's place in the receive loop and in the loop over rounds. Recording a
packet, storing `notans`, storing `_send_done`, and the two looks of
`_stop_if_done` are steps of their own, because the other thread may come between
any of them. The reply matcher is the constant `Answers`; `_match`'s order (by
link layer, then by age) is kept.

**Automata.** `at[c]` is where a client is in its call, `ctl[c]` where the control
thread is that its `start()` made. `started` is the lock; it is held by a control
thread, by a caller that empties the pipes after a stop, or by nobody. `gen` is
where `_do_iter`'s generator was left: entering a state, going on in it, or
waiting. A user's condition may raise a state request, decline or fail, and so may
the body of a state (`Jumps`): `RunRaises` leaves it before the checks for an error
or final state and before the look at `cmdin`. In a state with timers some may be due
whenever the waiting loop looks, and `TimersDue` runs them before the `select`, a
command pending or not; an event needs that none is pending, or that it was ready
together with the one heard. A state sends at most one packet when it is run. When a
timer is due is not said there: the timers themselves are modelled in `AtmtTimers`,
where `owed` is the time since `time_previous`, `sleep` what is left of the wait
`until_next` asked for, and a tick advances the clock of every machine in the state.

## 3. Runs

Passing:

| Run | Checks | Instance |
|---|---|---|
| `frag` | `FirstWriterWins`, `NothingFinishedIsHeld`, `BufferedExact`, `EveryFrameAccounted`, `WithinCaps`, `EvictsOldest` | three kinds of capture over IPv4 and IPv6 keys: four frames out of ten that overlap, touch, are empty, claim two ends, or outgrow a length with their header; five frames of three datagrams that contend for two slots and eight octets; six frames of datagrams that finish at once, so that their stale queue entries are popped and swept |
| `absorb_loop` | `RangesMerged`, `ImplementsClaims` | all sequences of four claims on offsets 0 to 5, empty claims included |
| `frag_roundtrip` | `RoundTrips`, `PiecesDescribable` | every length up to and past the longest, three IPv4 header shapes, every chain of up to three extension headers with `MAX_EXT` at two, five chunk sizes |
| `tcp` | `TypeOK`, `PositionsTrue`, `DeliveredInOrder`, `FirstHolderWins`, `NothingVanishes`, `HeldExact`, `Provenance`, `FrontierForward` | four segments around a wrap of a 16-number space: out of eighteen without a SYN, or out of fourteen with SYNs before, between and after the data |
| `stream` | `HeldExact`, `EveryPacketInOneStream`, `WithinBounds`, `EvictsLeastRecent` | three connections for two slots and two held octets: four frames of both directions, one a SYN-ACK and one not TCP, or five frames of busy streams with a sweep factor of one |
| `live` | `TypeOK`, `OneCapture`, `JoinedMeansExited`, `NothingCapturedLost`, `StopStops`, `JoinEnds` | two threads, three calls in all, two frames, `count=1`, a timeout, drops by a client and by `prn` |
| `sndrcv` | `ResendsOnlyUnanswered`, `ResultsPartition`, `SettledMeansAnswered`, `TimeoutReturns`, `AnsweredRoundEnds` | two packets of different link layers, a reply to each and one to both, two of them arriving at any moment; threaded and not, with and without a timeout, multi, first, persistent (`retry=-1`), failing sends, floods one by one and in batches |
| `automaton` | `EveryByteHasItsObject`, `ForceStopEnds`, `ForceStopReturns`, `StartReturns` | six states: two that lead into each other by conditions, one of which may raise itself in its body, one that waits for an event or a timer and has a breakpoint, a stop state whose packet is intercepted and whose body may go to the end by itself, a final and an error state; one client makes two calls of any kind with Ctrl-C, another starts or stops once |
| `timers` | `NeverEarly`, `TimeoutOnce`, `TimeoutRuns` | a timeout of three ticks, a reloading timer of two with a higher priority, two stays, three wakings, a loop up to five ticks late |

Where a run has several kinds of capture, the state constraint `OneKind` of its
MC module keeps a capture to one of them.

Each property comes with a mutant in `PROJECT.json`: an operator next to the one
it replaces, changed as a plausible bug would change it, that breaks the property
under the same configuration.

Violated, each by what the code does against what a comment, a document or a
test says of it (quoted under `findings`):

| Run | The code | The statement |
|---|---|---|
| `tcp_first_writer` | an in-order segment wins over an overlapping one held earlier | "first-writer-wins", E25, and the test suite's longhand model |
| `live_stop_returns` | a `stop()` that reads `_live` before `start()` takes the lock joins the capture it finds afterwards, whose flag it never set | `stop()` is honoured between packets |
| `timers_shared` | two machines of a class share its `Timer` objects, and the one that looks first takes the other's expiry | `spawn`: "one automaton per accepted client", with timeouts that fire once each |

Further places where the code and what is said of it part, seen while modelling
and reproduced by the modules, without a run of their own:

- `evict` of `frag.rs` takes the datagram created first, also when it lacks one
  fragment and the newer ones never end; the comment at `frag.rs:573` says such a
  flood "cannot push out the one that was about to finish". `EvictsOldest` is what
  the code does.
- A bare SYN opens a direction whose early segments hold more than
  `MAX_HELD_BYTES` and does not relieve it (`stream.rs:182`), though past a holding
  bound "the frontier is forced over the missing octets" (`stream.rs:34`).
- Octets held before a SYN that lie below the origin it sets leave `drain`
  uncounted and without `LOSSY`; the comment on `origin` (`stream.rs:143`) calls
  refusing them "a loss to report". `NothingVanishes` excepts them.
- `.results` of a capture that failed raises the error and stores nothing, so the
  `join()` that follows returns `None` (`capture.py:650`), which the comment at
  `capture.py:764` means to exclude.
- Two threads inside `_keep` can each make a list, against "One wrapper per run"
  (`capture.py:660`).
- `fragment_v4` splits a payload that fits the offsets and not the 16-bit length
  (`frag.rs:233`), though E19 (`DEVIATIONS.md:66`) and the test at `frag.rs:1149`
  say that fragments that cannot be put back are worse than none.
- `stop()` while another thread is in `join()` is refused by PyO3's borrow check and
  sets no flag (`capture.py:760`); the lock is kept out of `join()` so that it
  would not "block the stop() meant to end it" (`capture.py:642`).
- `Drop` of a `LiveSniffer` on its own capture thread waits for that thread
  (`live.rs:556`); E15 says dropping one stops and joins it (`DEVIATIONS.md:62`).

In `SndRcvHandler`:

- A flood stopped in its first pass reports the packets it had not come to in
  neither list (`sendrecv.py:201`), and so does any round whose send failed or was
  cut short; `skipped` records them and `ResultsPartition` excepts them.
- `first` with `retry` sends again although an answer has come (`sendrecv.py:153`).
- With `chainEX` an error on the sending thread skips `_stop_if_done` and the wait
  that keeps the time, so a threaded call with a timeout may not return;
  `TimeoutReturns` excepts `chainEX`.
- A failure raised out of `_sniff_sockets` (`conf.debug_dissector >= 2`) passes the
  lines that stop the sender; a Ctrl-C in it is swallowed and looks like the end of
  the capture; an unthreaded deadline is counted from before the sending.
- `len(remain) != len(tobesent)` takes a packet that was never recorded for
  progress and gives a persistent exchange its rounds back.

In the automaton:

- A state that is left by its own body (`automaton.py:1058`, caught at 1138) or by a
  timer already due (`automaton.py:1099`, before the `select`) is left without a look
  at `cmdin`. A machine that goes round in such states, or in timeouts of zero, never
  reads `FORCESTOP`; `forcestop()` then waits for its lock for ever, and with it the
  hook at exit that should end every machine (`automaton.py:589`, and the test at
  `test_automaton.py:570`). The instance of `automaton` has such a state;
  `ForceStopEnds` and `ForceStopReturns` except the behaviours that pass a readable
  command over infinitely often (`PassesOver`) and no others: a body or a timer that
  passes it over a number of times only delays the end.
- `run()` waits on `cmdout` for ever when another thread's `stop()` or
  `forcestop()` ends the machine, which says nothing on that way out, nor when the
  user's code raises what is no `Exception` (`sys.exit`).
- The emptying of the pipes after a stop races a `run()` of another thread: it can
  take that thread's command, or block for a byte the other has read while it
  holds `started`. `ForceStopReturns` says when it cannot.
- A `forcestop()` that waits for the lock may find a new machine behind it; of two
  racing `start()` the second waits for the first machine to end.
- The END a `runbg()` leaves unread answers the next `run()`; `breakpointed` is not
  reset by a restart; a `RuntimeError` in user code is reported as END with the
  last run's output.
- A command waiting when a state is entered skips its immediate conditions and the
  check for a stuck state; a STOP while single-stepping into a stop state that is
  not final leaves `stop()` waiting; a command that is no verdict raises at an
  interception.
- A reloading timer whose loop is two periods late gets a `_time` of zero or less,
  which `until_next` ignores: it is not waited for any more (`automaton.py:319`).

The depth limit of `fragment_v6` (`depth >= MAX_EXT`) refuses more than it must:
the walk that finds the unfragmentable part is itself bounded by `MAX_EXT`, so the
inserted header is within reach of the reassembler without it.

### Bounds, and why they are enough

Every bound is a named constant. `MaxInput`, `MaxPackets`, `MaxClaims`,
`MaxFrames`, `MaxCalls`, `MaxReplies`, `MaxVisits`, `MaxEvents` and `MaxLag` cap the
length of a behaviour; the others are the
code's own limits scaled down so that each one is hit: the inflight and buffered
caps and the sweep within four to six frames, `MAX_FRAGS` within the overlaps,
the origin window, the three holding bounds, `MAX_AHEAD` and `MAX_STREAM` within
four segments, the 13-bit offset one past its end. Scaling keeps the order
between limits: `MaxDatagram = Unit * (MaxOffset + 1) - 1`, as 65535 is one less
than 8 * 8192, and `OriginWindow` at most `MaxHeldSegs`. Two overlapping claims
around a third exercise each case of `absorb`, four allow each to follow another.
Two clients are enough for the races of `LiveSniffer`: each involves one holder
of the lock, of the borrow or of a stale read, and one other; and for the
automaton, where a race is between a caller and another that stops or starts.
Two replies to two packets give each order of pairing, a duplicate, a late answer
and an answer to both; a second round sees what the first left, and the rounds
after it see no more. `FloodPasses` is one, so that a batch ends between passes.
`MaxLag` of five lets a loop miss two periods of the shorter timer; the second
stay of `MaxVisits` is the one that finds the timers expired.

Deadlock checking is off where the system really stops: `finish` consumes the
reassembler, clients make a bounded number of calls, and a machine makes a
bounded number of visits. `sndrcv` checks it: a call over is a loop of its own.

### Fairness

`LiveSniffer`: `WF` of every client's own next step inside a call
and of the capture thread's steps: the operating system and the GIL's switch
interval run every thread that can run. `WF(stop /\ LoopStops)`: the loop's head
polls the flag on every turn, and a read returns within libpcap's timeout or
without blocking. `WF` of `PrnReturns \/ PrnRaises`: the user's callback ends,
as the class asks of it ("keep the callback short"). Nothing is assumed about the
wire, signals, timeouts or which calls clients make.

`SndRcv`: `WF` of the sending code, of the caller's thread and of the deadline:
both threads are scheduled and time passes. `Automaton`: `WF` of each control
thread and of each client inside a call: both are scheduled, and the user's code
returns. Nothing is assumed of events, timers, packets,
user code's choices or further calls, so a client may wait for an event for ever.
`AtmtTimers`: `WF` of each machine's own steps and of the clock; nothing of events
or of the user who holds a paused machine.

## 4. Proofs

`tlapm` checks these for every value of the constants that satisfies the named
assumptions.

**`FragReassemblerProofs`** (`KeysAssumption`, `FramesAssumption`,
`BoundsAssumption`: finitely many keys, frames of the declared shape, non-zero
caps where the code's are). Theorems `TypeCorrect`, `CapsHold`, `AccountExact`,
`QueueComplete`, `EvictionOldestFirst`; `FirstWriterAlwaysWins`,
`NothingFinishedWaits` and `EveryFrameOnce`. For the first five the inductive
invariant is the type invariant, `BufferedExact` and `EveryGroupQueued`, strengthened
with what makes them inductive: stamps in the queue are unique and below `seq`, and outside the
eviction loop the caps hold. The argument for the caps: the loop ends either
below the limits or with an empty queue, and an empty queue means no live group,
because every live group is queued, so the account is zero. Eviction takes the
oldest because a group's stamp is its queue entry's and the front is the least.

The last three speak of the whole capture, and rest on a second invariant,
`HInv`, which compares the state with the frames alone. `GroupTrue` says what a
group's fields mean: its header is that of the first of its fragments at offset
zero, its total the end of the first last one, its ranges are apart and each
claim lies within one of them, and each claimed octet is from the first fragment
that claims it. It is stronger than `FirstWriterWins`, which speaks of finished
datagrams only: what makes a datagram right is true of the group all along.
`MergedFacts` is what merging does to ranges, and `FedTrue` puts the fields together.
A complete group is then the datagram its frames spell (`CompleteIsTrue`), and one
whose frames spell a datagram is complete (`FinishedIsComplete`), so that it left
with the frame that finished it. `Located` says that a frame has exactly one place,
in the output, in a datagram or in a group; each operation moves places one to one
(`TakeLocates`, `SpillLocates`, `CompleteLocates`, `AppendLocates`, `SortLocates`).
The final order follows: pieces at one position would be two places of one frame,
and `SortPermutes` says that a sort by rank is a permutation that puts smaller keys
first.

The module ends with the round trip of `FragRoundTrip` (`GramsAssumption`: datagrams
of the declared shape, not fragments already, whose later headers are no longer than
the first; `SameLimit`, the reassembler's limit is the one the splitter cuts to;
`RoomForOne`, the caps admit one datagram; `PiecesAssumption`, the frames include
every piece; `UnitsAssumption`). Theorems `PiecesAlwaysDescribable`,
`RoundTripFeedsReassembler`, `RoundTripsAlways` and `NeverEvicts`, for any datagrams,
fragment sizes, header chains, units and offsets. The argument has three parts:

1. *One split.* `Chunk` is whole units and leaves room for the header (`ChunkFits`);
   the chunks lie within the payload and cover it (`ChopWithin`, `ChopCovers`).
   `Split` is what a split owes: pieces of the same datagram that together are the
   one split, one that begins it, one that ends it, and either it alone or shorter
   pieces that fit. It holds of `fragment_v4` for a datagram and for a fragment
   (`SplitsV4`), and so composes (`SplitAgain`). For IPv6, the headers every piece
   repeats end before `MAX_EXT` and are all extension headers, so the reassembler's
   walk of a piece reaches the Fragment header put behind them (`HeaderReached`):
   the two walks agree, and the filter in `V6Wire` drops nothing.
2. *Composition.* Every step is one of the reassembler's, so `HInv` and the first
   invariant hold here (`RoundTripFeedsReassembler`). `NeverEvicts` says why the
   composition needs no eviction turn: one group of at most `MAX_DATAGRAM` octets.
3. *Return.* `RoundTrips` is not inductive. `RInv` adds that until the datagram is
   put back every frame that came is held, up to the `MAX_FRAGS`-th; only that cap
   refuses one, and a group holds no more than came (`RefusedLate`, by a pigeonhole).
   If all pieces are held the group would be complete by `FinishedIsComplete`,
   which `HInv` excludes; a group that completes is the datagram, by its length and
   header (`CompleteIsWhole`); and no step takes a piece of the output back
   (`PiecesKept`).

**`AbsorbLoopProofs`** (`LoopBounds`). Theorems `RangesStayMerged` and
`AbsorbImplementsClaims`, the refinement of `Claims`. The loop invariant says
what a turn has achieved: octets of the claim below `at` are final, the ranges
swallowed so far are those of the old map that touch the claim and begin below
the rest, `lo` and `hi` are their hull, and the remaining ranges are still apart.
The one probe for a predecessor is enough because ranges are apart.

**`StreamReassemblerProofs`** (`KeysAssumption`, `FramesAssumption`,
`BoundsAssumption` of its module). Theorems `TypeCorrect`, `AccountExact`,
`BoundsHold`, `QueueComplete`, `EvictionLeastRecentFirst`, `EveryPacketOnce`. The
scheme is the one for fragments, over a queue in which every touch leaves a stale
entry and a feed may leave anything from nothing to everything held.
`StampIsRecency` is new: a stream's stamp is the entry eviction finds it by, and
the theorem speaks of its packets, so the invariant also says that streams are
stamped in the order of their last packets. `EveryPacketOnce` has an invariant of
its own, `PInv`: each stream is a run of its key (`Run`), every segment captured
is carried by one, streams of one key lie one before the other, and the live one
lies after those handed back. That last part is what makes eviction in
mid-connection harmless: a stream that starts again begins after all that was
retired. Two streams cannot begin with one packet, which gives the final order.

**`TcpBuildProofs`** (`SizesAssumption`: the bounds are naturals, the origin's
window is not empty and no larger than the holding bound, and a plausible sender
stays within `Reach`, under half the sequence space, of the frontier). Theorems
`TypeCorrect`, `EveryPositionTrue`, `AlwaysInOrder`, `FirstHolderAlwaysWins`,
`NothingEverVanishes`, `HeldAlwaysExact`, `ProvenanceHolds` and the action property
`FrontierOnlyForward`: everything the run checks of a direction, for any segments
and any number of wraps. The properties hold together or not at all, so there is
one invariant with two layers. `Laid` says where things are: the frontier and the
origin (`FrontierOK`), held entries non-empty, apart, counted and at their true
positions (`HeldOK`), delivered octets behind the frontier, ascending, as many as
their positions (`DataOK`), gaps beside them and standing where their count says
(`GapsOK`), provenance as a tiling (`SegsOK`). `Accounted` says where everything
went: each position between origin and frontier is delivered, in a gap or lost
(`Behind`), and the octets kept and dropped are no more than were fed (`Counted`).
The argument has four parts:

1. *Numbers.* `AbsoluteTrue`: a number within `Reach` of the reference is the one
   that its remainder and a signed difference give back, in whichever wrap.
2. *Operators.* `hold` keeps maximal runs of the octets nobody holds: the runs
   cover them, are apart, and fit under the bounds (`RunsCover`, `RunsApart`,
   `HoldFacts`); `append` lengthens the data at the frontier, and lengthens the last
   segment or adds one (`AppendFacts`).
3. *Layout*, action by action: the quiet returns of `feed`, holding, in-order
   delivery, `drain`, giving up on a hole, and the rest.
4. *Account*, from what each kind of step can do to it: it only grows, or moves a
   held entry to the data or past the frontier, or moves the frontier over what it
   settles (`Grows`, `HeldMoves`, `Advances`).

`FirstHolderWins` covers octets while they are held; the run `tcp_first_writer`
shows why it cannot be said of the delivered ones.

**`LiveSnifferProofs`** (`SnifferAssumption`). Theorems `TypeCorrect`,
`OneCaptureEver`, `ListsAfterExit` and `CaptureNotLost`, for any finite set of
clients and any number of calls and frames. `Threads` ties the lock to the places
in `start` that hold it, so that a second `start` finds the flag of the first one
set, and the capture thread's place to whether one was ever made. `Collected`
follows the handle: once it is taken out of the object the thread has ended, or
waits for itself, or some call is reaping or dropping it; and whatever has a list
has it from a thread that has exited, so that nothing is added to it later.

**`AutomatonProofs`** (`MachineAssumption`, `ClientsAssumption`). Theorems
`TypeCorrect`, `BytesHaveObjects` and `OneControlThread`, for any finite set of
clients and any user machine. `EveryByteHasItsObject` is not inductive: it says
only that there are no more bytes than objects. The invariant counts: a pipe's
queue is as long as its bytes plus the writers between the two halves of a
`send`, so a pop by any reader leaves the account exact. For the control threads
the invariant says that each place after the lock is taken implies holding it, for
the thread and for callers that empty the pipes alike.

The timers' theorems are in the same module (`TimersAssumption`,
`BoundsAssumption` of `AtmtTimers`). `TimersTypeCorrect` holds for any number of
machines; `until_next` needs the least element of a non-empty
set of naturals. `TimeoutsRunOnce` and `TimersNeverEarly` are proved under `Alone`,
one machine to its class, and are false without it, for the reason `timers_shared`
shows. The invariant for the first: what a stay ran or is to run has expired, and
nothing due is left outside the part of the loop that runs it. For the second: the
time no firing has used up equals what a running timer has counted down by, plus
what it has still to be charged, so that a firing, which takes a period off both,
leaves it non-negative.

**`SndRcvProofs`** (`PacketsAssumption`, `RepliesAssumption`, `OptionsAssumption`).
Theorems `OnlyUnansweredResent`, `ResultsAlwaysPartition` and `SettledOnlyAnswered`,
for any packets, replies, sockets, reply matcher and number of rounds, threaded or
not. None of the three is inductive. The invariant gives every packet of a round one
of three places: not yet recorded by the sender, and then nothing has answered it;
recorded and waiting in `hsent`, and then nothing has either; or answered, and then
taken out of `hsent` or, where the call keeps entries, flagged there (`Unpaired`,
`Accounted`). Recording and pairing move a packet from one place to the
next whichever thread comes first. `FromRound` ties `hsent` to the part of `tobesent`
the sender has come past: a round that began while the last one's thread still sent
would break it, and `Joined` says that none does. `Counted` ties `sentn`, `notans` and
`noans` to the sizes of those parts; a send that failed or was interrupted may leave
a packet recorded and not counted, so its parts about `sentn` except that case. What
a filter of the code keeps is the ascending enumeration of a set of positions
(`InOrder`); that one exists is an induction on
cardinality, done through a least counterexample.

Only model-checked: the liveness properties `StopStops`, `JoinEnds`,
`TimeoutReturns`, `AnsweredRoundEnds`, `ForceStopEnds`, `ForceStopReturns`,
`StartReturns` and `TimeoutRuns`, because fairness and `ENABLED` are out of the
prover's reach. Every invariant and every action property that a passing run checks
is also proved. The type invariants of the tables and of the automaton are proved
and not run again.

## 5. Not modelled

Bytes: checksums, option bytes, the derived IPv6 identification, header
rewriting. The `Work` counters, which only tests read. `AsyncSniffer`'s offline
and opened-socket drivers and the synchronous `sniff`. The `atexit` hook, which
is one more client calling `stop()`. A connection whose two endpoints are the
same address and port, which has only one direction in the code and cannot be
told apart here. An IPv6 extension header that runs past the end of its datagram
(`frag.rs:147`), at which the walk of the chain ends as it does at a payload.
`destroy` and the descriptors it closes (a `send` after it writes
to whatever reuses the number), `spawn`'s accept loop, `update_sock`, the io pipes
of `as_supersocket` and `Timer.set` of the automaton; a `send_sock` that leaks when
`listen_sock` fails to open. `sr_live`. Progress output.

Most of the repository's lines are tables and codecs: the manufacturer table, the
generated layers, Kerberos, NTLM, X.509 and DHCPv6 fields, the field classes and
the protocol generator. They map bytes to values with no state between calls, and
what could be wrong in them is a constant, an offset or an encoding. A model of
one would be the table again, and the repository checks them against scapy and
recorded packets. The share of lines modelled is small for that reason; what keeps
state, waits, or runs on more than one thread is modelled but for the parts named
here.

## 6. Plan

1. Done: `frag.rs` (reassembly, `absorb`, fragmentation, round trip), `Build` and
   the stream table of `stream.rs`, the live sniffer, `SndRcvHandler`, the automaton
   with its pipes and its timers; the proofs of section 4.
2. Left to model: the offline and socket drivers of `AsyncSniffer`, `spawn` and
   `destroy`, `Exchange` and `sr_live`, the capture writer's append and drain, the
   growth bound of the stream splice, the order of calls of a GSS context.
3. Abstract specifications worth stating: a bounded table with a stamped queue,
   implemented by both reassemblers; a direction as "delivered prefix plus named
   holes", implemented by `TcpBuild`; a sniffer as one run with one outcome,
   implemented by `LiveSniffer` away from the races listed above.
4. Theorems worth proving: that a bounded table with a stamped queue, once stated,
   is implemented by both reassemblers; that `fragment` applied any number of times,
   not twice, still round-trips, which needs an induction over the splits that
   `SplitAgain` is the step of.
