----------------------------- MODULE LiveSniffer -----------------------------
(***************************************************************************)
(* A live AsyncSniffer: the class of python/wiry/capture.py over the Rust  *)
(* LiveSniffer of crates/wiry-py/src/live.rs, which runs the capture loop  *)
(* (LiveRun::slice over SniffState of sniff.rs) on a thread of its own.    *)
(*                                                                         *)
(* Client threads call start, join, stop and results; the capture thread   *)
(* calls prn, which may call stop on its own sniffer.  A step is what runs *)
(* without the GIL changing hands.  A method that takes &mut self borrows  *)
(* the Rust object for as long as it runs, waits included, and PyO3 raises *)
(* out of any other call meanwhile: `borrow` is its holder.                *)
(***************************************************************************)
EXTENDS Integers, FiniteSets

CONSTANTS
  Clients,      \* Python threads
  Main,         \* the clients a signal interrupts: the main thread
  Api,          \* the calls clients make
  Count,        \* `count`, 0 for unbounded
  HasTimeout,   \* whether the capture has a `timeout`
  Droppers,     \* who may let go of the last reference
  MaxFrames,    \* bound: frames on the wire
  MaxCalls      \* bound: calls made in all

ASSUME SnifferAssumption ==
  /\ Main \subseteq Clients /\ Clients \cap {"free", "none"} = {}
  /\ {Count, MaxFrames, MaxCalls} \subseteq Nat
  /\ HasTimeout \in BOOLEAN
  /\ Api \subseteq {"start", "join", "timed", "stop", "signal", "results"}
  /\ Droppers \subseteq Clients \cup {"capture"}

VARIABLES
  lock,       \* AsyncSniffer._lock: its holder, or "free"
  started,    \* AsyncSniffer._live is set and _started
  exc,        \* AsyncSniffer._exc
  list,       \* AsyncSniffer._results: the client that wrapped it, or "none"
  borrow,     \* PyO3's borrow of the LiveSniffer: its holder, or "free"
  stop,       \* the stop flag
  over,       \* Done.over
  taken,      \* LiveSniffer.thread has been taken
  results,    \* LiveSniffer.results
  thread,     \* the capture thread
  outcome,    \* what its closure returned
  kept, frames,  \* SniffState.kept, and the frames read so far
  pc, call,   \* each client's place, and the call it is in
  calls,      \* how many calls were made
  got,        \* whether the Rust call handed each client a list
  answer,     \* ghost: how each client's last call ended
  captures    \* ghost: capture threads ever spawned

async == <<lock, started, exc, list>>
rust == <<borrow, stop, over, taken, results>>
loop == <<thread, outcome, kept, frames>>
clients == <<pc, call, calls, got, answer>>
vars == <<async, rust, loop, clients, captures>>

None == -1

Init ==
  /\ lock = "free" /\ started = FALSE /\ exc = "none" /\ list = "none"
  /\ borrow = "free" /\ stop = FALSE /\ over = FALSE /\ taken = FALSE /\ results = None
  /\ thread = "none" /\ outcome = "none" /\ kept = 0 /\ frames = 0
  /\ pc = [c \in Clients |-> "idle"]
  /\ call = [c \in Clients |-> "none"]
  /\ calls = 0
  /\ got = [c \in Clients |-> FALSE]
  /\ answer = [c \in Clients |-> "none"]
  /\ captures = 0
----------------------------------------------------------------------------
(* Calls.                                                                  *)

(* Drop runs when no one holds a reference: nothing is called after it.    *)
Referenced ==
  thread # "stuck" /\ \A c \in Clients : pc[c] \notin {"dropping", "gone"}

BeginsHanded(c, what, at, listed) ==
  /\ pc[c] = "idle"
  /\ Referenced
  /\ calls < MaxCalls
  /\ pc' = [pc EXCEPT ![c] = at]
  /\ call' = [call EXCEPT ![c] = what]
  /\ calls' = calls + 1
  /\ got' = [got EXCEPT ![c] = listed]
  /\ answer' = [answer EXCEPT ![c] = "none"]

Begins(c, what, at) == BeginsHanded(c, what, at, FALSE)

Goes(c, from, to) ==
  /\ pc[c] = from
  /\ pc' = [pc EXCEPT ![c] = to]
  /\ UNCHANGED <<call, calls, got, answer>>

(* The Rust call returns to Python: with the list, or with None.           *)
Returns(c, from, listed) ==
  /\ pc[c] = from
  /\ pc' = [pc EXCEPT ![c] = "keep"]
  /\ got' = [got EXCEPT ![c] = listed]
  /\ UNCHANGED <<call, calls, answer>>

SetsStop(c) == call[c] \in {"stop", "signal"}

(* The call is over: it raised, or returned a list, or None ("nothing"),   *)
(* or found no capture to ask ("unstarted").                               *)
Ends(c, from, how) ==
  /\ pc[c] = from
  /\ pc' = [pc EXCEPT ![c] = "idle"]
  /\ answer' = [answer EXCEPT ![c] = how]
  /\ UNCHANGED <<call, calls, got, captures>>

(* Mutant: start() does not wait for the lock.                             *)
LockFreeAlways == TRUE
LockFree == lock = "free"

(* start(), under _lock from end to end: the guards, ...                   *)
StartEnter(c) ==
  /\ LockFree
  /\ "start" \in Api
  /\ Begins(c, "start", "start")
  /\ lock' = c
  /\ UNCHANGED <<started, exc, list, rust, loop, captures>>

StartRefused(c) ==
  /\ started   \* running, or already run
  /\ Ends(c, "start", "raised")
  /\ lock' = "free"
  /\ UNCHANGED <<started, exc, list, rust, loop>>

(* ... the handle, opened before the thread so that a failure is start()'s *)
(* to raise, ...                                                           *)
StartOpen(c) ==
  /\ ~started
  /\ exc' = "none" /\ list' = "none"
  /\ \/ /\ Ends(c, "start", "raised")
        /\ lock' = "free"
        /\ UNCHANGED <<thread, captures, stop>>
     \/ /\ Goes(c, "start", "publish")
        /\ thread' = "running"
        /\ stop' = FALSE
        /\ captures' = captures + 1
        /\ UNCHANGED lock
  /\ UNCHANGED <<started, borrow, over, taken, results, outcome, kept, frames>>

(* ... and _live, which every other call reads under the same lock.        *)
StartPublish(c) ==
  /\ Ends(c, "publish", "nothing")
  /\ started' = TRUE
  /\ lock' = "free"
  /\ UNCHANGED <<exc, list, rust, loop>>

(* join(), timed or not, stop() and stop(join=False) ("signal") take _live *)
(* from under the lock.  A call that will not wait skips the check.        *)
CallEnter(c, what) ==
  /\ LockFree
  /\ what \in Api
  /\ Begins(c, what, IF ~started THEN "offline"
                     ELSE IF what = "signal" THEN "call" ELSE "check")
  /\ UNCHANGED <<async, rust, loop, captures>>

(* No capture was live then.  join() has nothing to wait for; stop() sets  *)
(* the offline driver's event and joins, which looks again.                *)
CallOffline(c) ==
  /\ call[c] # "stop"
  /\ Ends(c, "offline", "unstarted")
  /\ UNCHANGED <<async, rust, loop>>

StopJoins(c) ==
  /\ LockFree
  /\ pc[c] = "offline" /\ call[c] = "stop"
  /\ pc' = [pc EXCEPT ![c] = IF started THEN "check" ELSE "offline"]
  /\ call' = [call EXCEPT ![c] = "rejoin"]
  /\ UNCHANGED <<async, rust, loop, calls, got, answer, captures>>

(* live.on_capture_thread(): no client is, but the call itself is refused  *)
(* while another client's method holds the object.                         *)
Check(c) ==
  /\ borrow = "free"
  /\ Goes(c, "check", "call")
  /\ UNCHANGED <<async, rust, loop, captures>>

CheckRefused(c) ==
  /\ borrow # "free"
  /\ Ends(c, "check", "raised")
  /\ UNCHANGED <<async, rust, loop>>

Answered == IF list = "none" THEN "nothing" ELSE "list"

(* live.join(timeout) or live.stop(join), which wait only where a thread   *)
(* is left to collect.                                                     *)
Waits(c) == call[c] # "signal" /\ ~taken

(* Mutant: the thread is taken out of the sniffer before the wait.         *)
TakenForWaitEarly(c) == taken \/ Waits(c)
TakenForWait(c) == taken

LiveCall(c) ==
  /\ borrow = "free"
  /\ stop' = (stop \/ SetsStop(c))
  /\ taken' = TakenForWait(c)
  /\ IF Waits(c)
     THEN Goes(c, "call", "wait") /\ borrow' = c
     ELSE Returns(c, "call", results # None) /\ UNCHANGED borrow
  /\ UNCHANGED <<async, over, results, loop, captures>>

(* A borrow taken between the two calls: the error is kept in _exc.        *)
LiveCallRefused(c) ==
  /\ borrow # "free"
  /\ exc' = "borrow"
  /\ Ends(c, "call", IF call[c] = "signal" THEN Answered ELSE "raised")
  /\ UNCHANGED <<lock, started, list, rust, loop>>

(* Done::wait_out, to the end, to join's timeout or to a signal.           *)
WaitOver(c) ==
  /\ over
  /\ Goes(c, "wait", "reap")
  /\ taken' = TRUE
  /\ UNCHANGED <<async, borrow, stop, over, results, loop, captures>>

WaitTimedOut(c) ==
  /\ call[c] = "timed" /\ ~over
  /\ Returns(c, "wait", results # None)
  /\ borrow' = "free"
  /\ UNCHANGED <<async, stop, over, taken, results, loop, captures>>

WaitInterrupted(c) ==
  /\ c \in Main
  /\ Ends(c, "wait", "raised")
  /\ borrow' = "free"
  /\ exc' = "interrupt"
  /\ UNCHANGED <<lock, started, list, stop, over, taken, results, loop>>

(* Mutant: the outcome is read at the signal, without t.join().            *)
FinishedAtSignal == thread \in {"over", "exited"}
(* The thread has ended: t.join() returns, t.is_finished() is true.        *)
Finished == thread = "exited"

(* reap: t.join() and the outcome.                                         *)
Reap(c) ==
  /\ Finished
  /\ borrow' = "free"
  /\ IF outcome = "ok"
     THEN results' = kept /\ Returns(c, "reap", TRUE)
     ELSE UNCHANGED results /\ Goes(c, "reap", "except")
  /\ UNCHANGED <<async, stop, over, taken, loop, captures>>

(* join() and stop() keep what reap raised; the results property does not. *)
Except(c) ==
  /\ exc' = IF call[c] = "results" THEN exc ELSE "capture"
  /\ Ends(c, "except", "raised")
  /\ UNCHANGED <<lock, started, list, rust, loop>>

(* _keep, outside the lock: the look at _results, ...                      *)
Keep(c) ==
  /\ Goes(c, "keep", IF got[c] /\ list = "none" THEN "wrap" ELSE "answer")
  /\ UNCHANGED <<async, rust, loop, captures>>

(* ... the PacketList built and assigned, ...                              *)
Wrap(c) ==
  /\ Goes(c, "wrap", "answer")
  /\ list' = c
  /\ UNCHANGED <<lock, started, exc, rust, loop, captures>>

(* ... and what the call then answers.                                     *)
Answer(c) ==
  /\ Ends(c, "answer", IF exc # "none" /\ call[c] \notin {"signal", "results"}
                       THEN "raised" ELSE Answered)
  /\ UNCHANGED <<async, rust, loop>>

(* The results property: collects a thread that has already exited.        *)
AsksResults(c, at, listed) ==
  /\ "results" \in Api
  /\ started /\ list = "none"
  /\ BeginsHanded(c, "results", at, listed)

Results(c) ==
  /\ borrow = "free" /\ Finished /\ ~taken
  /\ AsksResults(c, "reap", FALSE)
  /\ taken' = TRUE /\ borrow' = c
  /\ UNCHANGED <<async, stop, over, results, loop, captures>>

(* Nothing to collect: what is stored.                                     *)
ResultsStored(c) ==
  /\ borrow = "free" /\ ~(Finished /\ ~taken)
  /\ AsksResults(c, "keep", results # None)
  /\ UNCHANGED <<async, rust, loop, captures>>

ResultsRefused(c) ==
  /\ borrow # "free"
  /\ AsksResults(c, "except", FALSE)
  /\ UNCHANGED <<async, rust, loop, captures>>

(* Drop: no one is in a call.  The flag, then a wait that no signal ends.  *)
Unreferenced == started /\ lock = "free" /\ \A c \in Clients : pc[c] = "idle"

Drop(c) ==
  /\ c \in Droppers
  /\ Unreferenced
  /\ stop' = TRUE
  /\ IF taken THEN Begins(c, "drop", "gone") ELSE Begins(c, "drop", "dropping")
  /\ taken' = TRUE
  /\ UNCHANGED <<async, borrow, over, results, loop, captures>>

Dropped(c) ==
  /\ over /\ thread = "exited"
  /\ Goes(c, "dropping", "gone")
  /\ UNCHANGED <<async, rust, loop, captures>>
----------------------------------------------------------------------------
(* The capture thread.                                                     *)

(* The head of slice's loop ends it at the stop flag or the deadline, which *)
(* may have passed at any time, and otherwise goes to read.                *)
LoopStops ==
  /\ thread = "running"
  /\ stop \/ HasTimeout
  /\ thread' = "leaving" /\ outcome' = "ok"
  /\ UNCHANGED <<async, rust, kept, frames, clients, captures>>

LoopReads ==
  /\ thread = "running" /\ ~stop
  /\ thread' = "reading"
  /\ UNCHANGED <<async, rust, outcome, kept, frames, clients, captures>>

(* Nothing was waiting.                                                    *)
ReadNothing ==
  /\ thread = "reading"
  /\ thread' = "running"
  /\ UNCHANGED <<async, rust, outcome, kept, frames, clients, captures>>

(* A frame: past the deadline, filtered out, or counted and shown to prn.  *)
ReadFiltered ==
  /\ thread = "reading" /\ frames < MaxFrames
  /\ frames' = frames + 1
  /\ \/ thread' = "running" /\ UNCHANGED outcome
     \/ HasTimeout /\ thread' = "leaving" /\ outcome' = "ok"
  /\ UNCHANGED <<async, rust, kept, clients, captures>>

(* Mutant: a frame that passes is counted at both looks.                   *)
AcceptTwice == kept + 2
accept == kept + 1

ReadAccepted ==
  /\ thread = "reading" /\ frames < MaxFrames
  /\ frames' = frames + 1
  /\ kept' = accept
  /\ thread' = "prn"
  /\ UNCHANGED <<async, rust, outcome, clients, captures>>

(* The handle fails, or wrap or lfilter raises.                            *)
ReadFails ==
  /\ thread = "reading"
  /\ thread' = "leaving" /\ outcome' = "error"
  /\ UNCHANGED <<async, rust, kept, frames, clients, captures>>

Enough == Count > 0 /\ kept >= Count

(* After prn: the frame is stored and the loop goes on, or ends at `count` *)
(* or by stop_filter.                                                      *)
PrnReturns ==
  /\ thread = "prn"
  /\ \/ thread' = "running" /\ ~Enough /\ UNCHANGED outcome
     \/ thread' = "leaving" /\ outcome' = "ok"
  /\ UNCHANGED <<async, rust, kept, frames, clients, captures>>

(* prn or stop_filter raises: what was captured is lost.                   *)
PrnRaises ==
  /\ thread = "prn"
  /\ thread' = "leaving" /\ outcome' = "error"
  /\ UNCHANGED <<async, rust, kept, frames, clients, captures>>

(* prn calls stop(): the flag is set before the self-join is refused, but  *)
(* while a client waits inside join() the call never gets that far.  prn   *)
(* then raises or swallows what was raised.  The two calls into Rust are   *)
(* one step here: a join() that slipped in between would only change _exc. *)
PrnStops ==
  /\ thread = "prn" /\ started /\ lock = "free"
  /\ stop' = (stop \/ borrow = "free")
  /\ UNCHANGED <<async, borrow, over, taken, results, loop, clients, captures>>

(* Mutant: a thread that leaves with an error does not say so.             *)
SignalsOnSuccess == outcome = "ok"
(* Finally's drop: the signal, on every way out, then the thread's end.    *)
Signals == TRUE

Signal ==
  /\ thread = "leaving"
  /\ thread' = "over"
  /\ over' = Signals
  /\ UNCHANGED <<async, borrow, stop, taken, results, outcome, kept, frames, clients, captures>>

Exit ==
  /\ thread = "over"
  /\ thread' = "exited"
  /\ UNCHANGED <<async, rust, outcome, kept, frames, clients, captures>>

(* prn held the last reference: Drop runs on the capture thread, and waits *)
(* for the signal that thread would have sent.                             *)
PrnDrops ==
  /\ "capture" \in Droppers
  /\ thread = "prn"
  /\ Unreferenced /\ ~taken
  /\ stop' = TRUE /\ taken' = TRUE
  /\ thread' = "stuck"
  /\ UNCHANGED <<async, borrow, over, results, outcome, kept, frames, clients, captures>>

Capture ==
  \/ LoopStops \/ LoopReads
  \/ ReadNothing \/ ReadFiltered \/ ReadAccepted \/ ReadFails
  \/ PrnReturns \/ PrnRaises \/ PrnStops \/ PrnDrops
  \/ Signal \/ Exit
----------------------------------------------------------------------------
Calls(c) ==
  \/ StartEnter(c)
  \/ \E what \in {"join", "timed", "stop", "signal"} : CallEnter(c, what)
  \/ Results(c) \/ ResultsStored(c) \/ ResultsRefused(c)
  \/ Drop(c)

(* What a client does inside a call it has begun.                          *)
Proceeds(c) ==
  \/ StartRefused(c) \/ StartOpen(c) \/ StartPublish(c)
  \/ CallOffline(c) \/ StopJoins(c)
  \/ Check(c) \/ CheckRefused(c)
  \/ LiveCall(c) \/ LiveCallRefused(c)
  \/ WaitOver(c) \/ Reap(c) \/ Except(c)
  \/ Keep(c) \/ Wrap(c) \/ Answer(c)
  \/ Dropped(c)

Next ==
  \/ \E c \in Clients : \/ Calls(c) \/ Proceeds(c)
                        \/ WaitTimedOut(c) \/ WaitInterrupted(c)
  \/ Capture

(* The scheduler runs every thread that can run; prn returns or raises.    *)
Fairness ==
  /\ \A c \in Clients : WF_vars(Proceeds(c))
  /\ WF_vars(stop /\ LoopStops)
  /\ WF_vars(ReadNothing \/ ReadFiltered \/ ReadAccepted \/ ReadFails)
  /\ WF_vars(PrnReturns \/ PrnRaises)
  /\ WF_vars(Signal) /\ WF_vars(Exit)

Spec == Init /\ [][Next]_vars /\ Fairness
----------------------------------------------------------------------------
(* Properties.                                                             *)

TypeOK ==
  /\ lock \in Clients \cup {"free"} /\ borrow \in Clients \cup {"free"}
  /\ started \in BOOLEAN /\ stop \in BOOLEAN /\ over \in BOOLEAN /\ taken \in BOOLEAN
  /\ exc \in {"none", "borrow", "interrupt", "capture"}
  /\ list \in Clients \cup {"none"} /\ results \in Nat \cup {None}
  /\ thread \in {"none", "running", "reading", "prn", "leaving", "over", "exited", "stuck"}
  /\ outcome \in {"none", "ok", "error"}
  /\ kept \in 0 .. frames /\ frames \in 0 .. MaxFrames

(* Two threads that call start() at once cannot both get past its guard:   *)
(* one capture per sniffer, and none orphaned before _live names it.       *)
OneCapture == captures <= 1 /\ (started => captures = 1)

(* No call returns a list, and no Drop ends, with the capture thread still *)
(* running: nothing of it can outlive the interpreter.                     *)
JoinedMeansExited ==
  \A c \in Clients :
    answer[c] = "list" \/ pc[c] = "gone" => thread = "exited"

(* What a capture kept is never lost on the way: the thread that ended     *)
(* well is still there to collect, or its list is, or a call has it in     *)
(* hand; and the list is all it kept, no more than `count` frames.  A join *)
(* that times out or is interrupted must not have taken it.                *)
NothingCapturedLost ==
  /\ outcome = "ok" /\ taken =>
       \/ results # None
       \/ \E c \in Clients : pc[c] \in {"reap", "dropping", "gone"}
  /\ results # None => outcome = "ok" /\ results = kept
  /\ Count > 0 => kept <= Count

(* A capture whose flag is set ends, whatever prn or the wire does, unless *)
(* it waits for itself in Drop.                                            *)
StopStops == stop /\ thread # "none" ~> over \/ thread = "stuck"

(* A call waiting for a capture whose flag is set returns.                 *)
JoinEnds == \A c \in Clients : stop /\ pc[c] = "wait" ~> pc[c] = "idle"

(* stop() returns, whatever it raced.                                      *)
StopReturns ==
  \A c \in Clients : call[c] \in {"stop", "rejoin"} ~> pc[c] = "idle"
=============================================================================
