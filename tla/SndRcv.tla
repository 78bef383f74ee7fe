------------------------------- MODULE SndRcv -------------------------------
(***************************************************************************)
(* SndRcvHandler of python/wiry/sendrecv.py: send packets on one socket,   *)
(* pair what the receiving sockets deliver with the packets still waiting, *)
(* and resend what was not answered.                                       *)
(*                                                                         *)
(* Two threads share hsent, the counters and the breakout event.  The      *)
(* sender records a packet under the lock, sends it, and at the end        *)
(* publishes how many it sent; the caller's thread runs the receive loop   *)
(* of capture.py's _sniff_sockets with _process_packet as its prn.  An     *)
(* unthreaded exchange runs the same sender code on the caller's thread    *)
(* before the loop.  A flood sends the packets over and over instead.      *)
(*                                                                         *)
(* A packet and a reply are model values; which replies answer which       *)
(* packets is the constant Answers, the verdict of the reply matcher.      *)
(***************************************************************************)
EXTENDS Integers, Sequences, SequencesExt, FiniteSets

CONSTANTS
  Packets,      \* the packets of the call, in no particular order
  Order,        \* the sequence they are given in
  Link,         \* the link layer each packet starts at
  Replies,      \* what can arrive
  Answers,      \* Answers[r]: the packets r is an answer to
  Socks,        \* the sockets of rcv_pks
  Options,      \* the calls explored: records of keyword arguments
  FloodPasses,  \* _FLOOD_PASSES, the passes of one send_many
  MaxReplies    \* bound: replies that arrive during the whole call

ASSUME PacketsAssumption ==
  /\ Packets # {} /\ IsFiniteSet(Packets)
  /\ Order \in Seq(Packets) /\ Len(Order) = Cardinality(Packets)
  /\ \A p \in Packets : \E k \in DOMAIN Order : Order[k] = p
ASSUME RepliesAssumption ==
  /\ Answers \in [Replies -> SUBSET Packets]
  /\ DOMAIN Link = Packets
  /\ MaxReplies \in Nat
ASSUME OptionsAssumption ==
  /\ FloodPasses \in Nat \ {0}
  /\ Options \subseteq
       [retry : Int, multi : BOOLEAN, first : BOOLEAN, threaded : BOOLEAN,
        timeout : BOOLEAN, chainCC : BOOLEAN, chainEX : BOOLEAN,
        stop_filter : BOOLEAN, strict : BOOLEAN,
        flood : {"no", "each", "bulk"}, maxretries : Nat]
  /\ \A o \in Options : o.flood # "no" => o.threaded /\ o.retry = 0

VARIABLES
  opt,        \* the arguments of this call
  pc,         \* where the caller's thread is
  spc,        \* where the sending code is
  tobesent,   \* what this round sends; after the last round, what is unanswered
  si,         \* the position in tobesent the sender is at
  sentn,      \* the sender's i: packets sent, or the passes a flood made
  hsent,      \* the packets recorded in this round and still in the list
  notans, noans, sendDone, breakout, stopevent,
  retry,      \* rounds left
  ans,        \* ans[p]: pairs collected for p over all rounds
  queue,      \* what each socket has to deliver
  ended,      \* the sockets that have come to their end, or failed
  live, todo, \* the loop's open sockets, and the ready ones still to be read
  late,       \* the receive loop's deadline has passed
  arrived,    \* replies that arrived so far
  interrupted,\* the user pressed Ctrl-C
  failed,     \* a send of this round raised
  skipped     \* history: packets a round was given and never recorded

roundVars == <<hsent, notans, noans, sendDone, breakout, stopevent>>
senderVars == <<spc, si, sentn, failed>>
netVars == <<queue, ended, arrived>>
loopVars == <<live, todo, late>>
callVars == <<opt, tobesent, retry, ans, skipped>>
vars == <<roundVars, senderVars, netVars, loopVars, callVars, pc, interrupted>>

Receiving == {"poll", "scan", "settle"}
Flooding == opt.flood # "no"

\* _run_round: a thread of its own sends, or the caller does before it reads.
Background == opt.threaded \/ Flooding

\* Only these two keep a packet in hsent once it is answered.
Keeps == opt.multi \/ Flooding

autostop == IF opt.retry < 0 THEN -opt.retry ELSE 0

Init ==
  /\ opt \in Options
  /\ pc = "round" /\ spc = "done"
  /\ tobesent = Order /\ si = 1 /\ sentn = 0
  /\ hsent = <<>> /\ notans = 0 /\ noans = 0
  /\ sendDone = FALSE /\ breakout = FALSE /\ stopevent = FALSE
  /\ retry = IF opt.retry < 0 THEN -opt.retry ELSE opt.retry
  /\ ans = [p \in Packets |-> 0]
  /\ queue = [s \in Socks |-> <<>>] /\ ended = {} /\ arrived = 0
  /\ live = Socks /\ todo = {} /\ late = FALSE
  /\ interrupted = FALSE /\ failed = FALSE /\ skipped = {}

-----------------------------------------------------------------------------
(* When a round is over by itself.  _settled reads the sender's two results *)
(* without the lock: sendDone first, then notans.                          *)

Settled ==
  \/ sendDone /\ noans >= notans /\ ~opt.multi
  \/ opt.first /\ noans > 0

-----------------------------------------------------------------------------
(* The sender: _sndrcv_snd, with _flood_each and _flood_bulk.              *)

Recorded(p) == Append(hsent, [pkt |-> p, answered |-> FALSE])

\* A flood's packets stay in hsent, so its length says which are recorded.
NeedsRecord == Flooding => Len(hsent) < si

AtRecord ==
  /\ spc = "next" /\ si <= Len(tobesent)
  /\ opt.flood = "each" => ~stopevent
  /\ NeedsRecord

\* _record: under the lock the receiver matches with.
Record ==
  /\ AtRecord
  /\ hsent' = Recorded(tobesent[si])
  /\ IF opt.flood = "bulk"
       THEN si' = si + 1 /\ spc' = spc
       ELSE spc' = "send" /\ si' = si
  /\ UNCHANGED <<notans, noans, sendDone, breakout, stopevent, sentn, failed,
                 netVars, loopVars, callVars, pc, interrupted>>

\* A later pass of _flood_each sends the packet it recorded in the first.
SendAgain ==
  /\ spc = "next" /\ si <= Len(tobesent)
  /\ opt.flood = "each" /\ ~stopevent /\ ~NeedsRecord
  /\ spc' = "send"
  /\ UNCHANGED <<roundVars, si, sentn, failed, netVars, loopVars, callVars,
                 pc, interrupted>>

\* One send, the sleep after it, and the look at breakout.
Send ==
  /\ spc = "send"
  /\ sentn' = IF Flooding THEN sentn ELSE sentn + 1
  /\ IF breakout THEN spc' = "fin" /\ si' = si
                 ELSE spc' = "next" /\ si' = si + 1
  /\ UNCHANGED <<roundVars, failed, netVars, loopVars, callVars, pc,
                 interrupted>>

\* The iterator ends: the list is exhausted, the flood was stopped or has
\* made its passes; otherwise a flood goes round once more.
PassesLeft == opt.maxretries = 0 \/ sentn + 1 < opt.maxretries

Exhausted ==
  /\ spc = "next"
  /\ \/ opt.flood = "no" /\ si > Len(tobesent) /\ spc' = "fin"
        /\ UNCHANGED <<si, sentn>>
     \/ opt.flood = "each" /\ si <= Len(tobesent) /\ stopevent /\ spc' = "fin"
        /\ UNCHANGED <<si, sentn>>
     \/ /\ opt.flood = "each" /\ si > Len(tobesent)
        /\ sentn' = IF opt.maxretries = 0 THEN sentn ELSE sentn + 1
        /\ si' = 1
        /\ spc' = IF PassesLeft THEN "next" ELSE "fin"
     \/ opt.flood = "bulk" /\ si > Len(tobesent) /\ spc' = "batch"
        /\ UNCHANGED <<si, sentn>>
  /\ UNCHANGED <<roundVars, failed, netVars, loopVars, callVars, pc,
                 interrupted>>

\* _flood_bulk's loop: a batch of passes per crossing.
Batch ==
  /\ spc = "batch"
  /\ IF stopevent \/ breakout \/ (opt.maxretries > 0 /\ sentn >= opt.maxretries)
       THEN spc' = "fin" /\ sentn' = sentn
       ELSE /\ spc' = spc
            /\ sentn' =
                 IF opt.maxretries = 0 THEN sentn
                 ELSE IF opt.maxretries - sentn < FloodPasses
                        THEN opt.maxretries ELSE sentn + FloodPasses
  /\ UNCHANGED <<roundVars, si, failed, netVars, loopVars, callVars, pc,
                 interrupted>>

\* send or send_many raises, or _record before it has appended the packet:
\* the emission ends there.
SendFails ==
  /\ spc \in {"send", "batch"} \/ AtRecord
  /\ failed' = TRUE /\ spc' = "fin"
  /\ UNCHANGED <<roundVars, si, sentn, netVars, loopVars, callVars, pc,
                 interrupted>>

\* Mutant: the index of the last packet for the number of packets.
CountSentIndex ==
  /\ spc = "fin" /\ spc' = "fin2"
  /\ notans' = IF Flooding THEN Len(hsent) ELSE IF sentn = 0 THEN 0 ELSE sentn - 1
  /\ UNCHANGED <<hsent, noans, sendDone, breakout, stopevent, si, sentn,
                 failed, netVars, loopVars, callVars, pc, interrupted>>

\* The finally clause stores notans, then _send_done.
CountSent ==
  /\ spc = "fin" /\ spc' = "fin2"
  /\ notans' = IF Flooding THEN Len(hsent) ELSE sentn
  /\ UNCHANGED <<hsent, noans, sendDone, breakout, stopevent, si, sentn,
                 failed, netVars, loopVars, callVars, pc, interrupted>>

\* With chainEX the error leaves the thread here, past all that follows.
PublishDone ==
  /\ spc = "fin2"
  /\ sendDone' = TRUE
  /\ spc' = IF failed /\ opt.chainEX THEN "done" ELSE "settle"
  /\ UNCHANGED <<hsent, notans, noans, breakout, stopevent, si, sentn, failed,
                 netVars, loopVars, callVars, pc, interrupted>>

\* Mutant: only the receiver looks whether everything is answered.
SenderSettlesLast ==
  /\ spc = "settle"
  /\ spc' = IF opt.threaded /\ opt.timeout /\ ~breakout THEN "wait" ELSE "done"
  /\ UNCHANGED <<roundVars, si, sentn, failed, netVars, loopVars, callVars, pc,
                 interrupted>>

\* _stop_if_done on the sender's side, and the decision to wait for answers.
SenderSettles ==
  /\ spc = "settle"
  /\ breakout' = (breakout \/ Settled)
  /\ spc' = IF opt.threaded /\ opt.timeout /\ ~breakout' THEN "wait" ELSE "done"
  /\ UNCHANGED <<hsent, notans, noans, sendDone, stopevent, si, sentn, failed,
                 netVars, loopVars, callVars, pc, interrupted>>

\* Mutant: the sender's wait ends without telling the receiver.
SenderWaitsOnly ==
  /\ spc = "wait" /\ spc' = "done"
  /\ UNCHANGED <<roundVars, si, sentn, failed, netVars, loopVars, callVars, pc,
                 interrupted>>

\* breakout.wait(timeout) returns, because it was set or because time is up.
SenderWaits ==
  /\ spc = "wait" /\ spc' = "done"
  /\ breakout' = TRUE
  /\ UNCHANGED <<hsent, notans, noans, sendDone, stopevent, si, sentn, failed,
                 netVars, loopVars, callVars, pc, interrupted>>

Sender ==
  \/ Record \/ SendAgain \/ Send \/ Exhausted \/ Batch \/ SendFails
  \/ CountSent \/ PublishDone \/ SenderSettles \/ SenderWaits

-----------------------------------------------------------------------------
(* The caller: the loop over rounds and the receive loop.                  *)

StartRound ==
  /\ pc = "round"
  /\ hsent' = <<>> /\ notans' = 0 /\ noans' = 0
  /\ sendDone' = FALSE /\ breakout' = FALSE
  /\ spc' = "next" /\ si' = 1 /\ sentn' = 0 /\ failed' = FALSE
  /\ live' = Socks /\ todo' = {} /\ late' = FALSE
  /\ pc' = IF Background THEN "poll" ELSE "sending"
  /\ UNCHANGED <<stopevent, netVars, callVars, interrupted>>

\* Unthreaded: _sndrcv_snd has returned into _sniff_sockets, or its error
\* goes through to the caller.
AllSent ==
  /\ pc = "sending" /\ spc = "done"
  /\ pc' = IF failed /\ opt.chainEX THEN "raised" ELSE "poll"
  /\ UNCHANGED <<roundVars, senderVars, netVars, loopVars, callVars,
                 interrupted>>

\* Ctrl-C while the caller itself is sending: the finally clause still runs.
InterruptSending ==
  /\ pc = "sending" /\ spc \in {"next", "send"} /\ ~interrupted
  /\ interrupted' = TRUE
  /\ notans' = sentn /\ sendDone' = TRUE /\ spc' = "done"
  /\ pc' = IF opt.chainCC THEN "raised" ELSE "tally"
  /\ UNCHANGED <<hsent, noans, breakout, stopevent, si, sentn, failed, netVars,
                 loopVars, callVars>>

Ready(s) == queue[s] # <<>> \/ s \in ended

\* The top of _sniff_sockets' loop.  The deadline is the loop's only where
\* the sender does not keep the time itself.
Poll ==
  /\ pc = "poll"
  /\ \/ /\ live = {} \/ breakout \/ late
        /\ pc' = "close" /\ todo' = todo
     \/ /\ live # {} /\ ~breakout /\ ~late
        /\ \E s \in live : Ready(s)
        /\ todo' = {s \in live : Ready(s)}
        /\ pc' = "scan"
  /\ UNCHANGED <<roundVars, senderVars, netVars, live, late, callVars,
                 interrupted>>

\* _match: the waiting packets in groups by link, the groups in the order
\* their first packet has in hsent; the first packet of the first group that
\* r answers.
Waiting == {k \in DOMAIN hsent : Keeps \/ ~hsent[k].answered}
GroupOf(k) ==
  CHOOSE j \in Waiting :
    /\ Link[hsent[j].pkt] = Link[hsent[k].pkt]
    /\ \A i \in Waiting : Link[hsent[i].pkt] = Link[hsent[k].pkt] => j <= i
Hits(r) == {k \in Waiting : hsent[k].pkt \in Answers[r]}
Match(r) ==
  CHOOSE k \in Hits(r) : \A j \in Hits(r) :
    GroupOf(k) < GroupOf(j) \/ (GroupOf(k) = GroupOf(j) /\ k <= j)

\* The part of _process_packet under the lock.
Pair(r) ==
  IF Hits(r) = {}
    THEN UNCHANGED <<hsent, noans, ans>>
    ELSE LET k == Match(r) IN
         /\ ans' = [ans EXCEPT ![hsent[k].pkt] = @ + 1]
         /\ noans' = IF hsent[k].answered THEN noans ELSE noans + 1
         /\ hsent' = IF Keeps THEN [hsent EXCEPT ![k].answered = TRUE]
                              ELSE RemoveAt(hsent, k)

Receive(s) ==
  /\ pc = "scan" /\ s \in todo /\ queue[s] # <<>>
  /\ Pair(Head(queue[s]))
  /\ queue' = [queue EXCEPT ![s] = Tail(@)]
  /\ todo' = todo \ {s}
  /\ pc' = "settle"
  /\ UNCHANGED <<notans, sendDone, breakout, stopevent, senderVars, ended,
                 arrived, live, late, opt, tobesent, retry, skipped,
                 interrupted>>

\* recv gave None, or the session kept the packet to itself.
ReceiveNothing(s) ==
  /\ pc = "scan" /\ s \in todo /\ queue[s] # <<>>
  /\ queue' = [queue EXCEPT ![s] = Tail(@)]
  /\ todo' = todo \ {s}
  /\ UNCHANGED <<roundVars, senderVars, ended, arrived, live, late, callVars,
                 pc, interrupted>>

\* EOFError or another failure: the socket is closed and dropped.
SocketEnds(s) ==
  /\ pc = "scan" /\ s \in todo /\ queue[s] = <<>>
  /\ live' = live \ {s} /\ todo' = todo \ {s}
  /\ UNCHANGED <<roundVars, senderVars, netVars, late, callVars, pc,
                 interrupted>>

\* conf.debug_dissector >= 2: the failure is raised through the whole call,
\* past the lines that stop the sender.
SocketRaises(s) ==
  /\ pc = "scan" /\ s \in todo /\ queue[s] = <<>> /\ opt.strict
  /\ pc' = "raised"
  /\ UNCHANGED <<roundVars, senderVars, netVars, loopVars, callVars,
                 interrupted>>

\* The end of _process_packet, and the user's stop_filter after it.
ReceiverSettles ==
  /\ pc = "settle"
  /\ breakout' = (breakout \/ Settled)
  /\ \/ pc' = "scan"
     \/ opt.stop_filter /\ pc' = "close"
  /\ UNCHANGED <<hsent, notans, noans, sendDone, stopevent, senderVars,
                 netVars, loopVars, callVars, interrupted>>

EndScan ==
  /\ pc = "scan" /\ todo = {}
  /\ pc' = "poll"
  /\ UNCHANGED <<roundVars, senderVars, netVars, loopVars, callVars,
                 interrupted>>

\* _sniff_sockets swallows Ctrl-C and returns.
Interrupt ==
  /\ pc \in Receiving /\ ~interrupted
  /\ interrupted' = TRUE
  /\ pc' = "close"
  /\ UNCHANGED <<roundVars, senderVars, netVars, loopVars, callVars>>

\* After the loop: the sender is told to stop, and waited for.
StopSender ==
  /\ pc = "close"
  /\ breakout' = (breakout \/ Background)
  /\ stopevent' = (stopevent \/ Flooding)
  /\ pc' = IF Background THEN "join" ELSE "tally"
  /\ UNCHANGED <<hsent, notans, noans, sendDone, senderVars, netVars, loopVars,
                 callVars, interrupted>>

JoinSender ==
  /\ pc = "join" /\ spc = "done"
  /\ pc' = "tally"
  /\ UNCHANGED <<roundVars, senderVars, netVars, loopVars, callVars,
                 interrupted>>

\* Mutants: what is answered is kept; everything is sent again.
RemainUnfiltered == [k \in DOMAIN hsent |-> hsent[k].pkt]
RemainWhole == tobesent

\* The positions of a set of them, in order.
InOrder(S) ==
  CHOOSE f \in [1 .. Cardinality(S) -> S] :
    \A i, j \in DOMAIN f : i < j => f[i] < f[j]

\* remain, and the rounds it is still worth.
Left == {k \in DOMAIN hsent : Keeps => ~hsent[k].answered}
Remain == [n \in 1 .. Cardinality(Left) |-> hsent[InOrder(Left)[n]].pkt]

RetryAfter(remain) ==
  IF autostop > 0 /\ remain # <<>> /\ Len(remain) # Len(tobesent)
    THEN autostop ELSE retry

NeverRecorded ==
  {tobesent[k] : k \in DOMAIN tobesent}
    \ ({hsent[k].pkt : k \in DOMAIN hsent} \cup {p \in Packets : ans[p] > 0})

Tally ==
  /\ pc = "tally"
  /\ tobesent' = Remain
  /\ skipped' = skipped \cup NeverRecorded
  /\ IF Remain = <<>> \/ Flooding
       THEN pc' = "returned" /\ retry' = RetryAfter(Remain)
       ELSE /\ retry' = RetryAfter(Remain) - 1
            /\ pc' = IF retry' >= 0 THEN "round" ELSE "returned"
  /\ UNCHANGED <<roundVars, senderVars, netVars, loopVars, opt, ans,
                 interrupted>>

Caller ==
  \/ StartRound \/ AllSent \/ Poll \/ ReceiverSettles \/ EndScan
  \/ StopSender \/ JoinSender \/ Tally
  \/ \E s \in Socks : Receive(s) \/ ReceiveNothing(s) \/ SocketEnds(s)
                      \/ SocketRaises(s)

-----------------------------------------------------------------------------
(* The world outside.                                                      *)

\* A reply arrives on a socket: any reply, asked for or not, early or late.
Arrive(s, r) ==
  /\ s \notin ended /\ arrived < MaxReplies /\ pc \notin {"returned", "raised"}
  /\ queue' = [queue EXCEPT ![s] = Append(@, r)]
  /\ arrived' = arrived + 1
  /\ UNCHANGED <<roundVars, senderVars, ended, loopVars, callVars, pc,
                 interrupted>>

End(s) ==
  /\ s \notin ended /\ pc \notin {"returned", "raised"}
  /\ ended' = ended \cup {s}
  /\ UNCHANGED <<roundVars, senderVars, queue, arrived, loopVars, callVars, pc,
                 interrupted>>

\* The loop's own deadline passes.  It is counted from before the callback,
\* so an unthreaded send may use all of it up.
Deadline ==
  /\ opt.timeout /\ (~opt.threaded \/ Flooding)
  /\ pc \in Receiving \cup {"sending"} /\ ~late
  /\ late' = TRUE
  /\ UNCHANGED <<roundVars, senderVars, netVars, live, todo, callVars, pc,
                 interrupted>>

Over == pc \in {"returned", "raised"} /\ spc = "done"

Next ==
  \/ Sender \/ Caller \/ InterruptSending \/ Interrupt \/ Deadline
  \/ \E s \in Socks : End(s) \/ \E r \in Replies : Arrive(s, r)
  \/ Over /\ UNCHANGED vars

Spec == Init /\ [][Next]_vars

\* Both threads are scheduled and time passes; nothing is assumed of the
\* network or of the user.
FairSpec == Spec /\ WF_vars(Sender) /\ WF_vars(Caller) /\ WF_vars(Deadline)

-----------------------------------------------------------------------------
(* What the exchange promises.                                             *)

\* A retry sends again only what nothing has answered: a packet that this
\* round has still to record was never paired, in this round or before, not
\* even by an answer that came too late for the round it answers.
ResendsOnlyUnanswered ==
  opt.flood = "no" /\ pc \notin {"returned", "raised"} =>
    \A k \in DOMAIN tobesent :
      pc = "round" \/ k > si \/ (k = si /\ spc = "next") => ans[tobesent[k]] = 0

\* The two results divide the packets: what is reported unanswered has no
\* answer, is reported once, no packet collects a second answer unless it is
\* kept for more, and what is in neither list is a packet that some round
\* stopped before it was recorded.
ResultsPartition ==
  pc = "returned" =>
    /\ \A k \in DOMAIN tobesent : ans[tobesent[k]] = 0
    /\ IsInjective(tobesent)
    /\ Keeps \/ \A p \in Packets : ans[p] <= 1
    /\ \A p \in Packets :
         ans[p] > 0 \/ p \in skipped \/ \E k \in DOMAIN tobesent : tobesent[k] = p

\* The counters stop a round early only when every packet it sent has its
\* answer, whichever thread finds out, unless a send failed.
SettledMeansAnswered ==
  sendDone /\ noans >= notans /\ ~opt.multi /\ ~failed /\ ~interrupted =>
    \A k \in DOMAIN hsent : hsent[k].answered

\* A call with a timeout returns, whatever arrives or does not, however
\* often it retries, and even if a send fails; except with chainEX, where a
\* failed send ends the thread that keeps the time.
TimeoutReturns ==
  (opt.timeout /\ ~opt.chainEX) ~> pc \in {"returned", "raised"}

\* A round in which everything sent is answered ends without any timer:
\* one of the two threads sees that the counts agree.
AnsweredRoundEnds ==
  (/\ pc \in Receiving /\ sendDone /\ hsent = <<>>
   /\ ~opt.multi /\ ~Flooding /\ ~failed)
    ~> pc \notin Receiving
=============================================================================
