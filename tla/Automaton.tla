------------------------------ MODULE Automaton ------------------------------
(***************************************************************************)
(* Automaton of python/wiry/automaton.py: a state machine driven by a      *)
(* control thread, and the threads that start, run, step, resume and stop  *)
(* it over two object pipes.                                               *)
(*                                                                         *)
(* Commands go in through cmdin; what the machine has to say (it ended, it *)
(* raised, it stands at a breakpoint, after a single step, or holds a      *)
(* packet back for a verdict) comes out of cmdout.  The control thread     *)
(* holds the lock `started` for as long as it lives: stop() and            *)
(* forcestop() wait for the machine by taking that lock, and then empty    *)
(* both pipes.                                                             *)
(*                                                                         *)
(* The user's machine is a constant: which states there are, where their   *)
(* bodies, immediate conditions, events and timers lead, which may send.   *)
(***************************************************************************)
EXTENDS Integers, Sequences, FiniteSets, ObjectPipe

CONSTANTS
  Clients,      \* the threads that use the machine
  Main,         \* those of them a Ctrl-C reaches
  States, Initial, Final, Error,
  StopState,    \* the state declared with stop=1, or "none"
  Jumps,        \* Jumps[s]: where the body of s may go by itself
  Immediate,    \* Immediate[s]: where the conditions of s lead
  Waits,        \* the states with receive conditions, io events or timers
  Events,       \* Events[s]: where receive conditions and io events lead
  Timed,        \* the states with timers
  Timeouts,     \* Timeouts[s]: where those lead
  Sends,        \* the states that may send a packet when run
  Breakpoints, Interceptions,
  Api,          \* Api[c]: the calls client c makes
  MaxCalls      \* MaxCalls[c], bound: how many

Waiting == {"run", "next"}                    \* run(wait=True)
Background == {"runbg", "accept", "reject"}   \* run(wait=False)
Stopping == {"stop", "forcestop", "restart"}
Calls == Waiting \cup Background \cup Stopping \cup {"start"}

ASSUME MachineAssumption ==
  /\ Initial \in States /\ "none" \notin States
  /\ StopState \in States \cup {"none"}
  /\ Final \subseteq States /\ Error \subseteq States
  /\ Timed \subseteq Waits /\ Waits \subseteq States
  /\ Jumps \in [States -> SUBSET States]
  /\ Immediate \in [States -> SUBSET States]
  /\ Events \in [States -> SUBSET States]
  /\ Timeouts \in [States -> SUBSET States]
ASSUME ClientsAssumption ==
  /\ IsFiniteSet(Clients) /\ Main \subseteq Clients
  /\ Api \in [Clients -> SUBSET Calls] /\ MaxCalls \in [Clients -> Nat]

VARIABLES
  cmdin, cmdout,
  started,      \* who holds the lock
  startExc,     \* _start_exc: the last start failed
  ready,        \* ready[c]: the event the start() of c waits for is set
  ctl,          \* ctl[c]: where the control thread is that c started
  then,         \* where that goes once it has written its message
  state, breakpointed,
  singlestep,   \* a local of _do_control
  gen,          \* where _do_iter's generator was left
  at, call,     \* where each client is, and in which call
  calls

pipes == <<cmdin, cmdout>>
lock == <<started, startExc, ready>>
machine == <<state, breakpointed, singlestep, gen>>
control == <<ctl, then>>
clients == <<at, call, calls>>
vars == <<pipes, lock, machine, control, clients>>

Commands == {"RUN", "NEXT", "FREEZE", "STOP", "FORCESTOP", "ACCEPT", "REJECT"}
Messages == {"END", "EXCEPTION", "SINGLESTEP", "BREAKPOINT", "INTERCEPT"}
Verdicts == {"ACCEPT", "REJECT"}

\* The command each call sends; REPLACE is ACCEPT with another packet.
CommandOf(op) ==
  CASE op \in {"run", "runbg"} -> "RUN"
    [] op = "next" -> "NEXT"
    [] op = "accept" -> "ACCEPT"
    [] op = "reject" -> "REJECT"
    [] op = "freeze" -> "FREEZE"
    [] op \in {"stop", "restart"} -> "STOP"
    [] op = "forcestop" -> "FORCESTOP"

Control(c) == <<"control", c>>
Caller(c) == <<"call", c>>
Free == <<"free">>

\* The constructor's own start() has succeeded.
Init ==
  \E c \in Main :
    /\ cmdin = Empty /\ cmdout = Empty
    /\ started = Control(c) /\ startExc = FALSE
    /\ ready = [d \in Clients |-> FALSE]
    /\ ctl = [d \in Clients |-> IF d = c THEN "cmd" ELSE "gone"]
    /\ then = "cmd"
    /\ state = Initial /\ breakpointed = "none"
    /\ singlestep = TRUE /\ gen = "top"
    /\ at = [d \in Clients |-> "idle"] /\ call = [d \in Clients |-> "start"]
    /\ calls = [d \in Clients |-> 0]

-----------------------------------------------------------------------------
(* _do_control: the thread's own steps.                                    *)

Goes(c, to) == ctl' = [ctl EXCEPT ![c] = to]

\* cmdout.send(message), after which the thread is at `to`.
Report(c, message, to) ==
  /\ cmdout' = Appended(cmdout, message)
  /\ Goes(c, "write") /\ then' = to

ControlLocks(c) ==
  /\ ctl[c] = "lock" /\ started = Free
  /\ started' = Control(c)
  /\ Goes(c, "open")
  /\ UNCHANGED <<pipes, startExc, ready, machine, then, clients>>

ControlOpens(c) ==
  /\ ctl[c] = "open"
  /\ state' = Initial /\ singlestep' = TRUE /\ gen' = "top"
  /\ ready' = [ready EXCEPT ![c] = TRUE]
  /\ Goes(c, "cmd")
  /\ UNCHANGED <<pipes, started, startExc, breakpointed, then, clients>>

\* Mutant: a start that fails does not set the event.
ControlFailsSilently(c) ==
  /\ ctl[c] = "open"
  /\ startExc' = TRUE
  /\ Goes(c, "exit")
  /\ UNCHANGED <<pipes, started, ready, machine, then, clients>>

\* A socket cannot be opened, or parse_args raises.
ControlFails(c) ==
  /\ ctl[c] = "open"
  /\ startExc' = TRUE
  /\ ready' = [ready EXCEPT ![c] = TRUE]
  /\ Goes(c, "exit")
  /\ UNCHANGED <<pipes, started, machine, then, clients>>

\* The second half of cmdout.send.
ControlWrites(c) ==
  /\ ctl[c] = "write"
  /\ cmdout' = Written(cmdout)
  /\ Goes(c, then)
  /\ UNCHANGED <<cmdin, lock, machine, then, clients>>

\* The command loop.  A verdict nobody asked for resumes the machine.
Command(c) ==
  /\ ctl[c] = "cmd" /\ Readable(cmdin)
  /\ cmdin' = Popped(cmdin)
  /\ LET cmd == First(cmdin) IN
     \/ /\ cmd = "FREEZE"
        /\ UNCHANGED <<ctl, state, singlestep, gen>>
     \/ /\ cmd = "FORCESTOP" \/ (cmd = "STOP" /\ StopState = "none")
        /\ Goes(c, "exit")
        /\ UNCHANGED <<state, singlestep, gen>>
     \/ /\ cmd = "STOP" /\ StopState # "none"
        /\ state' = StopState /\ gen' = "top"
        /\ Goes(c, "next")
        /\ UNCHANGED singlestep
     \/ /\ cmd \in {"RUN", "NEXT"} \cup Verdicts
        /\ singlestep' = IF cmd \in Verdicts THEN singlestep ELSE cmd = "NEXT"
        /\ Goes(c, "next")
        /\ UNCHANGED <<state, gen>>
  /\ UNCHANGED <<cmdout, lock, breakpointed, then, clients>>

\* The lock is released as the thread ends.
ControlExits(c) ==
  /\ ctl[c] = "exit"
  /\ started' = Free
  /\ Goes(c, "gone")
  /\ UNCHANGED <<pipes, startExc, ready, machine, then, clients>>

-----------------------------------------------------------------------------
(* _do_iter: what next(iterator) does, and what the inner loop makes of it. *)

\* A transition is taken: the machine is in s, and the step is reported if
\* it is being single-stepped.
NewState(c, s) ==
  /\ state' = s /\ gen' = "top"
  /\ IF singlestep
       THEN Report(c, "SINGLESTEP", "cmd")
       ELSE Goes(c, "next") /\ UNCHANGED <<cmdout, then>>

Raises(c) ==
  /\ Report(c, "EXCEPTION", "exit")
  /\ UNCHANGED <<state, gen>>

\* So does the user's code; a RuntimeError is taken for the end, and what is
\* no Exception (sys.exit) ends the thread without a word.
UserRaises(c) ==
  \/ Raises(c)
  \/ Report(c, "END", "exit") /\ UNCHANGED <<state, gen>>
  \/ Goes(c, "exit") /\ UNCHANGED <<cmdout, then, state, gen>>

AtBreakpoint == gen = "top" /\ state \in Breakpoints /\ state # breakpointed

Break(c) ==
  /\ ctl[c] = "next" /\ AtBreakpoint
  /\ breakpointed' = state /\ gen' = "stay"
  /\ Report(c, "BREAKPOINT", "cmd")
  /\ UNCHANGED <<cmdin, lock, state, singlestep, clients>>

\* state.run(): the user's code, and the packet it may send.  send() holds a
\* packet back at an interception point.
RunState(c) ==
  /\ ctl[c] = "next" /\ gen \in {"top", "stay"} /\ ~AtBreakpoint
  /\ breakpointed' = "none"
  /\ \/ state \in Sends \cap Interceptions /\ Report(c, "INTERCEPT", "verdict")
     \/ Goes(c, "ran") /\ UNCHANGED <<cmdout, then>>
  /\ UNCHANGED <<cmdin, lock, state, singlestep, gen, clients>>

\* The body fails, or asks for another state: it is left before the checks
\* for an error or final state and before the look at cmdin.
RunRaises(c) ==
  /\ ctl[c] = "ran"
  /\ UserRaises(c) \/ \E s \in Jumps[state] : NewState(c, s)
  /\ UNCHANGED <<cmdin, lock, breakpointed, singlestep, clients>>

\* Any command is read as the verdict.
Verdict(c) ==
  /\ ctl[c] = "verdict" /\ Readable(cmdin)
  /\ cmdin' = Popped(cmdin)
  /\ IF First(cmdin) \in Verdicts
       THEN Goes(c, "ran") /\ UNCHANGED <<cmdout, then, state, gen>>
       ELSE Raises(c)
  /\ UNCHANGED <<lock, breakpointed, singlestep, clients>>

\* An error or final state ends the machine.
Ends(c) ==
  /\ ctl[c] = "ran"
  /\ \/ state \in Error /\ Report(c, "EXCEPTION", "exit")
     \/ state \in Final \ Error /\ Report(c, "END", "exit")
  /\ UNCHANGED <<cmdin, lock, machine, clients>>

\* Mutant: the immediate conditions are run without a look at cmdin.
ConditionsAlways(c) ==
  /\ ctl[c] = "ran" /\ state \notin Final \cup Error
  /\ \/ \E s \in Immediate[state] : NewState(c, s)
     \/ Immediate[state] = {} /\ state \in Waits
        /\ Goes(c, "select") /\ UNCHANGED <<cmdout, then, state, gen>>
  /\ UNCHANGED <<cmdin, lock, breakpointed, singlestep, clients>>

\* A pending command outranks the immediate conditions, and with them the
\* check for a state that can never be left.  A condition is taken, or none
\* is and the machine waits or is stuck, or one raises.
Conditions(c) ==
  /\ ctl[c] = "ran" /\ state \notin Final \cup Error
  /\ \/ /\ Readable(cmdin) \/ state \in Waits
        /\ Goes(c, "select") /\ UNCHANGED <<cmdout, then, state, gen>>
     \/ /\ ~Readable(cmdin)
        /\ \E s \in Immediate[state] : NewState(c, s)
     \/ /\ ~Readable(cmdin) /\ state \notin Waits
        /\ Raises(c)
     \/ /\ ~Readable(cmdin) /\ Immediate[state] # {}
        /\ UserRaises(c)
  /\ UNCHANGED <<cmdin, lock, breakpointed, singlestep, clients>>

\* The timers that are due run before the select, a command pending or not.
TimersDue(c) ==
  /\ ctl[c] = "select" /\ state \in Timed
  /\ UserRaises(c) \/ \E s \in Timeouts[state] : NewState(c, s)
  /\ UNCHANGED <<cmdin, lock, breakpointed, singlestep, clients>>

\* select: a readable cmdin comes first, and hands control back to the
\* command loop with the generator left in the wait.
HearCommand(c) ==
  /\ ctl[c] = "select" /\ Readable(cmdin)
  /\ gen' = "select"
  /\ Goes(c, "cmd")
  /\ UNCHANGED <<pipes, lock, state, breakpointed, singlestep, then, clients>>

ResumeWait(c) ==
  /\ ctl[c] = "next" /\ gen = "select"
  /\ Goes(c, "select")
  /\ UNCHANGED <<pipes, lock, machine, then, clients>>

\* A packet, an io event or the end of the socket, also one that was ready
\* together with the command that was heard first: its condition is
\* taken or raises, and the end of the socket raises where no eof condition
\* is declared.
Awake(c) ==
  /\ \/ ctl[c] = "select" /\ ~Readable(cmdin)
     \/ ctl[c] = "next" /\ gen = "select"
  /\ state \in Waits

Event(c) ==
  /\ Awake(c)
  /\ UserRaises(c) \/ \E s \in Events[state] : NewState(c, s)
  /\ UNCHANGED <<cmdin, lock, breakpointed, singlestep, clients>>

ControlStep(c) ==
  \/ ControlLocks(c) \/ ControlOpens(c) \/ ControlFails(c) \/ ControlWrites(c)
  \/ Command(c) \/ ControlExits(c) \/ Break(c) \/ RunState(c) \/ RunRaises(c)
  \/ Verdict(c) \/ Ends(c) \/ Conditions(c) \/ HearCommand(c) \/ ResumeWait(c)

-----------------------------------------------------------------------------
(* The calls.                                                              *)

Moves(c, to) == at' = [at EXCEPT ![c] = to]

Call(c, op) ==
  /\ at[c] = "idle" /\ calls[c] < MaxCalls[c]
  /\ call' = [call EXCEPT ![c] = op]
  /\ calls' = [calls EXCEPT ![c] = @ + 1]
  /\ IF op = "start"
       THEN Moves(c, "check") /\ UNCHANGED cmdin
       ELSE Moves(c, "write") /\ cmdin' = Appended(cmdin, CommandOf(op))
  /\ UNCHANGED <<cmdout, lock, machine, control>>

\* The second half of cmdin.send, and what the call does after it.
Writes(c) ==
  /\ at[c] = "write"
  /\ cmdin' = Written(cmdin)
  /\ Moves(c, CASE call[c] \in Waiting -> "answer"
                [] call[c] \in Stopping -> "lock"
                [] OTHER -> "idle")
  /\ UNCHANGED <<cmdout, lock, machine, control, call, calls>>

\* run() has its message, and returns or raises accordingly.
Answered(c) ==
  /\ at[c] = "answer" /\ Readable(cmdout)
  /\ cmdout' = Popped(cmdout)
  /\ Moves(c, "idle")
  /\ UNCHANGED <<cmdin, lock, machine, control, call, calls>>

\* Ctrl-C in run()'s wait: the machine is frozen.
Interrupted(c) ==
  /\ c \in Main /\ at[c] = "answer"
  /\ cmdin' = Appended(cmdin, CommandOf("freeze"))
  /\ call' = [call EXCEPT ![c] = "freeze"]
  /\ Moves(c, "write")
  /\ UNCHANGED <<cmdout, lock, machine, control, calls>>

\* stop() and forcestop(): the lock, then clear() on either pipe, which
\* looks whether it is empty and then reads.
Locks(c) ==
  /\ at[c] = "lock" /\ started = Free
  /\ started' = Caller(c)
  /\ Moves(c, "flushin")
  /\ UNCHANGED <<pipes, startExc, ready, machine, control, call, calls>>

\* Mutant: clear() pops until it is told there is nothing left.
FlushInBlindly(c) ==
  /\ at[c] = "flushin"
  /\ Moves(c, "popin")
  /\ UNCHANGED <<pipes, lock, machine, control, call, calls>>

FlushIn(c) ==
  /\ at[c] = "flushin"
  /\ Moves(c, IF IsEmpty(cmdin) THEN "flushout" ELSE "popin")
  /\ UNCHANGED <<pipes, lock, machine, control, call, calls>>

PopIn(c) ==
  /\ at[c] = "popin" /\ Readable(cmdin)
  /\ cmdin' = Popped(cmdin)
  /\ Moves(c, "flushin")
  /\ UNCHANGED <<cmdout, lock, machine, control, call, calls>>

FlushOut(c) ==
  /\ at[c] = "flushout" /\ ~IsEmpty(cmdout)
  /\ Moves(c, "popout")
  /\ UNCHANGED <<pipes, lock, machine, control, call, calls>>

PopOut(c) ==
  /\ at[c] = "popout" /\ Readable(cmdout)
  /\ cmdout' = Popped(cmdout)
  /\ Moves(c, "flushout")
  /\ UNCHANGED <<cmdin, lock, machine, control, call, calls>>

Unlocks(c) ==
  /\ at[c] = "flushout" /\ IsEmpty(cmdout)
  /\ started' = Free
  /\ Moves(c, IF call[c] = "restart" THEN "check" ELSE "idle")
  /\ UNCHANGED <<pipes, startExc, ready, machine, control, call, calls>>

\* start(): isrunning() is asked before the thread is made.
Checks(c) ==
  /\ at[c] = "check"
  /\ Moves(c, IF started = Free THEN "spawn" ELSE "idle")
  /\ UNCHANGED <<pipes, lock, machine, control, call, calls>>

Spawns(c) ==
  /\ at[c] = "spawn"
  /\ startExc' = FALSE
  /\ ready' = [ready EXCEPT ![c] = FALSE]
  /\ Goes(c, "lock")
  /\ Moves(c, "ready")
  /\ UNCHANGED <<pipes, started, machine, then, call, calls>>

Started(c) ==
  /\ at[c] = "ready" /\ ready[c]
  /\ Moves(c, "idle")
  /\ UNCHANGED <<pipes, lock, machine, control, call, calls>>

CallStep(c) ==
  \/ Writes(c) \/ Answered(c) \/ Locks(c) \/ FlushIn(c) \/ PopIn(c)
  \/ FlushOut(c) \/ PopOut(c) \/ Unlocks(c) \/ Checks(c) \/ Spawns(c)
  \/ Started(c)

Next ==
  \E c \in Clients :
    \/ ControlStep(c) \/ TimersDue(c) \/ Event(c)
    \/ CallStep(c) \/ Interrupted(c) \/ \E op \in Api[c] : Call(c, op)

Spec == Init /\ [][Next]_vars

\* Every thread is scheduled and the user's code returns; nothing is assumed
\* of events and timers, of which calls are made or of the user at the keyboard.
FairSpec ==
  Spec /\ \A c \in Clients : WF_vars(ControlStep(c)) /\ WF_vars(CallStep(c))

-----------------------------------------------------------------------------

Holders ==
  {Free} \cup {Control(c) : c \in Clients} \cup {Caller(c) : c \in Clients}
ControlPlaces ==
  {"gone", "lock", "open", "cmd", "next", "write", "ran", "verdict", "select", "exit"}
CallPlaces ==
  {"idle", "write", "answer", "lock", "flushin", "popin", "flushout", "popout",
   "check", "spawn", "ready"}

TypeOK ==
  /\ cmdin \in [queue : Seq(Commands), bytes : Nat]
  /\ cmdout \in [queue : Seq(Messages), bytes : Nat]
  /\ started \in Holders /\ startExc \in BOOLEAN /\ ready \in [Clients -> BOOLEAN]
  /\ ctl \in [Clients -> ControlPlaces] /\ then \in {"cmd", "verdict", "exit"}
  /\ state \in States /\ breakpointed \in States \cup {"none"}
  /\ singlestep \in BOOLEAN /\ gen \in {"top", "stay", "select"}
  /\ at \in [Clients -> CallPlaces] /\ call \in [Clients -> Calls \cup {"freeze"}]
  /\ calls \in [Clients -> Nat]

\* Whoever reads a byte finds the object it stands for: the deque is never
\* popped empty, with any number of threads between the halves of a send.
EveryByteHasItsObject ==
  /\ cmdin.bytes <= Len(cmdin.queue)
  /\ cmdout.bytes <= Len(cmdout.queue)

Alive(c) == ctl[c] \notin {"gone", "lock"}

ForceStopPending == \E k \in DOMAIN cmdin.queue : cmdin.queue[k] = "FORCESTOP"

\* The machine leaves a state by its body or by a due timer, and passes over a
\* command that could be read.
PassesOver ==
  \E c \in Clients : Readable(cmdin) /\ (RunRaises(c) \/ TimersDue(c))

\* A machine hears forcestop(), whatever it is doing: going round in immediate
\* conditions, waiting, single-stepped, at a breakpoint or holding a packet
\* back, it comes to its end, unless bodies and due timers pass the command
\* over for ever.
ForceStopEnds ==
  <>[][~PassesOver]_vars =>
    (ForceStopPending ~> ~(\E c \in Clients : Alive(c)))

\* Under the same condition a forcestop() whose command was not read returns,
\* whatever is in either pipe, if from then on no other thread is inside a
\* call.
ForceStopReturns ==
  <>[][~PassesOver]_vars =>
    \A c \in Clients :
      (/\ at[c] \in {"write", "lock"} /\ call[c] = "forcestop" /\ ForceStopPending
       /\ [](\A d \in Clients \ {c} : at[d] = "idle"))
        ~> at[c] = "idle"

\* A start() whose control thread has got its turn returns, also when a
\* socket fails to open.
StartReturns ==
  \A c \in Clients :
    (at[c] = "ready" /\ ctl[c] # "lock") ~> at[c] # "ready"
==============================================================================
