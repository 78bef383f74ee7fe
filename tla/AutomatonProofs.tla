-------------------------- MODULE AutomatonProofs --------------------------
(***************************************************************************)
(* Proofs about Automaton, for any number of threads, any machine and any  *)
(* calls: the types of its state, and that a byte in either pipe always    *)
(* has its object.                                                         *)
(*                                                                         *)
(* Neither holds by itself.  A pipe is popped because a byte is there; for *)
(* the pop to find an object, objects and bytes must be counted together   *)
(* with the threads that are between the two halves of a send.             *)
(*                                                                         *)
(* The timers of the same file, AtmtTimers, come last.                     *)
(***************************************************************************)
EXTENDS Automaton, AtmtTimers, FiniteSetTheorems, WellFoundedInduction, TLAPS

Pipe(S) == [queue : Seq(S), bytes : Nat]

(* The threads between the two halves of a send.                           *)
Writing(place) == {c \in Clients : place[c] = "write"}

(* An object for each byte and for each send under way.                    *)
Balanced(pipe, place) == Len(pipe.queue) = pipe.bytes + Cardinality(Writing(place))

(* The types of everything but the pipes.                                  *)
LockOK == started \in Holders /\ startExc \in BOOLEAN /\ ready \in [Clients -> BOOLEAN]
ControlOK == ctl \in [Clients -> ControlPlaces] /\ then \in {"cmd", "verdict", "exit"}
MachineOK ==
  /\ state \in States /\ breakpointed \in States \cup {"none"}
  /\ singlestep \in BOOLEAN /\ gen \in {"top", "stay", "select"}
ClientsOK ==
  /\ at \in [Clients -> CallPlaces] /\ call \in [Clients -> Calls \cup {"freeze"}]
  /\ calls \in [Clients -> Nat]

InOK == cmdin \in Pipe(Commands) /\ Balanced(cmdin, at)
OutOK == cmdout \in Pipe(Messages) /\ Balanced(cmdout, ctl)

(* Who holds the lock, and why a client's slot for a control thread is     *)
(* free when it spawns one.                                                *)
Flushing == {"flushin", "popin", "flushout", "popout"}
Exclusive ==
  \A d \in Clients :
    /\ Alive(d) => started = Control(d)
    /\ at[d] \in Flushing => started = Caller(d)
    /\ ctl[d] = "lock" => at[d] = "ready" /\ ~ready[d]
    /\ at[d] = "spawn" => ctl[d] = "gone"

(* The inductive invariant.                                                *)
Typed == LockOK /\ ControlOK /\ MachineOK /\ ClientsOK /\ InOK /\ OutOK
IInv == Typed /\ Exclusive
----------------------------------------------------------------------------
(* What the pipe's operators do to a pipe and its account.                 *)

(* The first half of a send adds an object, and no byte.                   *)
LEMMA SendAppends ==
  ASSUME NEW S, NEW pipe \in Pipe(S), NEW obj \in S
  PROVE  /\ Appended(pipe, obj) \in Pipe(S)
         /\ Len(Appended(pipe, obj).queue) = Len(pipe.queue) + 1
         /\ Appended(pipe, obj).bytes = pipe.bytes
BY DEF Appended, Pipe

(* The second half adds a byte, and no object.                             *)
LEMMA SendWrites ==
  ASSUME NEW S, NEW pipe \in Pipe(S)
  PROVE  /\ Written(pipe) \in Pipe(S)
         /\ Written(pipe).queue = pipe.queue
         /\ Written(pipe).bytes = pipe.bytes + 1
BY DEF Written, Pipe

(* A recv that has a byte takes one object with it.                        *)
LEMMA RecvPops ==
  ASSUME NEW S, NEW pipe \in Pipe(S), Readable(pipe), pipe.bytes <= Len(pipe.queue)
  PROVE  /\ First(pipe) \in S
         /\ Popped(pipe) \in Pipe(S)
         /\ Len(Popped(pipe).queue) = Len(pipe.queue) - 1
         /\ Popped(pipe).bytes = pipe.bytes - 1
<1>1. pipe.queue \in Seq(S) /\ pipe.queue # <<>> /\ pipe.bytes \in Nat /\ pipe.bytes > 0
  BY DEF Readable, Pipe
<1>2. Head(pipe.queue) \in S /\ Tail(pipe.queue) \in Seq(S)
      /\ Len(Tail(pipe.queue)) = Len(pipe.queue) - 1
  BY <1>1
<1>. QED
  BY <1>1, <1>2 DEF First, Popped, Pipe
----------------------------------------------------------------------------
(* What a thread's step does to the number of sends under way.             *)

(* They are finitely many.                                                 *)
LEMMA WritingFinite ==
  ASSUME NEW place
  PROVE  IsFiniteSet(Writing(place)) /\ Cardinality(Writing(place)) \in Nat
<1>1. Writing(place) \subseteq Clients
  BY DEF Writing
<1>. QED
  BY <1>1, ClientsAssumption, FS_Subset, FS_CardinalityType

(* A thread that begins a send is one more.                                *)
LEMMA BeginsSend ==
  ASSUME NEW place, DOMAIN place = Clients, NEW c \in Clients, place[c] # "write"
  PROVE  Cardinality(Writing([place EXCEPT ![c] = "write"]))
           = Cardinality(Writing(place)) + 1
<1>1. Writing([place EXCEPT ![c] = "write"]) = Writing(place) \cup {c} /\ c \notin Writing(place)
  BY DEF Writing
<1>. QED
  BY <1>1, WritingFinite, FS_AddElement

(* A thread that ends one is one less.                                     *)
LEMMA EndsSend ==
  ASSUME NEW place, DOMAIN place = Clients, NEW c \in Clients, NEW to,
         place[c] = "write", to # "write"
  PROVE  Cardinality(Writing([place EXCEPT ![c] = to]))
           = Cardinality(Writing(place)) - 1
<1>1. Writing([place EXCEPT ![c] = to]) = Writing(place) \ {c} /\ c \in Writing(place)
  BY DEF Writing
<1>. QED
  BY <1>1, WritingFinite, FS_RemoveElement

(* A thread that goes from elsewhere to elsewhere changes nothing.         *)
LEMMA NoSend ==
  ASSUME NEW place, DOMAIN place = Clients, NEW c \in Clients, NEW to,
         place[c] # "write", to # "write"
  PROVE  Writing([place EXCEPT ![c] = to]) = Writing(place)
BY DEF Writing

(* A balanced pipe never has more bytes than objects.                      *)
LEMMA BalancedEnough ==
  ASSUME NEW S, NEW pipe \in Pipe(S), NEW place, Balanced(pipe, place)
  PROVE  pipe.bytes <= Len(pipe.queue)
<1>1. pipe.bytes \in Nat /\ Cardinality(Writing(place)) \in Nat
  BY WritingFinite DEF Pipe
<1>. QED
  BY <1>1 DEF Balanced
(* The four things a step does to a pipe and the threads that write to it: *)
(* it begins a send, ends one, reads, or moves a thread that does neither. *)
LEMMA PipeBegins ==
  ASSUME NEW S, NEW pipe \in Pipe(S), NEW obj \in S, NEW place,
         DOMAIN place = Clients, NEW c \in Clients, place[c] # "write",
         Balanced(pipe, place)
  PROVE  /\ Appended(pipe, obj) \in Pipe(S)
         /\ Balanced(Appended(pipe, obj), [place EXCEPT ![c] = "write"])
<1>1. pipe.bytes \in Nat /\ Cardinality(Writing(place)) \in Nat
  BY WritingFinite DEF Pipe
<1>2. /\ Appended(pipe, obj) \in Pipe(S)
      /\ Len(Appended(pipe, obj).queue) = Len(pipe.queue) + 1
      /\ Appended(pipe, obj).bytes = pipe.bytes
  BY SendAppends
<1>3. Cardinality(Writing([place EXCEPT ![c] = "write"])) = Cardinality(Writing(place)) + 1
  BY BeginsSend
<1>. QED
  BY <1>1, <1>2, <1>3 DEF Balanced

LEMMA PipeEnds ==
  ASSUME NEW S, NEW pipe \in Pipe(S), NEW place, NEW to,
         DOMAIN place = Clients, NEW c \in Clients, place[c] = "write", to # "write",
         Balanced(pipe, place)
  PROVE  /\ Written(pipe) \in Pipe(S)
         /\ Balanced(Written(pipe), [place EXCEPT ![c] = to])
<1>1. pipe.bytes \in Nat /\ Cardinality(Writing(place)) \in Nat
  BY WritingFinite DEF Pipe
<1>2. /\ Written(pipe) \in Pipe(S)
      /\ Written(pipe).queue = pipe.queue
      /\ Written(pipe).bytes = pipe.bytes + 1
  BY SendWrites
<1>3. Cardinality(Writing([place EXCEPT ![c] = to])) = Cardinality(Writing(place)) - 1
  BY EndsSend
<1>. QED
  BY <1>1, <1>2, <1>3 DEF Balanced

LEMMA PipePops ==
  ASSUME NEW S, NEW pipe \in Pipe(S), NEW place, Balanced(pipe, place), Readable(pipe)
  PROVE  /\ First(pipe) \in S
         /\ Popped(pipe) \in Pipe(S)
         /\ Balanced(Popped(pipe), place)
<1>1. pipe.bytes \in Nat /\ Cardinality(Writing(place)) \in Nat
  BY WritingFinite DEF Pipe
<1>2. pipe.bytes <= Len(pipe.queue)
  BY BalancedEnough
<1>3. /\ First(pipe) \in S
      /\ Popped(pipe) \in Pipe(S)
      /\ Len(Popped(pipe).queue) = Len(pipe.queue) - 1
      /\ Popped(pipe).bytes = pipe.bytes - 1
  BY <1>2, RecvPops
<1>. QED
  BY <1>1, <1>3 DEF Balanced

LEMMA PipeKeeps ==
  ASSUME NEW pipe, NEW place, NEW to, DOMAIN place = Clients, NEW c \in Clients,
         place[c] # "write", to # "write", Balanced(pipe, place)
  PROVE  Balanced(pipe, [place EXCEPT ![c] = to])
BY NoSend DEF Balanced
----------------------------------------------------------------------------
(* Every step preserves the invariant.                                     *)

(* The initial state: both pipes are empty and no one writes.              *)
LEMMA InitTyped == Init => Typed
<1>. SUFFICES ASSUME Init PROVE Typed
  OBVIOUS
<1>1. PICK c \in Clients :
        /\ started = Control(c) /\ startExc = FALSE
        /\ ready = [d \in Clients |-> FALSE]
        /\ ctl = [d \in Clients |-> IF d = c THEN "cmd" ELSE "gone"]
  BY ClientsAssumption DEF Init
<1>2. LockOK
  BY <1>1 DEF LockOK, Holders
<1>3. ControlOK
  BY <1>1 DEF Init, ControlOK, ControlPlaces
<1>4. MachineOK
  BY MachineAssumption DEF Init, MachineOK
<1>5. ClientsOK
  BY DEF Init, ClientsOK, CallPlaces, Calls
<1>6. Writing(at) = {} /\ Writing(ctl) = {}
  BY DEF Init, Writing
<1>7. Cardinality({}) = 0
  BY FS_EmptySet
<1>8. cmdin = [queue |-> <<>>, bytes |-> 0] /\ cmdout = [queue |-> <<>>, bytes |-> 0]
  BY DEF Init, Empty
<1>9. InOK /\ OutOK
  BY <1>6, <1>7, <1>8 DEF InOK, OutOK, Balanced, Pipe
<1>. QED
  BY <1>2, <1>3, <1>4, <1>5, <1>9 DEF Typed
(* A control thread that reports begins a send on cmdout.                  *)
LEMMA ReportHolds ==
  ASSUME Typed, NEW c \in Clients, ctl[c] # "write",
         NEW message \in Messages, NEW to \in {"cmd", "verdict", "exit"},
         Report(c, message, to)
  PROVE  ControlOK' /\ OutOK'
<1>1. ControlOK /\ OutOK
  BY DEF Typed
<1>2. ctl' = [ctl EXCEPT ![c] = "write"] /\ then' = to /\ cmdout' = Appended(cmdout, message)
  BY DEF Report, Goes
<1>3. DOMAIN ctl = Clients
  BY <1>1 DEF ControlOK
<1>4. ControlOK'
  BY <1>1, <1>2 DEF ControlOK, ControlPlaces
<1>5. /\ Appended(cmdout, message) \in Pipe(Messages)
      /\ Balanced(Appended(cmdout, message), [ctl EXCEPT ![c] = "write"])
  BY <1>1, <1>3, PipeBegins DEF OutOK
<1>6. OutOK'
  BY <1>2, <1>5 DEF OutOK, Balanced, Writing
<1>. QED
  BY <1>4, <1>6

(* One that moves on without a word leaves the pipe as it is.              *)
LEMMA ControlGoesHolds ==
  ASSUME Typed, NEW c \in Clients, ctl[c] # "write",
         NEW to \in ControlPlaces, to # "write", Goes(c, to), UNCHANGED <<cmdout, then>>
  PROVE  ControlOK' /\ OutOK'
<1>1. ControlOK /\ OutOK
  BY DEF Typed
<1>2. ctl' = [ctl EXCEPT ![c] = to]
  BY DEF Goes
<1>3. DOMAIN ctl = Clients
  BY <1>1 DEF ControlOK
<1>4. ControlOK'
  BY <1>1, <1>2 DEF ControlOK
<1>5. Balanced(cmdout, [ctl EXCEPT ![c] = to])
  BY <1>1, <1>3, PipeKeeps DEF OutOK
<1>6. OutOK'
  BY <1>1, <1>2, <1>5 DEF OutOK, Balanced, Writing
<1>. QED
  BY <1>4, <1>6

(* So does a step that no control thread takes part in.                    *)
LEMMA ControlIdleHolds ==
  ASSUME Typed, UNCHANGED <<cmdout, control>>
  PROVE  ControlOK' /\ OutOK'
<1>1. ControlOK /\ OutOK
  BY DEF Typed
<1>2. UNCHANGED <<ctl, then, cmdout>>
  BY DEF control
<1>. QED
  BY <1>1, <1>2 DEF ControlOK, OutOK, Balanced, Writing

(* A step no client takes part in: cmdin stays, or is read.                *)
LEMMA ClientsIdleHolds ==
  ASSUME Typed, UNCHANGED <<cmdin, clients>>
  PROVE  ClientsOK' /\ InOK'
<1>1. ClientsOK /\ InOK
  BY DEF Typed
<1>2. UNCHANGED <<cmdin, at, call, calls>>
  BY DEF clients
<1>. QED
  BY <1>1, <1>2 DEF ClientsOK, InOK, Balanced, Writing

LEMMA CommandReadHolds ==
  ASSUME Typed, Readable(cmdin), cmdin' = Popped(cmdin), UNCHANGED clients
  PROVE  ClientsOK' /\ InOK' /\ First(cmdin) \in Commands
<1>1. ClientsOK /\ InOK
  BY DEF Typed
<1>2. UNCHANGED <<at, call, calls>>
  BY DEF clients
<1>3. First(cmdin) \in Commands /\ Popped(cmdin) \in Pipe(Commands) /\ Balanced(Popped(cmdin), at)
  BY <1>1, PipePops DEF InOK
<1>. QED
  BY <1>1, <1>2, <1>3 DEF ClientsOK, InOK, Balanced, Writing

(* A client that moves within its call.                                    *)
LEMMA ClientMovesHolds ==
  ASSUME Typed, NEW c \in Clients, at[c] # "write", NEW to \in CallPlaces, to # "write",
         Moves(c, to), UNCHANGED <<cmdin, call, calls>>
  PROVE  ClientsOK' /\ InOK'
<1>1. ClientsOK /\ InOK
  BY DEF Typed
<1>2. at' = [at EXCEPT ![c] = to]
  BY DEF Moves
<1>3. DOMAIN at = Clients
  BY <1>1 DEF ClientsOK
<1>4. ClientsOK'
  BY <1>1, <1>2 DEF ClientsOK
<1>5. Balanced(cmdin, [at EXCEPT ![c] = to])
  BY <1>1, <1>3, PipeKeeps DEF InOK
<1>6. InOK'
  BY <1>1, <1>2, <1>5 DEF InOK, Balanced, Writing
<1>. QED
  BY <1>4, <1>6

(* A client that sends a command.                                          *)
LEMMA ClientSendsHolds ==
  ASSUME Typed, NEW c \in Clients, at[c] # "write", NEW cmd \in Commands,
         Moves(c, "write"), cmdin' = Appended(cmdin, cmd),
         call' \in [Clients -> Calls \cup {"freeze"}], calls' \in [Clients -> Nat]
  PROVE  ClientsOK' /\ InOK'
<1>1. ClientsOK /\ InOK
  BY DEF Typed
<1>2. at' = [at EXCEPT ![c] = "write"]
  BY DEF Moves
<1>3. DOMAIN at = Clients
  BY <1>1 DEF ClientsOK
<1>4. ClientsOK'
  BY <1>1, <1>2 DEF ClientsOK, CallPlaces
<1>5. /\ Appended(cmdin, cmd) \in Pipe(Commands)
      /\ Balanced(Appended(cmdin, cmd), [at EXCEPT ![c] = "write"])
  BY <1>1, <1>3, PipeBegins DEF InOK
<1>6. InOK'
  BY <1>2, <1>5 DEF InOK, Balanced, Writing
<1>. QED
  BY <1>4, <1>6
(* The parts of a step of the machine that several actions share.          *)
LEMMA RaisesHolds ==
  ASSUME Typed, NEW c \in Clients, ctl[c] # "write", UserRaises(c) \/ Raises(c),
         UNCHANGED <<breakpointed, singlestep>>
  PROVE  ControlOK' /\ OutOK' /\ MachineOK'
<1>1. MachineOK
  BY DEF Typed
<1>2. /\ UNCHANGED <<state, gen>>
      /\ \/ \E message \in Messages : Report(c, message, "exit")
         \/ Goes(c, "exit") /\ UNCHANGED <<cmdout, then>>
  BY DEF UserRaises, Raises, Messages
<1>3. ControlOK' /\ OutOK'
  BY <1>2, ReportHolds, ControlGoesHolds DEF ControlPlaces
<1>4. MachineOK'
  BY <1>1, <1>2 DEF MachineOK
<1>. QED
  BY <1>3, <1>4

LEMMA NewStateHolds ==
  ASSUME Typed, NEW c \in Clients, ctl[c] # "write", NEW s \in States, NewState(c, s),
         UNCHANGED <<breakpointed, singlestep>>
  PROVE  ControlOK' /\ OutOK' /\ MachineOK'
<1>1. MachineOK
  BY DEF Typed
<1>2. state' = s /\ gen' = "top"
  BY DEF NewState
<1>3. MachineOK'
  BY <1>1, <1>2 DEF MachineOK
<1>4. CASE singlestep
  <2>1. Report(c, "SINGLESTEP", "cmd")
    BY <1>4 DEF NewState
  <2>. QED
    BY <1>3, <2>1, ReportHolds DEF Messages
<1>5. CASE ~singlestep
  <2>1. Goes(c, "next") /\ UNCHANGED <<cmdout, then>>
    BY <1>5 DEF NewState
  <2>. QED
    BY <1>3, <2>1, ControlGoesHolds DEF ControlPlaces
<1>. QED
  BY <1>4, <1>5

(* The control thread, outside the generator.                              *)
LEMMA ControlThreadHolds ==
  ASSUME Typed, NEW c \in Clients,
         \/ ControlLocks(c) \/ ControlOpens(c) \/ ControlFails(c) \/ ControlWrites(c)
         \/ Command(c) \/ ControlExits(c)
  PROVE  Typed'
<1>. USE DEF ControlPlaces
<1>1. LockOK /\ ControlOK /\ MachineOK /\ ClientsOK /\ InOK /\ OutOK
  BY DEF Typed
<1>2. CASE ControlLocks(c)
  <2>1. ControlOK' /\ OutOK'
    BY <1>2, ControlGoesHolds DEF ControlLocks, pipes
  <2>2. ClientsOK' /\ InOK'
    BY <1>2, ClientsIdleHolds DEF ControlLocks, pipes
  <2>3. LockOK'
    BY <1>1, <1>2 DEF ControlLocks, LockOK, Holders
  <2>4. MachineOK'
    BY <1>1, <1>2 DEF ControlLocks, MachineOK, machine
  <2>. QED
    BY <2>1, <2>2, <2>3, <2>4 DEF Typed
<1>3. CASE ControlOpens(c)
  <2>1. ControlOK' /\ OutOK'
    BY <1>3, ControlGoesHolds DEF ControlOpens, pipes
  <2>2. ClientsOK' /\ InOK'
    BY <1>3, ClientsIdleHolds DEF ControlOpens, pipes
  <2>3. LockOK'
    BY <1>1, <1>3 DEF ControlOpens, LockOK
  <2>4. MachineOK'
    BY <1>1, <1>3, MachineAssumption DEF ControlOpens, MachineOK
  <2>. QED
    BY <2>1, <2>2, <2>3, <2>4 DEF Typed
<1>4. CASE ControlFails(c)
  <2>1. ControlOK' /\ OutOK'
    BY <1>4, ControlGoesHolds DEF ControlFails, pipes
  <2>2. ClientsOK' /\ InOK'
    BY <1>4, ClientsIdleHolds DEF ControlFails, pipes
  <2>3. LockOK'
    BY <1>1, <1>4 DEF ControlFails, LockOK
  <2>4. MachineOK'
    BY <1>1, <1>4 DEF ControlFails, MachineOK, machine
  <2>. QED
    BY <2>1, <2>2, <2>3, <2>4 DEF Typed
<1>5. CASE ControlWrites(c)
  <2>1. /\ ctl[c] = "write" /\ cmdout' = Written(cmdout)
        /\ ctl' = [ctl EXCEPT ![c] = then] /\ then' = then
    BY <1>5 DEF ControlWrites, Goes
  <2>2. then \in {"cmd", "verdict", "exit"} /\ DOMAIN ctl = Clients
    BY <1>1 DEF ControlOK
  <2>3. Written(cmdout) \in Pipe(Messages) /\ Balanced(Written(cmdout), [ctl EXCEPT ![c] = then])
    BY <1>1, <2>1, <2>2, PipeEnds DEF OutOK
  <2>4. OutOK'
    BY <2>1, <2>3 DEF OutOK, Balanced, Writing
  <2>5. ControlOK'
    BY <1>1, <2>1, <2>2 DEF ControlOK
  <2>6. ClientsOK' /\ InOK'
    BY <1>5, ClientsIdleHolds DEF ControlWrites
  <2>7. LockOK' /\ MachineOK'
    BY <1>1, <1>5 DEF ControlWrites, LockOK, MachineOK, lock, machine
  <2>. QED
    BY <2>4, <2>5, <2>6, <2>7 DEF Typed
<1>6. CASE Command(c)
  <2>1. ClientsOK' /\ InOK' /\ First(cmdin) \in Commands
    BY <1>6, CommandReadHolds DEF Command
  <2>2. LockOK'
    BY <1>1, <1>6 DEF Command, LockOK, lock
  <2>3. ControlOK' /\ OutOK'
    <3>1. CASE UNCHANGED ctl
      BY <1>6, <3>1, ControlIdleHolds DEF Command, control
    <3>2. CASE Goes(c, "exit") \/ Goes(c, "next")
      BY <1>6, <3>2, ControlGoesHolds DEF Command
    <3>. QED
      BY <1>6, <3>1, <3>2 DEF Command
  <2>4. state' \in States /\ gen' \in {"top", "stay", "select"} /\ breakpointed' = breakpointed
    BY <1>1, <1>6, MachineAssumption DEF Command, MachineOK
  <2>5. singlestep' \in BOOLEAN
    BY <1>1, <1>6, Zenon DEF Command, MachineOK
  <2>6. MachineOK'
    BY <1>1, <2>4, <2>5 DEF MachineOK
  <2>. QED
    BY <2>1, <2>2, <2>3, <2>6 DEF Typed
<1>7. CASE ControlExits(c)
  <2>1. ControlOK' /\ OutOK'
    BY <1>7, ControlGoesHolds DEF ControlExits, pipes
  <2>2. ClientsOK' /\ InOK'
    BY <1>7, ClientsIdleHolds DEF ControlExits, pipes
  <2>3. LockOK'
    BY <1>1, <1>7 DEF ControlExits, LockOK, Holders
  <2>4. MachineOK'
    BY <1>1, <1>7 DEF ControlExits, MachineOK, machine
  <2>. QED
    BY <2>1, <2>2, <2>3, <2>4 DEF Typed
<1>. QED
  BY <1>2, <1>3, <1>4, <1>5, <1>6, <1>7
(* The generator: what next(iterator) does.                                *)
LEMMA IteratorHolds ==
  ASSUME Typed, NEW c \in Clients,
         \/ Break(c) \/ RunState(c) \/ RunRaises(c) \/ Verdict(c) \/ Ends(c)
         \/ Conditions(c) \/ HearCommand(c) \/ ResumeWait(c) \/ TimersDue(c) \/ Event(c)
  PROVE  Typed'
<1>. USE DEF ControlPlaces
<1>1. LockOK /\ ControlOK /\ MachineOK /\ ClientsOK /\ InOK /\ OutOK
  BY DEF Typed
<1>2. LockOK'
  <2>1. UNCHANGED lock
    BY DEF Break, RunState, RunRaises, Verdict, Ends, Conditions, HearCommand, ResumeWait,
           TimersDue, Event
  <2>. QED
    BY <1>1, <2>1 DEF LockOK, lock
<1>3. CASE Break(c)
  <2>1. ControlOK' /\ OutOK'
    BY <1>3, ReportHolds DEF Break, Messages
  <2>2. ClientsOK' /\ InOK'
    BY <1>3, ClientsIdleHolds DEF Break
  <2>3. MachineOK'
    BY <1>1, <1>3 DEF Break, MachineOK
  <2>. QED
    BY <1>2, <2>1, <2>2, <2>3 DEF Typed
<1>4. CASE RunState(c)
  <2>3. ControlOK' /\ OutOK'
    <3>1. ctl[c] # "write"
      BY <1>4 DEF RunState
    <3>2. Report(c, "INTERCEPT", "verdict") => ControlOK' /\ OutOK'
      BY <3>1, ReportHolds DEF Messages
    <3>3. Goes(c, "ran") /\ UNCHANGED <<cmdout, then>> => ControlOK' /\ OutOK'
      BY <3>1, ControlGoesHolds
    <3>. QED
      BY <1>4, <3>2, <3>3 DEF RunState
  <2>4. ClientsOK' /\ InOK'
    BY <1>4, ClientsIdleHolds DEF RunState
  <2>5. MachineOK'
    BY <1>1, <1>4 DEF RunState, MachineOK
  <2>. QED
    BY <1>2, <2>3, <2>4, <2>5 DEF Typed
<1>5. CASE RunRaises(c)
  <2>3. Jumps[state] \subseteq States
    BY <1>1, MachineAssumption DEF MachineOK
  <2>1. ControlOK' /\ OutOK' /\ MachineOK'
    BY <1>5, <2>3, RaisesHolds, NewStateHolds DEF RunRaises
  <2>2. ClientsOK' /\ InOK'
    BY <1>5, ClientsIdleHolds DEF RunRaises
  <2>. QED
    BY <1>2, <2>1, <2>2 DEF Typed
<1>6. CASE Verdict(c)
  <2>1. ClientsOK' /\ InOK'
    BY <1>6, CommandReadHolds DEF Verdict
  <2>2. CASE First(cmdin) \in Verdicts
    <3>1. ControlOK' /\ OutOK'
      BY <1>6, <2>2, ControlGoesHolds DEF Verdict
    <3>2. MachineOK'
      BY <1>1, <1>6, <2>2 DEF Verdict, MachineOK
    <3>. QED
      BY <1>2, <2>1, <3>1, <3>2 DEF Typed
  <2>3. CASE First(cmdin) \notin Verdicts
    <3>1. ControlOK' /\ OutOK' /\ MachineOK'
      BY <1>6, <2>3, RaisesHolds DEF Verdict
    <3>. QED
      BY <1>2, <2>1, <3>1 DEF Typed
  <2>. QED
    BY <2>2, <2>3
<1>7. CASE Ends(c)
  <2>1. ControlOK' /\ OutOK'
    BY <1>7, ReportHolds DEF Ends, Messages
  <2>2. ClientsOK' /\ InOK'
    BY <1>7, ClientsIdleHolds DEF Ends
  <2>3. MachineOK'
    BY <1>1, <1>7 DEF Ends, MachineOK, machine
  <2>. QED
    BY <1>2, <2>1, <2>2, <2>3 DEF Typed
<1>8. CASE Conditions(c)
  <2>1. ctl[c] # "write" /\ UNCHANGED <<breakpointed, singlestep>>
    BY <1>8 DEF Conditions
  <2>2. ClientsOK' /\ InOK'
    BY <1>8, ClientsIdleHolds DEF Conditions
  <2>3. CASE Goes(c, "select") /\ UNCHANGED <<cmdout, then, state, gen>>
    <3>1. ControlOK' /\ OutOK'
      BY <2>1, <2>3, ControlGoesHolds
    <3>2. MachineOK'
      BY <1>1, <2>1, <2>3 DEF MachineOK
    <3>. QED
      BY <1>2, <2>2, <3>1, <3>2 DEF Typed
  <2>4. CASE \E s \in Immediate[state] : NewState(c, s)
    <3>1. Immediate[state] \subseteq States
      BY <1>1, MachineAssumption DEF MachineOK
    <3>2. ControlOK' /\ OutOK' /\ MachineOK'
      BY <2>1, <2>4, <3>1, NewStateHolds
    <3>. QED
      BY <1>2, <2>2, <3>2 DEF Typed
  <2>5. CASE Raises(c) \/ UserRaises(c)
    <3>1. ControlOK' /\ OutOK' /\ MachineOK'
      BY <2>1, <2>5, RaisesHolds
    <3>. QED
      BY <1>2, <2>2, <3>1 DEF Typed
  <2>. QED
    BY <1>8, <2>3, <2>4, <2>5 DEF Conditions
<1>9. CASE HearCommand(c)
  <2>1. ControlOK' /\ OutOK'
    BY <1>9, ControlGoesHolds DEF HearCommand, pipes
  <2>2. ClientsOK' /\ InOK'
    BY <1>9, ClientsIdleHolds DEF HearCommand, pipes
  <2>3. MachineOK'
    BY <1>1, <1>9 DEF HearCommand, MachineOK
  <2>. QED
    BY <1>2, <2>1, <2>2, <2>3 DEF Typed
<1>10. CASE ResumeWait(c)
  <2>1. ControlOK' /\ OutOK'
    BY <1>10, ControlGoesHolds DEF ResumeWait, pipes
  <2>2. ClientsOK' /\ InOK'
    BY <1>10, ClientsIdleHolds DEF ResumeWait, pipes
  <2>3. MachineOK'
    BY <1>1, <1>10 DEF ResumeWait, MachineOK, machine
  <2>. QED
    BY <1>2, <2>1, <2>2, <2>3 DEF Typed
<1>11. CASE Event(c)
  <2>1. ctl[c] # "write" /\ UNCHANGED <<breakpointed, singlestep>>
    BY <1>11 DEF Event, Awake
  <2>2. ClientsOK' /\ InOK'
    BY <1>11, ClientsIdleHolds DEF Event
  <2>3. Events[state] \subseteq States
    BY <1>1, MachineAssumption DEF MachineOK
  <2>4. ControlOK' /\ OutOK' /\ MachineOK'
    BY <1>11, <2>1, <2>3, RaisesHolds, NewStateHolds DEF Event
  <2>. QED
    BY <1>2, <2>2, <2>4 DEF Typed
<1>12. CASE TimersDue(c)
  <2>1. ctl[c] # "write" /\ UNCHANGED <<breakpointed, singlestep>>
    BY <1>12 DEF TimersDue
  <2>2. ClientsOK' /\ InOK'
    BY <1>12, ClientsIdleHolds DEF TimersDue
  <2>3. Timeouts[state] \subseteq States
    BY <1>1, MachineAssumption DEF MachineOK
  <2>4. ControlOK' /\ OutOK' /\ MachineOK'
    BY <1>12, <2>1, <2>3, RaisesHolds, NewStateHolds DEF TimersDue
  <2>. QED
    BY <1>2, <2>2, <2>4 DEF Typed
<1>. QED
  BY <1>3, <1>4, <1>5, <1>6, <1>7, <1>8, <1>9, <1>10, <1>11, <1>12
(* A client's call: it begins, sends its command, reads its answer, ...     *)
LEMMA CallHolds ==
  ASSUME Typed, NEW c \in Clients,
         \/ \E op \in Api[c] : Call(c, op)
         \/ Interrupted(c) \/ Writes(c) \/ Answered(c)
  PROVE  Typed'
<1>. USE DEF CallPlaces
<1>1. LockOK /\ ControlOK /\ MachineOK /\ ClientsOK /\ InOK /\ OutOK
  BY DEF Typed
<1>2. LockOK' /\ MachineOK'
  <2>1. UNCHANGED <<lock, machine>>
    BY DEF Call, Interrupted, Writes, Answered
  <2>. QED
    BY <1>1, <2>1 DEF LockOK, MachineOK, lock, machine
<1>3. ASSUME NEW op \in Api[c], Call(c, op) PROVE Typed'
  <2>1. ControlOK' /\ OutOK'
    BY <1>3, ControlIdleHolds DEF Call
  <2>2. op \in Calls
    BY ClientsAssumption
  <2>3. call' \in [Clients -> Calls \cup {"freeze"}] /\ calls' \in [Clients -> Nat]
    BY <1>1, <1>3, <2>2 DEF Call, ClientsOK
  <2>4. CASE op = "start"
    <3>1. at' = [at EXCEPT ![c] = "check"] /\ at[c] # "write" /\ UNCHANGED cmdin
      BY <1>3, <2>4 DEF Call, Moves
    <3>2. ClientsOK'
      BY <1>1, <2>3, <3>1 DEF ClientsOK
    <3>3. Balanced(cmdin, [at EXCEPT ![c] = "check"])
      BY <1>1, <3>1, PipeKeeps DEF ClientsOK, InOK
    <3>4. InOK'
      BY <1>1, <3>1, <3>3 DEF InOK, Balanced, Writing
    <3>. QED
      BY <1>2, <2>1, <3>2, <3>4 DEF Typed
  <2>5. CASE op # "start"
    <3>1. CommandOf(op) \in Commands
      BY <2>2, <2>5 DEF CommandOf, Commands, Calls, Waiting, Background, Stopping
    <3>2. Moves(c, "write") /\ cmdin' = Appended(cmdin, CommandOf(op)) /\ at[c] # "write"
      BY <1>3, <2>5 DEF Call
    <3>3. ClientsOK' /\ InOK'
      BY <2>3, <3>1, <3>2, ClientSendsHolds
    <3>. QED
      BY <1>2, <2>1, <3>3 DEF Typed
  <2>. QED
    BY <2>4, <2>5
<1>4. CASE Interrupted(c)
  <2>1. ControlOK' /\ OutOK'
    BY <1>4, ControlIdleHolds DEF Interrupted
  <2>2. call' \in [Clients -> Calls \cup {"freeze"}] /\ calls' \in [Clients -> Nat]
    BY <1>1, <1>4 DEF Interrupted, ClientsOK
  <2>3. CommandOf("freeze") \in Commands
    BY DEF CommandOf, Commands
  <2>4. Moves(c, "write") /\ cmdin' = Appended(cmdin, CommandOf("freeze")) /\ at[c] # "write"
    BY <1>4 DEF Interrupted
  <2>5. ClientsOK' /\ InOK'
    BY <2>2, <2>3, <2>4, ClientSendsHolds
  <2>. QED
    BY <1>2, <2>1, <2>5 DEF Typed
<1>5. CASE Writes(c)
  <2>1. ControlOK' /\ OutOK'
    BY <1>5, ControlIdleHolds DEF Writes
  <2>2. PICK to \in {"answer", "lock", "idle"} : Moves(c, to)
    BY <1>5 DEF Writes
  <2>3. at' = [at EXCEPT ![c] = to] /\ at[c] = "write" /\ cmdin' = Written(cmdin)
        /\ UNCHANGED <<call, calls>>
    BY <1>5, <2>2 DEF Writes, Moves
  <2>4. ClientsOK'
    BY <1>1, <2>3 DEF ClientsOK
  <2>5. Written(cmdin) \in Pipe(Commands) /\ Balanced(Written(cmdin), [at EXCEPT ![c] = to])
    BY <1>1, <2>3, PipeEnds DEF ClientsOK, InOK
  <2>6. InOK'
    BY <2>3, <2>5 DEF InOK, Balanced, Writing
  <2>. QED
    BY <1>2, <2>1, <2>4, <2>6 DEF Typed
<1>6. CASE Answered(c)
  <2>1. ClientsOK' /\ InOK'
    BY <1>6, ClientMovesHolds DEF Answered
  <2>2. UNCHANGED <<ctl, then>> /\ cmdout' = Popped(cmdout)
    BY <1>6 DEF Answered, control
  <2>3. Popped(cmdout) \in Pipe(Messages) /\ Balanced(Popped(cmdout), ctl)
    BY <1>1, <1>6, PipePops DEF Answered, OutOK
  <2>4. ControlOK' /\ OutOK'
    BY <1>1, <2>2, <2>3 DEF ControlOK, OutOK, Balanced, Writing
  <2>. QED
    BY <1>2, <2>1, <2>4 DEF Typed
<1>. QED
  BY <1>3, <1>4, <1>5, <1>6

(* ... waits for the machine, empties the pipes, or starts it.             *)
LEMMA StopAndStartHolds ==
  ASSUME Typed, Exclusive, NEW c \in Clients,
         \/ Locks(c) \/ FlushIn(c) \/ PopIn(c) \/ FlushOut(c) \/ PopOut(c)
         \/ Unlocks(c) \/ Checks(c) \/ Spawns(c) \/ Started(c)
  PROVE  Typed'
<1>. USE DEF CallPlaces
<1>1. LockOK /\ ControlOK /\ MachineOK /\ ClientsOK /\ InOK /\ OutOK
  BY DEF Typed
<1>2. MachineOK'
  <2>1. UNCHANGED machine
    BY DEF Locks, FlushIn, PopIn, FlushOut, PopOut, Unlocks, Checks, Spawns, Started
  <2>. QED
    BY <1>1, <2>1 DEF MachineOK, machine
<1>3. LockOK'
  <2>1. /\ started' \in {started, Free, Caller(c)}
        /\ startExc' \in {startExc, FALSE}
        /\ ready' \in {ready, [ready EXCEPT ![c] = FALSE]}
    BY DEF Locks, FlushIn, PopIn, FlushOut, PopOut, Unlocks, Checks, Spawns, Started, lock
  <2>2. started' \in Holders
    BY <1>1, <2>1 DEF LockOK, Holders
  <2>3. startExc' \in BOOLEAN /\ ready' \in [Clients -> BOOLEAN]
    BY <1>1, <2>1 DEF LockOK
  <2>. QED
    BY <2>2, <2>3 DEF LockOK
<1>4. CASE Locks(c) \/ FlushIn(c) \/ FlushOut(c) \/ Unlocks(c) \/ Checks(c) \/ Started(c)
  <2>1. ControlOK' /\ OutOK'
    <3>1. UNCHANGED <<cmdout, control>>
      BY <1>4 DEF Locks, FlushIn, FlushOut, Unlocks, Checks, Started, pipes
    <3>. QED
      BY <3>1, ControlIdleHolds
  <2>2. at[c] # "write" /\ UNCHANGED <<cmdin, call, calls>>
    BY <1>4 DEF Locks, FlushIn, FlushOut, Unlocks, Checks, Started, pipes
  <2>3. \E to \in CallPlaces \ {"write"} : Moves(c, to)
    BY <1>4 DEF Locks, FlushIn, FlushOut, Unlocks, Checks, Started
  <2>4. ClientsOK' /\ InOK'
    BY <2>2, <2>3, ClientMovesHolds
  <2>. QED
    BY <1>2, <1>3, <2>1, <2>4 DEF Typed
<1>5. CASE PopIn(c)
  <2>1. ControlOK' /\ OutOK'
    BY <1>5, ControlIdleHolds DEF PopIn
  <2>2. /\ at' = [at EXCEPT ![c] = "flushin"] /\ at[c] # "write"
        /\ cmdin' = Popped(cmdin) /\ UNCHANGED <<call, calls>>
    BY <1>5 DEF PopIn, Moves
  <2>3. ClientsOK'
    BY <1>1, <2>2 DEF ClientsOK
  <2>4. Popped(cmdin) \in Pipe(Commands) /\ Balanced(Popped(cmdin), at)
    BY <1>1, <1>5, PipePops DEF PopIn, InOK
  <2>5. Balanced(Popped(cmdin), [at EXCEPT ![c] = "flushin"])
    BY <1>1, <2>2, <2>4, PipeKeeps DEF ClientsOK
  <2>6. InOK'
    BY <2>2, <2>4, <2>5 DEF InOK, Balanced, Writing
  <2>. QED
    BY <1>2, <1>3, <2>1, <2>3, <2>6 DEF Typed
<1>6. CASE PopOut(c)
  <2>1. ClientsOK' /\ InOK'
    BY <1>6, ClientMovesHolds DEF PopOut
  <2>2. UNCHANGED <<ctl, then>> /\ cmdout' = Popped(cmdout)
    BY <1>6 DEF PopOut, control
  <2>3. Popped(cmdout) \in Pipe(Messages) /\ Balanced(Popped(cmdout), ctl)
    BY <1>1, <1>6, PipePops DEF PopOut, OutOK
  <2>4. ControlOK' /\ OutOK'
    BY <1>1, <2>2, <2>3 DEF ControlOK, OutOK, Balanced, Writing
  <2>. QED
    BY <1>2, <1>3, <2>1, <2>4 DEF Typed
<1>7. CASE Spawns(c)
  <2>1. ClientsOK' /\ InOK'
    BY <1>7, ClientMovesHolds DEF Spawns, pipes
  <2>2. ctl[c] # "write"
    BY <1>7 DEF Spawns, Exclusive
  <2>3. ControlOK' /\ OutOK'
    BY <1>7, <2>2, ControlGoesHolds DEF Spawns, pipes, ControlPlaces
  <2>. QED
    BY <1>2, <1>3, <2>1, <2>3 DEF Typed
<1>. QED
  BY <1>4, <1>5, <1>6, <1>7
----------------------------------------------------------------------------
(* The lock.                                                               *)

(* The holders of the lock are told apart.                                 *)
LEMMA HoldersDistinct ==
  \A c, d : /\ Control(c) # Caller(d) /\ Control(c) # Free /\ Caller(c) # Free
            /\ Control(c) = Control(d) => c = d
            /\ Caller(c) = Caller(d) => c = d
BY DEF Control, Caller, Free

LEMMA InitExclusive == Init => Exclusive
BY ClientsAssumption DEF Init, Exclusive, Alive, Flushing

(* Only the thread that has the lock gives it up, and only a start() that  *)
(* found it free makes a control thread.                                   *)
LEMMA ControlKeepsExclusive ==
  ASSUME Typed, Exclusive, NEW c \in Clients, ControlStep(c) \/ TimersDue(c) \/ Event(c)
  PROVE  Exclusive'
<1>1. ready \in [Clients -> BOOLEAN] /\ ctl \in [Clients -> ControlPlaces]
      /\ then \in {"cmd", "verdict", "exit"} /\ at' = at
  BY DEF Typed, LockOK, ControlOK, ControlStep, ControlLocks, ControlOpens, ControlFails,
         ControlWrites, Command, ControlExits, Break, RunState, RunRaises, Verdict, Ends,
         Conditions, HearCommand, ResumeWait, TimersDue, Event, clients
<1>2. CASE ControlLocks(c)
  BY <1>1, <1>2, HoldersDistinct DEF ControlLocks, Goes, Exclusive, Alive
<1>3. CASE ControlExits(c)
  BY <1>1, <1>3, HoldersDistinct DEF ControlExits, Goes, Exclusive, Alive, pipes
<1>4. CASE \/ ControlOpens(c) \/ ControlFails(c) \/ ControlWrites(c) \/ Command(c)
           \/ Break(c) \/ RunState(c) \/ RunRaises(c) \/ Verdict(c) \/ Ends(c)
           \/ Conditions(c) \/ HearCommand(c) \/ ResumeWait(c) \/ TimersDue(c) \/ Event(c)
  <2>1. Alive(c) /\ started' = started
    BY <1>1, <1>4 DEF Alive, ControlOpens, ControlFails, ControlWrites, Command, Break, RunState,
         RunRaises, Verdict, Ends, Conditions, HearCommand, ResumeWait, TimersDue, Event, Awake,
         lock
  <2>2. \E to \in ControlPlaces \ {"gone", "lock"} : ctl' = [ctl EXCEPT ![c] = to]
    BY <1>1, <1>4 DEF ControlOpens, ControlFails, ControlWrites, Command, Break, RunState,
         RunRaises, Verdict, Ends, Conditions, HearCommand, ResumeWait, TimersDue, Event, Awake,
         Goes, Report, NewState, Raises, UserRaises, ControlPlaces
  <2>3. ready' = ready \/ ready' = [ready EXCEPT ![c] = TRUE]
    BY <1>4 DEF ControlOpens, ControlFails, ControlWrites, Command, Break, RunState,
         RunRaises, Verdict, Ends, Conditions, HearCommand, ResumeWait, TimersDue, Event, lock
  <2>. QED
    BY <1>1, <2>1, <2>2, <2>3 DEF Exclusive, Alive
<1>. QED
  BY <1>2, <1>3, <1>4 DEF ControlStep
LEMMA CallKeepsExclusive ==
  ASSUME Typed, Exclusive, NEW c \in Clients,
         CallStep(c) \/ Interrupted(c) \/ \E op \in Api[c] : Call(c, op)
  PROVE  Exclusive'
<1>1. ready \in [Clients -> BOOLEAN] /\ ctl \in [Clients -> ControlPlaces]
      /\ at \in [Clients -> CallPlaces]
  BY DEF Typed, LockOK, ControlOK, ClientsOK
<1>2. CASE Locks(c)
  BY <1>1, <1>2, HoldersDistinct DEF Locks, Moves, Exclusive, Alive, Flushing, control
<1>3. CASE Unlocks(c)
  BY <1>1, <1>3, HoldersDistinct DEF Unlocks, Moves, Exclusive, Alive, Flushing, control
<1>4. CASE Checks(c)
  BY <1>1, <1>4, HoldersDistinct DEF Checks, Moves, Exclusive, Alive, Flushing, control, lock
<1>5. CASE Spawns(c)
  BY <1>1, <1>5 DEF Spawns, Moves, Goes, Exclusive, Alive, Flushing
<1>6. CASE Started(c)
  BY <1>1, <1>6 DEF Started, Moves, Exclusive, Alive, Flushing, control, lock
<1>7. CASE FlushIn(c) \/ PopIn(c) \/ FlushOut(c) \/ PopOut(c)
  BY <1>1, <1>7
  DEF FlushIn, PopIn, FlushOut, PopOut, Moves, Exclusive, Alive, Flushing, control, lock
<1>8. CASE Writes(c) \/ Answered(c) \/ Interrupted(c) \/ \E op \in Api[c] : Call(c, op)
  BY <1>1, <1>8
  DEF Writes, Answered, Interrupted, Call, Moves, Exclusive, Alive, Flushing, control, lock
<1>. QED
  BY <1>2, <1>3, <1>4, <1>5, <1>6, <1>7, <1>8 DEF CallStep

LEMMA NextHolds == IInv /\ [Next]_vars => IInv'
<1>. SUFFICES ASSUME IInv, [Next]_vars PROVE IInv'
  OBVIOUS
<1>1. Typed /\ Exclusive
  BY DEF IInv
<1>2. CASE UNCHANGED vars
  <2>1. UNCHANGED <<cmdin, cmdout, started, startExc, ready, state, breakpointed, singlestep,
                    gen, ctl, then, at, call, calls>>
    BY <1>2 DEF vars, pipes, lock, machine, control, clients
  <2>2. LockOK' /\ MachineOK'
    BY <1>1, <2>1 DEF Typed, LockOK, MachineOK
  <2>3. ControlOK' /\ OutOK'
    BY <1>1, <2>1, ControlIdleHolds DEF control
  <2>4. ClientsOK' /\ InOK'
    BY <1>1, <2>1, ClientsIdleHolds DEF clients
  <2>5. Exclusive'
    BY <1>1, <2>1 DEF Exclusive, Alive
  <2>. QED
    BY <2>2, <2>3, <2>4, <2>5 DEF IInv, Typed
<1>3. ASSUME NEW c \in Clients, ControlStep(c) \/ TimersDue(c) \/ Event(c) PROVE IInv'
  <2>1. Typed'
    BY <1>1, <1>3, ControlThreadHolds, IteratorHolds DEF ControlStep
  <2>. QED
    BY <1>1, <1>3, <2>1, ControlKeepsExclusive DEF IInv
<1>4. ASSUME NEW c \in Clients,
             CallStep(c) \/ Interrupted(c) \/ \E op \in Api[c] : Call(c, op)
      PROVE  IInv'
  <2>1. Typed'
    BY <1>1, <1>4, CallHolds, StopAndStartHolds DEF CallStep
  <2>. QED
    BY <1>1, <1>4, <2>1, CallKeepsExclusive DEF IInv
<1>. QED
  BY <1>2, <1>3, <1>4 DEF Next

LEMMA Invariance == Spec => []IInv
<1>1. Init => IInv
  BY InitTyped, InitExclusive DEF IInv
<1>. QED
  BY <1>1, NextHolds, PTL DEF Spec
----------------------------------------------------------------------------
(* The theorems.                                                           *)

(* The control thread's, the machine's and every client's state keep their *)
(* types; in particular no recv pops a deque that has run empty.           *)
THEOREM TypeCorrect == Spec => []TypeOK
<1>1. IInv => TypeOK
  BY DEF IInv, Typed, LockOK, ControlOK, MachineOK, ClientsOK, InOK, OutOK, TypeOK, Pipe
<1>. QED
  BY <1>1, Invariance, PTL

(* Whoever reads a byte of ObjectPipe finds its object, with any number of *)
(* threads between the two halves of send.                                 *)
THEOREM BytesHaveObjects == Spec => []EveryByteHasItsObject
<1>1. IInv => EveryByteHasItsObject
  BY BalancedEnough DEF IInv, Typed, InOK, OutOK, EveryByteHasItsObject
<1>. QED
  BY <1>1, Invariance, PTL

(* However start(), stop() and restart() race, at most one control thread  *)
(* runs the machine, and no one empties the pipes while it does.           *)
OneControl ==
  \A c, d \in Clients :
    Alive(c) => (Alive(d) => c = d) /\ at[d] \notin Flushing

THEOREM OneControlThread == Spec => []OneControl
<1>1. IInv => OneControl
  BY HoldersDistinct DEF IInv, Exclusive, OneControl
<1>. QED
  BY <1>1, Invariance, PTL

-----------------------------------------------------------------------------
(* The timers of a machine (AtmtTimers), for any number of timers and any  *)
(* periods.  The types hold for any number of machines.  The two           *)
(* invariants hold for a machine that is alone in its class: Timer objects *)
(* are the class's, and with two machines in the state neither is true.    *)

(* A non-empty set of times has a least one.                               *)
LEMMA SomeLeast ==
  ASSUME NEW S, S \subseteq Nat, S # {}
  PROVE  \E x \in S : \A y \in S : x <= y
<1>1. PICK x \in S : \A y \in S : ~ (<<y, x>> \in OpToRel(<, Nat))
  BY NatLessThanWellFounded, WFMin
<1>2. \A y \in S : ~ (y < x)
  BY <1>1 DEF OpToRel
<1> QED
  BY <1>2

(* The wait is a time or for ever.                                         *)
LEMMA UntilNextType ==
  ASSUME TimersTypeOK
  PROVE  until_next \in Nat \cup {Forever}
<1> DEFINE running == {time[t] : t \in {u \in Timers : time[u] > 0}}
<1>1. CASE running = {}
  BY <1>1 DEF until_next
<1>2. CASE running # {}
  <2>1. running \subseteq Nat
    BY DEF TimersTypeOK
  <2>2. \E x \in running : \A y \in running : x <= y
    BY <1>2, <2>1, SomeLeast
  <2>3. Min(running) \in running
    BY <2>2 DEF Min
  <2> QED
    BY <1>2, <2>1, <2>3 DEF until_next
<1> QED
  BY <1>1, <1>2

LEMMA DecrementedType ==
  ASSUME TimersTypeOK, NEW t \in Timers, NEW elapsed \in Int
  PROVE  Decremented(t, elapsed) \in Int
BY TimersAssumption DEF TimersTypeOK, Decremented

(* Each action keeps the types; Look and Tick are the ones with arithmetic. *)
LEMMA TimersTypeStep ==
  ASSUME TimersTypeOK, TimersNext
  PROVE  TimersTypeOK'
<1> USE DEF TimersTypeOK, objects, loop, history
<1>1. CASE Tick
  <2>1. owed' \in [Machines -> 0 .. MaxLag]
    BY <1>1, BoundsAssumption DEF Tick, Counts
  <2>2. sleep' \in [Machines -> Nat \cup {Forever}]
    BY <1>1 DEF Tick, Forever
  <2>3. since' \in [Machines -> [Timers -> Int]]
    BY <1>1 DEF Tick
  <2> QED
    BY <1>1, <2>1, <2>2, <2>3 DEF Tick
<1>2. ASSUME NEW m \in Machines, Enter(m)
      PROVE  TimersTypeOK'
  BY <1>2, TimersAssumption, BoundsAssumption DEF Enter, reset
<1>3. ASSUME NEW m \in Machines, Look(m)
      PROVE  TimersTypeOK'
  <2>1. time' \in [Timers -> Int]
    BY <1>3, DecrementedType DEF Look
  <2>2. since' \in [Machines -> [Timers -> Int]]
    <3> DEFINE fired == just \cup {t \in Timers : Expires(t, owed[m])}
               paid == [t \in Timers |-> IF t \in fired THEN since[m][t] - Timeout[t]
                                        ELSE since[m][t]]
    <3>1. paid \in [Timers -> Int]
      BY TimersAssumption
    <3>2. since' = [since EXCEPT ![m] = paid]
      BY <1>3 DEF Look, Paid
    <3> QED
      BY <3>1, <3>2
  <2>3. owed' \in [Machines -> 0 .. MaxLag]
    BY <1>3, BoundsAssumption DEF Look
  <2> QED
    BY <1>3, <2>1, <2>2, <2>3 DEF Look
<1>4. ASSUME NEW m \in Machines, Fire(m)
      PROVE  TimersTypeOK'
  <2>1. PICK t \in Timers : Fire(m)!2!(t)
    BY <1>4 DEF Fire
  <2>2. ran' \in [Machines -> SUBSET Timers]
    BY <2>1
  <2>3. due' \in [Machines -> SUBSET Timers]
    BY <2>1
  <2>4. pc' \in [Machines -> {"out", "loop", "fire", "select", "held"}]
    BY <2>1
  <2> QED
    BY <1>4, <2>2, <2>3, <2>4 DEF Fire
<1>5. ASSUME NEW m \in Machines, Wait(m)
      PROVE  TimersTypeOK'
  BY <1>5, UntilNextType DEF Wait
<1>6. ASSUME NEW m \in Machines, WaitEnds(m) \/ Resume(m)
      PROVE  TimersTypeOK'
  BY <1>6 DEF WaitEnds, Resume
<1>7. ASSUME NEW m \in Machines, Wakes(m) \/ Yield(m)
      PROVE  TimersTypeOK'
  BY <1>7, BoundsAssumption DEF Wakes, Yield
<1> QED
  BY <1>1, <1>2, <1>3, <1>4, <1>5, <1>6, <1>7 DEF TimersNext, Step

(* The fields keep their types: the timers' arithmetic stays in the       *)
(* integers and a wait is a time or forever, for any machines and periods. *)
THEOREM TimersTypeCorrect == TimersSpec => []TimersTypeOK
<1>1. TimersInit => TimersTypeOK
  BY BoundsAssumption DEF TimersInit, TimersTypeOK, Forever
<1>2. TimersTypeOK /\ [TimersNext]_timerVars => TimersTypeOK'
  <2>1. TimersTypeOK /\ UNCHANGED timerVars => TimersTypeOK'
    BY DEF TimersTypeOK, timerVars, objects, loop, history
  <2> QED
    BY <2>1, TimersTypeStep
<1> QED
  BY <1>1, <1>2, PTL DEF TimersSpec

-----------------------------------------------------------------------------

(* One machine of the class.                                               *)
Alone == \A m, n \in Machines : m = n

(* What a stay has run or is about to run has expired, and only the part   *)
(* of the loop that runs them holds any timers as due.                     *)
Collected(m) ==
  /\ pc[m] # "fire" => due[m] = {}
  /\ pc[m] # "out" =>
       /\ just = {} /\ expired \cap Reload = {}
       /\ (ran[m] \cup due[m]) \subseteq expired \cup Reload
       /\ due[m] \cap ran[m] \subseteq Reload

(* The ticks no firing has used up are what a running timer has counted    *)
(* down by, plus what it is still to be charged.                           *)
Charged(m) ==
  pc[m] # "out" =>
    \A t \in Timers :
      IF t \in expired THEN since[m][t] >= 0
      ELSE /\ since[m][t] = owed[m] + Timeout[t] - time[t]
           /\ time[t] <= Timeout[t]

Once == TimersTypeOK /\ \A m \in Machines : Collected(m)
OnTime == Once /\ \A m \in Machines : Charged(m)

LEMMA OnceStep ==
  ASSUME Alone, Once, TimersNext
  PROVE  Once'
<1>0. TimersTypeOK /\ TimersTypeOK'
  BY TimersTypeStep DEF Once
<1> SUFFICES ASSUME NEW n \in Machines
             PROVE  Collected(n)'
  BY <1>0 DEF Once
<1> USE DEF Collected, objects, loop, history
<1>h. Collected(n)
  BY DEF Once
<1>1. CASE Tick
  BY <1>1, <1>h DEF Tick
<1>2. CASE Enter(n)
  BY <1>2, <1>h, <1>0 DEF Enter, reset, TimersTypeOK
<1>3. CASE Look(n)
  BY <1>3, <1>h, <1>0 DEF Look, Expires, TimersTypeOK
<1>4. CASE Fire(n)
  BY <1>4, <1>h, <1>0 DEF Fire, Foremost, TimersTypeOK
<1>5. CASE Wait(n) \/ WaitEnds(n) \/ Wakes(n) \/ Yield(n) \/ Resume(n)
  BY <1>5, <1>h, <1>0 DEF Wait, WaitEnds, Wakes, Yield, Resume, TimersTypeOK
<1> QED
  BY <1>1, <1>2, <1>3, <1>4, <1>5 DEF TimersNext, Step, Alone

LEMMA OnTimeStep ==
  ASSUME Alone, OnTime, TimersNext
  PROVE  OnTime'
<1>0. Once /\ Once' /\ TimersTypeOK
  BY OnceStep DEF OnTime, Once
<1> SUFFICES ASSUME NEW n \in Machines, pc'[n] # "out", NEW t \in Timers
             PROVE  IF t \in expired' THEN since'[n][t] >= 0
                    ELSE /\ since'[n][t] = owed'[n] + Timeout[t] - time'[t]
                         /\ time'[t] <= Timeout[t]
  BY <1>0 DEF OnTime, Charged
<1> USE DEF objects, loop, history
<1>t. /\ time \in [Timers -> Int] /\ DOMAIN pc = Machines
      /\ owed \in [Machines -> Nat] /\ since \in [Machines -> [Timers -> Int]]
      /\ Timeout[t] \in Nat
  BY <1>0, TimersAssumption, BoundsAssumption DEF TimersTypeOK
<1>h. Charged(n)
  BY DEF OnTime
<1>1. CASE Tick
  BY <1>1, <1>h, <1>t DEF Tick, Charged
<1>2. CASE Enter(n)
  BY <1>2, <1>t DEF Enter, reset
<1>3. CASE Look(n)
  <2>1. just = {} /\ pc[n] # "out" /\ expired \cap Reload = {}
    BY <1>0, <1>3 DEF Once, Collected, Look
  <2>2. /\ owed'[n] = 0 /\ time'[t] = Decremented(t, owed[n])
        /\ since'[n][t] = IF Expires(t, owed[n]) THEN since[n][t] - Timeout[t]
                          ELSE since[n][t]
        /\ t \in expired' <=>
             t \in expired \/ (Expires(t, owed[n]) /\ t \notin Reload)
    BY <1>3, <1>t, <2>1 DEF Look, Paid
  <2>3. CASE t \in expired
    BY <1>h, <2>1, <2>2, <2>3 DEF Charged, Expires
  <2>4. CASE t \notin expired
    BY <1>h, <1>t, <2>1, <2>2, <2>4 DEF Charged, Expires, Decremented
  <2> QED
    BY <2>3, <2>4
<1>4. CASE Fire(n) \/ Wait(n) \/ WaitEnds(n) \/ Wakes(n) \/ Yield(n) \/ Resume(n)
  <2>1. pc[n] # "out" /\ UNCHANGED <<time, expired, owed, since>>
    BY <1>4 DEF Fire, Wait, WaitEnds, Wakes, Yield, Resume
  <2> QED
    BY <1>h, <2>1 DEF Charged
<1> QED
  BY <1>1, <1>2, <1>3, <1>4 DEF TimersNext, Step, Alone

LEMMA OnTimeInit ==
  ASSUME TimersInit
  PROVE  OnTime
<1>1. TimersTypeOK
  BY BoundsAssumption DEF TimersInit, TimersTypeOK, Forever
<1> QED
  BY <1>1 DEF TimersInit, OnTime, Once, Collected, Charged

LEMMA OnTimeInductive == Alone => (TimersSpec => []OnTime)
<1> SUFFICES ASSUME Alone
             PROVE  TimersSpec => []OnTime
  OBVIOUS
<1>1. TimersInit => OnTime
  BY OnTimeInit
<1>2. OnTime /\ [TimersNext]_timerVars => OnTime'
  <2>1. OnTime /\ UNCHANGED timerVars => OnTime'
    BY DEF OnTime, Once, Collected, Charged, TimersTypeOK, timerVars, objects, loop, history
  <2> QED
    BY <2>1, OnTimeStep
<1> QED
  BY <1>1, <1>2, PTL DEF TimersSpec

(* A timeout of a machine that has its class to itself runs at most once   *)
(* in a stay, whatever the other timers do and however late the loop is.   *)
THEOREM TimeoutsRunOnce == Alone => (TimersSpec => []TimeoutOnce)
<1>1. OnTime => TimeoutOnce
  BY DEF OnTime, Once, Collected, TimeoutOnce
<1> QED
  BY <1>1, OnTimeInductive, PTL

(* No timer of a machine that has its class to itself fires early, for any *)
(* periods, lag and sequence of wakings: each firing is paid for by a      *)
(* whole period, also when the timer reloads.                              *)
THEOREM TimersNeverEarly == Alone => (TimersSpec => []NeverEarly)
<1>1. OnTime => NeverEarly
  <2> SUFFICES ASSUME OnTime, NEW m \in Machines, NEW t \in Timers, pc[m] # "out"
               PROVE  since[m][t] >= 0
    BY DEF NeverEarly
  <2>1. /\ owed[m] \in Nat /\ time[t] \in Int /\ Timeout[t] \in Nat
    BY TimersAssumption, BoundsAssumption DEF OnTime, Once, TimersTypeOK
  <2> QED
    BY <2>1 DEF OnTime, Charged
<1> QED
  BY <1>1, OnTimeInductive, PTL
=============================================================================
