----------------------------- MODULE AtmtTimers -----------------------------
(***************************************************************************)
(* The timers of a state machine: Timer and _TimerList of                  *)
(* python/wiry/automaton.py, driven by the waiting loop of _do_iter.       *)
(*                                                                         *)
(* A machine that enters the state resets the state's timers, then goes    *)
(* round: charge every timer with the time since it last looked, run the   *)
(* expired ones by priority, and sleep until the next one is due or        *)
(* something happens.  The Timer objects are attributes of the class, made *)
(* by its decorators, so every machine of the class that is in the state   *)
(* works on the same ones.                                                 *)
(*                                                                         *)
(* Time is counted in ticks; the unit is nothing the code knows of.        *)
(***************************************************************************)
EXTENDS Integers, FiniteSets, FiniteSetsExt

CONSTANTS
  Machines,   \* the instances of one Automaton class
  Timers,     \* the timers of the one state modelled
  Timeout,    \* Timeout[t]: the period of t, in ticks
  Prio,       \* Prio[t]: its priority
  Reload,     \* the timers declared with ATMT.timer, the rest with ATMT.timeout
  MaxLag,     \* bound: how far a machine falls behind the clock before it runs
  MaxEvents,  \* bound: packets, io events and commands that wake a machine
  MaxVisits   \* bound: how often a machine enters the state

ASSUME TimersAssumption ==
  /\ IsFiniteSet(Timers) /\ Timers # {} /\ Reload \subseteq Timers
  /\ Timeout \in [Timers -> Nat \ {0}] /\ Prio \in [Timers -> Int]
ASSUME BoundsAssumption ==
  /\ MaxLag \in Nat \ {0} /\ MaxEvents \in Nat /\ MaxVisits \in Nat

VARIABLES
  time,     \* Timer._time
  expired,  \* the timers with _expired set
  just,     \* the timers with _just_expired set
  pc,       \* where each machine is in _do_iter
  owed,     \* ticks since time_previous
  due,      \* the expired timers still to be run
  sleep,    \* what is left of the wait until_next asked for
  events, visits,
  ran,      \* history: the timeouts run during this stay
  since     \* history: ticks of this stay that no firing has used up yet

objects == <<time, expired, just>>
loop == <<pc, owed, due, sleep>>
history == <<ran, since>>
timerVars == <<objects, loop, events, visits, history>>

Forever == -1
Inside == {m \in Machines : pc[m] # "out"}

\* Timer.__init__: a new timer counts as expired until it is reset.
TimersInit ==
  /\ time = [t \in Timers |-> 0]
  /\ expired = Timers /\ just = Timers
  /\ pc = [m \in Machines |-> "out"]
  /\ owed = [m \in Machines |-> 0]
  /\ due = [m \in Machines |-> {}]
  /\ sleep = [m \in Machines |-> Forever]
  /\ events = 0 /\ visits = [m \in Machines |-> 0]
  /\ ran = [m \in Machines |-> {}]
  /\ since = [m \in Machines |-> [t \in Timers |-> 0]]

-----------------------------------------------------------------------------
(* Timer and _TimerList.                                                   *)

\* Mutant: a reset leaves the timer expired.
resetKeepsExpired ==
  /\ time' = Timeout
  /\ UNCHANGED expired /\ just' = {}

reset ==
  /\ time' = Timeout
  /\ expired' = {} /\ just' = {}

\* Mutant: a timer that has expired may expire again.
ExpiresAgain(t, elapsed) == time[t] - elapsed <= 0

\* _decrement: the timers this much elapsed time makes expire, and the time
\* left on each; a reloading one keeps the overshoot.  Of an expired timer
\* only the sign is ever read again, so the model leaves it at zero.
Expires(t, elapsed) == time[t] - elapsed <= 0 /\ t \notin expired

Decremented(t, elapsed) ==
  LET left == time[t] - elapsed IN
  IF t \in expired THEN 0
  ELSE IF ~Expires(t, elapsed) THEN left
  ELSE IF t \in Reload THEN Timeout[t] + left ELSE 0

\* expired() sorts the timers that just did: the highest priority runs first.
Foremost(S, t) == t \in S /\ \A u \in S : Prio[u] <= Prio[t]

\* until_next(): None blocks the wait.
until_next ==
  LET running == {time[t] : t \in {u \in Timers : time[u] > 0}}
  IN  IF running = {} THEN Forever ELSE Min(running)

-----------------------------------------------------------------------------
(* _do_iter's stay in one state.                                           *)

Enter(m) ==
  /\ pc[m] = "out" /\ visits[m] < MaxVisits
  /\ reset
  /\ pc' = [pc EXCEPT ![m] = "loop"]
  /\ owed' = [owed EXCEPT ![m] = 0]
  /\ visits' = [visits EXCEPT ![m] = @ + 1]
  /\ ran' = [ran EXCEPT ![m] = {}]
  /\ since' = [since EXCEPT ![m] = [t \in Timers |-> 0]]
  /\ UNCHANGED <<due, sleep, events>>

Paid(m, fired) ==
  [since EXCEPT ![m] = [t \in Timers |->
     IF t \in fired THEN @[t] - Timeout[t] ELSE @[t]]]

\* Mutant: time_previous is not moved up.
LookNoPrevious(m) ==
  LET fired == just \cup {t \in Timers : Expires(t, owed[m])} IN
  /\ pc[m] = "loop"
  /\ time' = [t \in Timers |-> Decremented(t, owed[m])]
  /\ expired' = expired \cup ({t \in Timers : Expires(t, owed[m])} \ Reload)
  /\ just' = {}
  /\ due' = [due EXCEPT ![m] = fired]
  /\ pc' = [pc EXCEPT ![m] = "fire"]
  /\ since' = Paid(m, fired)
  /\ UNCHANGED <<owed, sleep, events, visits, ran>>

\* The top of the loop: charge the timers, take the expired ones.
Look(m) ==
  LET fired == just \cup {t \in Timers : Expires(t, owed[m])} IN
  /\ pc[m] = "loop"
  /\ time' = [t \in Timers |-> Decremented(t, owed[m])]
  /\ expired' = expired \cup ({t \in Timers : Expires(t, owed[m])} \ Reload)
  /\ just' = {}
  /\ due' = [due EXCEPT ![m] = fired]
  /\ owed' = [owed EXCEPT ![m] = 0]
  /\ pc' = [pc EXCEPT ![m] = "fire"]
  /\ since' = Paid(m, fired)
  /\ UNCHANGED <<sleep, events, visits, ran>>

\* _run_condition of a timer: its handler returns, or requests another state,
\* and the timers still due are dropped with the loop.
Fire(m) ==
  /\ pc[m] = "fire"
  /\ \E t \in Timers :
       /\ Foremost(due[m], t)
       /\ ran' = [ran EXCEPT ![m] = @ \cup {t}]
       /\ \/ due' = [due EXCEPT ![m] = @ \ {t}] /\ pc' = pc
          \/ due' = [due EXCEPT ![m] = {}] /\ pc' = [pc EXCEPT ![m] = "out"]
  /\ UNCHANGED <<objects, owed, sleep, events, visits, since>>

Wait(m) ==
  /\ pc[m] = "fire" /\ due[m] = {}
  /\ sleep' = [sleep EXCEPT ![m] = until_next]
  /\ pc' = [pc EXCEPT ![m] = "select"]
  /\ UNCHANGED <<objects, owed, due, events, visits, history>>

WaitEnds(m) ==
  /\ pc[m] = "select" /\ sleep[m] = 0
  /\ pc' = [pc EXCEPT ![m] = "loop"]
  /\ UNCHANGED <<objects, owed, due, sleep, events, visits, history>>

\* A packet or an io event: its condition is taken or not.
Wakes(m) ==
  /\ pc[m] = "select" /\ events < MaxEvents
  /\ events' = events + 1
  /\ pc' \in {[pc EXCEPT ![m] = "loop"], [pc EXCEPT ![m] = "out"]}
  /\ UNCHANGED <<objects, owed, due, sleep, visits, history>>

\* A command: the generator yields, and is resumed when the user likes.
Yield(m) ==
  /\ pc[m] = "select" /\ events < MaxEvents
  /\ events' = events + 1
  /\ pc' = [pc EXCEPT ![m] = "held"]
  /\ UNCHANGED <<objects, owed, due, sleep, visits, history>>

Resume(m) ==
  /\ pc[m] = "held"
  /\ pc' = [pc EXCEPT ![m] = "loop"]
  /\ UNCHANGED <<objects, owed, due, sleep, events, visits, history>>

\* A machine with something to do falls at most MaxLag behind; one that is
\* held or asleep for longer is as if it had been for MaxLag.
Busy(m) == pc[m] \in {"loop", "fire"} \/ (pc[m] = "select" /\ sleep[m] = 0)
Counts(m) == m \in Inside /\ owed[m] < MaxLag

\* The clock: handlers take time, and so do waits and pauses.
Tick ==
  /\ Inside # {}
  /\ \A m \in Inside : Busy(m) => owed[m] < MaxLag
  /\ owed' = [m \in Machines |-> IF Counts(m) THEN owed[m] + 1 ELSE owed[m]]
  /\ sleep' = [m \in Machines |->
                 IF pc[m] = "select" /\ sleep[m] > 0 THEN sleep[m] - 1
                 ELSE sleep[m]]
  /\ since' = [m \in Machines |-> [t \in Timers |->
                 IF Counts(m) /\ t \notin expired THEN since[m][t] + 1
                 ELSE since[m][t]]]
  /\ UNCHANGED <<objects, pc, due, events, visits, ran>>

Step(m) == Look(m) \/ Fire(m) \/ Wait(m) \/ WaitEnds(m)

TimersNext ==
  \/ Tick
  \/ \E m \in Machines :
       Enter(m) \/ Step(m) \/ Wakes(m) \/ Yield(m) \/ Resume(m)

TimersSpec == TimersInit /\ [][TimersNext]_timerVars

\* The control threads are scheduled and time passes.
FairTimers == TimersSpec /\ WF_timerVars(Tick) /\ \A m \in Machines : WF_timerVars(Step(m))

-----------------------------------------------------------------------------

\* The fields' types; a sleep is a time or Forever.
TimersTypeOK ==
  /\ time \in [Timers -> Int]
  /\ expired \subseteq Timers /\ just \subseteq Timers
  /\ pc \in [Machines -> {"out", "loop", "fire", "select", "held"}]
  /\ owed \in [Machines -> 0 .. MaxLag]
  /\ due \in [Machines -> SUBSET Timers]
  /\ sleep \in [Machines -> Nat \cup {Forever}]
  /\ events \in 0 .. MaxEvents /\ visits \in [Machines -> 0 .. MaxVisits]
  /\ ran \in [Machines -> SUBSET Timers]
  /\ since \in [Machines -> [Timers -> Int]]

\* No timer runs before its time: however late the loop looks, however long
\* handlers, pauses and waits take, a firing is paid for by a whole period of
\* this stay, and a reloading timer does not drift ahead of the clock.
NeverEarly ==
  \A m \in Machines, t \in Timers : pc[m] # "out" => since[m][t] >= 0

\* A timeout runs at most once in a stay, though it is reset, charged and
\* collected again and again.
TimeoutOnce ==
  \A m \in Machines : (due[m] \cap ran[m]) \subseteq Reload

\* A machine that stays in the state and is not held by a command comes to
\* run each of its timeouts, on every stay.
TimeoutRuns ==
  \A m \in Machines : \A t \in Timers \ Reload :
    pc[m] = "loop" ~> (t \in ran[m] \/ pc[m] \in {"out", "held"})
=============================================================================
