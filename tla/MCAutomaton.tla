----------------------------- MODULE MCAutomaton -----------------------------
(* The instance of Automaton that TLC explores: two states that lead into   *)
(* each other, one that waits for an event or a timer, a stop state that    *)
(* may send a packet, a final and an error state.                           *)
EXTENDS Automaton, TLC

MCStates == {"spin", "back", "wait", "bye", "done", "bad"}
\* The body of spin may lead back into it, a round without a look at cmdin; the
\* stop state's body may go to the end.
MCJumps ==
  [s \in MCStates |->
     CASE s = "spin" -> {"spin"} [] s = "bye" -> {"done"} [] OTHER -> {}]
MCImmediate ==
  [s \in MCStates |->
     CASE s = "spin" -> {"back"} [] s = "back" -> {"spin", "wait"}
       [] s = "bye" -> {"done"} [] OTHER -> {}]
MCEvents ==
  [s \in MCStates |-> IF s = "wait" THEN {"bad", "done"} ELSE {}]
MCTimeouts == [s \in MCStates |-> IF s = "wait" THEN {"spin"} ELSE {}]
\* One thread uses the machine, another starts or stops it once.
MCApi == "c1" :> Calls @@ "c2" :> {"stop", "forcestop", "start"}
MCMaxCalls == "c1" :> 2 @@ "c2" :> 1
==============================================================================
