-------------------------- MODULE LiveSnifferProofs --------------------------
(***************************************************************************)
(* Proofs about LiveSniffer, for any number of client threads making any   *)
(* number of calls.                                                        *)
(***************************************************************************)
EXTENDS LiveSniffer, TLAPS

Places ==
  {"idle", "start", "publish", "offline", "check", "call", "wait", "reap",
   "except", "keep", "wrap", "answer", "dropping", "gone"}

(* What is Boolean.                                                        *)
Flags ==
  /\ started \in BOOLEAN /\ stop \in BOOLEAN /\ over \in BOOLEAN
  /\ taken \in BOOLEAN /\ got \in [Clients -> BOOLEAN]

(* The clients' own state has its types.                                   *)
ClientsOK ==
  /\ pc \in [Clients -> Places] 
  /\ answer \in [Clients -> {"none", "raised", "nothing", "list", "unstarted"}]
  /\ captures \in Nat

(* The lock is held by the client that is inside start(), and no other.    *)
LockExact == \A c \in Clients : pc[c] \in {"start", "publish"} <=> lock = c

(* A capture thread exists from the moment start() spawns it, which is     *)
(* before _live names it.                                                  *)
Publishing == \E c \in Clients : pc[c] = "publish"
SpawnedOnce ==
  /\ captures = IF started \/ Publishing THEN 1 ELSE 0
  /\ captures = 0 <=> thread = "none"
  /\ Publishing => ~started

(* What each place of the capture thread says about its closure.           *)
ThreadExact ==
  /\ over => thread \in {"over", "exited"}
  /\ outcome = "none" <=> thread \notin {"leaving", "over", "exited"}
  /\ Count > 0 => /\ kept <= Count
                  /\ thread \in {"none", "running", "reading"} => kept < Count

(* Whoever has taken the thread out of the sniffer has waited it out, or   *)
(* is about to.                                                            *)
TakenByOne ==
  taken => \/ thread \in {"exited", "stuck"}
           \/ \E c \in Clients : pc[c] \in {"reap", "dropping"}

(* Whatever holds a list, and whoever is past the wait, has it from a      *)
(* thread that has ended.                                                  *)
ListsAreFinal ==
  /\ list # "none" => thread = "exited"
  /\ results # None => thread = "exited" /\ outcome = "ok" /\ results = kept
  /\ \A c \in Clients :
       /\ got[c] \/ pc[c] \in {"wrap", "gone"} \/ answer[c] = "list" =>
            thread = "exited"
       /\ pc[c] = "reap" => taken /\ thread \in {"over", "exited"}
       /\ pc[c] \in {"dropping", "gone"} => taken

(* A thread that ended well and was taken has left its list, or is being   *)
(* reaped or dropped.                                                      *)
NotLost ==
  outcome = "ok" /\ taken =>
    \/ results # None
    \/ \E c \in Clients : pc[c] \in {"reap", "dropping", "gone"}

(* The inductive invariant.                                                *)
Typed == TypeOK /\ ClientsOK /\ Flags
Threads == LockExact /\ SpawnedOnce /\ ThreadExact
Collected == TakenByOne /\ ListsAreFinal /\ NotLost
IInv == Typed /\ Threads /\ Collected
-----------------------------------------------------------------------------
(* The flags stay Boolean.                                                 *)
LEMMA FlagsStep ==
  ASSUME Flags, Next
  PROVE  Flags'
<1> USE DEF Flags, async, rust, loop, clients
<1>1. ASSUME NEW c \in Clients,
             StartEnter(c) \/ StartRefused(c) \/ StartPublish(c)
      PROVE  Flags'
  BY <1>1, Zenon DEF StartEnter, StartRefused, StartPublish, Begins,
     BeginsHanded, LockFree, Ends
<1>2. ASSUME NEW c \in Clients,
             StartOpen(c)
      PROVE  Flags'
  BY <1>2, Zenon DEF StartOpen, Ends, Goes
<1>3. ASSUME NEW c \in Clients, NEW what \in {"join", "timed", "stop", "signal"},
             CallEnter(c, what)
      PROVE  Flags'
  BY <1>3, Zenon DEF CallEnter, Begins, BeginsHanded
<1>4. ASSUME NEW c \in Clients,
             CallOffline(c) \/ StopJoins(c)
      PROVE  Flags'
  BY <1>4, Zenon DEF CallOffline, StopJoins, Ends
<1>5. ASSUME NEW c \in Clients,
             Check(c) \/ CheckRefused(c) \/ LiveCallRefused(c)
      PROVE  Flags'
  BY <1>5, Zenon DEF Check, CheckRefused, LiveCallRefused, Goes, Ends,
     Answered
<1>6. ASSUME NEW c \in Clients,
             LiveCall(c)
      PROVE  Flags'
  BY <1>6, Zenon DEF LiveCall, Goes, Returns, TakenForWait
<1>7. ASSUME NEW c \in Clients,
             WaitOver(c) \/ WaitTimedOut(c) \/ WaitInterrupted(c)
      PROVE  Flags'
  BY <1>7, Zenon DEF WaitOver, WaitTimedOut, WaitInterrupted, Goes, Returns,
     Ends
<1>8. ASSUME NEW c \in Clients,
             Reap(c)
      PROVE  Flags'
  BY <1>8, Zenon DEF Reap, Finished, Returns, Goes
<1>9. ASSUME NEW c \in Clients,
             Except(c) \/ Keep(c) \/ Wrap(c) \/ Answer(c)
      PROVE  Flags'
  BY <1>9, Zenon DEF Except, Keep, Wrap, Answer, Ends, Goes, Answered
<1>10. ASSUME NEW c \in Clients,
             Results(c) \/ ResultsStored(c) \/ ResultsRefused(c)
      PROVE  Flags'
  BY <1>10, Zenon DEF Results, ResultsStored, ResultsRefused, AsksResults,
     BeginsHanded, Finished, Referenced
<1>11. ASSUME NEW c \in Clients,
             Drop(c) \/ Dropped(c)
      PROVE  Flags'
  BY <1>11, Zenon DEF Drop, Dropped, Begins, BeginsHanded, Goes,
     Unreferenced, Referenced
<1>12. CASE LoopStops \/ LoopReads \/ ReadNothing \/ ReadFiltered \/
          ReadFails
  BY <1>12, Zenon DEF LoopStops, LoopReads, ReadNothing, ReadFiltered,
     ReadFails
<1>13. CASE ReadAccepted
  BY <1>13, Zenon DEF ReadAccepted, accept
<1>14. CASE PrnReturns \/ PrnRaises \/ PrnStops
  BY <1>14, Zenon DEF PrnReturns, PrnRaises, PrnStops, Enough
<1>15. CASE PrnDrops
  BY <1>15, Zenon DEF PrnDrops, Unreferenced
<1>16. CASE Signal \/ Exit
  BY <1>16, Zenon DEF Signal, Exit, Signals
<1> QED
  BY <1>1, <1>2, <1>3, <1>4, <1>5, <1>6, <1>7, <1>8, <1>9, <1>10, <1>11,
     <1>12, <1>13, <1>14, <1>15, <1>16
     DEF Next, Calls, Proceeds, Capture

(* The fields keep their types.                                            *)
LEMMA TypedStep ==
  ASSUME Typed, Next
  PROVE  Typed'
<1> USE DEF Typed, Flags, TypeOK, ClientsOK, Places, None, async, rust, loop,
      clients
<1>0. Flags'
  BY FlagsStep
<1>1. ASSUME NEW c \in Clients,
             StartEnter(c) \/ StartRefused(c) \/ StartPublish(c)
      PROVE  Typed'
  BY <1>1, <1>0, SnifferAssumption DEF StartEnter, StartRefused,
     StartPublish, Begins, BeginsHanded, LockFree, Ends
<1>2. ASSUME NEW c \in Clients,
             StartOpen(c)
      PROVE  Typed'
  BY <1>2, <1>0, SnifferAssumption DEF StartOpen, Ends, Goes
<1>3. ASSUME NEW c \in Clients, NEW what \in {"join", "timed", "stop", "signal"},
             CallEnter(c, what)
      PROVE  Typed'
  BY <1>3, <1>0, SnifferAssumption DEF CallEnter, Begins, BeginsHanded
<1>4. ASSUME NEW c \in Clients,
             CallOffline(c) \/ StopJoins(c)
      PROVE  Typed'
  BY <1>4, <1>0, SnifferAssumption DEF CallOffline, StopJoins, Ends
<1>5. ASSUME NEW c \in Clients,
             Check(c) \/ CheckRefused(c) \/ LiveCallRefused(c)
      PROVE  Typed'
  BY <1>5, <1>0, SnifferAssumption DEF Check, CheckRefused, LiveCallRefused,
     Goes, Ends, Answered
<1>6. ASSUME NEW c \in Clients,
             LiveCall(c)
      PROVE  Typed'
  BY <1>6, <1>0, SnifferAssumption DEF LiveCall, Goes, Returns, TakenForWait
<1>7. ASSUME NEW c \in Clients,
             WaitOver(c) \/ WaitTimedOut(c) \/ WaitInterrupted(c)
      PROVE  Typed'
  BY <1>7, <1>0, SnifferAssumption DEF WaitOver, WaitTimedOut,
     WaitInterrupted, Goes, Returns, Ends
<1>8. ASSUME NEW c \in Clients,
             Reap(c)
      PROVE  Typed'
  BY <1>8, <1>0, SnifferAssumption DEF Reap, Finished, Returns, Goes
<1>9. ASSUME NEW c \in Clients,
             Except(c) \/ Keep(c) \/ Wrap(c) \/ Answer(c)
      PROVE  Typed'
  BY <1>9, <1>0, SnifferAssumption DEF Except, Keep, Wrap, Answer, Ends,
     Goes, Answered
<1>10. ASSUME NEW c \in Clients,
             Results(c) \/ ResultsStored(c) \/ ResultsRefused(c)
      PROVE  Typed'
  BY <1>10, <1>0, SnifferAssumption DEF Results, ResultsStored,
     ResultsRefused, AsksResults, BeginsHanded, Finished, Referenced
<1>11. ASSUME NEW c \in Clients,
             Drop(c) \/ Dropped(c)
      PROVE  Typed'
  BY <1>11, <1>0, SnifferAssumption DEF Drop, Dropped, Begins, BeginsHanded,
     Goes, Unreferenced, Referenced
<1>12. CASE LoopStops \/ LoopReads \/ ReadNothing \/ ReadFiltered \/
          ReadFails
  BY <1>12, <1>0, SnifferAssumption DEF LoopStops, LoopReads, ReadNothing,
     ReadFiltered, ReadFails
<1>13. CASE ReadAccepted
  BY <1>13, <1>0, SnifferAssumption DEF ReadAccepted, accept
<1>14. CASE PrnReturns \/ PrnRaises \/ PrnStops
  BY <1>14, <1>0, SnifferAssumption DEF PrnReturns, PrnRaises, PrnStops,
     Enough
<1>15. CASE PrnDrops
  BY <1>15, <1>0, SnifferAssumption DEF PrnDrops, Unreferenced
<1>16. CASE Signal \/ Exit
  BY <1>16, <1>0, SnifferAssumption DEF Signal, Exit, Signals
<1> QED
  BY <1>1, <1>2, <1>3, <1>4, <1>5, <1>6, <1>7, <1>8, <1>9, <1>10, <1>11,
     <1>12, <1>13, <1>14, <1>15, <1>16
     DEF Next, Calls, Proceeds, Capture

(* start() spawns one thread, and the thread goes its way.                 *)
LEMMA ThreadsStep ==
  ASSUME Typed, Threads, Next
  PROVE  Threads'
<1> USE DEF Typed, Threads, LockExact, SpawnedOnce, Publishing, ThreadExact,
      TypeOK, ClientsOK, Places, None, async, rust, loop, clients
<1>1. ASSUME NEW c \in Clients,
             StartEnter(c) \/ StartRefused(c) \/ StartPublish(c)
      PROVE  Threads'
  BY <1>1, SnifferAssumption DEF StartEnter, StartRefused, StartPublish,
     Begins, BeginsHanded, LockFree, Ends
<1>2. ASSUME NEW c \in Clients,
             StartOpen(c)
      PROVE  Threads'
  BY <1>2, SnifferAssumption DEF StartOpen, Ends, Goes
<1>3. ASSUME NEW c \in Clients, NEW what \in {"join", "timed", "stop", "signal"},
             CallEnter(c, what)
      PROVE  Threads'
  BY <1>3, SnifferAssumption DEF CallEnter, Begins, BeginsHanded
<1>4. ASSUME NEW c \in Clients,
             CallOffline(c) \/ StopJoins(c)
      PROVE  Threads'
  BY <1>4, SnifferAssumption DEF CallOffline, StopJoins, Ends
<1>5. ASSUME NEW c \in Clients,
             Check(c) \/ CheckRefused(c) \/ LiveCallRefused(c)
      PROVE  Threads'
  BY <1>5, SnifferAssumption DEF Check, CheckRefused, LiveCallRefused, Goes,
     Ends, Answered
<1>6. ASSUME NEW c \in Clients,
             LiveCall(c)
      PROVE  Threads'
  BY <1>6, SnifferAssumption DEF LiveCall, Goes, Returns, TakenForWait
<1>7. ASSUME NEW c \in Clients,
             WaitOver(c) \/ WaitTimedOut(c) \/ WaitInterrupted(c)
      PROVE  Threads'
  BY <1>7, SnifferAssumption DEF WaitOver, WaitTimedOut, WaitInterrupted,
     Goes, Returns, Ends
<1>8. ASSUME NEW c \in Clients,
             Reap(c)
      PROVE  Threads'
  BY <1>8, SnifferAssumption DEF Reap, Finished, Returns, Goes
<1>9. ASSUME NEW c \in Clients,
             Except(c) \/ Keep(c) \/ Wrap(c) \/ Answer(c)
      PROVE  Threads'
  BY <1>9, SnifferAssumption DEF Except, Keep, Wrap, Answer, Ends, Goes,
     Answered
<1>10. ASSUME NEW c \in Clients,
             Results(c) \/ ResultsStored(c) \/ ResultsRefused(c)
      PROVE  Threads'
  BY <1>10, SnifferAssumption DEF Results, ResultsStored, ResultsRefused,
     AsksResults, BeginsHanded, Finished, Referenced
<1>11. ASSUME NEW c \in Clients,
             Drop(c) \/ Dropped(c)
      PROVE  Threads'
  BY <1>11, SnifferAssumption DEF Drop, Dropped, Begins, BeginsHanded, Goes,
     Unreferenced, Referenced
<1>12. CASE LoopStops \/ LoopReads \/ ReadNothing \/ ReadFiltered \/
          ReadFails
  BY <1>12, SnifferAssumption DEF LoopStops, LoopReads, ReadNothing,
     ReadFiltered, ReadFails
<1>13. CASE ReadAccepted
  BY <1>13, SnifferAssumption DEF ReadAccepted, accept
<1>14. CASE PrnReturns \/ PrnRaises \/ PrnStops
  BY <1>14, SnifferAssumption DEF PrnReturns, PrnRaises, PrnStops, Enough
<1>15. CASE PrnDrops
  BY <1>15, SnifferAssumption DEF PrnDrops, Unreferenced
<1>16. CASE Signal \/ Exit
  BY <1>16, SnifferAssumption DEF Signal, Exit, Signals
<1> QED
  BY <1>1, <1>2, <1>3, <1>4, <1>5, <1>6, <1>7, <1>8, <1>9, <1>10, <1>11,
     <1>12, <1>13, <1>14, <1>15, <1>16
     DEF Next, Calls, Proceeds, Capture

(* The thread is taken by one, who waits it out and leaves its list.       *)
LEMMA CollectedStep ==
  ASSUME IInv, Next
  PROVE  Collected'
<1> USE DEF IInv, Typed, Flags, Threads, SpawnedOnce, ThreadExact, Collected,
      TakenByOne, ListsAreFinal, NotLost, TypeOK, ClientsOK, Places, None,
      async, rust, loop, clients
<1>1. ASSUME NEW c \in Clients,
             StartEnter(c) \/ StartRefused(c) \/ StartPublish(c)
      PROVE  Collected'
  BY <1>1 DEF StartEnter, StartRefused, StartPublish, Begins, BeginsHanded,
     LockFree, Ends
<1>2. ASSUME NEW c \in Clients,
             StartOpen(c)
      PROVE  Collected'
  <2>1. thread = "none"
    BY <1>2 DEF StartOpen, Ends, Goes, LockExact, Publishing
  <2>2. list' = "none" /\ UNCHANGED <<taken, results, outcome, kept, got>>
    BY <1>2 DEF StartOpen, Ends, Goes
  <2>3. TakenByOne' /\ NotLost'
    BY <1>2, <2>1, <2>2 DEF StartOpen, Ends, Goes
  <2>4. ListsAreFinal'
    BY <1>2, <2>1, <2>2 DEF StartOpen, Ends, Goes
  <2> QED
    BY <2>3, <2>4
<1>3. ASSUME NEW c \in Clients, NEW what \in {"join", "timed", "stop", "signal"},
             CallEnter(c, what)
      PROVE  Collected'
  BY <1>3 DEF CallEnter, Begins, BeginsHanded
<1>4. ASSUME NEW c \in Clients,
             CallOffline(c) \/ StopJoins(c)
      PROVE  Collected'
  BY <1>4 DEF CallOffline, StopJoins, Ends
<1>5. ASSUME NEW c \in Clients,
             Check(c) \/ CheckRefused(c) \/ LiveCallRefused(c)
      PROVE  Collected'
  BY <1>5 DEF Check, CheckRefused, LiveCallRefused, Goes, Ends, Answered
<1>6. ASSUME NEW c \in Clients,
             LiveCall(c)
      PROVE  Collected'
  BY <1>6 DEF LiveCall, Goes, Returns, TakenForWait
<1>7. ASSUME NEW c \in Clients,
             WaitOver(c) \/ WaitTimedOut(c) \/ WaitInterrupted(c)
      PROVE  Collected'
  BY <1>7 DEF WaitOver, WaitTimedOut, WaitInterrupted, Goes, Returns, Ends
<1>8. ASSUME NEW c \in Clients,
             Reap(c)
      PROVE  Collected'
  BY <1>8 DEF Reap, Finished, Returns, Goes
<1>9. ASSUME NEW c \in Clients,
             Except(c) \/ Keep(c) \/ Wrap(c) \/ Answer(c)
      PROVE  Collected'
  BY <1>9 DEF Except, Keep, Wrap, Answer, Ends, Goes, Answered
<1>10. ASSUME NEW c \in Clients,
             Results(c) \/ ResultsStored(c) \/ ResultsRefused(c)
      PROVE  Collected'
  BY <1>10 DEF Results, ResultsStored, ResultsRefused, AsksResults,
     BeginsHanded, Finished, Referenced
<1>11. ASSUME NEW c \in Clients,
             Drop(c) \/ Dropped(c)
      PROVE  Collected'
  BY <1>11 DEF Drop, Dropped, Begins, BeginsHanded, Goes, Unreferenced,
     Referenced
<1>12. CASE LoopStops \/ LoopReads \/ ReadNothing \/ ReadFiltered \/
          ReadFails
  BY <1>12 DEF LoopStops, LoopReads, ReadNothing, ReadFiltered, ReadFails
<1>13. CASE ReadAccepted
  BY <1>13 DEF ReadAccepted, accept
<1>14. CASE PrnReturns \/ PrnRaises \/ PrnStops
  BY <1>14 DEF PrnReturns, PrnRaises, PrnStops, Enough
<1>15. CASE PrnDrops
  BY <1>15 DEF PrnDrops, Unreferenced
<1>16. CASE Signal \/ Exit
  BY <1>16 DEF Signal, Exit, Signals
<1> QED
  BY <1>1, <1>2, <1>3, <1>4, <1>5, <1>6, <1>7, <1>8, <1>9, <1>10, <1>11,
     <1>12, <1>13, <1>14, <1>15, <1>16
     DEF Next, Calls, Proceeds, Capture

LEMMA Invariance == Spec => []IInv
<1>1. Init => IInv
  <2> SUFFICES ASSUME Init
               PROVE  IInv
    OBVIOUS
  <2> USE DEF Init
  <2>1. Typed
    <3>1. Flags
      BY Zenon DEF Flags
    <3> QED
      BY <3>1, SnifferAssumption DEF Typed, Flags, TypeOK, ClientsOK, Places, None
  <2>2. Threads
    BY SnifferAssumption
       DEF Threads, LockExact, SpawnedOnce, Publishing, ThreadExact
  <2>3. Collected
    BY DEF Collected, TakenByOne, ListsAreFinal, NotLost, None
  <2> QED
    BY <2>1, <2>2, <2>3 DEF IInv
<1>2. IInv /\ [Next]_vars => IInv'
  <2>1. IInv /\ Next => IInv'
    BY TypedStep, ThreadsStep, CollectedStep DEF IInv
  <2>2. IInv /\ UNCHANGED vars => IInv'
    BY DEF IInv, Typed, Flags, Threads, Collected, TypeOK, ClientsOK, LockExact,
           SpawnedOnce, Publishing, ThreadExact, TakenByOne, ListsAreFinal,
           NotLost, vars, async, rust, loop, clients
  <2> QED
    BY <2>1, <2>2
<1> QED
  BY <1>1, <1>2, PTL DEF Spec

(* The fields keep their types: in particular no thread holds the lock or  *)
(* the Rust object that is not a client, and no more frames are kept than  *)
(* were read.                                                              *)
THEOREM TypeCorrect == Spec => []TypeOK
<1>1. IInv => TypeOK
  BY DEF IInv, Typed
<1> QED
  BY <1>1, Invariance, PTL

(* However many threads call start(), together or again, one capture       *)
(* thread is spawned, and _live names it.                                  *)
THEOREM OneCaptureEver == Spec => []OneCapture
<1>1. IInv => OneCapture
  BY DEF IInv, Threads, SpawnedOnce, OneCapture
<1> QED
  BY <1>1, Invariance, PTL

(* No call answers with a list, and no Drop returns, before the capture    *)
(* thread has exited, whatever timed out, was refused or was interrupted.  *)
THEOREM ListsAfterExit == Spec => []JoinedMeansExited
<1>1. IInv => JoinedMeansExited
  BY DEF IInv, Collected, ListsAreFinal, JoinedMeansExited
<1> QED
  BY <1>1, Invariance, PTL

(* What a capture that ended well has kept can be collected, is in hand or *)
(* is stored, whole and within `count`, whichever calls raced for it.      *)
THEOREM CaptureNotLost == Spec => []NothingCapturedLost
<1>1. IInv => NothingCapturedLost
  BY DEF IInv, Typed, TypeOK, Threads, ThreadExact, Collected, ListsAreFinal,
         NotLost, NothingCapturedLost
<1> QED
  BY <1>1, Invariance, PTL
=============================================================================
