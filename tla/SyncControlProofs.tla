-------------------------- MODULE SyncControlProofs --------------------------
(***************************************************************************)
(* Proofs that the safety properties of SyncControl hold for any number of *)
(* clients, workers, source instances, phases and calls.                   *)
(*                                                                         *)
(* The inductive invariant is little more than the conjunction of the      *)
(* properties: a synchronize() is accepted only while syncInProgress is    *)
(* FALSE, which by FlagMatchesRun means that nobody runs or starts a run   *)
(* (SingleRun), and a run alone moves oldSource (SourcesOwned) and phase   *)
(* (PhaseInRange).  The mutex only makes the test and the assignment of    *)
(* the flag one step.                                                      *)
(***************************************************************************)
EXTENDS SyncControl, TLAPS

\* A phase that has begun is one of the NumPhases phases.
PhaseInRange ==
  \A t \in Threads : tpc[t] \in {"replace", "free", "work"} => phase < NumPhases

IInv ==
  /\ TypeOK
  /\ SingleRun
  /\ FlagMatchesRun
  /\ SourcesOwned
  /\ PhaseInRange

USE SyncControlAssumption DEF SyncControlAssumption

-----------------------------------------------------------------------------
(* The invariant holds of the object init() has returned eInitOk for.      *)
LEMMA InitIInv == Init => IInv
  <1> SUFFICES ASSUME Init PROVE IInv
    OBVIOUS
  <1> USE DEF Init, InRun, Starting, Requests, Results
  <1>1. source \in Instances
    OBVIOUS
  <1>2. TypeOK
    <2>1. /\ pc \in [Clients -> {"idle", "mark"} \cup Starting \cup Requests]
          /\ calls \in [Clients -> 0..MaxCalls]
          /\ tpc \in [Threads -> {"unborn", "callback", "exited"} \cup InRun]
      OBVIOUS
    <2>2. /\ result \in [Threads -> Results \cup {None}]
          /\ pointer \in [Clients -> Instances \cup {None}]
      OBVIOUS
    <2>3. phase \in 0..NumPhases /\ live \subseteq Instances
      BY <1>1
    <2>4. /\ mutex \in Clients \cup {None} /\ syncThread \in Threads \cup {None}
          /\ source \in Instances \cup {None} /\ oldSource \in Instances \cup {None}
      BY <1>1
    <2>5. {syncInProgress, threadCreated, cancelSync, suspended, deadCall}
            \subseteq BOOLEAN
      OBVIOUS
    <2>6. QED
      BY <2>1, <2>2, <2>3, <2>4, <2>5 DEF TypeOK
  <1>3. SingleRun /\ FlagMatchesRun
    BY DEF SingleRun, FlagMatchesRun
  <1>4. SourcesOwned /\ PhaseInRange
    BY <1>1 DEF SourcesOwned, PhaseInRange
  <1>5. QED
    BY <1>2, <1>3, <1>4 DEF IInv

-----------------------------------------------------------------------------
(* Every variable keeps its range, whatever the interleaving.              *)
LEMMA TypeStep == IInv /\ [Next]_vars => TypeOK'
  <1> SUFFICES ASSUME TypeOK, PhaseInRange, [Next]_vars PROVE TypeOK'
    BY DEF IInv
  <1> USE DEF TypeOK, Starting, Requests, InRun, Results, callVars, sourceVars, threadVars
  <1>1. ASSUME NEW c \in Clients, NewCall(c) PROVE TypeOK'
    <2>1. CASE SynchronizeBusy(c)
      BY <2>1 DEF SynchronizeBusy, Enter
    <2>2. CASE SynchronizeAccept(c)
      <3>1. pc' \in [Clients -> {"idle", "mark"} \cup Starting \cup Requests]
        BY <2>2 DEF SynchronizeAccept
      <3>2. calls' \in [Clients -> 0..MaxCalls]
        BY <2>2 DEF SynchronizeAccept, Enter
      <3>3. QED
        BY <2>2, <3>1, <3>2 DEF SynchronizeAccept
    <2>3. CASE RequestRefused(c)
      BY <2>3 DEF RequestRefused, Enter
    <2>4. CASE \E request \in Requests : RequestAccept(c, request)
      <3>1. PICK request \in Requests : RequestAccept(c, request)
        BY <2>4
      <3>2. calls' \in [Clients -> 0..MaxCalls]
        BY <3>1 DEF RequestAccept, Enter
      <3>3. pc' \in [Clients -> {"idle", "mark"} \cup Starting \cup Requests]
        BY <3>1 DEF RequestAccept
      <3>4. QED
        BY <3>1, <3>2, <3>3 DEF RequestAccept
    <2>5. QED
      BY <1>1, <2>1, <2>2, <2>3, <2>4 DEF NewCall
  <1>2. ASSUME NEW c \in Clients, ClientStep(c) PROVE TypeOK'
    <2>1. CASE CheckThread(c)
      BY <2>1 DEF CheckThread
    <2>2. CASE Join(c)
      BY <2>2 DEF Join
    <2>3. CASE CreateThread(c)
      BY <2>3 DEF CreateThread
    <2>4. CASE MarkCreated(c)
      BY <2>4 DEF MarkCreated
    <2>5. CASE CallSource(c)
      BY <2>5 DEF CallSource
    <2>6. QED
      BY <1>2, <2>1, <2>2, <2>3, <2>4, <2>5 DEF ClientStep
  <1>3. ASSUME NEW t \in Threads, WorkerStep(t) PROVE TypeOK'
    <2>1. CASE StartRun(t)
      BY <2>1 DEF StartRun, Return, Goto
    <2>2. CASE ReplaceSource(t)
      BY <2>2 DEF ReplaceSource, Goto
    <2>3. CASE FreeOldSource(t)
      BY <2>3 DEF FreeOldSource, Return, Goto
    <2>4. CASE EndPhase(t)
      <3>1. phase < NumPhases
        BY <2>4 DEF EndPhase, PhaseInRange
      <3>2. phase' \in 0..NumPhases
        BY <2>4, <3>1 DEF EndPhase
      <3>3. /\ tpc' \in [Threads -> {"unborn", "callback", "exited"} \cup InRun]
            /\ result' \in [Threads -> Results \cup {None}]
        BY <2>4 DEF EndPhase, Return, Goto
      <3>4. QED
        BY <2>4, <3>2, <3>3 DEF EndPhase
    <2>5. CASE ClearInProgress(t)
      BY <2>5 DEF ClearInProgress
    <2>6. CASE ReportFinished(t)
      BY <2>6 DEF ReportFinished
    <2>7. QED
      BY <1>3, <2>1, <2>2, <2>3, <2>4, <2>5, <2>6 DEF WorkerStep
  <1>4. CASE UNCHANGED vars
    BY <1>4 DEF vars
  <1>5. QED
    BY <1>1, <1>2, <1>3, <1>4 DEF Next

-----------------------------------------------------------------------------
(* One run at a time, and the flag that says so, are kept by every step.   *)
LEMMA RunStep == IInv /\ [Next]_vars => SingleRun' /\ FlagMatchesRun'
  <1> SUFFICES ASSUME TypeOK, SingleRun, FlagMatchesRun, [Next]_vars
               PROVE  SingleRun' /\ FlagMatchesRun'
    BY DEF IInv
  <1> USE DEF TypeOK, SingleRun, FlagMatchesRun, Starting, Requests, InRun,
              callVars, sourceVars, threadVars
  <1>1. ASSUME NEW c \in Clients, NewCall(c)
        PROVE  SingleRun' /\ FlagMatchesRun'
    <2>1. CASE SynchronizeBusy(c)
      BY <2>1 DEF SynchronizeBusy, Enter
    <2>2. CASE SynchronizeAccept(c)
      BY <2>2 DEF SynchronizeAccept, Enter
    <2>3. CASE RequestRefused(c)
      BY <2>3 DEF RequestRefused, Enter
    <2>4. CASE \E request \in Requests : RequestAccept(c, request)
      BY <2>4 DEF RequestAccept, Enter
    <2>5. QED
      BY <1>1, <2>1, <2>2, <2>3, <2>4 DEF NewCall
  <1>2. ASSUME NEW c \in Clients, ClientStep(c)
        PROVE  SingleRun' /\ FlagMatchesRun'
    <2>1. CASE CheckThread(c)
      BY <2>1 DEF CheckThread
    <2>2. CASE Join(c)
      BY <2>2 DEF Join
    <2>3. CASE CreateThread(c)
      BY <2>3 DEF CreateThread
    <2>4. CASE MarkCreated(c)
      BY <2>4 DEF MarkCreated
    <2>5. CASE CallSource(c)
      BY <2>5 DEF CallSource
    <2>6. QED
      BY <1>2, <2>1, <2>2, <2>3, <2>4, <2>5 DEF ClientStep
  <1>3. ASSUME NEW t \in Threads, WorkerStep(t)
        PROVE  SingleRun' /\ FlagMatchesRun'
    <2>1. CASE StartRun(t)
      BY <2>1 DEF StartRun, Return, Goto
    <2>2. CASE ReplaceSource(t)
      BY <2>2 DEF ReplaceSource, Goto
    <2>3. CASE FreeOldSource(t)
      BY <2>3 DEF FreeOldSource, Return, Goto
    <2>4. CASE EndPhase(t)
      BY <2>4 DEF EndPhase, Return, Goto
    <2>5. CASE ClearInProgress(t)
      BY <2>5 DEF ClearInProgress
    <2>6. CASE ReportFinished(t)
      BY <2>6 DEF ReportFinished
    <2>7. QED
      BY <1>3, <2>1, <2>2, <2>3, <2>4, <2>5, <2>6 DEF WorkerStep
  <1>4. CASE UNCHANGED vars
    BY <1>4 DEF vars
  <1>5. QED
    BY <1>1, <1>2, <1>3, <1>4 DEF Next

-----------------------------------------------------------------------------
(* Clients never touch the source pointers or the phase count; of the      *)
(* worker's locations they change only "exited" and "unborn" to "unborn"   *)
(* and "start".                                                            *)
LEMMA ClientsLeaveSources ==
  ASSUME TypeOK, NEW c \in Clients, NewCall(c) \/ ClientStep(c)
  PROVE  /\ UNCHANGED <<source, oldSource, live, phase>>
         /\ \A t \in Threads :
              \A at \in {"replace", "free", "work"} : tpc'[t] = at <=> tpc[t] = at
  <1> USE DEF TypeOK, InRun, callVars, sourceVars, threadVars
  <1>1. CASE NewCall(c)
    BY <1>1 DEF NewCall, SynchronizeBusy, SynchronizeAccept, RequestRefused, RequestAccept
  <1>2. CASE ClientStep(c)
    BY <1>2 DEF ClientStep, CheckThread, Join, CreateThread, MarkCreated, CallSource
  <1>3. QED
    BY <1>1, <1>2

(* The instances alive stay those the object points to, and a phase that   *)
(* has begun stays one of the defined ones.                                *)
LEMMA SourceStep == IInv /\ [Next]_vars => SourcesOwned' /\ PhaseInRange'
  <1> SUFFICES ASSUME TypeOK, SingleRun, SourcesOwned, PhaseInRange, [Next]_vars
               PROVE  SourcesOwned' /\ PhaseInRange'
    BY DEF IInv
  <1>1. ASSUME NEW c \in Clients, NewCall(c) \/ ClientStep(c)
        PROVE  SourcesOwned' /\ PhaseInRange'
    BY <1>1, ClientsLeaveSources DEF SourcesOwned, PhaseInRange
  <1>2. ASSUME NEW t \in Threads, WorkerStep(t)
        PROVE  SourcesOwned' /\ PhaseInRange'
    <2> USE DEF TypeOK, SingleRun, SourcesOwned, PhaseInRange, InRun,
                callVars, sourceVars, threadVars
    <2>1. CASE StartRun(t)
      BY <2>1 DEF StartRun, Return, Goto
    <2>2. CASE ReplaceSource(t)
      <3>1. oldSource = None
        BY <2>2 DEF ReplaceSource
      <3>2. PICK new \in (Instances \ live) \cup {None} :
              source' = new /\ live' = live \cup ({new} \ {None})
        BY <2>2 DEF ReplaceSource
      <3>3. live' = {source', oldSource'} \ {None}
        BY <2>2, <3>1, <3>2 DEF ReplaceSource
      <3>4. oldSource' # None => source' # oldSource'
        BY <2>2, <3>1, <3>2 DEF ReplaceSource
      <3>5. QED
        BY <2>2, <3>3, <3>4 DEF ReplaceSource, Goto
    <2>3. CASE FreeOldSource(t)
      <3>1. live' = {source'} \ {None}
        BY <2>3 DEF FreeOldSource
      <3>2. QED
        BY <2>3, <3>1 DEF FreeOldSource, Return, Goto
    <2>4. CASE EndPhase(t)
      BY <2>4 DEF EndPhase, Return, Goto
    <2>5. CASE ClearInProgress(t)
      BY <2>5 DEF ClearInProgress
    <2>6. CASE ReportFinished(t)
      BY <2>6 DEF ReportFinished
    <2>7. QED
      BY <1>2, <2>1, <2>2, <2>3, <2>4, <2>5, <2>6 DEF WorkerStep
  <1>3. CASE UNCHANGED vars
    BY <1>3 DEF vars, SourcesOwned, PhaseInRange, sourceVars, threadVars
  <1>4. QED
    BY <1>1, <1>2, <1>3 DEF Next

-----------------------------------------------------------------------------
(* The inductive invariant holds in every reachable state.                 *)
THEOREM Inductive == Spec => []IInv
  <1>1. IInv /\ [Next]_vars => IInv'
    BY TypeStep, RunStep, SourceStep DEF IInv
  <1>2. QED
    BY InitIInv, <1>1, PTL DEF Spec

(* Every variable keeps its range; in particular the phase count never     *)
(* passes the number of phases of doSynchronize()'s loop.                  *)
THEOREM TypeCorrect == Spec => []TypeOK
  <1>1. IInv => TypeOK
    BY DEF IInv
  <1>2. QED
    BY Inductive, <1>1, PTL

(* At most one doSynchronize() at a time, for any number of clients.       *)
THEOREM OneRunAtATime == Spec => []SingleRun
  <1>1. IInv => SingleRun
    BY DEF IInv
  <1>2. QED
    BY Inductive, <1>1, PTL

(* syncInProgress is set exactly while a run is under way.                 *)
THEOREM FlagIsExact == Spec => []FlagMatchesRun
  <1>1. IInv => FlagMatchesRun
    BY DEF IInv
  <1>2. QED
    BY Inductive, <1>1, PTL

(* No source instance leaks and the worker never works on a freed one.     *)
THEOREM NoSourceLeak == Spec => []SourcesOwned
  <1>1. IInv => SourcesOwned
    BY DEF IInv
  <1>2. QED
    BY Inductive, <1>1, PTL
=============================================================================
