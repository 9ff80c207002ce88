----------------------------- MODULE SyncControl -----------------------------
(***************************************************************************)
(* The control protocol of a Sync object: the calls synchronize(),         *)
(* cancel(), suspend() and resume() of its client threads, the mutex       *)
(* syncMutex, and the worker threads that synchronize() creates            *)
(* (OneWaySync.cpp; TwoWaySync.cpp repeats it without the source calls).   *)
(*                                                                         *)
(* What doSynchronize() does with items is module OneWaySync; here it is   *)
(* reduced to what the callers can disturb: at every phase it replaces the *)
(* source plugin instance, without the mutex, and then works until the     *)
(* phase ends.  The callback syncFinished() is assumed not to call the     *)
(* Sync object again.                                                      *)
(***************************************************************************)
EXTENDS Integers, FiniteSets

CONSTANTS
  Clients,    \* threads of the application that call the Sync object
  Threads,    \* worker threads pthread_create() can hand out (a bound)
  Instances,  \* source plugin instances PluginManager can create (a bound)
  NumPhases,  \* phases added with addPhase()
  MaxCalls,   \* calls each client makes (a bound)
  None        \* no thread, no instance, nobody

ASSUME SyncControlAssumption ==
  /\ Clients \cap Threads = {}
  /\ None \notin Clients \cup Threads \cup Instances
  /\ Instances # {}
  /\ NumPhases \in Nat
  /\ MaxCalls \in Nat

VARIABLES
  mutex,           \* who holds syncMutex
  syncInProgress,
  threadCreated,
  cancelSync,
  syncThread,      \* the pthread_t of the last worker created
  pc,              \* where each client is
  calls,           \* calls each client has made
  tpc,             \* where each worker is
  phase,           \* phases the running doSynchronize() has completed
  result,          \* what each worker's doSynchronize() returned
  source,          \* the member pointer source
  oldSource,       \* the local oldSource of the running doSynchronize()
  live,            \* source instances that exist
  suspended,       \* the current source is suspended: getItem() blocks
  pointer,         \* the source pointer a client loaded for its call
  deadCall         \* history: a call went to an instance already freed, or to NULL

callVars   == <<pc, calls, pointer>>
sourceVars == <<source, oldSource, live, suspended>>
threadVars == <<threadCreated, syncThread, tpc, phase, result>>
vars == <<mutex, syncInProgress, cancelSync, callVars, sourceVars, threadVars,
          deadCall>>

Requests == {"cancel", "suspend", "resume"}
Results  == {"Ok", "Cancelled", "Fail"}

\* A worker inside doSynchronize(), or past it but before syncInProgress is cleared.
InRun == {"start", "replace", "free", "work", "clear"}

\* A client inside synchronize() that was accepted and has not created its worker.
Starting == {"accepted", "join", "create"}

-----------------------------------------------------------------------------
(* The object after its constructor and a successful init().               *)
Init ==
  /\ mutex = None
  /\ syncInProgress = FALSE
  /\ threadCreated = FALSE
  /\ cancelSync = FALSE
  /\ syncThread = None
  /\ pc = [c \in Clients |-> "idle"]
  /\ calls = [c \in Clients |-> 0]
  /\ tpc = [t \in Threads |-> "unborn"]
  /\ phase = 0
  /\ result = [t \in Threads |-> None]
  /\ source = CHOOSE i \in Instances : TRUE
  /\ oldSource = None
  /\ live = {source}
  /\ suspended = FALSE
  /\ pointer = [c \in Clients |-> None]
  /\ deadCall = FALSE

-----------------------------------------------------------------------------
(* Calls of the clients.                                                   *)

Enter(c) ==
  /\ pc[c] = "idle"
  /\ calls[c] < MaxCalls
  /\ mutex = None
  /\ calls' = [calls EXCEPT ![c] = @ + 1]

(* synchronize() while a run is in progress: the mutex is released and     *)
(* syncFinished(eSyncAlreadyInProgress) is called from the client's thread.*)
SynchronizeBusy(c) ==
  /\ Enter(c)
  /\ syncInProgress
  /\ UNCHANGED <<mutex, syncInProgress, cancelSync, pc, pointer, sourceVars,
                 threadVars, deadCall>>

\* Mutant: the test of syncInProgress is dropped.
AcceptWhileRunning(c) ==
  /\ Enter(c)
  /\ mutex' = c
  /\ syncInProgress' = TRUE
  /\ pc' = [pc EXCEPT ![c] = "accepted"]
  /\ UNCHANGED <<cancelSync, pointer, sourceVars, threadVars, deadCall>>

SynchronizeAccept(c) ==
  /\ Enter(c)
  /\ ~syncInProgress
  /\ mutex' = c
  /\ syncInProgress' = TRUE
  /\ pc' = [pc EXCEPT ![c] = "accepted"]
  /\ UNCHANGED <<cancelSync, pointer, sourceVars, threadVars, deadCall>>

(* threadCreated is read with the mutex held, but written without it.      *)
CheckThread(c) ==
  /\ pc[c] = "accepted"
  /\ pc' = [pc EXCEPT ![c] = IF threadCreated THEN "join" ELSE "create"]
  /\ UNCHANGED <<mutex, syncInProgress, cancelSync, calls, pointer, sourceVars,
                 threadVars, deadCall>>

(* pthread_join() with the mutex held.  The pthread_t may be handed out    *)
(* again.                                                                  *)
Join(c) ==
  /\ pc[c] = "join"
  /\ tpc[syncThread] = "exited"
  /\ tpc' = [tpc EXCEPT ![syncThread] = "unborn"]
  /\ pc' = [pc EXCEPT ![c] = "create"]
  /\ UNCHANGED <<mutex, syncInProgress, cancelSync, calls, pointer, sourceVars,
                 threadCreated, syncThread, phase, result, deadCall>>

CreateThread(c) ==
  /\ pc[c] = "create"
  /\ \E t \in Threads :
       /\ tpc[t] = "unborn"
       /\ tpc' = [tpc EXCEPT ![t] = "start"]
       /\ result' = [result EXCEPT ![t] = None]
       /\ syncThread' = t
  /\ mutex' = None
  /\ pc' = [pc EXCEPT ![c] = "mark"]
  /\ UNCHANGED <<syncInProgress, cancelSync, calls, pointer, sourceVars,
                 threadCreated, phase, deadCall>>

(* The assignment after pthread_mutex_unlock().                            *)
MarkCreated(c) ==
  /\ pc[c] = "mark"
  /\ threadCreated' = TRUE
  /\ pc' = [pc EXCEPT ![c] = "idle"]
  /\ UNCHANGED <<mutex, syncInProgress, cancelSync, calls, pointer, sourceVars,
                 syncThread, tpc, phase, result, deadCall>>

(* cancel(), suspend(), resume() when nothing runs: eCancelNotInProgress,  *)
(* eSuspendNotInProgress, eResumeNotSuspended.                             *)
RequestRefused(c) ==
  /\ Enter(c)
  /\ ~syncInProgress
  /\ UNCHANGED <<mutex, syncInProgress, cancelSync, pc, pointer, sourceVars,
                 threadVars, deadCall>>

(* ... and when a run is in progress: the flag is set and the pointer is   *)
(* loaded; the call through it is the next step.                           *)
RequestAccept(c, request) ==
  /\ Enter(c)
  /\ syncInProgress
  /\ mutex' = c
  /\ cancelSync' = (cancelSync \/ request = "cancel")
  /\ pointer' = [pointer EXCEPT ![c] = source]
  /\ pc' = [pc EXCEPT ![c] = request]
  /\ UNCHANGED <<syncInProgress, sourceVars, threadVars, deadCall>>

(* source->cancel(), ->suspend() or ->resume(); a plugin may not support   *)
(* it, and then nothing changes.  A call through a dead pointer is recorded*)
(* and assumed to do nothing else.                                         *)
CallSource(c) ==
  /\ pc[c] \in Requests
  /\ IF pointer[c] \in live
     THEN /\ \/ suspended' = (pc[c] = "suspend" /\ pointer[c] = source)
             \/ suspended' = suspended
          /\ UNCHANGED deadCall
     ELSE /\ deadCall' = TRUE
          /\ UNCHANGED suspended
  /\ mutex' = None
  /\ pointer' = [pointer EXCEPT ![c] = None]
  /\ pc' = [pc EXCEPT ![c] = "idle"]
  /\ UNCHANGED <<syncInProgress, cancelSync, calls, source, oldSource, live,
                 threadVars>>

-----------------------------------------------------------------------------
(* The worker: threadSync() and the skeleton of doSynchronize().           *)

Return(t, res) ==
  /\ tpc' = [tpc EXCEPT ![t] = "clear"]
  /\ result' = [result EXCEPT ![t] = res]

Goto(t, label) ==
  /\ tpc' = [tpc EXCEPT ![t] = label]
  /\ UNCHANGED result

(* The storage fails to initialize, there is no phase, or a phase begins.  *)
StartRun(t) ==
  /\ tpc[t] = "start"
  /\ \/ Return(t, "Fail")
     \/ NumPhases = 0 /\ Return(t, "Ok")
     \/ NumPhases > 0 /\ Goto(t, "replace")
  /\ phase' = 0
  /\ UNCHANGED <<mutex, syncInProgress, cancelSync, callVars, sourceVars,
                 threadCreated, syncThread, deadCall>>

(* source = getPluginInstance(...): a new instance, or NULL.               *)
ReplaceSource(t) ==
  /\ tpc[t] = "replace"
  /\ oldSource' = source
  /\ \E new \in (Instances \ live) \cup {None} :
       /\ source' = new
       /\ live' = live \cup ({new} \ {None})
  /\ suspended' = FALSE
  /\ Goto(t, "free")
  /\ UNCHANGED <<mutex, syncInProgress, cancelSync, callVars, threadCreated,
                 syncThread, phase, deadCall>>

\* Mutant: the NULL test comes before freePluginInstance(oldSource).
TestBeforeFree(t) ==
  /\ tpc[t] = "free"
  /\ oldSource' = None
  /\ \/ Return(t, "Fail") /\ UNCHANGED live
     \/ source # None /\ Goto(t, "work") /\ live' = live \ {oldSource}
  /\ UNCHANGED <<mutex, syncInProgress, cancelSync, callVars, source, suspended,
                 threadCreated, syncThread, phase, deadCall>>

(* freePluginInstance(oldSource), then the NULL test and source->init().   *)
FreeOldSource(t) ==
  /\ tpc[t] = "free"
  /\ live' = live \ {oldSource}
  /\ oldSource' = None
  /\ \/ Return(t, "Fail")
     \/ source # None /\ Goto(t, "work")
  /\ UNCHANGED <<mutex, syncInProgress, cancelSync, callVars, source, suspended,
                 threadCreated, syncThread, phase, deadCall>>

\* Mutant: one phase too many.
EndPhaseTooLate(t) ==
  /\ tpc[t] = "work"
  /\ ~suspended
  /\ \/ Return(t, "Fail") /\ UNCHANGED phase
     \/ cancelSync /\ Return(t, "Cancelled") /\ UNCHANGED phase
     \/ /\ ~cancelSync
        /\ phase' = phase + 1
        /\ IF phase' <= NumPhases THEN Goto(t, "replace") ELSE Return(t, "Ok")
  /\ UNCHANGED <<mutex, syncInProgress, cancelSync, callVars, sourceVars,
                 threadCreated, syncThread, deadCall>>

(* The phase ends: an error, CHECK_CANCEL, the next phase or the last one. *)
(* While the source is suspended getItem() blocks.                         *)
EndPhase(t) ==
  /\ tpc[t] = "work"
  /\ ~suspended
  /\ \/ Return(t, "Fail") /\ UNCHANGED phase
     \/ cancelSync /\ Return(t, "Cancelled") /\ UNCHANGED phase
     \/ /\ ~cancelSync
        /\ phase' = phase + 1
        /\ IF phase' < NumPhases THEN Goto(t, "replace") ELSE Return(t, "Ok")
  /\ UNCHANGED <<mutex, syncInProgress, cancelSync, callVars, sourceVars,
                 threadCreated, syncThread, deadCall>>

\* Mutant: the flag is cleared only after a run that did not fail.
ClearUnlessFailed(t) ==
  /\ tpc[t] = "clear"
  /\ mutex = None
  /\ syncInProgress' = (result[t] = "Fail")
  /\ tpc' = [tpc EXCEPT ![t] = "callback"]
  /\ UNCHANGED <<mutex, cancelSync, callVars, sourceVars, threadCreated,
                 syncThread, phase, result, deadCall>>

ClearInProgress(t) ==
  /\ tpc[t] = "clear"
  /\ mutex = None
  /\ syncInProgress' = FALSE
  /\ tpc' = [tpc EXCEPT ![t] = "callback"]
  /\ UNCHANGED <<mutex, cancelSync, callVars, sourceVars, threadCreated,
                 syncThread, phase, result, deadCall>>

\* Mutant: syncFinished(res) is called with the mutex held.
ReportUnderLock(t) ==
  /\ tpc[t] = "callback"
  /\ mutex = None
  /\ tpc' = [tpc EXCEPT ![t] = "exited"]
  /\ UNCHANGED <<mutex, syncInProgress, cancelSync, callVars, sourceVars,
                 threadCreated, syncThread, phase, result, deadCall>>

(* syncFinished(res) runs in the worker, which then ends.                  *)
ReportFinished(t) ==
  /\ tpc[t] = "callback"
  /\ tpc' = [tpc EXCEPT ![t] = "exited"]
  /\ UNCHANGED <<mutex, syncInProgress, cancelSync, callVars, sourceVars,
                 threadCreated, syncThread, phase, result, deadCall>>

-----------------------------------------------------------------------------
(* What a client does once it is inside a call, and the worker's steps.    *)
ClientStep(c) ==
  \/ CheckThread(c)
  \/ Join(c)
  \/ CreateThread(c)
  \/ MarkCreated(c)
  \/ CallSource(c)

WorkerStep(t) ==
  \/ StartRun(t)
  \/ ReplaceSource(t)
  \/ FreeOldSource(t)
  \/ EndPhase(t)
  \/ ClearInProgress(t)
  \/ ReportFinished(t)

NewCall(c) ==
  \/ SynchronizeBusy(c)
  \/ SynchronizeAccept(c)
  \/ RequestRefused(c)
  \/ \E request \in Requests : RequestAccept(c, request)

Next ==
  \/ \E c \in Clients : NewCall(c) \/ ClientStep(c)
  \/ \E t \in Threads : WorkerStep(t)

Spec == Init /\ [][Next]_vars

(* The scheduler runs every thread that can run: a client inside a call    *)
(* and a worker.  Nothing makes a client call.                             *)
FairSpec ==
  /\ Spec
  /\ \A c \in Clients : WF_vars(ClientStep(c))
  /\ \A t \in Threads : WF_vars(WorkerStep(t))

-----------------------------------------------------------------------------
TypeOK ==
  /\ mutex \in Clients \cup {None}
  /\ syncInProgress \in BOOLEAN
  /\ threadCreated \in BOOLEAN
  /\ cancelSync \in BOOLEAN
  /\ syncThread \in Threads \cup {None}
  /\ pc \in [Clients -> {"idle", "mark"} \cup Starting \cup Requests]
  /\ calls \in [Clients -> 0..MaxCalls]
  /\ tpc \in [Threads -> {"unborn", "callback", "exited"} \cup InRun]
  /\ phase \in 0..NumPhases
  /\ result \in [Threads -> Results \cup {None}]
  /\ source \in Instances \cup {None}
  /\ oldSource \in Instances \cup {None}
  /\ live \subseteq Instances
  /\ suspended \in BOOLEAN
  /\ pointer \in [Clients -> Instances \cup {None}]
  /\ deadCall \in BOOLEAN

(* However the calls interleave, one synchronization runs at a time: no two*)
(* workers are inside doSynchronize(), and no worker is while a client is  *)
(* between accepting a synchronize() and creating its worker.  The engine  *)
(* shares indexDB, the queues and the storage without a lock on this.      *)
SingleRun ==
  /\ \A t, u \in Threads : tpc[t] \in InRun /\ tpc[u] \in InRun => t = u
  /\ \A c, d \in Clients : pc[c] \in Starting /\ pc[d] \in Starting => c = d
  /\ \A t \in Threads, c \in Clients : ~(tpc[t] \in InRun /\ pc[c] \in Starting)

(* syncInProgress, which decides what every call answers, is set exactly   *)
(* while a run is being started or has not been given up by its worker.    *)
FlagMatchesRun ==
  syncInProgress <=> \/ \E t \in Threads : tpc[t] \in InRun
                     \/ \E c \in Clients : pc[c] \in Starting

(* The source instances alive are those the object points to (none leaks   *)
(* when a run fails half-way), and the worker never works on a freed one.  *)
SourcesOwned ==
  /\ live = {source, oldSource} \ {None}
  /\ \A t \in Threads : tpc[t] = "work" => source \in live
  /\ oldSource # None => /\ \E t \in Threads : tpc[t] = "free"
                          /\ source # oldSource

(* A call of cancel(), suspend() or resume() reaches an instance that      *)
(* exists.                                                                 *)
NoDeadCall == ~deadCall

(* Every call returns, although synchronize() joins the previous worker    *)
(* with the mutex held; and every accepted synchronize() reports           *)
(* syncFinished(), unless its source stays suspended.                      *)
CallsReturn ==
  /\ \A c \in Clients : pc[c] # "idle" ~> pc[c] = "idle"
  /\ \A c \in Clients : pc[c] \in Starting ~> \E t \in Threads : tpc[t] \in InRun
  /\ \A t \in Threads : tpc[t] \in InRun ~> tpc[t] = "exited" \/ suspended
=============================================================================
