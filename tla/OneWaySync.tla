------------------------------ MODULE OneWaySync ------------------------------
(***************************************************************************)
(* The one-way synchronization engine: what OneWaySync::doSynchronize()    *)
(* does to the storage when items stream in from the source, storage calls *)
(* fail half-way, the source breaks off, cancel() arrives at any moment,   *)
(* and synchronize() is called again on the same object.                   *)
(*                                                                         *)
(* An item is a function from field names to values; field "key" stands    *)
(* for the eKey fields, the others for the eConflict fields, and Blank for *)
(* a field that is absent.  The source has one item per slot and may       *)
(* deliver the slots in any order.  Storage ids are opaque.  The storage is*)
(* changed by nothing but this engine, and the source only between runs.   *)
(* Reading the storage may break off: its iterators answer a read error as *)
(* they answer the end, with NULL.                                         *)
(* That runs do not overlap is SingleRun of module SyncControl.            *)
(***************************************************************************)
EXTENDS Integers, FiniteSets, Sequences

CONSTANTS
  Contacts,     \* items the source can hold
  Blank,        \* the value of an absent field
  Slots,        \* positions in the source (a bound on its size)
  Ids,          \* ids of the storage (its capacity, a bound)
  Phases,       \* the fields each phase ignores: a sequence of sets
  BatchSize,    \* parameter "batch_size"
  MaxInitial,   \* items in the storage at first (a bound)
  MaxRuns       \* calls of synchronize() (a bound)

ASSUME OneWaySyncAssumption ==
  /\ \A c \in Contacts : "key" \in DOMAIN c
  /\ Phases \in Seq(SUBSET UNION {DOMAIN c : c \in Contacts})
  /\ \A p \in DOMAIN Phases : "key" \notin Phases[p]
  /\ Ids \subseteq Nat /\ IsFiniteSet(Ids) /\ IsFiniteSet(Slots)
  /\ BatchSize \in Nat /\ MaxInitial \in Nat /\ MaxRuns \in Nat

VARIABLES
  storage,      \* items by id: the address book
  src,          \* items by slot: what the source holds during this run
  pc,           \* where doSynchronize() is; "idle" when it does not run
  phase,        \* the phase it is in
  pending,      \* slots getItem() has not delivered in this phase
  index,        \* indexDB: items and statuses by id
  toAdd,        \* itemsToBeAdded
  toModify,     \* itemsToBeModified
  stats,        \* globalStats
  dbError, inputError, cancelSync,
  result,       \* what doSynchronize() returned last
  runs,         \* calls of synchronize() so far
  begun,        \* history: the storage when the run began
  clean,        \* history: both queues were empty when the run began
  unread,       \* history: the entries the index of this phase was read without
  cut           \* history: in some phase of this run there were such entries

queueVars == <<toAdd, toModify>>
runVars   == <<src, result, runs, begun, clean>>
readVars  == <<unread, cut>>
vars == <<storage, pc, phase, pending, index, queueVars, stats,
          dbError, inputError, cancelSync, runVars, readVars>>

Ok       == {"OkWithDataChange", "OkWithoutDataChange"}
Results  == Ok \cup {"Cancelled", "Fail", "None"}
Statuses == {"NOT_FOUND", "FOUND", "MODIFIED", "REMOVED"}

\* The item as a phase that ignores these fields sees it.
Project(ignored, item) ==
  [f \in DOMAIN item |-> IF f \in ignored THEN Blank ELSE item[f]]

Items == Contacts \cup {Project(Phases[p], c) : p \in DOMAIN Phases, c \in Contacts}

\* Mutant: the checks of the ignored fields stay enabled.
EqualInFull(ignored, a, b) == a = b

\* PIMContactItemIndex::compare() with the checks of the ignored fields disabled.
Equal(ignored, a, b) == Project(ignored, a) = Project(ignored, b)

-----------------------------------------------------------------------------
(* The storage plugin, as the engine uses it.  A call that fails may have  *)
(* done part of its work.                                                  *)

\* Ids nobody refers to.
FreshIds == Ids \ (DOMAIN storage \cup DOMAIN index \cup {m.id : m \in {toModify[k] : k \in DOMAIN toModify}})

\* The ids the storage gives to n new items.
NewIds(n) ==
  CHOOSE f \in [1..n -> FreshIds] : \A j, k \in 1..n : f[j] = f[k] => j = k

\* The storage with the first n items of the queue added.
WithAdded(store, queue, n) ==
  LET ids == NewIds(n)
  IN  [i \in DOMAIN store \cup {ids[k] : k \in 1..n} |->
         IF i \in DOMAIN store THEN store[i] ELSE queue[CHOOSE k \in 1..n : ids[k] = i]]

\* The storage with the first n modifications made, the later ones last.
WithModified(store, queue, n) ==
  [i \in DOMAIN store |->
     LET mine == {k \in 1..n : queue[k].id = i}
     IN  IF mine = {} THEN store[i]
         ELSE queue[CHOOSE k \in mine : \A l \in mine : l <= k].item]

\* addItems(): the storage afterwards, and whether eAddItemOk was returned.
AddItems(store, queue) ==
  {[store |-> WithAdded(store, queue, n), ok |-> FALSE] :
     n \in {k \in 0..Len(queue) : k <= Cardinality(FreshIds)}}
  \cup
  {[store |-> WithAdded(store, queue, Len(queue)), ok |-> TRUE] :
     n \in {k \in {Len(queue)} : k <= Cardinality(FreshIds)}}

\* modifyItems(): it fails at the latest at an id the storage does not have.
ModifyItems(store, queue) ==
  LET known == {n \in 0..Len(queue) : \A k \in 1..n : queue[k].id \in DOMAIN store}
  IN  {[store |-> WithModified(store, queue, n), ok |-> FALSE] : n \in known}
      \cup
      {[store |-> WithModified(store, queue, n), ok |-> TRUE] : n \in known \cap {Len(queue)}}

\* removeItems().
RemoveItems(store, ids) ==
  {[store |-> [i \in DOMAIN store \ gone |-> store[i]], ok |-> FALSE] : gone \in SUBSET ids}
  \cup
  {[store |-> [i \in DOMAIN store \ ids |-> store[i]], ok |-> TRUE]}

-----------------------------------------------------------------------------
(* flushInsertions() and flushModifications(): the queue is emptied only   *)
(* when the storage call succeeds.                                         *)

\* What a flush can leave behind: the storage, the queue and success.
FlushInsertions(store, queue) ==
  IF queue = <<>>
  THEN {[store |-> store, queue |-> queue, ok |-> TRUE]}
  ELSE {[store |-> r.store, queue |-> IF r.ok THEN <<>> ELSE queue, ok |-> r.ok] :
          r \in AddItems(store, queue)}

FlushModifications(store, queue) ==
  IF queue = <<>>
  THEN {[store |-> store, queue |-> queue, ok |-> TRUE]}
  ELSE {[store |-> r.store, queue |-> IF r.ok THEN <<>> ELSE queue, ok |-> r.ok] :
          r \in ModifyItems(store, queue)}

Return(res) ==
  /\ pc' = "idle"
  /\ result' = res

-----------------------------------------------------------------------------
Init ==
  /\ storage \in UNION {[S -> Contacts] : S \in {T \in SUBSET Ids : Cardinality(T) <= MaxInitial}}
  /\ src = <<>>
  /\ pc = "idle"
  /\ phase = 1
  /\ pending = {}
  /\ index = <<>>
  /\ toAdd = <<>>
  /\ toModify = <<>>
  /\ stats = [added |-> 0, modified |-> 0, removed |-> 0]
  /\ dbError = FALSE
  /\ inputError = FALSE
  /\ cancelSync = FALSE
  /\ result = "None"
  /\ runs = 0
  /\ begun = storage
  /\ clean = TRUE
  /\ unread = {}
  /\ cut = FALSE

(* doSynchronize() is entered; the storage may fail to initialize.  Then,  *)
(* or when no phase is defined, it returns at once.                        *)
StartRun ==
  /\ pc = "idle"
  /\ runs < MaxRuns
  /\ runs' = runs + 1
  /\ \E S \in SUBSET Slots : src' \in [S -> Contacts]
  /\ begun' = storage
  /\ clean' = (toAdd = <<>> /\ toModify = <<>>)
  /\ pending' = {}
  /\ unread' = {}
  /\ cut' = FALSE
  /\ \/ Return("Fail") /\ UNCHANGED <<stats, phase, index>>
     \/ /\ stats' = [added |-> 0, modified |-> 0, removed |-> 0]
        /\ IF Phases = <<>>
           THEN Return("OkWithoutDataChange") /\ index' = <<>> /\ UNCHANGED phase
           ELSE pc' = "phase" /\ result' = "None" /\ phase' = 1 /\ UNCHANGED index
  /\ UNCHANGED <<storage, queueVars, dbError, inputError, cancelSync>>

(* cancel() while the run is in progress; nothing ever resets the flag.    *)
Cancel ==
  /\ pc # "idle"
  /\ cancelSync' = TRUE
  /\ UNCHANGED <<storage, pc, phase, pending, index, queueVars, stats,
                 dbError, inputError, runVars, readVars>>

(* The source cannot be created, or does not initialize in five retries.   *)
SourceFails ==
  /\ pc = "phase"
  /\ Return("Fail")
  /\ UNCHANGED <<storage, phase, pending, index, queueVars, stats,
                 dbError, inputError, cancelSync, src, runs, begun, clean, readVars>>

(* The phase begins with updateIndexDB(): the storage is read until next() *)
(* answers NULL, at its end or at a read error, or cancel() is called; only*)
(* a storage that gives no iterator sets dbError, which is looked at after *)
(* processItems().                                                         *)
UpdateIndexDB ==
  /\ pc = "phase"
  /\ \E read \in SUBSET DOMAIN storage :
       /\ index' = [i \in read |-> [item |-> storage[i], status |-> "NOT_FOUND"]]
       /\ unread' = DOMAIN storage \ read
       /\ cut' = (cut \/ unread' # {})
       /\ \/ dbError' = FALSE
          \/ dbError' = TRUE /\ read = {}
  /\ pending' = DOMAIN src
  /\ pc' = "process"
  /\ UNCHANGED <<storage, phase, queueVars, stats, inputError, cancelSync, runVars>>

-----------------------------------------------------------------------------
(* processItems(), one getItem() at a time.                                *)

\* getItem() returned an item, but the run was cancelled.
ItemAfterCancel(s) ==
  /\ pc = "process"
  /\ s \in pending
  /\ cancelSync
  /\ pending' = pending \ {s}
  /\ pc' = "check"
  /\ UNCHANGED <<storage, phase, index, queueVars, stats,
                 dbError, inputError, cancelSync, runVars, readVars>>

\* Mutant: the status of the entry is not looked at.
UnmatchedOrNot(item) ==
  {i \in DOMAIN index : index[i].item["key"] = item["key"]}

\* The entries of indexDB under the item's key that match nothing yet.
Unmatched(item) ==
  {i \in DOMAIN index : index[i].status = "NOT_FOUND" /\ index[i].item["key"] = item["key"]}

\* The item from slot s as a source delivers it in this phase: some sources
\* leave the ignored fields out, the others do not look at "ignore_fields".
Delivered(s) == {src[s], Project(Phases[phase], src[s])}

Count(counter) == stats' = [stats EXCEPT ![counter] = @ + 1]

\* Mutant: the entry found is not marked.
MatchOnly(item) ==
  /\ \E i \in Unmatched(item) : Equal(Phases[phase], item, index[i].item)
  /\ UNCHANGED <<storage, index, queueVars, stats, dbError>>

\* A storage entry is equal to the item: it is marked.
MarkFound(item) ==
  /\ \E i \in Unmatched(item) :
       /\ Equal(Phases[phase], item, index[i].item)
       /\ index' = [index EXCEPT ![i].status = "FOUND"]
  /\ UNCHANGED <<storage, queueVars, stats, dbError>>

\* An entry has the item's key, and none is equal: the item replaces it.
ModifyCandidate(item) ==
  /\ \A i \in Unmatched(item) : ~Equal(Phases[phase], item, index[i].item)
  /\ \E i \in Unmatched(item) :
       /\ index' = [index EXCEPT ![i] = [item |-> item, status |-> "MODIFIED"]]
       /\ LET queue == Append(toModify, [id |-> i, item |-> item])
          IN  IF Len(queue) > BatchSize
              THEN \E r \in FlushModifications(storage, queue) :
                     storage' = r.store /\ toModify' = r.queue /\ dbError' = (dbError \/ ~r.ok)
              ELSE toModify' = queue /\ UNCHANGED <<storage, dbError>>
  /\ Count("modified")
  /\ UNCHANGED toAdd

\* No entry is left under the item's key: it is new.  (The entry with status
\* ITEM_ADDED that indexDB gets matches nothing later and is left out.)
AddNew(item) ==
  /\ Unmatched(item) = {}
  /\ LET queue == Append(toAdd, item)
     IN  IF Len(queue) > BatchSize
         THEN \E r \in FlushInsertions(storage, queue) :
                storage' = r.store /\ toAdd' = r.queue /\ dbError' = (dbError \/ ~r.ok)
         ELSE toAdd' = queue /\ UNCHANGED <<storage, dbError>>
  /\ Count("added")
  /\ UNCHANGED <<index, toModify>>

ProcessItem(s) ==
  /\ pc = "process"
  /\ s \in pending
  /\ ~cancelSync
  /\ pending' = pending \ {s}
  /\ \E item \in Delivered(s) : MarkFound(item) \/ ModifyCandidate(item) \/ AddNew(item)
  /\ pc' = IF dbError' THEN "check" ELSE "process"
  /\ UNCHANGED <<phase, inputError, cancelSync, runVars, readVars>>

(* getItem() returned eGetItemRetError: a failure, or the source's answer  *)
(* to cancel().                                                            *)
SourceError ==
  /\ pc = "process"
  /\ inputError' = TRUE
  /\ pc' = "check"
  /\ UNCHANGED <<storage, phase, pending, index, queueVars, stats,
                 dbError, cancelSync, runVars, readVars>>

\* Mutant: the modifications still queued are not flushed.
FlushOnlyInsertions ==
  /\ pc = "process"
  /\ pending = {}
  /\ \E a \in FlushInsertions(storage, toAdd) :
       /\ storage' = a.store
       /\ toAdd' = a.queue
       /\ dbError' = (dbError \/ ~a.ok)
  /\ pc' = "check"
  /\ UNCHANGED <<phase, pending, index, toModify, stats, inputError, cancelSync, runVars, readVars>>

(* getItem() returned eGetItemRetEnd: both queues are flushed.             *)
SourceEnd ==
  /\ pc = "process"
  /\ pending = {}
  /\ \E a \in FlushInsertions(storage, toAdd) :
       \E m \in FlushModifications(a.store, toModify) :
         /\ storage' = m.store
         /\ toAdd' = a.queue
         /\ toModify' = m.queue
         /\ dbError' = (dbError \/ ~a.ok \/ ~m.ok)
  /\ pc' = "check"
  /\ UNCHANGED <<phase, pending, index, stats, inputError, cancelSync, runVars, readVars>>

-----------------------------------------------------------------------------
(* The checks after processItems(): input error, storage error, cancel.    *)
Stop ==
  /\ pc = "check"
  /\ inputError \/ dbError \/ cancelSync
  /\ Return(IF inputError \/ dbError THEN "Fail" ELSE "Cancelled")
  /\ UNCHANGED <<storage, phase, pending, index, queueVars, stats,
                 dbError, inputError, cancelSync, src, runs, begun, clean, readVars>>

\* The entries no item of the source was matched with.
NotFound == {i \in DOMAIN index : index[i].status = "NOT_FOUND"}

\* Mutant: CHECK_INPUT_ERROR() is missing.
CleanAfterInputError ==
  /\ pc = "check"
  /\ ~(dbError \/ cancelSync)
  /\ index' = [i \in DOMAIN index |->
                 IF i \in NotFound THEN [index[i] EXCEPT !.status = "REMOVED"] ELSE index[i]]
  /\ stats' = [stats EXCEPT !.removed = @ + Cardinality(NotFound)]
  /\ IF NotFound = {}
     THEN UNCHANGED <<storage, dbError>>
     ELSE \E r \in RemoveItems(storage, NotFound) :
            storage' = r.store /\ dbError' = ~r.ok
  /\ pc' = "cleaned"
  /\ UNCHANGED <<phase, pending, queueVars, inputError, cancelSync, runVars, readVars>>

(* cleanStorage().                                                         *)
CleanStorage ==
  /\ pc = "check"
  /\ ~(inputError \/ dbError \/ cancelSync)
  /\ index' = [i \in DOMAIN index |->
                 IF i \in NotFound THEN [index[i] EXCEPT !.status = "REMOVED"] ELSE index[i]]
  /\ stats' = [stats EXCEPT !.removed = @ + Cardinality(NotFound)]
  /\ IF NotFound = {}
     THEN UNCHANGED <<storage, dbError>>
     ELSE \E r \in RemoveItems(storage, NotFound) :
            storage' = r.store /\ dbError' = ~r.ok
  /\ pc' = "cleaned"
  /\ UNCHANGED <<phase, pending, queueVars, inputError, cancelSync, runVars, readVars>>

\* Mutant: the loop runs once too often.
EndPhaseTooLate ==
  /\ pc = "cleaned"
  /\ \/ dbError /\ Return("Fail") /\ UNCHANGED <<phase, index>>
     \/ ~dbError /\ cancelSync /\ Return("Cancelled") /\ UNCHANGED <<phase, index>>
     \/ /\ ~dbError /\ ~cancelSync
        /\ phase <= Len(Phases)
        /\ phase' = phase + 1
        /\ pc' = "phase"
        /\ UNCHANGED <<result, index>>
     \/ /\ ~dbError /\ ~cancelSync
        /\ phase > Len(Phases)
        /\ index' = <<>>
        /\ Return(IF stats = [added |-> 0, modified |-> 0, removed |-> 0]
                  THEN "OkWithoutDataChange" ELSE "OkWithDataChange")
        /\ UNCHANGED phase
  /\ UNCHANGED <<storage, pending, queueVars, stats, dbError, inputError,
                 cancelSync, src, runs, begun, clean, readVars>>

(* The checks after cleanStorage(), the next phase or the result.          *)
EndPhase ==
  /\ pc = "cleaned"
  /\ \/ dbError /\ Return("Fail") /\ UNCHANGED <<phase, index>>
     \/ ~dbError /\ cancelSync /\ Return("Cancelled") /\ UNCHANGED <<phase, index>>
     \/ /\ ~dbError /\ ~cancelSync
        /\ phase < Len(Phases)
        /\ phase' = phase + 1
        /\ pc' = "phase"
        /\ UNCHANGED <<result, index>>
     \/ /\ ~dbError /\ ~cancelSync
        /\ phase = Len(Phases)
        /\ index' = <<>>
        /\ Return(IF stats = [added |-> 0, modified |-> 0, removed |-> 0]
                  THEN "OkWithoutDataChange" ELSE "OkWithDataChange")
        /\ UNCHANGED phase
  /\ UNCHANGED <<storage, pending, queueVars, stats, dbError, inputError,
                 cancelSync, src, runs, begun, clean, readVars>>

Next ==
  \/ StartRun
  \/ Cancel
  \/ SourceFails
  \/ UpdateIndexDB
  \/ \E s \in Slots : ItemAfterCancel(s) \/ ProcessItem(s)
  \/ SourceError
  \/ SourceEnd
  \/ Stop
  \/ CleanStorage
  \/ EndPhase

Spec == Init /\ [][Next]_vars

-----------------------------------------------------------------------------
TypeOK ==
  /\ DOMAIN storage \subseteq Ids /\ \A i \in DOMAIN storage : storage[i] \in Items
  /\ DOMAIN src \subseteq Slots /\ \A s \in DOMAIN src : src[s] \in Contacts
  /\ pc \in {"idle", "phase", "process", "check", "cleaned"}
  /\ phase \in 1..Len(Phases) \cup {1}
  /\ pending \subseteq DOMAIN src
  /\ DOMAIN index \subseteq Ids
  /\ \A i \in DOMAIN index : index[i] \in [item : Items, status : Statuses]
  /\ toAdd \in Seq(Items)
  /\ toModify \in Seq([id : Ids, item : Items])
  /\ stats \in [added : Nat, modified : Nat, removed : Nat]
  /\ {dbError, inputError, cancelSync, clean, cut} \subseteq BOOLEAN
  /\ unread \subseteq Ids
  /\ result \in Results
  /\ runs \in 0..MaxRuns

\* How many entries of f look like x when these fields are ignored.
Copies(f, ignored, x) ==
  Cardinality({i \in DOMAIN f : Equal(ignored, f[i], x)})

\* These entries are the items of the source, each as often as the source has it.
Mirrors(entries, ignored) ==
  /\ Cardinality(DOMAIN entries) = Cardinality(DOMAIN src)
  /\ \A s \in DOMAIN src : Copies(entries, ignored, src[s]) = Copies(src, ignored, src[s])

\* The storage without the entries the last phase could not read.
Known == [i \in DOMAIN storage \ unread |-> storage[i]]

Succeeded == pc = "idle" /\ result \in Ok /\ Phases # <<>>

(* eSyncOk... means that the storage, without the entries its last phase   *)
(* could not read, holds the items of the source, each as often as the     *)
(* source has it, up to the fields the last phase ignores.  Queues an      *)
(* earlier run left behind do no harm if a phase precedes the last one, nor*)
(* does an index read short there: the last phase repairs it.              *)
SuccessMirrorsSource ==
  Succeeded /\ (clean \/ Len(Phases) > 1) => Mirrors(Known, Phases[Len(Phases)])


(* Entries are removed only when the source has delivered everything and   *)
(* nothing has failed: an aborted download deletes nothing.                *)
RemovalAfterFullStream ==
  [][(\E i \in DOMAIN storage : i \notin DOMAIN storage')
     => pending = {} /\ ~inputError /\ ~dbError /\ ~cancelSync]_vars

(* A removal, complete or broken off, leaves every item of the source in   *)
(* the storage as often as the source has it.                              *)
RemovalKeepsSource ==
  [][clean /\ (\E i \in DOMAIN storage : i \notin DOMAIN storage')
     => \A s \in DOMAIN src : Copies(storage', Phases[phase], src[s])
                              >= Copies(src, Phases[phase], src[s])]_vars

(* eSyncOkWithoutDataChange means that the storage was not touched, and a  *)
(* storage that already mirrored the source is never touched by a run that *)
(* could read it.                                                          *)
QuietResync ==
  Succeeded /\ clean =>
    /\ result = "OkWithoutDataChange" => storage = begun
    /\ ~cut /\ (\E m \in [DOMAIN src -> DOMAIN begun] :
                  /\ \A s, t \in DOMAIN src : m[s] = m[t] => s = t
                  /\ \A s \in DOMAIN src : begun[m[s]] = src[s]
                  /\ \A i \in DOMAIN begun : \E s \in DOMAIN src : m[s] = i)
       => result = "OkWithoutDataChange"

(* Only a run that failed or was cancelled leaves items in the queues.     *)
QueuesDrained == Succeeded => toAdd = <<>> /\ toModify = <<>>
=============================================================================
