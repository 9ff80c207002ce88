------------------------------ MODULE TwoWaySync ------------------------------
(***************************************************************************)
(* The two-way synchronization engine (TwoWaySync.cpp) with its revision   *)
(* metadata (SyncMetadata of Sync.cpp): the first synchronization of two   *)
(* storages, and the following ones, that find out from revisions what     *)
(* users changed on either side and bring the sides together again.        *)
(*                                                                         *)
(* The two sides are handled by the same code twice; here they are one     *)
(* operator with a parameter.  A storage call may fail after part of its   *)
(* work.  The process may end at any step and start again from the         *)
(* metadata saved last, or without it.  Users edit both sides between      *)
(* runs, never during one.  Ids and revisions of a side are drawn from one *)
(* counter; 0 stands for the empty string.                                 *)
(***************************************************************************)
EXTENDS Integers, Sequences, FiniteSets

CONSTANTS
  Contacts,     \* what an item can be: records with a field "key"
  Incremental,  \* the sides whose storage has synchronization tokens
  BatchSize,    \* parameter "batch_size"
  MaxInitial,   \* items on both sides together at first (a bound)
  MaxRuns,      \* calls of synchronize() (a bound)
  MaxEdits,     \* edits by users (a bound)
  MaxFaults     \* failing calls, crashes and cancellations (a bound; none if
                \*   there are MaxInitial items at first)

Sides    == {"local", "remote"}
Other(s) == IF s = "local" THEN "remote" ELSE "local"

ASSUME TwoWaySyncAssumption ==
  /\ \A c \in Contacts : "key" \in DOMAIN c
  /\ Incremental \subseteq Sides
  /\ {BatchSize, MaxInitial, MaxRuns, MaxEdits, MaxFaults} \subseteq Nat

VARIABLES
  store,        \* per side: items and revisions by id, a clock, removal times
  meta,         \* metadata
  saved,        \* what metadataUpdated() handed out last; NoMeta if nothing
  hasMeta,      \* the object was created with metadata (params.metadata)
  queue,        \* per side: itemsToBeAdded, -Modified, -Removed
  dbError, inputError, cancelSync,
  touched,      \* a counter of globalStats is not 0
  result,       \* what doSynchronize() returned last; "None" after an edit
  pc,           \* where doSynchronize() is; "idle" when it does not run
  plan,         \* the flush it is at, in a series of them
  todo,         \* what the current loop has left
  index,        \* indexDB: statuses by entry
  revs,         \* per side: revisions reported by the storage
  state,        \* per side: localState and remoteState of the metadata
  fresh,        \* per side: localyAddedItems, remotelyAddedItems
  changed,      \* per side: localyModifiedItems, remotelyModifiedItems
  class,        \* the loop over a pair of states it is in
  runs, edits, faults,
  faulty,       \* history: failures the code does not recover from
  synced,       \* history: nothing happened since a successful run
  begun         \* history: storages and metadata when the run began

engineVars == <<meta, hasMeta, queue, dbError, inputError, cancelSync>>
scanVars   == <<plan, todo, index>>
fullVars   == <<revs, state, fresh, changed, class>>
countVars  == <<runs, edits>>
faultVars  == <<faults, faulty>>
histVars   == <<synced, begun>>
vars == <<store, saved, touched, result, pc, engineVars, scanVars, fullVars,
          countVars, faultVars, histVars>>

Ok       == {"OkWithDataChange", "OkWithoutDataChange"}
States   == {"NotPresent", "NotChanged", "Modified"}
Kinds    == {"add", "mod", "rem"}
Faults   == {"flush", "revisions", "items", "addItem", "scan", "unmerged", "stale", "leftover", "unread"}

Put(f, k, v)  == [x \in DOMAIN f \cup {k} |-> IF x = k THEN v ELSE f[x]]
Without(f, S) == [x \in DOMAIN f \ S |-> f[x]]
Least(S)      == CHOOSE n \in S : \A m \in S : n <= m

-----------------------------------------------------------------------------
(* SyncMetadata.                                                           *)

NoRevisions == [local |-> <<>>, remote |-> <<>>]
EmptyMeta   == [rev |-> NoRevisions, map |-> <<>>, token |-> [s \in Sides |-> 0]]
NoMeta      == [none |-> TRUE]

\* addItem(remoteId, remoteRevision, localId, localRevision).
AddItem(m, r, rrev, l, lrev) ==
  [rev |-> [local |-> Put(m.rev.local, l, lrev), remote |-> Put(m.rev.remote, r, rrev)],
   map |-> Put(m.map, r, l), token |-> m.token]

\* addItem() for an id of side s and an object of the other side.
Associate(m, s, id, rev, obj) ==
  IF s = "remote" THEN AddItem(m, id, rev, obj.id, obj.rev)
                  ELSE AddItem(m, obj.id, obj.rev, id, rev)

\* removeItem(remoteId, localId).
RemoveItem(m, r, l) ==
  [rev |-> [local |-> Without(m.rev.local, {l}), remote |-> Without(m.rev.remote, {r})],
   map |-> Without(m.map, {r}), token |-> m.token]

\* Mutants: an update of the other side's map, and none.
UpdateWrongSide(m, s, id, rev) ==
  [rev |-> [m.rev EXCEPT ![Other(s)] = Put(@, id, rev)], map |-> m.map, token |-> m.token]
UpdateNothing(m, s, id, rev) == m

\* updateLocalRevision() and updateRemoteRevision().
UpdateRevision(m, s, id, rev) ==
  [rev |-> [m.rev EXCEPT ![s] = Put(@, id, rev)], map |-> m.map, token |-> m.token]

\* hasLocalId() and hasRemoteId().
Tracked(m, s, id) == id \in DOMAIN m.rev[s]

\* An entry of localState or remoteState: operator[] makes it 0, NotPresent.
StateOf(s, id) == IF id \in DOMAIN state[s] THEN state[s][id] ELSE "NotPresent"

\* getItemsWithState(): pairs of a remote and a local id.
ItemsWithState(c) ==
  {<<r, meta.map[r]>> : r \in {x \in DOMAIN meta.map :
      StateOf("remote", x) = c.remote /\ StateOf("local", meta.map[x]) = c.local}}

-----------------------------------------------------------------------------
(* The storage plugins, as the engine uses them.                           *)

Obj(s, id) == [id |-> id, item |-> store[s].items[id].item, rev |-> store[s].items[id].rev]

AddOne(st, item) ==
  [items |-> Put(st.items, st.clock + 1, [item |-> item, rev |-> st.clock + 1]),
   clock |-> st.clock + 1, gone |-> st.gone]

ModifyOne(st, id, item) ==
  [items |-> [st.items EXCEPT ![id] = [item |-> item, rev |-> st.clock + 1]],
   clock |-> st.clock + 1, gone |-> st.gone]

RemoveOne(st, id) ==
  [items |-> Without(st.items, {id}), clock |-> st.clock + 1,
   gone |-> Put(st.gone, id, st.clock + 1)]

\* One entry of a batch, and the metadata updated for it.
ApplyOne(s, kind, w, e) ==
  LET rev == w.st.clock + 1 IN
  CASE kind = "add" -> [st |-> AddOne(w.st, e.item), m |-> Associate(w.m, s, rev, rev, e)]
    [] kind = "mod" -> [st |-> ModifyOne(w.st, e.id, e.obj.item), m |-> UpdateRevision(w.m, s, e.id, rev)]
    [] kind = "rem" -> [st |-> RemoveOne(w.st, e), m |-> w.m]

\* addItems(), modifyItems() or removeItems() for the first n entries of q.
ApplyBatch(s, kind, m, q) ==
  LET w[n \in 0..Len(q)] == IF n = 0 THEN [st |-> store[s], m |-> m]
                                     ELSE ApplyOne(s, kind, w[n - 1], q[n])
  IN  w

\* The id an entry needs to find in the storage.
Target(kind, e) == CASE kind = "mod" -> e.id [] kind = "rem" -> e [] OTHER -> 0

\* The entries up to the first one whose item the storage does not have.
Feasible(s, kind, q) ==
  IF kind = "add" THEN Len(q)
  ELSE LET missing(k) == \/ Target(kind, q[k]) \notin DOMAIN store[s].items
                         \/ kind = "rem" /\ \E j \in 1..k-1 : q[j] = q[k]
           bad == {k \in 1..Len(q) : missing(k)}
       IN  IF bad = {} THEN Len(q) ELSE Least(bad) - 1

-----------------------------------------------------------------------------
(* Queues and flushes.                                                     *)

NoQueue == [add |-> <<>>, mod |-> <<>>, rem |-> <<>>]

\* A call fails by itself.
Fault(kinds) ==
  /\ faults < MaxFaults
  /\ faults' = faults + 1
  /\ faulty' = faulty \cup kinds

\* flushLocalInsertions() and its five siblings, for a queue with content q
\* and the metadata m: the queue is kept when the call fails.
Flush(s, kind, q, m) ==
  \/ /\ Feasible(s, kind, q) = Len(q)
     /\ LET w == ApplyBatch(s, kind, m, q)[Len(q)]
        IN  store' = [store EXCEPT ![s] = w.st] /\ meta' = w.m
     /\ queue' = [queue EXCEPT ![s][kind] = <<>>]
     /\ UNCHANGED <<dbError, faultVars>>
  \/ /\ \E n \in 0..Feasible(s, kind, q) :
          /\ store' = [store EXCEPT ![s] = ApplyBatch(s, kind, m, q)[n].st]
          /\ \/ Fault({"flush"})
             \/ /\ n = Feasible(s, kind, q) /\ n < Len(q)
                /\ faulty' = faulty \cup {"flush"}
                /\ UNCHANGED faults
     /\ queue' = [queue EXCEPT ![s][kind] = q]
     /\ meta' = m
     /\ dbError' = TRUE

\* Mutant: the batch size is not looked at.
EnqueueOnly(s, kind, e, m) ==
  /\ touched' = TRUE
  /\ queue' = [queue EXCEPT ![s][kind] = Append(@, e)]
  /\ meta' = m
  /\ UNCHANGED <<store, dbError, faultVars>>

\* addLocalItem() and its five siblings, with the metadata m.
Enqueue(s, kind, e, m) ==
  LET q == Append(queue[s][kind], e)
  IN  /\ touched' = TRUE
      /\ IF Len(q) > BatchSize
         THEN Flush(s, kind, q, m)
         ELSE /\ queue' = [queue EXCEPT ![s][kind] = q]
              /\ meta' = m
              /\ UNCHANGED <<store, dbError, faultVars>>

-----------------------------------------------------------------------------
(* Starting and ending a run.                                              *)

InitialItems(n, f) == [i \in 1..n |-> [item |-> f[i], rev |-> i]]

Init ==
  /\ \E n, k \in 0..MaxInitial : \E f \in [1..n -> Contacts], g \in [1..k -> Contacts] :
       /\ n + k <= MaxInitial
       /\ faults = IF n + k = MaxInitial THEN MaxFaults ELSE 0
       /\ store = [local  |-> [items |-> InitialItems(n, f), clock |-> n + 1, gone |-> <<>>],
                   remote |-> [items |-> InitialItems(k, g), clock |-> k + 1, gone |-> <<>>]]
  /\ meta = EmptyMeta /\ saved = NoMeta /\ hasMeta = FALSE
  /\ queue = [local |-> NoQueue, remote |-> NoQueue]
  /\ dbError = FALSE /\ inputError = FALSE /\ cancelSync = FALSE /\ touched = FALSE
  /\ result = "None" /\ pc = "idle"
  /\ plan = 0 /\ todo = {} /\ index = <<>>
  /\ revs = NoRevisions /\ state = NoRevisions
  /\ fresh = [local |-> {}, remote |-> {}]
  /\ changed = NoRevisions /\ class = 0
  /\ runs = 0 /\ edits = 0 /\ faulty = {}
  /\ synced = FALSE
  /\ begun = [store |-> NoRevisions, meta |-> EmptyMeta, synced |-> FALSE]

\* What doSynchronize() returns after firstTimeSync() or fullSync().
Outcome ==
  IF inputError \/ dbError THEN "Fail"
  ELSE IF cancelSync THEN "Cancelled"
  ELSE IF touched THEN "OkWithDataChange" ELSE "OkWithoutDataChange"

\* The end of a run; its working state does not matter any more.
Return(res) ==
  /\ pc' = "idle"
  /\ result' = res
  /\ synced' = (res \in Ok /\ faulty' = {})
  /\ plan' = 0 /\ todo' = {} /\ index' = <<>>
  /\ revs' = NoRevisions /\ state' = NoRevisions
  /\ fresh' = [local |-> {}, remote |-> {}]
  /\ changed' = NoRevisions /\ class' = 0
  /\ UNCHANGED begun

\* A first synchronization on an object that has run before, with metadata
\* in memory (params.metadata is still empty) of items that are gone.
Stale == ~hasMeta /\ \E s \in Sides : ~(DOMAIN meta.rev[s] \subseteq DOMAIN store[s].items)

\* A failed or cancelled run left something in a queue.
Leftover == \E s \in Sides, kind \in Kinds : queue[s][kind] # <<>>

\* synchronize() and the beginning of doSynchronize().
Synchronize ==
  /\ pc = "idle" /\ runs < MaxRuns
  /\ runs' = runs + 1
  /\ begun' = [store |-> [s \in Sides |-> store[s].items],
               meta |-> IF hasMeta THEN meta ELSE EmptyMeta, synced |-> synced]
  /\ faulty' = (faulty \ {"items"}) \cup (IF Stale THEN {"stale"} ELSE {})
                                     \cup (IF Leftover THEN {"leftover"} ELSE {})
  /\ touched' = FALSE /\ dbError' = FALSE
  /\ result' = "None" /\ synced' = FALSE
  /\ pc' = IF hasMeta THEN "detectLocal" ELSE "index"
  /\ UNCHANGED <<store, saved, meta, hasMeta, queue, inputError, cancelSync,
                 scanVars, fullVars, edits, faults>>

\* A storage cannot be initialized: nothing else happens.
StorageInitFails ==
  /\ pc = "idle" /\ runs < MaxRuns
  /\ runs' = runs + 1
  /\ Fault({})
  /\ result' = "Fail"
  /\ UNCHANGED <<store, saved, touched, pc, engineVars, scanVars, fullVars, edits, histVars>>

\* cancel(): the flag is never reset.
Cancel ==
  /\ pc # "idle" /\ ~cancelSync
  /\ cancelSync' = TRUE
  /\ Fault({})
  /\ UNCHANGED <<store, saved, touched, result, pc, meta, hasMeta, queue, dbError, inputError,
                 scanVars, fullVars, countVars, histVars>>

-----------------------------------------------------------------------------
(* firstTimeSync().                                                        *)

EntryItem(e) == store[e[1]].items[e[2]].item
EntryKey(e)  == EntryItem(e).key

\* The entries an iterator delivers: it may stop early.
Delivered(s, early) ==
  LET all == {<<s, id>> : id \in DOMAIN store[s].items}
  IN  IF early THEN SUBSET all \ {all} ELSE {all}

\* buildLocalIndexDB() and the creation of the remote iterator: an iterator
\* whose download fails stops early, and so does the loop when cancelled.
BuildIndex ==
  /\ pc = "index"
  /\ \/ /\ \E L \in Delivered("local", FALSE), R \in Delivered("remote", FALSE) :
             index' = [e \in L |-> "NOT_FOUND"] /\ todo' = R
        /\ UNCHANGED faultVars
     \/ /\ Fault({"scan"})
        /\ \E s \in Sides : \E L \in Delivered("local", s = "local"), R \in Delivered("remote", s = "remote") :
             index' = [e \in L |-> "NOT_FOUND"] /\ todo' = R
     \/ /\ cancelSync
        /\ \E L \in Delivered("local", TRUE), R \in Delivered("remote", FALSE) :
             index' = [e \in L |-> "NOT_FOUND"] /\ todo' = R
        /\ UNCHANGED faultVars
  /\ pc' = "scan"
  /\ UNCHANGED <<store, saved, touched, result, engineVars, plan, fullVars, countVars, histVars>>

\* Entries of the index that the remote item can be matched with.
Candidates(e) == {d \in DOMAIN index : d[1] = "local" /\ EntryKey(d) = EntryKey(e) /\ index[d] = "NOT_FOUND"}
Equals(e)     == {d \in Candidates(e) : EntryItem(d) = EntryItem(e)}

ScanRemote(e) ==
  /\ pc = "scan" /\ e \in todo /\ ~cancelSync
  /\ todo' = todo \ {e}
  /\ LET obj == Obj("remote", e[2]) IN
     \/ \E d \in Equals(e) :
          /\ index' = [index EXCEPT ![d] = "FOUND"]
          /\ meta' = Associate(meta, "local", d[2], store.local.items[d[2]].rev, obj)
          /\ UNCHANGED <<store, queue, touched, dbError, faultVars>>
     \/ /\ Equals(e) = {}
        /\ \E d \in Candidates(e) : index' = [index EXCEPT ![d] = "MODIFIED"]
        /\ faulty' = faulty \cup {"unmerged"}
        /\ UNCHANGED <<store, meta, queue, touched, dbError, faults>>
     \/ /\ Candidates(e) = {}
        /\ index' = Put(index, e, "ADDED")
        /\ Enqueue("local", "add", obj, meta)
  /\ UNCHANGED <<saved, result, pc, hasMeta, inputError, cancelSync, plan, fullVars, countVars, histVars>>

\* The loop over the remote items is done: the local queues are flushed.
ScanDone ==
  /\ pc = "scan" /\ todo = {}
  /\ pc' = "saveLocal"
  /\ UNCHANGED <<store, saved, touched, result, engineVars, plan, todo, index, fullVars,
                 countVars, faultVars, histVars>>

\* The next loop over the index, one key after the other, adds what the
\* remote side does not have.  OpenKey: entries of the key it is at.
\* The entries of a key are in the order of their insertion.
Before(d, e) == EntryKey(d) = EntryKey(e) /\ (IF d[1] = e[1] THEN d[2] < e[2] ELSE d[1] = "local")

\* What is left of the key the loop is at.
OpenKey == {e \in todo : \E d \in DOMAIN index \ todo : EntryKey(d) = EntryKey(e)}

AddRest(e) ==
  /\ pc = "rest" /\ e \in (IF OpenKey = {} THEN todo ELSE OpenKey)
  /\ ~\E d \in todo : Before(d, e)
  /\ OpenKey # {} \/ ~cancelSync
  /\ todo' = todo \ {e}
  /\ IF index[e] = "NOT_FOUND"
     THEN Enqueue("remote", "add", Obj("local", e[2]), meta)
     ELSE UNCHANGED <<store, meta, queue, touched, dbError, faultVars>>
  /\ UNCHANGED <<saved, result, pc, hasMeta, inputError, cancelSync, plan, index, fullVars,
                 countVars, histVars>>

RestDone ==
  /\ pc = "rest" /\ todo = {}
  /\ pc' = "saveRemote"
  /\ UNCHANGED <<store, saved, touched, result, engineVars, plan, todo, index, fullVars,
                 countVars, faultVars, histVars>>

\* A cancelled first synchronization returns from one of its loops.
NoticeCancel ==
  /\ cancelSync /\ todo # {}
  /\ pc = "scan" \/ (pc = "rest" /\ OpenKey = {})
  /\ UNCHANGED <<store, saved, touched, engineVars, countVars, faultVars>>
  /\ Return(Outcome)

-----------------------------------------------------------------------------
(* The flushes at the end of a loop, and the end of both functions.        *)

AfterFlush == [saveLocal |-> "rest", saveRemote |-> "tokens", saveAll |-> "tokens"]

\* The flushes in their order; firstTimeSync() never has something to remove.
Flushes ==
  LET Of(s) == << <<s, "add">>, <<s, "mod">> >>
  IN  [saveLocal |-> Of("local"), saveRemote |-> Of("remote"),
       saveAll |-> << <<"local", "add">>, <<"local", "mod">>, <<"local", "rem">>,
                      <<"remote", "add">>, <<"remote", "mod">>, <<"remote", "rem">> >>]

\* The next one that has something to do.
FlushNext ==
  /\ pc \in DOMAIN AfterFlush
  /\ LET left == {k \in plan + 1 .. Len(Flushes[pc]) : queue[Flushes[pc][k][1]][Flushes[pc][k][2]] # <<>>} IN
     IF left = {}
     THEN /\ pc' = AfterFlush[pc] /\ plan' = 0
          /\ todo' = IF pc = "saveLocal" THEN DOMAIN index ELSE {}
          /\ UNCHANGED <<store, meta, queue, dbError, faultVars>>
     ELSE LET s == Flushes[pc][Least(left)][1]  kind == Flushes[pc][Least(left)][2] IN
          /\ plan' = Least(left)
          /\ Flush(s, kind, queue[s][kind], meta)
          /\ UNCHANGED <<pc, todo>>
  /\ UNCHANGED <<saved, touched, result, hasMeta, inputError, cancelSync, index, fullVars,
                 countVars, histVars>>

\* Cancelled before the first local item was read, and with no remote items:
\* no loop was entered in which that would be noticed.
Unread == ~hasMeta /\ cancelSync /\ index = <<>> /\ DOMAIN store.local.items # {}

\* The synchronization tokens of the sides in S.
WithTokens(m, S) ==
  [rev |-> m.rev, map |-> m.map, token |-> [s \in Sides |-> IF s \in S THEN store[s].clock ELSE 0]]

\* The synchronization tokens are stored, metadataUpdated() is called with
\* the metadata, and the run returns.
Conclude ==
  /\ pc = "tokens"
  /\ \/ /\ meta' = WithTokens(meta, Incremental)
        /\ faulty' = faulty \cup (IF Unread THEN {"unread"} ELSE {})
        /\ UNCHANGED faults
     \/ /\ \E s \in Incremental : meta' = WithTokens(meta, Incremental \ {s})
        /\ Fault(IF Unread THEN {"unread"} ELSE {})
  /\ saved' = meta'
  /\ Return(Outcome)
  /\ UNCHANGED <<store, touched, hasMeta, queue, dbError, inputError, cancelSync, countVars>>

-----------------------------------------------------------------------------
(* fullSync(): what changed.                                               *)

ResetStates(s, st) == [id \in DOMAIN meta.rev[s] |-> st]

\* All revisions of a side, or those newer than its token.
Revisions(s, token) ==
  LET newer == {id \in DOMAIN store[s].items : store[s].items[id].rev > token}
  IN  [id \in newer |-> store[s].items[id].rev]

\* Mutant: the states are not reset to NotChanged first.
DetectChangesOnly(s) ==
  /\ s \in Incremental /\ meta.token[s] # 0
  /\ revs' = [revs EXCEPT ![s] = Revisions(s, meta.token[s])]
  /\ state' = [state EXCEPT ![s] = ResetStates(s, "NotPresent")]
  /\ UNCHANGED faultVars

\* getChangedRevisions(), where the storage has tokens and the last run got one.
DetectChanges(s) ==
  /\ s \in Incremental /\ meta.token[s] # 0
  /\ revs' = [revs EXCEPT ![s] = Revisions(s, meta.token[s])]
  /\ LET removed == {id \in DOMAIN store[s].gone : store[s].gone[id] > meta.token[s]} IN
     state' = [state EXCEPT ![s] =
       [id \in DOMAIN meta.rev[s] \cup removed |-> IF id \in removed THEN "NotPresent" ELSE "NotChanged"]]
  /\ UNCHANGED faultVars

\* Without them, or when that failed, getRevisions(), whose result is ignored.
DetectAll(s) ==
  /\ state' = [state EXCEPT ![s] = ResetStates(s, "NotPresent")]
  /\ \/ /\ revs' = [revs EXCEPT ![s] = Revisions(s, -1)]
        /\ IF s \in Incremental /\ meta.token[s] # 0 THEN Fault({}) ELSE UNCHANGED faultVars
     \/ /\ revs' = [revs EXCEPT ![s] = <<>>]
        /\ Fault({"revisions"})

Detect(s) ==
  /\ pc = (IF s = "local" THEN "detectLocal" ELSE "detectRemote")
  /\ DetectChanges(s) \/ DetectAll(s)
  /\ pc' = IF s = "local" THEN "detectRemote" ELSE "fetchLocal"
  /\ UNCHANGED <<store, saved, touched, result, engineVars, scanVars, fresh, changed, class,
                 countVars, histVars>>

Classes ==
  LET C(r, l) == [remote |-> r, local |-> l]
  IN  << C("NotPresent", "NotPresent"), C("NotPresent", "NotChanged"), C("NotChanged", "NotPresent"),
         C("NotPresent", "Modified"), C("Modified", "NotPresent"), C("NotChanged", "Modified"),
         C("Modified", "NotChanged"), C("Modified", "Modified") >>

\* The loops over the reported revisions and the getItems() calls: the states
\* of tracked items, and the objects of the others.
Fetch(s) ==
  LET tracked  == {id \in DOMAIN revs[s] : Tracked(meta, s, id)}
      modified == {id \in tracked : meta.rev[s][id] # revs[s][id]}
      added    == DOMAIN revs[s] \ tracked
  IN
  /\ pc = (IF s = "local" THEN "fetchLocal" ELSE "fetchRemote")
  /\ \/ /\ state' = [state EXCEPT ![s] = [id \in DOMAIN @ \cup tracked |->
               IF id \in modified THEN "Modified" ELSE IF id \in tracked THEN "NotChanged" ELSE @[id]]]
        /\ fresh' = [fresh EXCEPT ![s] = {Obj(s, id) : id \in added}]
        /\ changed' = [changed EXCEPT ![s] = [id \in modified |-> Obj(s, id)]]
        /\ pc' = IF s = "local" THEN "fetchRemote" ELSE "resolve"
        /\ UNCHANGED <<result, plan, todo, index, revs, class, inputError, faultVars, synced, begun>>
     \/ /\ added # {}
        /\ Fault({"items"})
        /\ UNCHANGED inputError
        /\ Return(Outcome)
     \/ /\ modified # {}
        /\ Fault({})
        /\ inputError' = TRUE
        /\ Return("Fail")
  /\ UNCHANGED <<store, saved, touched, meta, hasMeta, queue, dbError, cancelSync, countVars>>

-----------------------------------------------------------------------------
(* fullSync(): one loop per pair of states, over a copy of the pairs.      *)

\* The next loop that has something to do; after the last one the items
\* that are new on both sides are compared.
NextClass ==
  /\ pc = "resolve" /\ todo = {}
  /\ LET left == {c \in class + 1 .. Len(Classes) : ItemsWithState(Classes[c]) # {}} IN
     IF left = {}
     THEN pc' = "match" /\ UNCHANGED <<todo, class>>
     ELSE /\ class' = Least(left)
          /\ todo' = ItemsWithState(Classes[class'])
          /\ UNCHANGED pc
  /\ UNCHANGED <<store, saved, touched, result, engineVars, plan, index, revs, state, fresh, changed,
                 countVars, faultVars, histVars>>

\* One turn of the loop of class c for the pair, in the order of remote ids.
Resolve(c, pair) ==
  /\ pc = "resolve" /\ class \in DOMAIN Classes /\ Classes[class] = c
  /\ pair \in todo /\ \A other \in todo : pair[1] <= other[1]
  /\ todo' = todo \ {pair}
  /\ UNCHANGED <<saved, result, pc, hasMeta, inputError, cancelSync, plan, index, fullVars,
                 countVars, histVars>>

Id(pair, s) == IF s = "remote" THEN pair[1] ELSE pair[2]
Where(s, mine, theirs) == [x \in Sides |-> IF x = s THEN mine ELSE theirs]

\* Removed on both sides.
ForgetPair(pair) ==
  /\ Resolve(Where("local", "NotPresent", "NotPresent"), pair)
  /\ meta' = RemoveItem(meta, pair[1], pair[2])
  /\ UNCHANGED <<store, queue, touched, dbError, faultVars>>

\* Removed on the other side and not changed on this one.
RemoveCounterpart(s, pair) ==
  /\ Resolve(Where(s, "NotChanged", "NotPresent"), pair)
  /\ Enqueue(s, "rem", Id(pair, s), RemoveItem(meta, pair[1], pair[2]))

\* Mutant: a removal wins over a change.
RemoveChanged(s, pair) ==
  /\ Resolve(Where(s, "NotPresent", "Modified"), pair)
  /\ Enqueue(Other(s), "rem", Id(pair, Other(s)), RemoveItem(meta, pair[1], pair[2]))

\* Removed on this side but changed on the other: it is added again.
RestoreItem(s, pair) ==
  /\ Resolve(Where(s, "NotPresent", "Modified"), pair)
  /\ Enqueue(s, "add", changed[Other(s)][Id(pair, Other(s))], RemoveItem(meta, pair[1], pair[2]))

\* Changed on the other side only.
PropagateChange(s, pair) ==
  LET obj == changed[Other(s)][Id(pair, Other(s))] IN
  /\ Resolve(Where(s, "NotChanged", "Modified"), pair)
  /\ Enqueue(s, "mod", [id |-> Id(pair, s), obj |-> obj], UpdateRevision(meta, Other(s), obj.id, obj.rev))

\* Changed on both sides: each version is added on the other side at once.
\* The results of addItem() are ignored: id and revision may be empty.
AddConflicting(s, obj) ==
  {[st |-> AddOne(store[s], obj.item), id |-> store[s].clock + 1, ok |-> TRUE]}
  \cup {[st |-> st, id |-> 0, ok |-> FALSE] : st \in {store[s], AddOne(store[s], obj.item)}}

KeepBoth(pair) ==
  LET mine   == changed.local[pair[2]]
      theirs == changed.remote[pair[1]]
  IN
  /\ Resolve(Where("local", "Modified", "Modified"), pair)
  /\ touched' = TRUE
  /\ \E l \in AddConflicting("local", theirs), r \in AddConflicting("remote", mine) :
       /\ store' = [local |-> l.st, remote |-> r.st]
       /\ LET first == AddItem(RemoveItem(meta, pair[1], pair[2]), pair[1], theirs.rev, l.id, l.id)
          IN  meta' = AddItem(first, r.id, r.id, pair[2], mine.rev)
       /\ IF l.ok /\ r.ok THEN UNCHANGED faultVars ELSE Fault({"addItem"})
  /\ UNCHANGED <<queue, dbError>>

\* New items: equal ones of both sides are paired, the others are added on
\* the other side, the local ones first.
MatchFresh(obj) ==
  LET equal == {x \in fresh.remote : x.item = obj.item} IN
  /\ pc = "match" /\ obj \in fresh.local /\ \A x \in fresh.local : obj.id <= x.id
  /\ IF equal # {}
     THEN LET twin == CHOOSE x \in equal : \A y \in equal : x.id <= y.id IN
          /\ meta' = AddItem(meta, twin.id, twin.rev, obj.id, obj.rev)
          /\ fresh' = [local |-> fresh.local \ {obj}, remote |-> fresh.remote \ {twin}]
          /\ UNCHANGED <<store, queue, touched, dbError, faultVars>>
     ELSE /\ Enqueue("remote", "add", obj, meta)
          /\ fresh' = [fresh EXCEPT !.local = @ \ {obj}]
  /\ UNCHANGED <<saved, result, pc, hasMeta, inputError, cancelSync, scanVars, revs, state, changed, class,
                 countVars, histVars>>

AddFresh(obj) ==
  /\ pc = "match" /\ fresh.local = {}
  /\ obj \in fresh.remote /\ \A x \in fresh.remote : obj.id <= x.id
  /\ Enqueue("local", "add", obj, meta)
  /\ fresh' = [fresh EXCEPT !.remote = @ \ {obj}]
  /\ UNCHANGED <<saved, result, pc, hasMeta, inputError, cancelSync, scanVars, revs, state, changed, class,
                 countVars, histVars>>

MatchDone ==
  /\ pc = "match" /\ fresh.local = {} /\ fresh.remote = {}
  /\ pc' = "saveAll"
  /\ UNCHANGED <<store, saved, touched, result, engineVars, plan, todo, index, fullVars,
                 countVars, faultVars, histVars>>

-----------------------------------------------------------------------------
(* The world around the engine.                                            *)

\* Something happened: what is known of the last run is out of date.
Forget ==
  /\ result' = "None" /\ synced' = FALSE
  /\ begun' = [store |-> NoRevisions, meta |-> EmptyMeta, synced |-> FALSE]

\* A user adds, changes or removes an item (before the first run the
\* initial contents stand for that).
Edit ==
  /\ pc = "idle" /\ 0 < runs /\ runs < MaxRuns /\ edits < MaxEdits
  /\ edits' = edits + 1
  /\ \E s \in Sides :
       \/ \E item \in Contacts : store' = [store EXCEPT ![s] = AddOne(@, item)]
       \/ \E id \in DOMAIN store[s].items, item \in Contacts :
            /\ item # store[s].items[id].item
            /\ store' = [store EXCEPT ![s] = ModifyOne(@, id, item)]
       \/ \E id \in DOMAIN store[s].items : store' = [store EXCEPT ![s] = RemoveOne(@, id)]
  /\ Forget
  /\ UNCHANGED <<saved, touched, pc, engineVars, scanVars, fullVars, runs, faultVars>>

\* A new object is created with this metadata.
NewObject(m) ==
  /\ hasMeta' = (m # NoMeta)
  /\ meta' = IF m = NoMeta THEN EmptyMeta ELSE m
  /\ saved' = m
  /\ queue' = [local |-> NoQueue, remote |-> NoQueue]
  /\ dbError' = FALSE /\ inputError' = FALSE /\ cancelSync' = FALSE /\ touched' = FALSE
  /\ pc' = "idle" /\ plan' = 0 /\ todo' = {} /\ index' = <<>>
  /\ revs' = NoRevisions /\ state' = NoRevisions /\ changed' = NoRevisions /\ class' = 0
  /\ fresh' = [local |-> {}, remote |-> {}]
  /\ UNCHANGED <<store, countVars>>

\* The program is started again.
Restart ==
  /\ pc = "idle" /\ 0 < runs /\ runs < MaxRuns
  /\ NewObject(saved)
  /\ result' = "None"
  /\ begun' = [store |-> NoRevisions, meta |-> EmptyMeta, synced |-> FALSE]
  /\ UNCHANGED <<synced, faultVars>>

\* It ends during a run and is started again, possibly without metadata.
Crash ==
  /\ pc # "idle" /\ runs < MaxRuns
  /\ \E m \in {saved, NoMeta} : NewObject(m)
  /\ Fault({})
  /\ Forget

Run ==
  \/ Synchronize
  \/ BuildIndex \/ ScanDone \/ RestDone \/ NoticeCancel
  \/ pc = "scan" /\ \E e \in todo : ScanRemote(e)
  \/ pc = "rest" /\ \E e \in todo : AddRest(e)
  \/ FlushNext \/ Conclude
  \/ \E s \in Sides : Detect(s) \/ Fetch(s)
  \/ NextClass \/ MatchDone
  \/ pc = "resolve" /\ \E pair \in todo :
       \/ ForgetPair(pair) \/ KeepBoth(pair)
       \/ \E s \in Sides : RemoveCounterpart(s, pair) \/ RestoreItem(s, pair) \/ PropagateChange(s, pair)
  \/ \E obj \in fresh.local : MatchFresh(obj)
  \/ \E obj \in fresh.remote : AddFresh(obj)

Next == Run \/ StorageInitFails \/ Cancel \/ Edit \/ Restart \/ Crash

Spec == Init /\ [][Next]_vars

-----------------------------------------------------------------------------
(* Properties.                                                             *)

\* Types, and the size of the queues: a queue is longer than a batch only
\* after a call that failed.
TypeOK ==
  /\ pc \in {"idle", "index", "scan", "saveLocal", "rest", "saveRemote", "detectLocal", "detectRemote",
             "fetchLocal", "fetchRemote", "resolve", "match", "saveAll", "tokens"}
  /\ result \in Ok \cup {"None", "Fail", "Cancelled"}
  /\ faulty \subseteq Faults
  /\ {hasMeta, dbError, inputError, cancelSync, touched, synced} \subseteq BOOLEAN
  /\ class \in 0..Len(Classes)
  /\ \A s \in Sides :
       /\ \A id \in DOMAIN store[s].items : store[s].items[id].item \in Contacts
                                            /\ {id, store[s].items[id].rev} \subseteq 1..store[s].clock
       /\ \A id \in DOMAIN state[s] : state[s][id] \in States
       /\ \A kind \in Kinds : "flush" \notin faulty => Len(queue[s][kind]) <= BatchSize

Done == pc = "idle" /\ result \in Ok

Contents(items) == {items[id].item : id \in DOMAIN items}

\* The metadata describes the storages: it pairs all their items, each with
\* one of equal content, and knows their revisions.
Mirrored ==
  /\ \A s \in Sides : meta.rev[s] = [id \in DOMAIN store[s].items |-> store[s].items[id].rev]
  /\ DOMAIN meta.map = DOMAIN meta.rev.remote
  /\ {meta.map[r] : r \in DOMAIN meta.map} = DOMAIN meta.rev.local
  /\ Cardinality(DOMAIN meta.map) = Cardinality(DOMAIN meta.rev.local)
  /\ \A r \in DOMAIN meta.map : store.remote.items[r].item = store.local.items[meta.map[r]].item

\* A run that reports success leaves both sides mirrored (TwoWaySync.hpp:25-36),
\* also after a crash at any step and whatever was retried before, unless one
\* of the failures happened that the code does not handle.
SuccessMirrors == Done /\ faulty = {} => Mirrored

\* An item is as the last synchronization left it when the run began.
Unchanged(s, id) ==
  /\ id \in DOMAIN begun.meta.rev[s] /\ id \in DOMAIN begun.store[s]
  /\ begun.store[s][id].rev = begun.meta.rev[s][id]

\* The counterparts of an item, according to the metadata.
Partners(s, id) ==
  LET map == begun.meta.map
  IN  IF s = "remote" THEN {map[r] : r \in DOMAIN map \cap {id}}
                      ELSE {r \in DOMAIN map : map[r] = id}

\* What three-way merging the two sides with the metadata as their common
\* ancestor gives: an item gives way if it is as the last synchronization
\* left it while its counterpart was changed or removed.
GivesWay(s, id) == Unchanged(s, id) /\ \E x \in Partners(s, id) : ~Unchanged(Other(s), x)

ThreeWay ==
  UNION {{begun.store[s][id].item : id \in {x \in DOMAIN begun.store[s] : ~GivesWay(s, x)}} : s \in Sides}

\* A successful run brings both sides to the three-way merge of what they
\* held: no edit of a user is lost and nothing removed comes back.
MergeIsThreeWay ==
  Done /\ faulty = {} => \A s \in Sides : Contents(store[s].items) = ThreeWay

\* The changes the engine made itself are not taken for edits by the next run.
QuietResync ==
  Done /\ faulty = {} /\ begun.synced => result = "OkWithoutDataChange"

\* What a run removes was, when it began, as the last synchronization left it,
\* and its counterpart was not: an item that a user changed or that is not
\* known from a synchronization is never removed, whatever crashes came before.
RemovalAsked ==
  [][pc # "idle" /\ faulty \subseteq {"items", "unread"} =>
       \A s \in Sides : \A id \in DOMAIN store[s].items \ DOMAIN store'[s].items : GivesWay(s, id)]_vars

\* An item that was not modified on either side stays (TwoWaySync.hpp:36).
UntouchedStay ==
  [][pc # "idle" =>
       \A r \in DOMAIN begun.meta.map :
         Unchanged("remote", r) /\ Unchanged("local", begun.meta.map[r])
           => r \in DOMAIN store'.remote.items /\ begun.meta.map[r] \in DOMAIN store'.local.items]_vars
=============================================================================
