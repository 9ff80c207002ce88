-------------------------- MODULE OneWaySyncProofs --------------------------
(***************************************************************************)
(* Proofs about the one-way engine, for every source, storage, phase list  *)
(* and batch size.  The invariant behind them is a match: an injection that*)
(* takes every slot delivered so far to the entry that holds its item, or  *)
(* will when the modifications are flushed, or to its place in the queue of*)
(* insertions.  At the end of the stream nothing but the entries marked    *)
(* NOT_FOUND is left without a slot, and these cleanStorage() removes.     *)
(***************************************************************************)
EXTENDS OneWaySync, SharedFacts

USE DEF readVars

(***************************************************************************)
(* Items and storage calls.                                                *)
(***************************************************************************)

(* Comparing does not see what the source has already left out.            *)
LEMMA ProjectTwice ==
  ASSUME NEW ignored, NEW x, NEW y
  PROVE  Equal(ignored, Project(ignored, x), y) <=> Equal(ignored, x, y)
<1>1. Project(ignored, Project(ignored, x)) = Project(ignored, x)
  BY DEF Project
<1> QED
  BY <1>1 DEF Equal

(* Items that are equal have the same key, which no phase ignores.         *)
LEMMA ItemFacts ==
  /\ Contacts \subseteq Items
  /\ \A q \in DOMAIN Phases, c \in Contacts : Project(Phases[q], c) \in Items
  /\ \A q \in DOMAIN Phases, x, y \in Items : Equal(Phases[q], x, y) => x["key"] = y["key"]
<1>1. /\ Contacts \subseteq Items
      /\ \A q \in DOMAIN Phases, c \in Contacts : Project(Phases[q], c) \in Items
  BY DEF Items
<1>2. \A x \in Items : "key" \in DOMAIN x
  <2> TAKE x \in Items
  <2>1. CASE x \in Contacts
    BY <2>1, OneWaySyncAssumption
  <2>2. ASSUME NEW q \in DOMAIN Phases, NEW c \in Contacts, x = Project(Phases[q], c)
        PROVE  "key" \in DOMAIN x
    <3>1. "key" \in DOMAIN c
      BY OneWaySyncAssumption
    <3>2. DOMAIN x = DOMAIN c
      BY <2>2 DEF Project
    <3> QED
      BY <3>1, <3>2
  <2> QED
    BY <2>1, <2>2 DEF Items
<1>3. ASSUME NEW q \in DOMAIN Phases, NEW x \in Items, NEW y \in Items, Equal(Phases[q], x, y)
      PROVE  x["key"] = y["key"]
  <2>1. "key" \notin Phases[q]
    BY OneWaySyncAssumption
  <2>2. \A z \in Items : Project(Phases[q], z)["key"] = z["key"]
    BY <1>2, <2>1 DEF Project
  <2> QED
    BY <1>3, <2>2 DEF Equal
<1> QED
  BY <1>1, <1>3

(* The new entries get ids that nobody refers to, each its own.            *)
LEMMA NewIdsFacts ==
  ASSUME NEW n \in Nat, n <= Cardinality(FreshIds)
  PROVE  /\ NewIds(n) \in [1..n -> FreshIds]
         /\ \A j, k \in 1..n : NewIds(n)[j] = NewIds(n)[k] => j = k
<1>1. FreshIds \subseteq Ids /\ IsFiniteSet(Ids)
  BY OneWaySyncAssumption DEF FreshIds
<1>2. IsFiniteSet(FreshIds)
  BY <1>1, FS_Subset
<1> DEFINE c == Cardinality(FreshIds)
<1>3. c \in Nat /\ ExistsBijection(1..c, FreshIds)
  BY <1>2, FS_CardinalityType
<1>4. PICK b \in [1..c -> FreshIds] : \A j, k \in 1..c : b[j] = b[k] => j = k
  <2> HIDE DEF c
  <2>1. PICK b \in Bijection(1..c, FreshIds) : TRUE
    BY <1>3 DEF ExistsBijection
  <2> QED
    BY <2>1 DEF Bijection, Injection, IsInjective
<1> HIDE DEF c
<1>5. 1..n \subseteq 1..c
  BY <1>3 DEF c
<1> DEFINE f == [k \in 1..n |-> b[k]]
<1>6. f \in [1..n -> FreshIds] /\ \A j, k \in 1..n : f[j] = f[k] => j = k
  BY <1>4, <1>5
<1> HIDE DEF f
<1>7. \E g \in [1..n -> FreshIds] : \A j, k \in 1..n : g[j] = g[k] => j = k
  BY <1>6
<1> QED
  BY <1>7, Zenon DEF NewIds

\* Adding items keeps the entries there are and gives each new item its id.
LEMMA WithAddedFacts ==
  ASSUME NEW queue, NEW n, NEW ids, NEW w, n \in Nat, n <= Cardinality(FreshIds),
         ids = NewIds(n), w = WithAdded(storage, queue, n)
  PROVE  /\ \A i : i \in DOMAIN w <=> i \in DOMAIN storage \/ \E k \in 1..n : i = ids[k]
         /\ \A i \in DOMAIN storage : w[i] = storage[i]
         /\ \A k \in 1..n : w[ids[k]] = queue[k] /\ ids[k] \in FreshIds /\ ids[k] \notin DOMAIN storage
<1> DEFINE new == {ids[k] : k \in 1..n}
<1>1. \A k \in 1..n : ids[k] \in FreshIds
  BY NewIdsFacts
<1>2. \A j, k \in 1..n : ids[j] = ids[k] => j = k
  BY NewIdsFacts
<1>3. \A i \in FreshIds : i \notin DOMAIN storage
  BY DEF FreshIds
<1>4. w = [i \in DOMAIN storage \cup new |->
             IF i \in DOMAIN storage THEN storage[i] ELSE queue[CHOOSE k \in 1..n : ids[k] = i]]
  BY DEF WithAdded
<1>5. DOMAIN w = DOMAIN storage \cup new /\ \A i \in DOMAIN storage : w[i] = storage[i]
  BY <1>4
<1>6. ASSUME NEW k \in 1..n PROVE w[ids[k]] = queue[k]
  <2>1. (CHOOSE j \in 1..n : ids[j] = ids[k]) = k
    BY <1>2
  <2>2. ids[k] \in new /\ ids[k] \notin DOMAIN storage
    BY <1>1, <1>3
  <2>3. w[ids[k]] = queue[CHOOSE j \in 1..n : ids[j] = ids[k]]
    BY <1>4, <2>2
  <2> QED
    BY <2>1, <2>3
<1> QED
  BY <1>1, <1>3, <1>5, <1>6

(* The last of several modifications of an entry is the one that stays.    *)
LEMMA WithModifiedFacts ==
  ASSUME NEW store, NEW queue, NEW n \in Nat
  PROVE  LET w == WithModified(store, queue, n)
         IN  /\ DOMAIN w = DOMAIN store
             /\ \A i \in DOMAIN store :
                  \/ w[i] = store[i] /\ \A k \in 1..n : queue[k].id # i
                  \/ \E k \in 1..n : queue[k].id = i /\ w[i] = queue[k].item
<1> DEFINE w == WithModified(store, queue, n)
           mine(i) == {k \in 1..n : queue[k].id = i}
           latest(i) == CHOOSE k \in mine(i) : \A l \in mine(i) : l <= k
<1>1. w = [i \in DOMAIN store |-> IF mine(i) = {} THEN store[i] ELSE queue[latest(i)].item]
  BY DEF WithModified
<1>2. ASSUME NEW i, mine(i) # {} PROVE latest(i) \in mine(i)
  <2> DEFINE T == {n - k : k \in mine(i)}
  <2>1. T \subseteq Nat /\ T # {}
    BY <1>2
  <2> HIDE DEF T
  <2>2. PICK x \in T : \A y \in T : x <= y
    BY <2>1, LeastNatural
  <2>3. PICK k \in mine(i) : x = n - k
    BY <2>2 DEF T
  <2>4. \A l \in mine(i) : n - k <= n - l
    BY <2>2, <2>3 DEF T
  <2>5. \A l \in mine(i) : l <= k
    BY <2>4
  <2> HIDE DEF mine
  <2> QED
    BY <2>3, <2>5, Zenon
<1> HIDE DEF w, latest
<1>3. ASSUME NEW i \in DOMAIN store
      PROVE  \/ w[i] = store[i] /\ \A k \in 1..n : queue[k].id # i
             \/ \E k \in 1..n : queue[k].id = i /\ w[i] = queue[k].item
  <2>1. CASE mine(i) = {}
    BY <1>1, <2>1
  <2>2. CASE mine(i) # {}
    BY <1>1, <1>2, <2>2
  <2> QED
    BY <2>1, <2>2
<1> QED
  BY <1>1, <1>3 DEF w

StoreOK(store) == DOMAIN store \subseteq Ids /\ \A i \in DOMAIN store : store[i] \in Items

\* What a flush of the insertions can do, and what one that succeeds does.
LEMMA InsertionFacts ==
  ASSUME NEW queue \in Seq(Items), StoreOK(storage), NEW r \in FlushInsertions(storage, queue)
  PROVE  /\ r.ok \in BOOLEAN /\ r.queue \in Seq(Items) /\ StoreOK(r.store)
         /\ DOMAIN storage \subseteq DOMAIN r.store
         /\ \A i \in DOMAIN storage : r.store[i] = storage[i]
         /\ r.ok => /\ r.queue = <<>>
                    /\ \/ queue = <<>> /\ r.store = storage
                       \/ /\ Len(queue) <= Cardinality(FreshIds)
                          /\ r.store = WithAdded(storage, queue, Len(queue))
<1>1. CASE queue = <<>>
  <2>1. r = [store |-> storage, queue |-> queue, ok |-> TRUE]
    BY <1>1 DEF FlushInsertions
  <2>2. r.store = storage /\ r.queue = queue /\ r.ok = TRUE
    BY <2>1
  <2> QED
    BY <1>1, <2>2
<1>2. CASE queue # <<>>
  <2> DEFINE c == Cardinality(FreshIds)
  <2>1. Len(queue) \in Nat
    OBVIOUS
  <2>2. PICK a \in AddItems(storage, queue) :
          r.store = a.store /\ r.ok = a.ok /\ r.queue = IF a.ok THEN <<>> ELSE queue
    BY <1>2 DEF FlushInsertions
  <2>3. /\ a.ok \in BOOLEAN
        /\ \E n \in 0..Len(queue) : n <= c /\ a.store = WithAdded(storage, queue, n)
        /\ a.ok => Len(queue) <= c /\ a.store = WithAdded(storage, queue, Len(queue))
    <3> DEFINE l == Len(queue)
    <3> HIDE DEF c, l
    <3>1. \/ \E n \in 0..l : n <= c /\ a = [store |-> WithAdded(storage, queue, n), ok |-> FALSE]
          \/ l <= c /\ a = [store |-> WithAdded(storage, queue, l), ok |-> TRUE]
      BY DEF AddItems, c, l
    <3>2. l \in 0..l
      BY <2>1 DEF l
    <3>3. CASE l <= c /\ a = [store |-> WithAdded(storage, queue, l), ok |-> TRUE]
      <4>1. a.ok = TRUE /\ a.store = WithAdded(storage, queue, l)
        BY <3>3
      <4> QED
        BY <3>2, <3>3, <4>1 DEF l
    <3>4. ASSUME NEW n \in 0..l, n <= c, a = [store |-> WithAdded(storage, queue, n), ok |-> FALSE]
          PROVE  a.ok = FALSE /\ a.store = WithAdded(storage, queue, n)
      BY <3>4
    <3> QED
      BY <3>1, <3>3, <3>4 DEF l
  <2>4. PICK n \in 0..Len(queue) : n <= c /\ a.store = WithAdded(storage, queue, n)
    BY <2>3
  <2> DEFINE ids == NewIds(n)
             w == WithAdded(storage, queue, n)
  <2>5. n \in Nat /\ \A k \in 1..n : queue[k] \in Items
    BY <2>1
  <2>6. /\ \A i : i \in DOMAIN w <=> i \in DOMAIN storage \/ \E k \in 1..n : i = ids[k]
        /\ \A i \in DOMAIN storage : w[i] = storage[i]
        /\ \A k \in 1..n : w[ids[k]] = queue[k] /\ ids[k] \in FreshIds
    <3>1. n \in Nat /\ n <= Cardinality(FreshIds)
      BY <2>4, <2>5
    <3>2. ids = NewIds(n) /\ w = WithAdded(storage, queue, n)
      OBVIOUS
    <3> HIDE DEF ids, w
    <3> QED
      BY <3>1, <3>2, WithAddedFacts
  <2>7. FreshIds \subseteq Ids
    BY DEF FreshIds
  <2> HIDE DEF ids, w
  <2>8. StoreOK(w) /\ DOMAIN storage \subseteq DOMAIN w
    BY <2>5, <2>6, <2>7 DEF StoreOK
  <2>9. a.store = w
    BY <2>4 DEF w
  <2> QED
    BY <2>2, <2>3, <2>6, <2>8, <2>9
<1> QED
  BY <1>1, <1>2

\* The same of the modifications.
LEMMA ModificationFacts ==
  ASSUME NEW queue \in Seq([id : Ids, item : Items]), NEW store, StoreOK(store),
         NEW r \in FlushModifications(store, queue)
  PROVE  /\ r.ok \in BOOLEAN /\ r.queue \in Seq([id : Ids, item : Items]) /\ StoreOK(r.store)
         /\ DOMAIN r.store = DOMAIN store
         /\ r.ok => /\ r.queue = <<>>
                    /\ (queue = <<>> /\ r.store = store)
                       \/ r.store = WithModified(store, queue, Len(queue))
<1>1. CASE queue = <<>>
  <2>1. r = [store |-> store, queue |-> queue, ok |-> TRUE]
    BY <1>1 DEF FlushModifications
  <2>2. r.store = store /\ r.queue = queue /\ r.ok = TRUE
    BY <2>1
  <2> QED
    BY <1>1, <2>2
<1>2. CASE queue # <<>>
  <2>1. Len(queue) \in Nat /\ \A k \in 1..Len(queue) : queue[k].item \in Items
    <3> DEFINE R == [id : Ids, item : Items]
    <3>2. queue \in Seq(R) /\ \A x \in R : x.item \in Items
      OBVIOUS
    <3> HIDE DEF R
    <3>1. \A k \in 1..Len(queue) : queue[k] \in R
      BY <3>2
    <3> QED
      BY <3>1, <3>2
  <2>2. PICK a \in ModifyItems(store, queue) :
          r.store = a.store /\ r.ok = a.ok /\ r.queue = IF a.ok THEN <<>> ELSE queue
    BY <1>2 DEF FlushModifications
  <2>3. /\ a.ok \in BOOLEAN
        /\ \E n \in 0..Len(queue) : a.store = WithModified(store, queue, n)
        /\ a.ok => a.store = WithModified(store, queue, Len(queue))
    <3> DEFINE l == Len(queue)
    <3> HIDE DEF l
    <3>1. \/ \E n \in 0..l : a = [store |-> WithModified(store, queue, n), ok |-> FALSE]
          \/ a = [store |-> WithModified(store, queue, l), ok |-> TRUE]
      BY DEF ModifyItems, l
    <3>2. l \in 0..l
      BY <2>1 DEF l
    <3>3. CASE a = [store |-> WithModified(store, queue, l), ok |-> TRUE]
      <4>1. a.ok = TRUE /\ a.store = WithModified(store, queue, l)
        BY <3>3
      <4> QED
        BY <3>2, <4>1 DEF l
    <3>4. ASSUME NEW n \in 0..l, a = [store |-> WithModified(store, queue, n), ok |-> FALSE]
          PROVE  a.ok = FALSE /\ a.store = WithModified(store, queue, n)
      BY <3>4
    <3> QED
      BY <3>1, <3>3, <3>4 DEF l
  <2>4. PICK n \in 0..Len(queue) : a.store = WithModified(store, queue, n)
    BY <2>3
  <2> DEFINE w == WithModified(store, queue, n)
  <2>5. n \in Nat /\ \A k \in 1..n : queue[k].item \in Items
    BY <2>1
  <2>6. /\ DOMAIN w = DOMAIN store
        /\ \A i \in DOMAIN store : w[i] = store[i] \/ \E k \in 1..n : w[i] = queue[k].item
    BY <2>5, WithModifiedFacts
  <2> HIDE DEF w
  <2>7. StoreOK(w)
    BY <2>5, <2>6 DEF StoreOK
  <2>8. a.store = w
    BY <2>4 DEF w
  <2> QED
    BY <2>2, <2>3, <2>6, <2>7, <2>8
<1> QED
  BY <1>1, <1>2

\* What a removal does: it takes entries away, all of them if it succeeds.
LEMMA RemovalFacts ==
  ASSUME NEW ids, NEW r \in RemoveItems(storage, ids)
  PROVE  /\ r.ok \in BOOLEAN
         /\ \E gone \in SUBSET ids : /\ r.store = [i \in DOMAIN storage \ gone |-> storage[i]]
                                     /\ r.ok => gone = ids
<1> DEFINE Kept(gone) == [i \in DOMAIN storage \ gone |-> storage[i]]
<1> HIDE DEF Kept
<1>1. \/ \E gone \in SUBSET ids : r = [store |-> Kept(gone), ok |-> FALSE]
      \/ r = [store |-> Kept(ids), ok |-> TRUE]
  BY DEF RemoveItems, Kept
<1>2. CASE r = [store |-> Kept(ids), ok |-> TRUE]
  <2>1. r.ok = TRUE /\ r.store = Kept(ids)
    BY <1>2
  <2> QED
    BY <2>1 DEF Kept
<1>3. ASSUME NEW gone \in SUBSET ids, r = [store |-> Kept(gone), ok |-> FALSE]
      PROVE  r.ok = FALSE /\ r.store = Kept(gone)
  BY <1>3
<1> QED
  BY <1>1, <1>2, <1>3 DEF Kept

-----------------------------------------------------------------------------
(***************************************************************************)
(* Type correctness.                                                       *)
(***************************************************************************)
InPhase == pc # "idle" => phase \in DOMAIN Phases

\* Phases is a sequence.
LEMMA PhasesFacts ==
  Len(Phases) \in Nat /\ DOMAIN Phases = 1..Len(Phases)
  BY OneWaySyncAssumption

\* The types hold at first.
LEMMA TypeInit == Init => TypeOK /\ InPhase
<1> SUFFICES ASSUME Init PROVE TypeOK /\ InPhase
  OBVIOUS
<1>1. DOMAIN storage \subseteq Ids /\ \A i \in DOMAIN storage : storage[i] \in Items
  BY ItemFacts DEF Init
<1>2. MaxRuns \in Nat /\ 0 \in 0..MaxRuns
  BY OneWaySyncAssumption
<1>3. <<>> \in Seq(Items) /\ <<>> \in Seq([id : Ids, item : Items])
  OBVIOUS
<1>4. /\ src = <<>> /\ index = <<>> /\ toAdd = <<>> /\ toModify = <<>> /\ pending = {} /\ phase = 1
      /\ pc = "idle" /\ result = "None" /\ runs = 0
      /\ {dbError, inputError, cancelSync, clean, cut} \subseteq BOOLEAN /\ unread = {}
      /\ stats \in [added : Nat, modified : Nat, removed : Nat]
  BY DEF Init
<1> HIDE DEF Init
<1> QED
  BY <1>1, <1>2, <1>3, <1>4 DEF TypeOK, InPhase, Results

\* The parts that one step of processItems() changes.
QueuesOK == toAdd \in Seq(Items) /\ toModify \in Seq([id : Ids, item : Items])

\* The storage, the queues and the index are what the storage calls expect, and finite.
LEMMA FlushTypes ==
  ASSUME TypeOK
  PROVE  /\ StoreOK(storage) /\ QueuesOK
         /\ IsFiniteSet(DOMAIN index) /\ IsFiniteSet(DOMAIN storage) /\ IsFiniteSet(DOMAIN src)
<1>1. IsFiniteSet(Ids) /\ IsFiniteSet(Slots)
  BY OneWaySyncAssumption
<1>2. DOMAIN index \subseteq Ids /\ DOMAIN storage \subseteq Ids /\ DOMAIN src \subseteq Slots
  BY DEF TypeOK
<1> QED
  BY <1>1, <1>2, FS_Subset DEF TypeOK, StoreOK, QueuesOK

\* What the source delivers is an item that compares like the one it has.
LEMMA DeliveredFacts ==
  ASSUME TypeOK, InPhase, pc # "idle", NEW s \in pending, NEW item \in Delivered(s)
  PROVE  /\ item \in Items /\ Equal(Phases[phase], src[s], item)
         /\ \A y : Equal(Phases[phase], item, y) <=> Equal(Phases[phase], src[s], y)
<1>1. phase \in DOMAIN Phases /\ src[s] \in Contacts
  BY DEF InPhase, TypeOK
<1>2. src[s] \in Items /\ Project(Phases[phase], src[s]) \in Items
  BY <1>1, ItemFacts
<1>3. item = src[s] \/ item = Project(Phases[phase], src[s])
  BY DEF Delivered
<1>4. \A y : Equal(Phases[phase], item, y) <=> Equal(Phases[phase], src[s], y)
  BY <1>3, ProjectTwice
<1>5. Equal(Phases[phase], src[s], item)
  BY <1>4 DEF Equal
<1> QED
  BY <1>2, <1>3, <1>4, <1>5

\* One item of the source keeps the types.
LEMMA ProcessTypes ==
  ASSUME TypeOK, InPhase, NEW s \in Slots, ProcessItem(s)
  PROVE  TypeOK' /\ InPhase'
<1>3. PICK item \in Delivered(s) : MarkFound(item) \/ ModifyCandidate(item) \/ AddNew(item)
  BY DEF ProcessItem
<1>1. item \in Items
  BY DeliveredFacts DEF ProcessItem
<1>2. /\ pc' \in {"check", "process"} /\ pending' \subseteq DOMAIN src /\ pc # "idle"
      /\ UNCHANGED <<phase, inputError, cancelSync, src, result, runs, begun, clean, readVars>>
  BY DEF ProcessItem, TypeOK, runVars
<1> DEFINE Rest == /\ StoreOK(storage') /\ QueuesOK' /\ dbError' \in BOOLEAN
                   /\ DOMAIN index' \subseteq Ids
                   /\ \A i \in DOMAIN index' : index'[i] \in [item : Items, status : Statuses]
                   /\ stats' \in [added : Nat, modified : Nat, removed : Nat]
<1>4. /\ StoreOK(storage) /\ QueuesOK /\ dbError \in BOOLEAN /\ DOMAIN index \subseteq Ids
      /\ \A i \in DOMAIN index : index[i] \in [item : Items, status : Statuses]
  BY FlushTypes DEF TypeOK
<1>s. stats \in [added : Nat, modified : Nat, removed : Nat]
  BY DEF TypeOK
<1>5. Count("added") \/ Count("modified") => stats' \in [added : Nat, modified : Nat, removed : Nat]
  <2>1. stats.added + 1 \in Nat /\ stats.modified + 1 \in Nat
    BY <1>s
  <2>2. Count("added") => stats' = [stats EXCEPT !.added = stats.added + 1]
    BY DEF Count
  <2>3. Count("modified") => stats' = [stats EXCEPT !.modified = stats.modified + 1]
    BY DEF Count
  <2> QED
    BY <1>s, <2>1, <2>2, <2>3
<1>6. ASSUME MarkFound(item) PROVE Rest
  <2>1. UNCHANGED <<storage, toAdd, toModify, stats, dbError>>
    BY <1>6 DEF MarkFound, queueVars
  <2>2. PICK i \in DOMAIN index : index' = [index EXCEPT ![i].status = "FOUND"]
    BY <1>6 DEF MarkFound, Unmatched
  <2>3. DOMAIN index' = DOMAIN index
        /\ \A j \in DOMAIN index :
             index'[j] = index[j] \/ index'[j] = [index[j] EXCEPT !.status = "FOUND"]
    BY <2>2
  <2>4. \A j \in DOMAIN index' : index'[j] \in [item : Items, status : Statuses]
    BY <1>4, <2>3 DEF Statuses
  <2> QED
    BY <1>4, <1>s, <2>1, <2>3, <2>4 DEF QueuesOK
<1>7. ASSUME ModifyCandidate(item) PROVE Rest
  <2>1. PICK i \in Unmatched(item) :
          /\ index' = [index EXCEPT ![i] = [item |-> item, status |-> "MODIFIED"]]
          /\ LET queue == Append(toModify, [id |-> i, item |-> item])
             IN  \/ \E r \in FlushModifications(storage, queue) :
                       storage' = r.store /\ toModify' = r.queue /\ dbError' = (dbError \/ ~r.ok)
                 \/ toModify' = queue /\ UNCHANGED <<storage, dbError>>
    BY <1>7 DEF ModifyCandidate
  <2> DEFINE queue == Append(toModify, [id |-> i, item |-> item])
  <2>2. i \in Ids /\ [id |-> i, item |-> item] \in [id : Ids, item : Items]
    BY <1>1, <1>4 DEF Unmatched
  <2>3. queue \in Seq([id : Ids, item : Items])
    BY <1>4, <2>2 DEF QueuesOK
  <2> HIDE DEF queue
  <2>4. StoreOK(storage') /\ toModify' \in Seq([id : Ids, item : Items]) /\ dbError' \in BOOLEAN
    BY <1>4, <2>1, <2>3, ModificationFacts DEF queue
  <2>5. /\ DOMAIN index' \subseteq Ids
        /\ \A j \in DOMAIN index' : index'[j] \in [item : Items, status : Statuses]
    BY <1>1, <1>4, <2>1 DEF Statuses
  <2> QED
    BY <1>4, <1>5, <1>7, <2>4, <2>5 DEF ModifyCandidate, QueuesOK
<1>8. ASSUME AddNew(item) PROVE Rest
  <2> DEFINE queue == Append(toAdd, item)
  <2>1. queue \in Seq(Items)
    BY <1>1, <1>4 DEF QueuesOK
  <2>2. \/ \E r \in FlushInsertions(storage, queue) :
             storage' = r.store /\ toAdd' = r.queue /\ dbError' = (dbError \/ ~r.ok)
        \/ toAdd' = queue /\ UNCHANGED <<storage, dbError>>
    BY <1>8 DEF AddNew
  <2> HIDE DEF queue
  <2>3. StoreOK(storage') /\ toAdd' \in Seq(Items) /\ dbError' \in BOOLEAN
    BY <1>4, <2>1, <2>2, InsertionFacts
  <2> QED
    BY <1>4, <1>5, <1>8, <2>3 DEF AddNew, QueuesOK
<1>9. Rest
  BY <1>3, <1>6, <1>7, <1>8
<1> QED
  BY <1>2, <1>9 DEF TypeOK, InPhase, StoreOK, QueuesOK

\* Every step keeps the types.
LEMMA TypeStep == TypeOK /\ InPhase /\ [Next]_vars => TypeOK' /\ InPhase'
<1> SUFFICES ASSUME TypeOK, InPhase, [Next]_vars PROVE TypeOK' /\ InPhase'
  OBVIOUS
<1>1. CASE StartRun
  <2>1. /\ DOMAIN src' \subseteq Slots /\ \A s \in DOMAIN src' : src'[s] \in Contacts
        /\ runs' \in 0..MaxRuns /\ clean' \in BOOLEAN /\ pending' = {}
        /\ cut' = FALSE /\ unread' = {}
    BY <1>1, OneWaySyncAssumption DEF StartRun, TypeOK
  <2>2. /\ pc' \in {"idle", "phase"} /\ result' \in Results /\ phase' \in {phase, 1}
        /\ stats' \in [added : Nat, modified : Nat, removed : Nat] /\ index' \in {index, <<>>}
        /\ pc' # "idle" => phase' = 1 /\ Phases # <<>>
    BY <1>1 DEF StartRun, Return, Results, Ok, TypeOK
  <2>3. UNCHANGED <<storage, toAdd, toModify, dbError, inputError, cancelSync>>
    BY <1>1 DEF StartRun, queueVars
  <2>4. Phases # <<>> => 1 \in DOMAIN Phases
    BY PhasesFacts, OneWaySyncAssumption
  <2>5. /\ DOMAIN index' \subseteq Ids
        /\ \A i \in DOMAIN index' : index'[i] \in [item : Items, status : Statuses]
    BY <2>2 DEF TypeOK
  <2> QED
    BY <2>1, <2>2, <2>3, <2>4, <2>5 DEF TypeOK, InPhase
<1>2. CASE Cancel
  BY <1>2 DEF Cancel, TypeOK, InPhase, queueVars, runVars
<1>3. CASE SourceFails
  BY <1>3 DEF SourceFails, Return, TypeOK, InPhase, queueVars, Results
<1>4. CASE UpdateIndexDB
  <2>3. dbError' \in BOOLEAN /\ pending' = DOMAIN src /\ pc' = "process" /\ pc # "idle"
    BY <1>4 DEF UpdateIndexDB
  <2>4. PICK read \in SUBSET DOMAIN storage :
          /\ index' = [i \in read |-> [item |-> storage[i], status |-> "NOT_FOUND"]]
          /\ unread' = DOMAIN storage \ read
          /\ cut' = (cut \/ unread' # {})
    BY <1>4 DEF UpdateIndexDB
  <2>5. /\ DOMAIN storage \subseteq Ids /\ \A i \in DOMAIN storage : storage[i] \in Items
        /\ cut \in BOOLEAN
    BY DEF TypeOK
  <2>6. unread' \subseteq Ids /\ cut' \in BOOLEAN
    BY <2>4, <2>5
  <2>1. /\ DOMAIN index' \subseteq Ids
        /\ \A i \in DOMAIN index' : index'[i] \in [item : Items, status : Statuses]
    BY <2>4, <2>5 DEF Statuses
  <2>2. /\ UNCHANGED <<storage, phase, toAdd, toModify, stats, inputError, cancelSync, src, result,
                       runs, begun, clean>>
    BY <1>4 DEF UpdateIndexDB, queueVars, runVars
  <2> QED
    BY <2>1, <2>2, <2>3, <2>6 DEF TypeOK, InPhase
<1>5. ASSUME NEW s \in Slots, ItemAfterCancel(s) PROVE TypeOK' /\ InPhase'
  BY <1>5 DEF ItemAfterCancel, TypeOK, InPhase, queueVars, runVars
<1>6. ASSUME NEW s \in Slots, ProcessItem(s) PROVE TypeOK' /\ InPhase'
  BY <1>6, ProcessTypes
<1>7. CASE SourceError
  BY <1>7 DEF SourceError, TypeOK, InPhase, queueVars, runVars
<1>8. CASE SourceEnd
  <2>1. PICK a \in FlushInsertions(storage, toAdd) :
          \E m \in FlushModifications(a.store, toModify) :
            /\ storage' = m.store
            /\ toAdd' = a.queue
            /\ toModify' = m.queue
            /\ dbError' = (dbError \/ ~a.ok \/ ~m.ok)
    BY <1>8 DEF SourceEnd
  <2>2. StoreOK(storage) /\ QueuesOK
    BY FlushTypes
  <2>3. StoreOK(a.store) /\ a.queue \in Seq(Items) /\ a.ok \in BOOLEAN
    BY <2>2, InsertionFacts DEF QueuesOK
  <2>4. StoreOK(storage') /\ toModify' \in Seq([id : Ids, item : Items]) /\ dbError' \in BOOLEAN
    BY <2>1, <2>2, <2>3, ModificationFacts DEF QueuesOK
  <2>5. /\ pc' = "check" /\ pc # "idle"
        /\ UNCHANGED <<phase, pending, index, stats, inputError, cancelSync, src, result, runs,
                       begun, clean, readVars>>
    BY <1>8 DEF SourceEnd, runVars
  <2> QED
    BY <2>1, <2>3, <2>4, <2>5 DEF TypeOK, InPhase, StoreOK
<1>9. CASE Stop
  BY <1>9 DEF Stop, Return, TypeOK, InPhase, queueVars, Results
<1>10. CASE CleanStorage
  <2>1. Cardinality(NotFound) \in Nat
    <3>1. IsFiniteSet(DOMAIN index) /\ NotFound \subseteq DOMAIN index
      BY FlushTypes DEF NotFound
    <3> QED
      BY <3>1, FS_Subset, FS_CardinalityType
  <2>2. /\ stats' \in [added : Nat, modified : Nat, removed : Nat]
        /\ DOMAIN index' \subseteq Ids
        /\ \A i \in DOMAIN index' : index'[i] \in [item : Items, status : Statuses]
    <3>1. /\ stats.removed + Cardinality(NotFound) \in Nat
          /\ stats \in [added : Nat, modified : Nat, removed : Nat]
      BY <2>1 DEF TypeOK
    <3>2. stats' = [stats EXCEPT !.removed = stats.removed + Cardinality(NotFound)]
      BY <1>10 DEF CleanStorage
    <3>3. stats' \in [added : Nat, modified : Nat, removed : Nat]
      BY <3>1, <3>2
    <3>4. DOMAIN index' = DOMAIN index
          /\ \A j \in DOMAIN index :
               index'[j] = index[j] \/ index'[j] = [index[j] EXCEPT !.status = "REMOVED"]
      BY <1>10 DEF CleanStorage
    <3>5. /\ DOMAIN index \subseteq Ids
          /\ \A i \in DOMAIN index : index[i] \in [item : Items, status : Statuses]
      BY DEF TypeOK
    <3> QED
      BY <3>3, <3>4, <3>5 DEF Statuses
  <2>3. StoreOK(storage') /\ dbError' \in BOOLEAN
    <3>1. CASE NotFound = {}
      BY <1>10, <3>1, FlushTypes DEF CleanStorage, TypeOK
    <3>2. CASE NotFound # {}
      <4>1. PICK r \in RemoveItems(storage, NotFound) : storage' = r.store /\ dbError' = ~r.ok
        BY <1>10, <3>2 DEF CleanStorage
      <4>2. \E gone : r.store = [i \in DOMAIN storage \ gone |-> storage[i]]
        BY RemovalFacts
      <4>3. r.ok \in BOOLEAN
        BY RemovalFacts
      <4> QED
        BY <4>1, <4>2, <4>3, FlushTypes DEF StoreOK
    <3> QED
      BY <3>1, <3>2
  <2>4. /\ pc' = "cleaned" /\ pc # "idle"
        /\ UNCHANGED <<phase, pending, toAdd, toModify, inputError, cancelSync, src, result, runs,
                       begun, clean, readVars>>
    BY <1>10 DEF CleanStorage, queueVars, runVars
  <2> QED
    BY <2>2, <2>3, <2>4 DEF TypeOK, InPhase, StoreOK
<1>11. CASE EndPhase
  <2>1. /\ UNCHANGED <<storage, pending, toAdd, toModify, stats, dbError, inputError, cancelSync,
                       src, runs, begun, clean, readVars>>
        /\ index' \in {index, <<>>}
    BY <1>11 DEF EndPhase, queueVars
  <2>2. \/ pc' = "idle" /\ phase' = phase /\ result' \in Results
        \/ pc' = "phase" /\ phase < Len(Phases) /\ phase' = phase + 1 /\ result' = result
    BY <1>11 DEF EndPhase, Return, Results, Ok
  <2>3. phase \in DOMAIN Phases
    BY <1>11 DEF EndPhase, InPhase
  <2>4. phase < Len(Phases) => phase + 1 \in 1..Len(Phases)
    BY <2>3, PhasesFacts
  <2>5. /\ DOMAIN index' \subseteq Ids
        /\ \A i \in DOMAIN index' : index'[i] \in [item : Items, status : Statuses]
    BY <2>1 DEF TypeOK
  <2> QED
    BY <2>1, <2>2, <2>4, <2>5, PhasesFacts DEF TypeOK, InPhase
<1>12. CASE UNCHANGED vars
  BY <1>12 DEF vars, TypeOK, InPhase, queueVars, runVars
<1> QED
  BY <1>1, <1>2, <1>3, <1>4, <1>5, <1>6, <1>7, <1>8, <1>9, <1>10, <1>11, <1>12 DEF Next

-----------------------------------------------------------------------------
(***************************************************************************)
(* What was delivered so far is matched, one to one, with the entries of   *)
(* the storage that are not to be removed and with the items still queued. *)
(***************************************************************************)

\* Entry i holds this item, or will when the modifications are flushed.
Holds(store, mods, i, ignored, item) ==
  IF \E k \in DOMAIN mods : mods[k].id = i
  THEN \E k \in DOMAIN mods : mods[k].id = i /\ Equal(ignored, item, mods[k].item)
  ELSE Equal(ignored, item, store[i])

\* m takes every slot of D, with items from, to an id, or to -k, the k-th item to be added; no
\* entry but those left over is without a slot.
Match(m, from, D, left, store, adds, mods, ignored) ==
  /\ m \in [D -> Int]
  /\ \A s, t \in D : m[s] = m[t] => s = t
  /\ \A s \in D : \/ m[s] \in DOMAIN store \ left /\ Holds(store, mods, m[s], ignored, from[s])
                  \/ -m[s] \in DOMAIN adds /\ Equal(ignored, from[s], adds[-m[s]])
  /\ \A i \in DOMAIN store \ left : \E s \in D : m[s] = i
  /\ \A k \in DOMAIN adds : \E s \in D : m[s] = -k

\* Nothing left over is about to be modified, and nothing is modified twice.
Consistent(left, store, mods) ==
  /\ left \subseteq DOMAIN store
  /\ \A j \in DOMAIN mods : mods[j].id \in DOMAIN store \ left
  /\ \A j, k \in DOMAIN mods : mods[j].id = mods[k].id => j = k

\* Nothing is delivered and nothing is queued: everything is left over.
LEMMA MatchNothing ==
  ASSUME NEW from, NEW store, NEW ignored
  PROVE  /\ Match(<<>>, from, {}, DOMAIN store, store, <<>>, <<>>, ignored)
         /\ Consistent(DOMAIN store, store, <<>>)
<1>1. DOMAIN (<<>>) = {} /\ <<>> \in [{} -> Int]
  OBVIOUS
<1> QED
  BY <1>1 DEF Match, Consistent

\* Entry i is matched with slot s, now that the modifications are mods2.
LEMMA MatchEntry ==
  ASSUME NEW m, NEW from, NEW D, NEW left, NEW store, NEW adds, NEW mods, NEW ignored,
         Match(m, from, D, left, store, adds, mods, ignored),
         DOMAIN store \subseteq Nat, left \subseteq DOMAIN store,
         adds \in Seq(Items), NEW s, s \notin D, NEW i \in left, NEW mods2,
         Holds(store, mods2, i, ignored, from[s]),
         \A j, x : j # i /\ Holds(store, mods, j, ignored, x) => Holds(store, mods2, j, ignored, x)
  PROVE  \E m2 : Match(m2, from, D \cup {s}, left \ {i}, store, adds, mods2, ignored)
<1> DEFINE m2 == [t \in D \cup {s} |-> IF t = s THEN i ELSE m[t]]
<1>0. /\ m \in [D -> Int] /\ \A t, u \in D : m[t] = m[u] => t = u
      /\ \A t \in D : \/ m[t] \in DOMAIN store \ left /\ Holds(store, mods, m[t], ignored, from[t])
                      \/ -m[t] \in DOMAIN adds /\ Equal(ignored, from[t], adds[-m[t]])
      /\ \A j \in DOMAIN store \ left : \E t \in D : m[t] = j
      /\ \A k \in DOMAIN adds : \E t \in D : m[t] = -k
  BY DEF Match
<1>1. DOMAIN adds = 1..Len(adds) /\ Len(adds) \in Nat /\ i \in Nat
  OBVIOUS
<1>2. \A t \in D : m[t] # i
  <2> TAKE t \in D
  <2>1. m[t] \in DOMAIN store \ left \/ -m[t] \in 1..Len(adds)
    BY <1>0, <1>1
  <2>2. m[t] \in Int
    BY <1>0
  <2> QED
    BY <1>1, <2>1, <2>2
<1>3. m2 \in [D \cup {s} -> Int] /\ m2[s] = i /\ \A t \in D : m2[t] = m[t]
  BY <1>0, <1>1
<1> HIDE DEF m2
<1>4. \A t, u \in D \cup {s} : m2[t] = m2[u] => t = u
  BY <1>0, <1>2, <1>3
<1>5. \A t \in D \cup {s} :
        \/ m2[t] \in DOMAIN store \ (left \ {i}) /\ Holds(store, mods2, m2[t], ignored, from[t])
        \/ -m2[t] \in DOMAIN adds /\ Equal(ignored, from[t], adds[-m2[t]])
  <2> TAKE t \in D \cup {s}
  <2>1. CASE t = s
    BY <1>3, <2>1
  <2>2. CASE t \in D
    <3>1. m2[t] = m[t] /\ m[t] # i
      BY <1>2, <1>3, <2>2
    <3>2. CASE m[t] \in DOMAIN store \ left /\ Holds(store, mods, m[t], ignored, from[t])
      <4>1. Holds(store, mods2, m[t], ignored, from[t])
        BY <3>1, <3>2
      <4> QED
        BY <3>1, <3>2, <4>1
    <3>3. CASE -m[t] \in DOMAIN adds /\ Equal(ignored, from[t], adds[-m[t]])
      BY <3>1, <3>3
    <3> QED
      BY <1>0, <2>2, <3>2, <3>3
  <2> QED
    BY <2>1, <2>2
<1>6. \A j \in DOMAIN store \ (left \ {i}) : \E t \in D \cup {s} : m2[t] = j
  BY <1>0, <1>3
<1>7. \A k \in DOMAIN adds : \E t \in D \cup {s} : m2[t] = -k
  BY <1>0, <1>3
<1>8. Match(m2, from, D \cup {s}, left \ {i}, store, adds, mods2, ignored)
  BY <1>3, <1>4, <1>5, <1>6, <1>7, Zenon DEF Match
<1> QED
  BY <1>8

\* An item is queued to be added for slot s.
LEMMA MatchQueued ==
  ASSUME NEW m, NEW from, NEW D, NEW left, NEW store, NEW adds, NEW mods, NEW ignored,
         Match(m, from, D, left, store, adds, mods, ignored), DOMAIN store \subseteq Nat,
         adds \in Seq(Items), NEW s, s \notin D, NEW item \in Items, Equal(ignored, from[s], item)
  PROVE  \E m2 : Match(m2, from, D \cup {s}, left, store, Append(adds, item), mods, ignored)
<1> DEFINE n == Len(adds)
           q == Append(adds, item)
           m2 == [t \in D \cup {s} |-> IF t = s THEN -(n + 1) ELSE m[t]]
<1>0. /\ m \in [D -> Int] /\ \A t, u \in D : m[t] = m[u] => t = u
      /\ \A t \in D : \/ m[t] \in DOMAIN store \ left /\ Holds(store, mods, m[t], ignored, from[t])
                      \/ -m[t] \in DOMAIN adds /\ Equal(ignored, from[t], adds[-m[t]])
      /\ \A j \in DOMAIN store \ left : \E t \in D : m[t] = j
      /\ \A k \in DOMAIN adds : \E t \in D : m[t] = -k
  BY DEF Match
<1>1. /\ DOMAIN adds = 1..n /\ n \in Nat /\ DOMAIN q = 1..n + 1 /\ q[n + 1] = item
      /\ \A k \in 1..n : q[k] = adds[k] /\ k \in 1..n + 1
  BY AppendFacts
<1> HIDE DEF n, q
<1>2. -(n + 1) \in Int /\ -(n + 1) < 0 /\ -(-(n + 1)) = n + 1
  BY <1>1
<1>3. m2 \in [D \cup {s} -> Int] /\ m2[s] = -(n + 1) /\ \A t \in D : m2[t] = m[t]
  BY <1>0, <1>2
<1> HIDE DEF m2
<1>4. \A t \in D : m[t] # -(n + 1)
  <2> TAKE t \in D
  <2>1. m[t] \in DOMAIN store \ left \/ -m[t] \in 1..n
    BY <1>0, <1>1
  <2>2. m[t] \in Int
    BY <1>0
  <2> QED
    BY <1>1, <1>2, <2>1, <2>2
<1>5. \A t, u \in D \cup {s} : m2[t] = m2[u] => t = u
  BY <1>0, <1>3, <1>4
<1>6. \A t \in D \cup {s} :
        \/ m2[t] \in DOMAIN store \ left /\ Holds(store, mods, m2[t], ignored, from[t])
        \/ -m2[t] \in DOMAIN q /\ Equal(ignored, from[t], q[-m2[t]])
  <2> TAKE t \in D \cup {s}
  <2>1. CASE t = s
    BY <1>1, <1>2, <1>3, <2>1
  <2>2. CASE t \in D
    BY <1>0, <1>1, <1>3, <2>2
  <2> QED
    BY <2>1, <2>2
<1>7. \A j \in DOMAIN store \ left : \E t \in D \cup {s} : m2[t] = j
  BY <1>0, <1>3
<1>8. \A k \in DOMAIN q : \E t \in D \cup {s} : m2[t] = -k
  <2> TAKE k \in DOMAIN q
  <2>1. k \in DOMAIN adds \/ k = n + 1
    BY <1>1
  <2> QED
    BY <1>0, <1>3, <2>1
<1>9. Match(m2, from, D \cup {s}, left, store, q, mods, ignored)
  BY <1>3, <1>5, <1>6, <1>7, <1>8, Zenon DEF Match
<1> QED
  BY <1>9 DEF q

\* The queued items get their ids.
LEMMA MatchInserted ==
  ASSUME NEW m, NEW from, NEW D, NEW left, NEW adds, NEW mods, NEW ignored,
         Match(m, from, D, left, storage, adds, mods, ignored), Consistent(left, storage, mods),
         StoreOK(storage), adds \in Seq(Items), Len(adds) <= Cardinality(FreshIds)
  PROVE  LET w == WithAdded(storage, adds, Len(adds))
         IN  /\ \E m2 : Match(m2, from, D, left, w, <<>>, mods, ignored)
             /\ Consistent(left, w, mods)
<1> DEFINE n == Len(adds)
           w == WithAdded(storage, adds, n)
           ids == NewIds(n)
           m2 == [t \in D |-> IF m[t] \in DOMAIN storage THEN m[t] ELSE ids[-m[t]]]
<1>0. /\ m \in [D -> Int] /\ \A t, u \in D : m[t] = m[u] => t = u
      /\ \A t \in D :
           \/ m[t] \in DOMAIN storage \ left /\ Holds(storage, mods, m[t], ignored, from[t])
           \/ -m[t] \in DOMAIN adds /\ Equal(ignored, from[t], adds[-m[t]])
      /\ \A j \in DOMAIN storage \ left : \E t \in D : m[t] = j
      /\ \A k \in DOMAIN adds : \E t \in D : m[t] = -k
  BY DEF Match
<1>1. n \in Nat /\ DOMAIN adds = 1..n /\ DOMAIN storage \subseteq Nat /\ FreshIds \subseteq Nat
  <2>1. Ids \subseteq Nat
    BY OneWaySyncAssumption
  <2>2. DOMAIN storage \subseteq Ids /\ FreshIds \subseteq Ids
    BY DEF StoreOK, FreshIds
  <2>3. n \in Nat /\ DOMAIN adds = 1..n
    OBVIOUS
  <2> HIDE DEF n
  <2> QED
    BY <2>1, <2>2, <2>3
<1>2. /\ \A i : i \in DOMAIN w <=> i \in DOMAIN storage \/ \E k \in 1..n : i = ids[k]
      /\ \A i \in DOMAIN storage : w[i] = storage[i]
      /\ \A k \in 1..n : w[ids[k]] = adds[k] /\ ids[k] \in FreshIds /\ ids[k] \notin DOMAIN storage
  <2>1. ids = NewIds(n) /\ w = WithAdded(storage, adds, n) /\ n <= Cardinality(FreshIds)
    OBVIOUS
  <2> HIDE DEF n, ids, w
  <2> QED
    BY <1>1, <2>1, WithAddedFacts
<1>3. \A j, k \in 1..n : ids[j] = ids[k] => j = k
  BY <1>1, NewIdsFacts
<1>c. /\ left \subseteq DOMAIN storage
      /\ \A j \in DOMAIN mods : mods[j].id \in DOMAIN storage \ left
      /\ \A j, k \in DOMAIN mods : mods[j].id = mods[k].id => j = k
  BY DEF Consistent
<1> HIDE DEF n, w, ids
<1>4. \A t \in D : m2[t] = IF m[t] \in DOMAIN storage THEN m[t] ELSE ids[-m[t]]
  OBVIOUS
<1>5. /\ \A t \in D :
           m[t] \notin DOMAIN storage => -m[t] \in 1..n /\ Equal(ignored, from[t], adds[-m[t]])
  BY <1>0, <1>1
<1>6. m2 \in [D -> Int]
  <2>1. ASSUME NEW t \in D PROVE (IF m[t] \in DOMAIN storage THEN m[t] ELSE ids[-m[t]]) \in Int
    <3>1. m[t] \notin DOMAIN storage => ids[-m[t]] \in Nat
      BY <1>1, <1>2, <1>5
    <3>2. m[t] \in Int
      BY <1>0
    <3> QED
      BY <3>1, <3>2
  <2> QED
    BY <2>1
<1> HIDE DEF m2
<1>7. \A t, u \in D : m2[t] = m2[u] => t = u
  <2> SUFFICES ASSUME NEW t \in D, NEW u \in D, m2[t] = m2[u] PROVE t = u
    OBVIOUS
  <2>1. m[t] \in Int /\ m[u] \in Int
    BY <1>0
  <2>2. CASE m[t] \in DOMAIN storage /\ m[u] \in DOMAIN storage
    BY <1>0, <1>4, <2>2
  <2>3. CASE m[t] \notin DOMAIN storage /\ m[u] \notin DOMAIN storage
    <3>1. -m[t] = -m[u]
      BY <1>3, <1>4, <1>5, <2>3
    <3>2. m[t] = m[u]
      BY <2>1, <3>1
    <3> QED
      BY <1>0, <3>2
  <2>4. CASE (m[t] \in DOMAIN storage) # (m[u] \in DOMAIN storage)
    BY <1>2, <1>4, <1>5, <2>4
  <2> QED
    BY <2>2, <2>3, <2>4
<1>8. \A t \in D : m2[t] \in DOMAIN w \ left /\ Holds(w, mods, m2[t], ignored, from[t])
  <2> TAKE t \in D
  <2>1. CASE m[t] \in DOMAIN storage
    <3>1. m[t] \in DOMAIN storage \ left /\ Holds(storage, mods, m[t], ignored, from[t])
      BY <1>0, <1>1, <2>1
    <3>2. Holds(w, mods, m[t], ignored, from[t])
      BY <1>2, <3>1 DEF Holds
    <3> QED
      BY <1>2, <1>4, <2>1, <3>1, <3>2
  <2>2. CASE m[t] \notin DOMAIN storage
    <3> DEFINE k == -m[t]
    <3>1. k \in 1..n /\ Equal(ignored, from[t], adds[k]) /\ m2[t] = ids[k]
      BY <1>4, <1>5, <2>2
    <3> HIDE DEF k
    <3>2. ids[k] \in DOMAIN w \ left /\ w[ids[k]] = adds[k] /\ ids[k] \notin DOMAIN storage
      BY <1>2, <1>c, <3>1
    <3>3. Holds(w, mods, ids[k], ignored, from[t])
      BY <1>c, <3>1, <3>2 DEF Holds
    <3> QED
      BY <3>1, <3>2, <3>3
  <2> QED
    BY <2>1, <2>2
<1>9. \A i \in DOMAIN w \ left : \E t \in D : m2[t] = i
  <2> TAKE i \in DOMAIN w \ left
  <2>1. CASE i \in DOMAIN storage
    BY <1>0, <1>4, <2>1
  <2>2. ASSUME NEW k \in 1..n, i = ids[k] PROVE \E t \in D : m2[t] = i
    <3>1. PICK t \in D : m[t] = -k
      BY <1>0, <1>1
    <3>2. -m[t] = k /\ m[t] \notin DOMAIN storage
      BY <1>1, <3>1
    <3> QED
      BY <1>4, <2>2, <3>2
  <2> QED
    BY <1>2, <2>1, <2>2
<1>10. DOMAIN (<<>>) = {}
  OBVIOUS
<1>11. Match(m2, from, D, left, w, <<>>, mods, ignored)
  BY <1>6, <1>7, <1>8, <1>9, <1>10 DEF Match
<1>12. Consistent(left, w, mods)
  BY <1>2, <1>c DEF Consistent
<1> QED
  BY <1>11, <1>12 DEF w, n

\* A queue of modifications.
QueueOK(mods) == mods \in Seq([id : Ids, item : Items])

\* The queued modifications are made.
LEMMA MatchModified ==
  ASSUME NEW m, NEW from, NEW D, NEW left, NEW store, NEW adds, NEW mods, NEW ignored, NEW w,
         Match(m, from, D, left, store, adds, mods, ignored), Consistent(left, store, mods),
         QueueOK(mods), w = WithModified(store, mods, Len(mods))
  PROVE  /\ Match(m, from, D, left, w, adds, <<>>, ignored) /\ Consistent(left, w, <<>>)
         /\ \A i \in left : w[i] = store[i]
<1> DEFINE n == Len(mods)
<1>1. n \in Nat /\ DOMAIN mods = 1..n
  BY DEF QueueOK
<1>2. /\ DOMAIN w = DOMAIN store
      /\ \A i \in DOMAIN store : \/ w[i] = store[i] /\ \A k \in 1..n : mods[k].id # i
                                 \/ \E k \in 1..n : mods[k].id = i /\ w[i] = mods[k].item
  BY <1>1, WithModifiedFacts
<1>3. /\ left \subseteq DOMAIN store
      /\ \A j \in DOMAIN mods : mods[j].id \in DOMAIN store \ left
      /\ \A j, k \in DOMAIN mods : mods[j].id = mods[k].id => j = k
  BY DEF Consistent
<1> HIDE DEF n
<1>4. DOMAIN (<<>>) = {}
  OBVIOUS
<1>5. /\ \A i \in DOMAIN store :
           \A x : Holds(store, mods, i, ignored, x) => Holds(w, <<>>, i, ignored, x)
  <2> SUFFICES ASSUME NEW i \in DOMAIN store, NEW x, Holds(store, mods, i, ignored, x)
               PROVE  Equal(ignored, x, w[i])
    BY <1>4 DEF Holds
  <2>1. CASE w[i] = store[i] /\ \A k \in 1..n : mods[k].id # i
    BY <1>1, <2>1 DEF Holds
  <2>2. ASSUME NEW k \in 1..n, mods[k].id = i, w[i] = mods[k].item PROVE Equal(ignored, x, w[i])
    BY <1>1, <1>3, <2>2 DEF Holds
  <2> QED
    BY <1>2, <2>1, <2>2
<1>6. Match(m, from, D, left, w, adds, <<>>, ignored)
  BY <1>2, <1>5 DEF Match
<1>7. Consistent(left, w, <<>>) /\ \A i \in left : w[i] = store[i]
  BY <1>1, <1>2, <1>3, <1>4 DEF Consistent
<1> QED
  BY <1>6, <1>7
-----------------------------------------------------------------------------
(***************************************************************************)
(* The invariant.                                                          *)
(***************************************************************************)
Faultless == ~inputError /\ ~dbError /\ ~cancelSync

\* This phase began with empty queues.
Whole == clean \/ phase > 1

\* The entries that no item of the source is matched with.
LeftOver == NotFound \cup unread

MatchInv ==
  Whole /\ Faultless /\ pc \in {"process", "check"} =>
    /\ Consistent(LeftOver, storage, toModify)
    /\ \A i \in NotFound : index[i].item = storage[i] /\ i \notin unread
    /\ \E m : Match(m, src, DOMAIN src \ pending, LeftOver, storage, toAdd, toModify, Phases[phase])

\* A phase begins with nothing delivered and every entry left over.
LEMMA MatchUpdateIndex ==
  ASSUME Whole => toAdd = <<>> /\ toModify = <<>>, UpdateIndexDB
  PROVE  MatchInv'
<1> SUFFICES ASSUME Whole', Faultless'
             PROVE  /\ Consistent(LeftOver', storage', toModify')
                    /\ \A i \in NotFound' : index'[i].item = storage'[i] /\ i \notin unread'
                    /\ \E m :
                         Match(m, src', DOMAIN src' \ pending', LeftOver',
                               storage', toAdd', toModify', Phases[phase'])
  BY DEF MatchInv
<1>1. /\ UNCHANGED <<storage, toAdd, toModify, src, phase, clean>>
      /\ pending' = DOMAIN src
  BY DEF UpdateIndexDB, queueVars, runVars
<1>2. toAdd = <<>> /\ toModify = <<>>
  BY <1>1 DEF Whole
<1>3. PICK read \in SUBSET DOMAIN storage :
        /\ index' = [i \in read |-> [item |-> storage[i], status |-> "NOT_FOUND"]]
        /\ unread' = DOMAIN storage \ read
  BY DEF UpdateIndexDB
<1>4. NotFound' = read /\ \A i \in read : index'[i].item = storage[i]
  BY <1>3 DEF NotFound
<1>5. DOMAIN src' \ pending' = {} /\ LeftOver' = DOMAIN storage
  BY <1>1, <1>3, <1>4 DEF LeftOver
<1>6. /\ Consistent(DOMAIN storage, storage, <<>>)
      /\ \E m : Match(m, src', {}, DOMAIN storage, storage, <<>>, <<>>, Phases[phase])
  BY MatchNothing
<1> QED
  BY <1>1, <1>2, <1>3, <1>4, <1>5, <1>6

\* What the streaming steps start from and end in.
LEMMA MatchGoal ==
  ASSUME UNCHANGED <<src, phase, clean, inputError, cancelSync, unread>>,
         Whole /\ Faultless /\ pc \in {"process", "check"} /\ Faultless' =>
           /\ Consistent(LeftOver', storage', toModify')
           /\ \A i \in NotFound' : index'[i].item = storage'[i] /\ i \notin unread
           /\ \E m :
                Match(m, src, DOMAIN src \ pending', LeftOver',
                      storage', toAdd', toModify', Phases[phase]),
         pc \in {"process", "check"}, dbError => dbError'
  PROVE  MatchInv'
  BY DEF MatchInv, Whole, Faultless

\* An item that is delivered is matched: marked, queued as a modification or as an insertion.
LEMMA MatchProcessItem ==
  ASSUME TypeOK, InPhase, MatchInv, NEW s \in Slots, ProcessItem(s)
  PROVE  MatchInv'
<1> DEFINE ignored == Phases[phase]
           D == DOMAIN src \ pending
<1>1. /\ pc = "process" /\ s \in pending /\ pending' = pending \ {s}
      /\ UNCHANGED <<src, phase, clean, inputError, cancelSync, unread>>
  BY DEF ProcessItem, runVars
<1>0. PICK item \in Delivered(s) : MarkFound(item) \/ ModifyCandidate(item) \/ AddNew(item)
  BY DEF ProcessItem
<1>2. /\ item \in Items /\ Equal(ignored, src[s], item)
      /\ \A y : Equal(ignored, item, y) <=> Equal(ignored, src[s], y)
  BY <1>1, DeliveredFacts
<1>3. s \notin D /\ DOMAIN src \ pending' = D \cup {s}
  BY <1>1 DEF TypeOK
<1>4. dbError => dbError'
  BY <1>0 DEF MarkFound, ModifyCandidate, AddNew
<1> HIDE DEF ignored, D
<1>5. ASSUME Whole, Faultless, Faultless'
      PROVE  /\ Consistent(LeftOver', storage', toModify')
             /\ \A i \in NotFound' : index'[i].item = storage'[i] /\ i \notin unread
             /\ \E m : Match(m, src, D \cup {s}, LeftOver', storage', toAdd', toModify', ignored)
  <2>1. /\ Consistent(LeftOver, storage, toModify)
        /\ \A i \in NotFound : index[i].item = storage[i] /\ i \notin unread
        /\ \E m : Match(m, src, D, LeftOver, storage, toAdd, toModify, ignored)
    BY <1>1, <1>5 DEF MatchInv, D, ignored
  <2>c. /\ LeftOver \subseteq DOMAIN storage
        /\ \A j \in DOMAIN toModify : toModify[j].id \in DOMAIN storage \ LeftOver
        /\ \A j, k \in DOMAIN toModify : toModify[j].id = toModify[k].id => j = k
    BY <2>1 DEF Consistent
  <2>2. PICK m : Match(m, src, D, LeftOver, storage, toAdd, toModify, ignored)
    BY <2>1
  <2>3. /\ DOMAIN storage \subseteq Nat /\ toAdd \in Seq(Items)
        /\ toModify \in Seq([id : Ids, item : Items])
        /\ StoreOK(storage)
    <3>1. Ids \subseteq Nat
      BY OneWaySyncAssumption
    <3>2. DOMAIN storage \subseteq Ids
      BY DEF TypeOK
    <3> QED
      BY <3>1, <3>2, FlushTypes DEF QueuesOK
  <2>4. \A i \in Unmatched(item) : i \in NotFound
    BY DEF Unmatched, NotFound
  <2>5. CASE MarkFound(item)
    <3>1. PICK i \in Unmatched(item) : /\ Equal(ignored, item, index[i].item)
                                       /\ index' = [index EXCEPT ![i].status = "FOUND"]
      BY <2>5 DEF MarkFound, ignored
    <3>2. UNCHANGED <<storage, toAdd, toModify>>
      BY <2>5 DEF MarkFound, queueVars
    <3>3. /\ i \in NotFound /\ NotFound' = NotFound \ {i}
          /\ \A j \in NotFound \ {i} : index'[j].item = index[j].item
          /\ i \in LeftOver /\ LeftOver' = LeftOver \ {i}
      <4>1. /\ i \in NotFound /\ NotFound' = NotFound \ {i}
            /\ \A j \in NotFound \ {i} : index'[j].item = index[j].item
        BY <2>4, <3>1 DEF NotFound
      <4> QED
        BY <1>1, <2>1, <4>1 DEF LeftOver
    <3>4. Holds(storage, toModify, i, ignored, src[s])
      BY <1>2, <2>1, <2>c, <3>1, <3>3 DEF Holds
    <3>5. \E m2 : Match(m2, src, D \cup {s}, LeftOver \ {i}, storage, toAdd, toModify, ignored)
      BY <1>3, <2>2, <2>3, <2>c, <3>3, <3>4, MatchEntry
    <3>6. Consistent(LeftOver \ {i}, storage, toModify)
      BY <2>c DEF Consistent
    <3>7. \A j \in NotFound' : index'[j].item = storage[j] /\ j \notin unread
      BY <2>1, <3>3
    <3> QED
      BY <3>2, <3>3, <3>5, <3>6, <3>7
  <2>6. CASE ModifyCandidate(item)
    <3>1. PICK i \in Unmatched(item) :
            /\ index' = [index EXCEPT ![i] = [item |-> item, status |-> "MODIFIED"]]
            /\ LET queue == Append(toModify, [id |-> i, item |-> item])
               IN  \/ \E r \in FlushModifications(storage, queue) :
                        storage' = r.store /\ toModify' = r.queue /\ dbError' = (dbError \/ ~r.ok)
                   \/ toModify' = queue /\ UNCHANGED <<storage, dbError>>
      BY <2>6 DEF ModifyCandidate
    <3>2. UNCHANGED toAdd
      BY <2>6 DEF ModifyCandidate
    <3>3. /\ i \in NotFound /\ NotFound' = NotFound \ {i}
          /\ \A j \in NotFound \ {i} : index'[j].item = index[j].item
          /\ i \in LeftOver /\ LeftOver' = LeftOver \ {i}
      <4>1. /\ i \in NotFound /\ NotFound' = NotFound \ {i}
            /\ \A j \in NotFound \ {i} : index'[j].item = index[j].item
        BY <2>4, <3>1 DEF NotFound
      <4> QED
        BY <1>1, <2>1, <4>1 DEF LeftOver
    <3> DEFINE e == [id |-> i, item |-> item]
               n == Len(toModify)
               queue == Append(toModify, e)
    <3>4. e \in [id : Ids, item : Items] /\ e.id = i /\ e.item = item
      <4>1. i \in Ids
        BY <3>3 DEF NotFound, TypeOK
      <4> QED
        BY <1>2, <4>1
    <3> HIDE DEF e
    <3>5. /\ queue \in Seq([id : Ids, item : Items]) /\ DOMAIN queue = 1..n + 1 /\ n \in Nat
          /\ queue[n + 1] = e /\ DOMAIN toModify = 1..n
          /\ \A k \in 1..n : queue[k] = toModify[k]
      <4>1. n \in Nat /\ DOMAIN toModify = 1..n
        BY <2>3
      <4>2. /\ queue \in Seq([id : Ids, item : Items]) /\ Len(queue) = n + 1
            /\ \A k \in 1..n : queue[k] = toModify[k]
            /\ queue[n + 1] = e
        BY <2>3, <3>4, AppendFacts
      <4>3. DOMAIN queue = 1..Len(queue)
        BY <4>2
      <4> HIDE DEF n, queue
      <4> QED
        BY <4>1, <4>2, <4>3
    <3> HIDE DEF queue, n
    <3>6. /\ n + 1 \in 1..n + 1 /\ \A k \in 1..n : k \in 1..n + 1
          /\ \A k \in 1..n + 1 : k \in 1..n \/ k = n + 1
      BY <3>5
    <3>7. Consistent(LeftOver \ {i}, storage, queue)
      <4>1. \A j \in 1..n + 1 : queue[j].id \in DOMAIN storage \ (LeftOver \ {i})
        BY <2>c, <3>3, <3>4, <3>5, <3>6
      <4>2. \A j, k \in 1..n + 1 : queue[j].id = queue[k].id => j = k
        <5>1. \A k \in 1..n : queue[k].id # i /\ queue[k].id = toModify[k].id
          BY <2>c, <3>3, <3>5
        <5> QED
          BY <2>c, <3>4, <3>5, <3>6, <5>1
      <4> QED
        BY <2>c, <3>5, <4>1, <4>2 DEF Consistent
    <3>8. Holds(storage, queue, i, ignored, src[s])
      BY <1>2, <3>4, <3>5, <3>6 DEF Holds
    <3>9. /\ \A j, x :
               j # i /\ Holds(storage, toModify, j, ignored, x) => Holds(storage, queue, j, ignored, x)
      <4> SUFFICES ASSUME NEW j, NEW x, j # i, Holds(storage, toModify, j, ignored, x)
                   PROVE  Holds(storage, queue, j, ignored, x)
        OBVIOUS
      <4>1. CASE \E k \in 1..n : toModify[k].id = j
        <5>1. PICK k \in 1..n : toModify[k].id = j /\ Equal(ignored, x, toModify[k].item)
          BY <3>5, <4>1 DEF Holds
        <5>2. queue[k] = toModify[k] /\ k \in DOMAIN queue
          BY <3>5, <3>6
        <5> QED
          BY <5>1, <5>2 DEF Holds
      <4>2. CASE ~\E k \in 1..n : toModify[k].id = j
        <5>1. Equal(ignored, x, storage[j])
          BY <3>5, <4>2 DEF Holds
        <5>2. \A k \in DOMAIN queue : queue[k].id # j
          BY <3>4, <3>5, <3>6, <4>2
        <5> QED
          BY <5>1, <5>2 DEF Holds
      <4> QED
        BY <4>1, <4>2
    <3>10. \E m2 : Match(m2, src, D \cup {s}, LeftOver \ {i}, storage, toAdd, queue, ignored)
      BY <1>3, <2>2, <2>3, <2>c, <3>3, <3>8, <3>9, MatchEntry
    <3>11. \A j \in NotFound' : index'[j].item = storage[j] /\ j \notin unread
      BY <2>1, <3>3
    <3>12. CASE toModify' = queue /\ UNCHANGED <<storage, dbError>>
      BY <3>2, <3>3, <3>7, <3>10, <3>11, <3>12
    <3>13. ASSUME NEW r \in FlushModifications(storage, queue),
                  storage' = r.store /\ toModify' = r.queue /\ dbError' = (dbError \/ ~r.ok)
           PROVE  /\ Consistent(LeftOver', storage', toModify')
                  /\ \A j \in NotFound' : index'[j].item = storage'[j] /\ j \notin unread
                  /\ \E m2 :
                       Match(m2, src, D \cup {s}, LeftOver', storage', toAdd', toModify', ignored)
      <4>1. r.ok
        BY <1>5, <3>13 DEF Faultless
      <4>2. queue # <<>>
        BY <3>5, <3>6
      <4>3. toModify' = <<>> /\ storage' = WithModified(storage, queue, Len(queue))
        BY <2>3, <3>5, <3>13, <4>1, <4>2, ModificationFacts
      <4>4. PICK m2 : Match(m2, src, D \cup {s}, LeftOver \ {i}, storage, toAdd, queue, ignored)
        BY <3>10
      <4>5. /\ Match(m2, src, D \cup {s}, LeftOver \ {i}, storage', toAdd, <<>>, ignored)
            /\ Consistent(LeftOver \ {i}, storage', <<>>)
            /\ \A j \in LeftOver \ {i} : storage'[j] = storage[j]
        <5>1. QueueOK(queue)
          BY <3>5 DEF QueueOK
        <5> QED
          BY <3>7, <4>3, <4>4, <5>1, MatchModified
      <4>6. \A j \in NotFound' : j \in LeftOver \ {i}
        BY <3>3 DEF LeftOver
      <4> QED
        BY <3>2, <3>3, <3>11, <4>3, <4>5, <4>6
    <3> QED
      BY <3>1, <3>12, <3>13 DEF queue, e
  <2>7. CASE AddNew(item)
    <3> DEFINE queue == Append(toAdd, item)
    <3>1. /\ UNCHANGED <<index, toModify>>
          /\ \/ \E r \in FlushInsertions(storage, queue) :
                  storage' = r.store /\ toAdd' = r.queue /\ dbError' = (dbError \/ ~r.ok)
             \/ toAdd' = queue /\ UNCHANGED <<storage, dbError>>
      BY <2>7 DEF AddNew
    <3>2. queue \in Seq(Items) /\ queue # <<>>
      <4>1. queue \in Seq(Items) /\ Len(queue) = Len(toAdd) + 1 /\ Len(toAdd) \in Nat
        BY <1>2, <2>3, AppendFacts
      <4> HIDE DEF queue
      <4>2. Len(<<>>) = 0
        OBVIOUS
      <4> QED
        BY <4>1, <4>2
    <3>3. \E m2 : Match(m2, src, D \cup {s}, LeftOver, storage, queue, toModify, ignored)
      BY <1>2, <1>3, <2>2, <2>3, MatchQueued
    <3> HIDE DEF queue
    <3>4. NotFound' = NotFound /\ LeftOver' = LeftOver
      BY <1>1, <3>1 DEF NotFound, LeftOver
    <3>5. CASE toAdd' = queue /\ UNCHANGED <<storage, dbError>>
      BY <2>1, <3>1, <3>3, <3>4, <3>5
    <3>6. ASSUME NEW r \in FlushInsertions(storage, queue),
                 storage' = r.store /\ toAdd' = r.queue /\ dbError' = (dbError \/ ~r.ok)
          PROVE  /\ Consistent(LeftOver', storage', toModify')
                 /\ \A j \in NotFound' : index'[j].item = storage'[j] /\ j \notin unread
                 /\ \E m2 :
                      Match(m2, src, D \cup {s}, LeftOver', storage', toAdd', toModify', ignored)
      <4>1. r.ok
        BY <1>5, <3>6 DEF Faultless
      <4>2. /\ toAdd' = <<>> /\ storage' = WithAdded(storage, queue, Len(queue))
            /\ Len(queue) <= Cardinality(FreshIds)
            /\ \A i \in DOMAIN storage : storage'[i] = storage[i]
        BY <2>3, <3>2, <3>6, <4>1, InsertionFacts
      <4>3. PICK m2 : Match(m2, src, D \cup {s}, LeftOver, storage, queue, toModify, ignored)
        BY <3>3
      <4>4. /\ \E m3 : Match(m3, src, D \cup {s}, LeftOver, storage', <<>>, toModify, ignored)
            /\ Consistent(LeftOver, storage', toModify)
        BY <2>1, <2>3, <3>2, <4>2, <4>3, MatchInserted
      <4>5. \A j \in NotFound : j \in DOMAIN storage
        BY <2>c DEF LeftOver
      <4> QED
        BY <2>1, <3>1, <3>4, <4>2, <4>4, <4>5
    <3> QED
      BY <3>1, <3>5, <3>6
  <2> QED
    BY <1>0, <2>5, <2>6, <2>7
<1> QED
  BY <1>1, <1>3, <1>4, <1>5, MatchGoal DEF D, ignored

\* Flushing both queues keeps the match.
LEMMA MatchSourceEnd ==
  ASSUME TypeOK, MatchInv, SourceEnd
  PROVE  MatchInv'
<1> DEFINE ignored == Phases[phase]
           D == DOMAIN src \ pending
<1>1. PICK a \in FlushInsertions(storage, toAdd) :
        \E b \in FlushModifications(a.store, toModify) :
          /\ storage' = b.store
          /\ toAdd' = a.queue
          /\ toModify' = b.queue
          /\ dbError' = (dbError \/ ~a.ok \/ ~b.ok)
  BY DEF SourceEnd
<1>2. PICK b \in FlushModifications(a.store, toModify) :
          /\ storage' = b.store
          /\ toAdd' = a.queue
          /\ toModify' = b.queue
          /\ dbError' = (dbError \/ ~a.ok \/ ~b.ok)
  BY <1>1
<1>3. pc = "process" /\ UNCHANGED <<src, phase, clean, inputError, cancelSync, pending, index, unread>>
  BY DEF SourceEnd, runVars
<1>4. NotFound' = NotFound /\ LeftOver' = LeftOver
  BY <1>3 DEF NotFound, LeftOver
<1>5. toAdd \in Seq(Items) /\ toModify \in Seq([id : Ids, item : Items]) /\ StoreOK(storage)
  BY FlushTypes DEF QueuesOK
<1> HIDE DEF ignored, D
<1>6. ASSUME Whole, Faultless, Faultless'
      PROVE  /\ Consistent(LeftOver, storage', toModify')
             /\ \A i \in NotFound : index[i].item = storage'[i] /\ i \notin unread
             /\ \E m : Match(m, src, D, LeftOver, storage', toAdd', toModify', ignored)
  <2>1. a.ok /\ b.ok
    BY <1>2, <1>6 DEF Faultless
  <2>2. /\ Consistent(LeftOver, storage, toModify)
        /\ \A i \in NotFound : index[i].item = storage[i] /\ i \notin unread
        /\ \E m : Match(m, src, D, LeftOver, storage, toAdd, toModify, ignored)
    BY <1>3, <1>6 DEF MatchInv, D, ignored
  <2>3. PICK m : Match(m, src, D, LeftOver, storage, toAdd, toModify, ignored)
    BY <2>2
  <2>4. /\ a.queue = <<>> /\ StoreOK(a.store) /\ \A i \in DOMAIN storage : a.store[i] = storage[i]
        /\ \/ toAdd = <<>> /\ a.store = storage
           \/ Len(toAdd) <= Cardinality(FreshIds) /\ a.store = WithAdded(storage, toAdd, Len(toAdd))
    BY <1>5, <2>1, InsertionFacts
  <2>5. /\ \E m2 : Match(m2, src, D, LeftOver, a.store, <<>>, toModify, ignored)
        /\ Consistent(LeftOver, a.store, toModify)
    <3>1. CASE toAdd = <<>> /\ a.store = storage
      BY <2>2, <3>1
    <3>2. CASE Len(toAdd) <= Cardinality(FreshIds) /\ a.store = WithAdded(storage, toAdd, Len(toAdd))
      BY <1>5, <2>2, <2>3, <3>2, MatchInserted
    <3> QED
      BY <2>4, <3>1, <3>2
  <2>6. PICK m2 : Match(m2, src, D, LeftOver, a.store, <<>>, toModify, ignored)
    BY <2>5
  <2>7. /\ b.queue = <<>>
        /\ (toModify = <<>> /\ b.store = a.store)
           \/ b.store = WithModified(a.store, toModify, Len(toModify))
    BY <1>5, <2>1, <2>4, ModificationFacts
  <2>8. /\ Match(m2, src, D, LeftOver, b.store, <<>>, <<>>, ignored)
        /\ Consistent(LeftOver, b.store, <<>>)
        /\ \A i \in LeftOver : b.store[i] = a.store[i]
    <3>1. CASE toModify = <<>> /\ b.store = a.store
      BY <2>5, <2>6, <3>1
    <3>2. CASE b.store = WithModified(a.store, toModify, Len(toModify))
      <4>1. QueueOK(toModify)
        BY <1>5 DEF QueueOK
      <4> QED
        BY <2>5, <2>6, <3>2, <4>1, MatchModified
    <3> QED
      BY <2>7, <3>1, <3>2
  <2>9. LeftOver \subseteq DOMAIN storage /\ NotFound \subseteq LeftOver
    BY <2>2 DEF Consistent, LeftOver
  <2> QED
    BY <1>2, <2>2, <2>4, <2>7, <2>8, <2>9
<1>7. dbError => dbError'
  BY <1>2
<1> QED
  BY <1>3, <1>4, <1>6, <1>7, MatchGoal DEF D, ignored

\* Some of what is left over is taken away.
LEMMA MatchRemoved ==
  ASSUME NEW m, NEW from, NEW D, NEW gone, NEW rest, NEW store, NEW ignored, NEW w,
         Match(m, from, D, gone \cup rest, store, <<>>, <<>>, ignored),
         w = [i \in DOMAIN store \ gone |-> store[i]]
  PROVE  Match(m, from, D, rest, w, <<>>, <<>>, ignored)
<1>1. /\ DOMAIN w = DOMAIN store \ gone /\ \A i \in DOMAIN store \ gone : w[i] = store[i]
      /\ DOMAIN w \ rest = DOMAIN store \ (gone \cup rest)
  OBVIOUS
<1>2. DOMAIN (<<>>) = {}
  OBVIOUS
<1>3. \A i, x : Holds(store, <<>>, i, ignored, x) <=> Equal(ignored, x, store[i])
  BY <1>2 DEF Holds
<1>4. \A i, x : Holds(w, <<>>, i, ignored, x) <=> Equal(ignored, x, w[i])
  BY <1>2 DEF Holds
<1> QED
  BY <1>1, <1>2, <1>3, <1>4 DEF Match

\* Whoever keeps the entries that are matched has each item as often as the source.
LEMMA MatchCopies ==
  ASSUME NEW m, NEW from, NEW left, NEW store, NEW ignored, NEW kept, NEW x,
         Match(m, from, DOMAIN from, left, store, <<>>, <<>>, ignored), IsFiniteSet(DOMAIN kept),
         DOMAIN store \ left \subseteq DOMAIN kept,
         \A i \in DOMAIN store \ left : kept[i] = store[i]
  PROVE  /\ Copies(kept, ignored, x) \in Nat /\ Copies(from, ignored, x) \in Nat
         /\ Copies(kept, ignored, x) >= Copies(from, ignored, x)
         /\ DOMAIN kept = DOMAIN store \ left => Copies(kept, ignored, x) <= Copies(from, ignored, x)
<1> DEFINE S == {s \in DOMAIN from : Equal(ignored, from[s], x)}
           T == {i \in DOMAIN kept : Equal(ignored, kept[i], x)}
           f == [s \in S |-> m[s]]
<1>1. \A s \in DOMAIN from : m[s] \in DOMAIN store \ left /\ Equal(ignored, from[s], store[m[s]])
  <2>1. DOMAIN (<<>>) = {}
    OBVIOUS
  <2> QED
    BY <2>1 DEF Match, Holds
<1>2. f \in [S -> T]
  <2>1. ASSUME NEW s \in S PROVE m[s] \in T
    BY <1>1 DEF Equal
  <2> QED
    BY <2>1
<1>3. \A s, t \in S : f[s] = f[t] => s = t
  BY DEF Match
<1>4. f \in Injection(S, T)
  BY <1>2, <1>3 DEF Injection, IsInjective
<1>5. DOMAIN kept = DOMAIN store \ left => f \in Surjection(S, T)
  <2> SUFFICES ASSUME DOMAIN kept = DOMAIN store \ left, NEW i \in T PROVE \E s \in S : f[s] = i
    BY <1>2 DEF Surjection
  <2>1. PICK s \in DOMAIN from : m[s] = i
    BY DEF Match
  <2>2. Equal(ignored, from[s], kept[i])
    BY <1>1, <2>1
  <2> QED
    BY <2>1, <2>2 DEF Equal
<1>6. IsFiniteSet(T)
  BY FS_Subset
<1> HIDE DEF f, S, T
<1>7. /\ IsFiniteSet(S) /\ Cardinality(S) <= Cardinality(T)
      /\ Cardinality(S) = Cardinality(T) <=> f \in Surjection(S, T)
  BY <1>4, <1>6, FS_Injection
<1>8. Cardinality(S) \in Nat /\ Cardinality(T) \in Nat
  BY <1>6, <1>7, FS_CardinalityType
<1>9. Copies(kept, ignored, x) = Cardinality(T) /\ Copies(from, ignored, x) = Cardinality(S)
  BY DEF Copies, S, T
<1> QED
  BY <1>5, <1>7, <1>8, <1>9

\* When nothing is left over, exactly as often.
LEMMA MatchSame ==
  ASSUME NEW m, NEW from, NEW store, NEW ignored, NEW x,
         Match(m, from, DOMAIN from, {}, store, <<>>, <<>>, ignored), IsFiniteSet(DOMAIN store)
  PROVE  Copies(store, ignored, x) = Copies(from, ignored, x)
<1> DEFINE left == {}
<1>1. /\ Match(m, from, DOMAIN from, left, store, <<>>, <<>>, ignored)
      /\ DOMAIN store \ left = DOMAIN store
  OBVIOUS
<1> HIDE DEF left
<1>2. /\ DOMAIN store \ left \subseteq DOMAIN store
      /\ \A i \in DOMAIN store \ left : store[i] = store[i]
  OBVIOUS
<1>3. /\ Copies(store, ignored, x) \in Nat /\ Copies(from, ignored, x) \in Nat
      /\ Copies(store, ignored, x) >= Copies(from, ignored, x)
      /\ Copies(store, ignored, x) <= Copies(from, ignored, x)
  BY <1>1, <1>2, MatchCopies
<1> QED
  BY <1>3

\* A match that leaves nothing over is a mirror.
LEMMA MatchMirrors ==
  ASSUME NEW m, NEW ignored, NEW store, Match(m, src, DOMAIN src, {}, store, <<>>, <<>>, ignored),
         IsFiniteSet(DOMAIN store), IsFiniteSet(DOMAIN src)
  PROVE  Mirrors(store, ignored)
<1>1. \A s \in DOMAIN src : Copies(store, ignored, src[s]) = Copies(src, ignored, src[s])
  BY MatchSame
<1>2. DOMAIN (<<>>) = {}
  OBVIOUS
<1>3. /\ \A s \in DOMAIN src : m[s] \in DOMAIN store
      /\ \A s, t \in DOMAIN src : m[s] = m[t] => s = t
      /\ \A i \in DOMAIN store : \E s \in DOMAIN src : m[s] = i
      /\ m \in [DOMAIN src -> Int]
  BY <1>2 DEF Match
<1>4. m \in Bijection(DOMAIN src, DOMAIN store)
  BY <1>3 DEF Bijection, Injection, Surjection, IsInjective
<1>5. Cardinality(DOMAIN store) = Cardinality(DOMAIN src)
  BY <1>4, FS_Bijection DEF ExistsBijection
<1> QED
  BY <1>1, <1>5 DEF Mirrors
-----------------------------------------------------------------------------
(* Past processItems() without an error, the source was read to its end    *)
(* and both queues were flushed; cleanStorage() leaves them alone.         *)
Streamed ==
  /\ pc = "check" /\ Faultless => pending = {} /\ toAdd = <<>> /\ toModify = <<>>
  /\ pc = "cleaned" => toAdd = <<>> /\ toModify = <<>> /\ ~inputError
  /\ pc = "phase" /\ Whole => toAdd = <<>> /\ toModify = <<>>

DrainInv == Streamed /\ QueuesDrained

\* Every slot has its entry, and every entry that was read its slot.
Paired(ignored) == \E m : Match(m, src, DOMAIN src, unread, storage, <<>>, <<>>, ignored)

MirrorInv ==
  /\ MatchInv
  /\ pc = "cleaned" /\ Whole /\ ~dbError => Paired(Phases[phase])
  /\ Succeeded /\ (clean \/ Len(Phases) > 1) => Paired(Phases[Len(Phases)])

IInv == TypeOK /\ InPhase /\ DrainInv /\ MirrorInv

-----------------------------------------------------------------------------
(* Adding items never takes an id away from the storage.                   *)
LEMMA AddingKeepsIds ==
  \A store, queue : \A r \in FlushInsertions(store, queue) :
    DOMAIN store \subseteq DOMAIN r.store
<1> SUFFICES ASSUME NEW store, NEW queue, NEW r \in FlushInsertions(store, queue)
             PROVE  DOMAIN store \subseteq DOMAIN r.store
  OBVIOUS
<1>1. \A n : DOMAIN store \subseteq DOMAIN WithAdded(store, queue, n)
  BY DEF WithAdded
<1>2. \A added \in AddItems(store, queue) : \E n : added.store = WithAdded(store, queue, n)
  BY DEF AddItems
<1>3. r.store = store \/ \E added \in AddItems(store, queue) : r.store = added.store
  BY DEF FlushInsertions
<1> QED
  BY <1>1, <1>2, <1>3

(* Modifying items neither adds nor takes away an id.                      *)
LEMMA ModifyingKeepsIds ==
  \A store, queue : \A r \in FlushModifications(store, queue) :
    DOMAIN r.store = DOMAIN store
<1> SUFFICES ASSUME NEW store, NEW queue, NEW r \in FlushModifications(store, queue)
             PROVE  DOMAIN r.store = DOMAIN store
  OBVIOUS
<1>1. \A n : DOMAIN WithModified(store, queue, n) = DOMAIN store
  BY DEF WithModified
<1>2. \A changed \in ModifyItems(store, queue) :
        \E n : changed.store = WithModified(store, queue, n)
  BY DEF ModifyItems
<1>3. r.store = store \/ \E changed \in ModifyItems(store, queue) : r.store = changed.store
  BY DEF FlushModifications
<1> QED
  BY <1>1, <1>2, <1>3

(* A flush that succeeds leaves its queue empty.                           *)
LEMMA FlushEmpties ==
  \A store, queue :
    /\ \A r \in FlushInsertions(store, queue) : r.ok => r.queue = <<>>
    /\ \A r \in FlushModifications(store, queue) : r.ok => r.queue = <<>>
  BY DEF FlushInsertions, FlushModifications

\* The queues are empty at first.
LEMMA DrainInit == Init => DrainInv
  BY DEF Init, DrainInv, Streamed, QueuesDrained, Succeeded, Ok

\* No step leaves the queues of a faultless run behind.
LEMMA DrainStep == DrainInv /\ [Next]_vars => DrainInv'
<1> SUFFICES ASSUME DrainInv, [Next]_vars PROVE DrainInv'
  OBVIOUS
<1> USE DEF DrainInv, Streamed, Faultless, Whole, QueuesDrained, Succeeded, Ok
<1>1. CASE StartRun
  <2>1. UNCHANGED <<toAdd, toModify>> /\ clean' = (toAdd = <<>> /\ toModify = <<>>)
    BY <1>1 DEF StartRun, queueVars
  <2>2. clean' => toAdd = <<>> /\ toModify = <<>>
    BY <2>1
  <2>3. \/ pc' = "idle" /\ (result' = "Fail" \/ Phases = <<>>)
        \/ pc' = "phase" /\ phase' = 1
    BY <1>1 DEF StartRun, Return
  <2>4. ~(1 > 1)
    OBVIOUS
  <2> QED
    BY <2>1, <2>2, <2>3, <2>4
<1>2. CASE Cancel
  BY <1>2 DEF Cancel, queueVars, runVars
<1>3. CASE SourceFails
  BY <1>3 DEF SourceFails, Return, queueVars
<1>4. CASE UpdateIndexDB
  BY <1>4 DEF UpdateIndexDB, queueVars, runVars
<1>5. ASSUME NEW s \in Slots, ItemAfterCancel(s) PROVE DrainInv'
  BY <1>5 DEF ItemAfterCancel, queueVars, runVars
<1>6. ASSUME NEW s \in Slots, ProcessItem(s) PROVE DrainInv'
  BY <1>6 DEF ProcessItem, runVars
<1>7. CASE SourceError
  BY <1>7 DEF SourceError, queueVars, runVars
<1>8. CASE SourceEnd
  <2>1. PICK a \in FlushInsertions(storage, toAdd) :
          \E m \in FlushModifications(a.store, toModify) :
            /\ toAdd' = a.queue
            /\ toModify' = m.queue
            /\ dbError' = (dbError \/ ~a.ok \/ ~m.ok)
    BY <1>8 DEF SourceEnd
  <2>2. ~dbError' => toAdd' = <<>> /\ toModify' = <<>>
    BY <2>1, FlushEmpties
  <2>3. pending' = {} /\ pc' = "check"
    BY <1>8 DEF SourceEnd
  <2> QED
    BY <2>2, <2>3
<1>9. CASE Stop
  BY <1>9 DEF Stop, Return, queueVars
<1>10. CASE CleanStorage
  BY <1>10 DEF CleanStorage, queueVars, runVars
<1>11. CASE EndPhase
  BY <1>11 DEF EndPhase, Return, queueVars
<1>12. CASE UNCHANGED vars
  BY <1>12 DEF vars, queueVars, runVars
<1> QED
  BY <1>1, <1>2, <1>3, <1>4, <1>5, <1>6, <1>7, <1>8, <1>9, <1>10, <1>11, <1>12 DEF Next

\* No step but these changes what a match is about.
LEMMA MatchStays ==
  ASSUME MatchInv, UNCHANGED <<storage, src, phase, pending, index, toAdd, toModify, clean, unread>>,
         Faultless' => Faultless, pc' \in {"process", "check"} => pc \in {"process", "check"}
  PROVE  MatchInv'
<1>1. NotFound' = NotFound /\ LeftOver' = LeftOver
  BY DEF NotFound, LeftOver
<1>2. UNCHANGED Phases[phase]
  OBVIOUS
<1> SUFFICES ASSUME Whole', Faultless', pc' \in {"process", "check"}
             PROVE  /\ Consistent(LeftOver', storage', toModify')
                    /\ \A i \in NotFound' : index'[i].item = storage'[i] /\ i \notin unread'
                    /\ \E m :
                         Match(m, src', DOMAIN src' \ pending', LeftOver',
                               storage', toAdd', toModify', Phases[phase'])
  BY DEF MatchInv
<1>3. Whole
  BY DEF Whole
<1>4. /\ Consistent(LeftOver, storage, toModify)
      /\ \A i \in NotFound : index[i].item = storage[i] /\ i \notin unread
      /\ \E m :
           Match(m, src, DOMAIN src \ pending, LeftOver, storage, toAdd, toModify, Phases[phase])
  BY <1>3 DEF MatchInv
<1> QED
  BY <1>1, <1>4

\* cleanStorage() starts from a match of the whole source.
LEMMA MatchChecked ==
  ASSUME MirrorInv, DrainInv, pc = "check", Faultless, Whole
  PROVE  \E m : Match(m, src, DOMAIN src, LeftOver, storage, <<>>, <<>>, Phases[phase])
<1>1. pending = {} /\ toAdd = <<>> /\ toModify = <<>>
  BY DEF DrainInv, Streamed
<1>2. \E m : Match(m, src, DOMAIN src \ pending, LeftOver, storage, toAdd, toModify, Phases[phase])
  BY DEF MirrorInv, MatchInv
<1>3. DOMAIN src \ pending = DOMAIN src
  BY <1>1
<1> QED
  BY <1>1, <1>2, <1>3

\* cleanStorage() removes what is left over.
LEMMA MirrorClean ==
  ASSUME MirrorInv, DrainInv, CleanStorage
  PROVE  MirrorInv'
<1>1. pc = "check" /\ Faultless /\ pc' = "cleaned" /\ UNCHANGED <<phase, src, clean, unread>>
  BY DEF CleanStorage, Faultless, runVars
<1>2. ASSUME Whole, ~dbError' PROVE Paired(Phases[phase])'
  <2>1. PICK m : Match(m, src, DOMAIN src, LeftOver, storage, <<>>, <<>>, Phases[phase])
    BY <1>1, <1>2, MatchChecked
  <2>2. CASE NotFound = {}
    <3>1. UNCHANGED storage
      BY <2>2 DEF CleanStorage
    <3> QED
      BY <1>1, <2>1, <2>2, <3>1 DEF Paired, LeftOver
  <2>3. CASE NotFound # {}
    <3>1. PICK r \in RemoveItems(storage, NotFound) : storage' = r.store /\ dbError' = ~r.ok
      BY <2>3 DEF CleanStorage
    <3>2. r.ok
      BY <1>2, <3>1
    <3>3. storage' = [i \in DOMAIN storage \ NotFound |-> storage[i]]
      BY <3>1, <3>2, RemovalFacts
    <3>4. Match(m, src, DOMAIN src, unread, storage', <<>>, <<>>, Phases[phase])
      BY <2>1, <3>3, MatchRemoved DEF LeftOver
    <3> QED
      BY <1>1, <3>4 DEF Paired
  <2> QED
    BY <2>2, <2>3
<1>3. MatchInv'
  BY <1>1 DEF MatchInv
<1>4. Whole' => Whole
  BY <1>1 DEF Whole
<1> QED
  BY <1>1, <1>2, <1>3, <1>4 DEF MirrorInv, Succeeded

\* Outside doSynchronize() and outside processItems() a match is not asked for.
LEMMA MirrorStart ==
  ASSUME StartRun
  PROVE  MirrorInv'
<1>1. \/ pc' = "idle" /\ (result' = "Fail" \/ Phases = <<>>)
      \/ pc' = "phase"
  BY DEF StartRun, Return
<1> QED
  BY <1>1 DEF MirrorInv, MatchInv, Succeeded, Ok

\* The last phase leaves its match to the result.
LEMMA MirrorEnd ==
  ASSUME TypeOK, InPhase, MirrorInv, EndPhase
  PROVE  MirrorInv'
<1>1. UNCHANGED <<storage, src, clean, unread>> /\ pc = "cleaned"
  BY DEF EndPhase
<1>2. pc' \in {"idle", "phase"}
  BY DEF EndPhase, Return
<1>3. pc' = "idle" /\ result' \in Ok => ~dbError /\ phase = Len(Phases)
  BY DEF EndPhase, Return, Ok
<1>4. phase \in 1..Len(Phases)
  BY <1>1, PhasesFacts DEF InPhase
<1>5. ASSUME Succeeded', clean' \/ Len(Phases) > 1 PROVE Paired(Phases[Len(Phases)])'
  <2>1. ~dbError /\ phase = Len(Phases)
    BY <1>3, <1>5 DEF Succeeded
  <2>2. Whole
    BY <1>1, <1>5, <2>1 DEF Whole
  <2>3. Paired(Phases[phase])
    BY <1>1, <2>1, <2>2 DEF MirrorInv
  <2> QED
    BY <1>1, <2>1, <2>3 DEF Paired
<1> QED
  BY <1>2, <1>5 DEF MirrorInv, MatchInv

\* Every step keeps the match.
LEMMA MirrorStep == IInv /\ [Next]_vars => MirrorInv'
<1> SUFFICES ASSUME IInv, [Next]_vars PROVE MirrorInv'
  OBVIOUS
<1> USE DEF IInv
<1>1. CASE StartRun
  BY <1>1, MirrorStart
<1>2. ASSUME UNCHANGED <<storage, src, phase, pending, index, toAdd, toModify, clean, dbError, unread>>,
             Faultless' => Faultless, pc' \in {pc, "check"}, pc' = pc \/ pc = "process",
             Succeeded' => Succeeded
      PROVE  MirrorInv'
  <2>1. MatchInv'
    BY <1>2, MatchStays DEF MirrorInv
  <2>2. pc' = "cleaned" /\ Whole' /\ ~dbError' => Paired(Phases[phase])'
    BY <1>2 DEF MirrorInv, Whole, Paired
  <2>3. Succeeded' /\ (clean' \/ Len(Phases) > 1) => Paired(Phases[Len(Phases)])'
    BY <1>2 DEF MirrorInv, Paired
  <2> QED
    BY <2>1, <2>2, <2>3 DEF MirrorInv
<1>3. CASE Cancel
  <2>1. /\ UNCHANGED <<storage, src, phase, pending, index, toAdd, toModify, clean, dbError, unread>>
        /\ Faultless' => Faultless
        /\ pc' = pc /\ pc # "idle"
    BY <1>3 DEF Cancel, queueVars, runVars, Faultless
  <2> QED
    BY <1>2, <2>1 DEF Succeeded
<1>4. ASSUME NEW s \in Slots, ItemAfterCancel(s) PROVE MirrorInv'
  <2>1. ~Faultless' /\ pc' = "check"
    BY <1>4 DEF ItemAfterCancel, Faultless
  <2> QED
    BY <2>1 DEF MirrorInv, MatchInv, Succeeded
<1>5. CASE SourceError
  <2>1. ~Faultless' /\ pc' = "check"
    BY <1>5 DEF SourceError, Faultless
  <2> QED
    BY <2>1 DEF MirrorInv, MatchInv, Succeeded
<1>6. CASE SourceFails \/ Stop
  <2>1. pc' = "idle" /\ result' \in {"Fail", "Cancelled"}
    BY <1>6 DEF SourceFails, Stop, Return
  <2> QED
    BY <2>1 DEF MirrorInv, MatchInv, Succeeded, Ok
<1>7. CASE UpdateIndexDB
  <2>1. pc = "phase" /\ pc' = "process"
    BY <1>7 DEF UpdateIndexDB
  <2>2. MatchInv'
    BY <1>7, <2>1, MatchUpdateIndex DEF DrainInv, Streamed
  <2> QED
    BY <2>1, <2>2 DEF MirrorInv, Succeeded
<1>8. ASSUME NEW s \in Slots, ProcessItem(s) PROVE MirrorInv'
  <2>1. pc' \in {"process", "check"}
    BY <1>8 DEF ProcessItem
  <2>2. MatchInv'
    BY <1>8, MatchProcessItem DEF MirrorInv
  <2> QED
    BY <2>1, <2>2 DEF MirrorInv, Succeeded
<1>9. CASE SourceEnd
  <2>1. pc' = "check"
    BY <1>9 DEF SourceEnd
  <2>2. MatchInv'
    BY <1>9, MatchSourceEnd DEF MirrorInv
  <2> QED
    BY <2>1, <2>2 DEF MirrorInv, Succeeded
<1>10. CASE CleanStorage
  BY <1>10, MirrorClean
<1>11. CASE EndPhase
  BY <1>11, MirrorEnd
<1>12. CASE UNCHANGED vars
  <2>1. /\ UNCHANGED <<storage, src, phase, pending, index, toAdd, toModify, clean, dbError, unread>>
        /\ UNCHANGED <<inputError, cancelSync, pc, result>>
    BY <1>12 DEF vars, queueVars, runVars
  <2>2. (Faultless' => Faultless) /\ (Succeeded' => Succeeded)
    BY <2>1 DEF Faultless, Succeeded
  <2> QED
    BY <1>2, <2>1, <2>2
<1> QED
  BY <1>1, <1>3, <1>4, <1>5, <1>6, <1>7, <1>8, <1>9, <1>10, <1>11, <1>12 DEF Next

\* The invariant holds at first.
LEMMA InitEstablishes == Init => IInv
<1>1. Init => MirrorInv
  BY DEF Init, MirrorInv, MatchInv, Succeeded, Ok
<1> QED
  BY <1>1, TypeInit, DrainInit DEF IInv

\* The invariant is inductive.
LEMMA StepPreserves == IInv /\ [Next]_vars => IInv'
  BY TypeStep, DrainStep, MirrorStep DEF IInv

(* What TypeOK says of the state holds of every source, storage, phase list*)
(* and batch size.                                                         *)
THEOREM TypeCorrect == Spec => []TypeOK
<1>1. IInv => TypeOK
  BY DEF IInv
<1> QED
  BY <1>1, InitEstablishes, StepPreserves, PTL DEF Spec

(* eSyncOk... means a mirror, whatever the batch size, the order in which  *)
(* the source delivers, and the storage calls that fail half-way.          *)
THEOREM SuccessIsMirror == Spec => []SuccessMirrorsSource
<1>1. IInv => SuccessMirrorsSource
  <2> SUFFICES ASSUME IInv, Succeeded, clean \/ Len(Phases) > 1
               PROVE  Mirrors(Known, Phases[Len(Phases)])
    BY DEF SuccessMirrorsSource
  <2>1. PICK m : Match(m, src, DOMAIN src, unread \cup {}, storage, <<>>, <<>>, Phases[Len(Phases)])
    BY DEF IInv, MirrorInv, Paired
  <2>2. Match(m, src, DOMAIN src, {}, Known, <<>>, <<>>, Phases[Len(Phases)])
    BY <2>1, MatchRemoved DEF Known
  <2>3. IsFiniteSet(DOMAIN Known) /\ IsFiniteSet(DOMAIN src)
    <3>1. IsFiniteSet(DOMAIN storage) /\ DOMAIN Known \subseteq DOMAIN storage
      BY FlushTypes DEF IInv, Known
    <3> QED
      BY <3>1, FlushTypes, FS_Subset DEF IInv
  <2> QED
    BY <2>2, <2>3, MatchMirrors
<1> QED
  BY <1>1, InitEstablishes, StepPreserves, PTL DEF Spec

(* Nothing is lost in the queues of a run that reports success, whatever   *)
(* storage calls failed before it.                                         *)
THEOREM SuccessDrainsQueues == Spec => []QueuesDrained
<1>1. IInv => QueuesDrained
  BY DEF IInv, DrainInv
<1> QED
  BY <1>1, InitEstablishes, StepPreserves, PTL DEF Spec

-----------------------------------------------------------------------------
(* The step form of RemovalAfterFullStream.                                *)
LEMMA RemovalStep ==
  ASSUME IInv, [Next]_vars, NEW i \in DOMAIN storage, i \notin DOMAIN storage'
  PROVE  pending = {} /\ Faultless /\ CleanStorage
<1>1. ASSUME NEW s \in Slots, ProcessItem(s) PROVE FALSE
  <2> PICK item \in Delivered(s) : MarkFound(item) \/ ModifyCandidate(item) \/ AddNew(item)
    BY <1>1 DEF ProcessItem
  <2>1. CASE MarkFound(item)
    BY <2>1 DEF MarkFound
  <2>2. CASE ModifyCandidate(item)
    BY <2>2, ModifyingKeepsIds DEF ModifyCandidate
  <2>3. CASE AddNew(item)
    BY <2>3, AddingKeepsIds DEF AddNew
  <2> QED
    BY <2>1, <2>2, <2>3
<1>2. ASSUME SourceEnd PROVE FALSE
  <2>1. PICK a \in FlushInsertions(storage, toAdd) :
          \E m \in FlushModifications(a.store, toModify) : storage' = m.store
    BY <1>2 DEF SourceEnd
  <2> QED
    BY <2>1, AddingKeepsIds, ModifyingKeepsIds
<1>3. CASE CleanStorage
  BY <1>3 DEF CleanStorage, IInv, DrainInv, Streamed, Faultless
<1>4. storage' # storage
  OBVIOUS
<1> QED
  BY <1>1, <1>2, <1>3, <1>4
  DEF Next, StartRun, Cancel, SourceFails, UpdateIndexDB, ItemAfterCancel,
      SourceError, Stop, EndPhase, vars

(* No entry of the address book is removed before the source has delivered *)
(* everything and while any call has failed or cancel() was called.        *)
THEOREM RemovalsAreSafe == Spec => RemovalAfterFullStream
<1>1. IInv /\ [Next]_vars =>
        [(\E i \in DOMAIN storage : i \notin DOMAIN storage')
           => pending = {} /\ ~inputError /\ ~dbError /\ ~cancelSync]_vars
  BY RemovalStep DEF Faultless
<1> QED
  BY <1>1, InitEstablishes, StepPreserves, PTL DEF Spec, RemovalAfterFullStream

\* A removal keeps every matched entry.
LEMMA RemovalKeepsMatched ==
  ASSUME IInv, [Next]_vars, clean, NEW i \in DOMAIN storage, i \notin DOMAIN storage', NEW x
  PROVE  Copies(storage', Phases[phase], x) >= Copies(src, Phases[phase], x)
<1>1. pending = {} /\ Faultless /\ CleanStorage
  BY RemovalStep
<1>2. PICK m : Match(m, src, DOMAIN src, LeftOver, storage, <<>>, <<>>, Phases[phase])
  BY <1>1, MatchChecked DEF IInv, CleanStorage, Whole
<1>3. storage' # storage
  OBVIOUS
<1>4. PICK r \in RemoveItems(storage, NotFound) : storage' = r.store
  BY <1>1, <1>3 DEF CleanStorage
<1>5. PICK gone \in SUBSET NotFound : storage' = [j \in DOMAIN storage \ gone |-> storage[j]]
  BY <1>4, RemovalFacts
<1>6. /\ DOMAIN storage' = DOMAIN storage \ gone
      /\ \A j \in DOMAIN storage \ gone : storage'[j] = storage[j]
  BY <1>5
<1>7. IsFiniteSet(DOMAIN storage')
  BY <1>6, FlushTypes, FS_Subset DEF IInv
<1>8. /\ DOMAIN storage \ LeftOver \subseteq DOMAIN storage'
      /\ \A j \in DOMAIN storage \ LeftOver : storage'[j] = storage[j]
  BY <1>6 DEF LeftOver
<1> DEFINE kept == storage'
           ignored == Phases[phase]
<1> HIDE DEF kept, ignored
<1>9. Copies(kept, ignored, x) >= Copies(src, ignored, x)
  BY <1>2, <1>7, <1>8, MatchCopies DEF kept, ignored
<1> QED
  BY <1>9 DEF kept, ignored

(* A removal, even one that breaks off, takes nothing the source still has.*)
THEOREM RemovalsKeepTheSource == Spec => RemovalKeepsSource
<1>1. IInv /\ [Next]_vars =>
        [clean /\ (\E i \in DOMAIN storage : i \notin DOMAIN storage')
           => \A s \in DOMAIN src : Copies(storage', Phases[phase], src[s])
                                    >= Copies(src, Phases[phase], src[s])]_vars
  BY RemovalKeepsMatched
<1> QED
  BY <1>1, InitEstablishes, StepPreserves, PTL DEF Spec, RemovalKeepsSource

-----------------------------------------------------------------------------
(***************************************************************************)
(* Quiet runs.                                                             *)
(***************************************************************************)
Zero == [added |-> 0, modified |-> 0, removed |-> 0]

\* Nothing was counted, so nothing was done.
IdleInv ==
  /\ pc # "idle" /\ clean /\ stats = Zero => storage = begun /\ toAdd = <<>> /\ toModify = <<>>
  /\ Succeeded /\ clean /\ result = "OkWithoutDataChange" => storage = begun

\* The storage held exactly the items of the source when the run began, and was read whole.
Exact ==
  /\ ~cut
  /\ \E m \in [DOMAIN src -> DOMAIN begun] :
       /\ \A s, t \in DOMAIN src : m[s] = m[t] => s = t
       /\ \A s \in DOMAIN src : begun[m[s]] = src[s]
       /\ \A i \in DOMAIN begun : \E s \in DOMAIN src : m[s] = i

\* q takes the items still to come to the entries not yet found.
Partner(q, ignored, left, entries, found) ==
  /\ \A s \in left : q[s] \in found /\ Equal(ignored, src[s], entries[q[s]].item)
  /\ \A s, t \in left : q[s] = q[t] => s = t
  /\ \A i \in found : \E s \in left : q[s] = i

ExactInv ==
  clean /\ Exact =>
    /\ pc = "phase" => stats = Zero
    /\ pc \in {"process", "check"} /\ Faultless =>
         stats = Zero /\ \E q : Partner(q, Phases[phase], pending, index, NotFound)
    /\ pc = "cleaned" /\ ~dbError /\ ~cancelSync => stats = Zero
    /\ Succeeded => result = "OkWithoutDataChange"

QuietInv == IdleInv /\ ExactInv

\* Counting leaves a trace.
LEMMA CountShows ==
  ASSUME TypeOK, Count("added") \/ Count("modified")
  PROVE  stats' # Zero
<1>1. /\ stats.added \in Nat /\ stats.modified \in Nat
      /\ stats \in [added : Nat, modified : Nat, removed : Nat]
  BY DEF TypeOK
<1>2. Count("added") => stats'.added = stats.added + 1
  BY <1>1 DEF Count
<1>3. Count("modified") => stats'.modified = stats.modified + 1
  BY <1>1 DEF Count
<1>4. Zero.added = 0 /\ Zero.modified = 0
  BY DEF Zero
<1>5. stats.added + 1 # 0 /\ stats.modified + 1 # 0
  BY <1>1
<1> QED
  BY <1>2, <1>3, <1>4, <1>5

\* The removals counted are the entries not found.
LEMMA RemovedShows ==
  ASSUME TypeOK, stats' = [stats EXCEPT !.removed = @ + Cardinality(NotFound)]
  PROVE  /\ stats' = Zero => stats = Zero /\ NotFound = {}
         /\ stats = Zero /\ NotFound = {} => stats' = Zero
<1> DEFINE n == Cardinality(NotFound)
<1>1. n \in Nat /\ (n = 0 <=> NotFound = {})
  <2>1. IsFiniteSet(DOMAIN index) /\ NotFound \subseteq DOMAIN index
    BY FlushTypes DEF NotFound
  <2>2. IsFiniteSet(NotFound)
    BY <2>1, FS_Subset
  <2> QED
    BY <2>2, FS_CardinalityType, FS_EmptySet
<1> HIDE DEF n
<1>2. stats \in [added : Nat, modified : Nat, removed : Nat] /\ stats.removed \in Nat
  BY DEF TypeOK
<1>3. stats' = [stats EXCEPT !.removed = stats.removed + n]
  BY DEF n
<1>4. \A x, y, z : [added |-> x, modified |-> y, removed |-> z] = Zero <=> x = 0 /\ y = 0 /\ z = 0
  <2> TAKE x, y, z
  <2> DEFINE record == [added |-> x, modified |-> y, removed |-> z]
  <2>1. record.added = x /\ record.modified = y /\ record.removed = z
    OBVIOUS
  <2>2. Zero.added = 0 /\ Zero.modified = 0 /\ Zero.removed = 0
    BY DEF Zero
  <2>3. x = 0 /\ y = 0 /\ z = 0 => record = Zero
    BY DEF Zero
  <2> QED
    BY <2>1, <2>2, <2>3, Zenon
<1>5. stats' = [added |-> stats.added, modified |-> stats.modified, removed |-> stats.removed + n]
  BY <1>2, <1>3
<1>6. stats = [added |-> stats.added, modified |-> stats.modified, removed |-> stats.removed]
  BY <1>2
<1> DEFINE Stats(k) == [added |-> stats.added, modified |-> stats.modified, removed |-> k]
<1>7. \A k : Stats(k) = Zero <=> stats.added = 0 /\ stats.modified = 0 /\ k = 0
  BY <1>4, Zenon
<1>8. stats' = Stats(stats.removed + n) /\ stats = Stats(stats.removed)
  BY <1>5, <1>6
<1> HIDE DEF Stats
<1>9. stats.removed + n = 0 <=> stats.removed = 0 /\ n = 0
  BY <1>1, <1>2
<1> QED
  BY <1>1, <1>7, <1>8, <1>9

\* What was not counted was not done.
LEMMA IdleStep == TypeOK /\ IdleInv /\ [Next]_vars => IdleInv'
<1> SUFFICES ASSUME TypeOK, IdleInv, [Next]_vars PROVE IdleInv'
  OBVIOUS
<1>0. ASSUME UNCHANGED <<storage, toAdd, toModify, stats, clean, begun>>, pc # "idle", pc' # "idle"
      PROVE  IdleInv'
  BY <1>0 DEF IdleInv, Succeeded
<1>1. CASE StartRun
  <2>1. /\ UNCHANGED <<storage, toAdd, toModify>> /\ begun' = storage
        /\ clean' = (toAdd = <<>> /\ toModify = <<>>)
    BY <1>1 DEF StartRun, queueVars
  <2>2. clean' => toAdd = <<>> /\ toModify = <<>>
    BY <2>1
  <2> QED
    BY <2>1, <2>2 DEF IdleInv
<1>2. CASE Cancel
  <2>1. UNCHANGED <<storage, toAdd, toModify, stats, clean, begun, pc>> /\ pc # "idle"
    BY <1>2 DEF Cancel, queueVars, runVars
  <2> QED
    BY <1>0, <2>1
<1>3. CASE SourceFails \/ Stop
  <2>1. pc' = "idle" /\ result' \in {"Fail", "Cancelled"}
    BY <1>3 DEF SourceFails, Stop, Return
  <2> QED
    BY <2>1 DEF IdleInv, Succeeded, Ok
<1>4. CASE UpdateIndexDB
  <2>1. UNCHANGED <<storage, toAdd, toModify, stats, clean, begun>> /\ pc # "idle" /\ pc' # "idle"
    BY <1>4 DEF UpdateIndexDB, queueVars, runVars
  <2> QED
    BY <1>0, <2>1
<1>5. ASSUME NEW s \in Slots, ItemAfterCancel(s) PROVE IdleInv'
  <2>1. UNCHANGED <<storage, toAdd, toModify, stats, clean, begun>> /\ pc # "idle" /\ pc' # "idle"
    BY <1>5 DEF ItemAfterCancel, queueVars, runVars
  <2> QED
    BY <1>0, <2>1
<1>6. ASSUME NEW s \in Slots, ProcessItem(s) PROVE IdleInv'
  <2>1. pc # "idle" /\ pc' # "idle" /\ UNCHANGED <<clean, begun>>
    BY <1>6 DEF ProcessItem, runVars
  <2> PICK item \in Delivered(s) : MarkFound(item) \/ ModifyCandidate(item) \/ AddNew(item)
    BY <1>6 DEF ProcessItem
  <2>2. CASE MarkFound(item)
    BY <1>0, <2>1, <2>2 DEF MarkFound, queueVars
  <2>3. CASE ModifyCandidate(item) \/ AddNew(item)
    <3>1. stats' # Zero
      BY <2>3, CountShows DEF ModifyCandidate, AddNew
    <3> QED
      BY <2>1, <3>1 DEF IdleInv, Succeeded
  <2> QED
    BY <2>2, <2>3
<1>7. CASE SourceError
  <2>1. UNCHANGED <<storage, toAdd, toModify, stats, clean, begun>> /\ pc # "idle" /\ pc' # "idle"
    BY <1>7 DEF SourceError, queueVars, runVars
  <2> QED
    BY <1>0, <2>1
<1>8. CASE SourceEnd
  <2>1. pc # "idle" /\ pc' # "idle" /\ UNCHANGED <<clean, begun, stats>>
    BY <1>8 DEF SourceEnd, runVars
  <2>2. ASSUME toAdd = <<>>, toModify = <<>> PROVE UNCHANGED <<storage, toAdd, toModify>>
    <3>1. PICK a \in FlushInsertions(storage, toAdd) :
            \E b \in FlushModifications(a.store, toModify) :
              storage' = b.store /\ toAdd' = a.queue /\ toModify' = b.queue
      BY <1>8 DEF SourceEnd
    <3>2. PICK b \in FlushModifications(a.store, toModify) :
            storage' = b.store /\ toAdd' = a.queue /\ toModify' = b.queue
      BY <3>1
    <3>3. a.store = storage /\ a.queue = toAdd
      BY <2>2 DEF FlushInsertions
    <3>4. b.store = a.store /\ b.queue = toModify
      BY <2>2 DEF FlushModifications
    <3> QED
      BY <3>2, <3>3, <3>4
  <2> QED
    BY <2>1, <2>2 DEF IdleInv, Succeeded
<1>9. CASE CleanStorage
  <2>1. /\ pc # "idle" /\ pc' # "idle" /\ UNCHANGED <<clean, begun, toAdd, toModify>>
        /\ NotFound = {} => UNCHANGED storage
    BY <1>9 DEF CleanStorage, queueVars, runVars
  <2>2. stats' = Zero => stats = Zero /\ NotFound = {}
    BY <1>9, RemovedShows DEF CleanStorage
  <2> QED
    BY <2>1, <2>2 DEF IdleInv, Succeeded
<1>10. CASE EndPhase
  <2>1. UNCHANGED <<storage, toAdd, toModify, stats, clean, begun>> /\ pc # "idle"
    BY <1>10 DEF EndPhase, queueVars
  <2>2. pc' = "idle" /\ result' = "OkWithoutDataChange" => stats = Zero
    BY <1>10 DEF EndPhase, Return, Zero
  <2> QED
    BY <2>1, <2>2 DEF IdleInv, Succeeded
<1>11. CASE UNCHANGED vars
  BY <1>11 DEF vars, queueVars, runVars, IdleInv, Succeeded
<1> QED
  BY <1>1, <1>2, <1>3, <1>4, <1>5, <1>6, <1>7, <1>8, <1>9, <1>10, <1>11 DEF Next

-----------------------------------------------------------------------------
\* The item's partner, or another entry equal to it, is marked.
LEMMA PartnerFound ==
  ASSUME TypeOK, InPhase, NEW s \in Slots, ProcessItem(s), NEW q,
         Partner(q, Phases[phase], pending, index, NotFound)
  PROVE  /\ UNCHANGED stats
         /\ \E r : Partner(r, Phases[phase], pending', index', NotFound')
<1> DEFINE ignored == Phases[phase]
<1>1. /\ s \in pending /\ pending' = pending \ {s} /\ phase \in DOMAIN Phases
      /\ pending \subseteq DOMAIN src /\ pc # "idle"
  BY DEF ProcessItem, InPhase, TypeOK
<1>0. PICK item \in Delivered(s) : MarkFound(item) \/ ModifyCandidate(item) \/ AddNew(item)
  BY DEF ProcessItem
<1>2. item \in Items /\ \A y : Equal(ignored, item, y) <=> Equal(ignored, src[s], y)
  BY <1>1, DeliveredFacts
<1>3. q[s] \in NotFound /\ Equal(ignored, item, index[q[s]].item)
  BY <1>1, <1>2 DEF Partner
<1>4. q[s] \in Unmatched(item)
  <2>1. index[q[s]].item \in Items
    BY <1>3 DEF NotFound, TypeOK
  <2>2. item["key"] = index[q[s]].item["key"]
    BY <1>1, <1>2, <1>3, <2>1, ItemFacts
  <2> QED
    BY <1>3, <2>2 DEF Unmatched, NotFound
<1>5. MarkFound(item)
  <2>1. ~ModifyCandidate(item)
    BY <1>3, <1>4 DEF ModifyCandidate
  <2>2. ~AddNew(item)
    BY <1>4 DEF AddNew
  <2> QED
    BY <1>0, <2>1, <2>2
<1>6. PICK i \in Unmatched(item) : /\ Equal(ignored, item, index[i].item)
                                   /\ index' = [index EXCEPT ![i].status = "FOUND"]
  BY <1>5 DEF MarkFound
<1> HIDE DEF ignored
<1>7. /\ i \in NotFound /\ NotFound' = NotFound \ {i}
      /\ \A j \in NotFound \ {i} : index'[j].item = index[j].item
  BY <1>6 DEF NotFound, Unmatched
<1>8. /\ \A t \in pending : q[t] \in NotFound /\ Equal(ignored, src[t], index[q[t]].item)
      /\ \A t, u \in pending : q[t] = q[u] => t = u
      /\ \A j \in NotFound : \E t \in pending : q[t] = j
  BY DEF Partner, ignored
<1> DEFINE r == [t \in pending |-> IF q[t] = i THEN q[s] ELSE q[t]]
<1>9. \A t \in pending : r[t] = IF q[t] = i THEN q[s] ELSE q[t]
  OBVIOUS
<1> HIDE DEF r
<1>10. \A t \in pending' : r[t] \in NotFound' /\ Equal(ignored, src[t], index'[r[t]].item)
  <2> TAKE t \in pending'
  <2>1. t \in pending /\ t # s /\ q[t] # q[s]
    BY <1>1, <1>8
  <2>2. CASE q[t] = i
    <3>1. r[t] = q[s] /\ q[s] # i /\ q[s] \in NotFound
      BY <1>3, <1>9, <2>1, <2>2
    <3>2. Equal(ignored, src[t], index[q[s]].item)
      <4>1. Equal(ignored, src[t], index[i].item)
        BY <1>8, <2>1, <2>2
      <4>2. Equal(ignored, item, index[i].item) /\ Equal(ignored, item, index[q[s]].item)
        BY <1>3, <1>6
      <4> QED
        BY <4>1, <4>2 DEF Equal
    <3> QED
      BY <1>7, <3>1, <3>2
  <2>3. CASE q[t] # i
    <3>1. r[t] = q[t] /\ q[t] \in NotFound \ {i}
      BY <1>8, <1>9, <2>1, <2>3
    <3> QED
      BY <1>7, <1>8, <2>1, <3>1
  <2> QED
    BY <2>2, <2>3
<1>11. \A t, u \in pending' : r[t] = r[u] => t = u
  BY <1>1, <1>8, <1>9
<1>12. \A j \in NotFound' : \E t \in pending' : r[t] = j
  <2> TAKE j \in NotFound'
  <2>1. j \in NotFound /\ j # i
    BY <1>7
  <2>2. CASE j = q[s]
    <3>1. PICK t \in pending : q[t] = i
      BY <1>7, <1>8
    <3>2. t \in pending'
      BY <1>1, <2>1, <2>2, <3>1
    <3> QED
      BY <1>9, <2>2, <3>1, <3>2
  <2>3. CASE j # q[s]
    <3>1. PICK t \in pending : q[t] = j
      BY <1>8, <2>1
    <3>2. t \in pending' /\ r[t] = j
      BY <1>1, <1>9, <2>1, <2>3, <3>1
    <3> QED
      BY <3>2
  <2> QED
    BY <2>2, <2>3
<1>13. Partner(r, ignored, pending', index', NotFound')
  <2>1. UNCHANGED src
    BY DEF ProcessItem, runVars
  <2> QED
    BY <1>10, <1>11, <1>12 DEF Partner
<1>14. UNCHANGED stats
  BY <1>5 DEF MarkFound
<1> QED
  BY <1>13, <1>14 DEF ignored

\* Entries that are the source's own items all have a partner.
LEMMA PartnerStart ==
  ASSUME IdleInv, clean, Exact, UpdateIndexDB, ~cut', stats = Zero
  PROVE  \E q : Partner(q, Phases[phase], pending', index', NotFound')
<1>1. storage = begun
  BY DEF IdleInv, UpdateIndexDB
<1>2. /\ pending' = DOMAIN src
      /\ index' = [i \in DOMAIN storage |-> [item |-> storage[i], status |-> "NOT_FOUND"]]
  <2>1. PICK read \in SUBSET DOMAIN storage :
          /\ index' = [i \in read |-> [item |-> storage[i], status |-> "NOT_FOUND"]]
          /\ unread' = DOMAIN storage \ read
          /\ cut' = (cut \/ unread' # {})
    BY DEF UpdateIndexDB
  <2>2. read = DOMAIN storage
    BY <2>1
  <2> QED
    BY <2>1, <2>2 DEF UpdateIndexDB
<1>3. NotFound' = DOMAIN storage /\ \A i \in DOMAIN storage : index'[i].item = storage[i]
  BY <1>2 DEF NotFound
<1>4. PICK m \in [DOMAIN src -> DOMAIN begun] :
         /\ \A s, t \in DOMAIN src : m[s] = m[t] => s = t
         /\ \A s \in DOMAIN src : begun[m[s]] = src[s]
         /\ \A i \in DOMAIN begun : \E s \in DOMAIN src : m[s] = i
  BY DEF Exact
<1>5. \A s \in DOMAIN src : m[s] \in DOMAIN storage /\ index'[m[s]].item = src[s]
  BY <1>1, <1>3, <1>4
<1>6. Partner(m, Phases[phase], DOMAIN src, index', DOMAIN storage)
  BY <1>1, <1>4, <1>5 DEF Partner, Equal
<1> QED
  BY <1>2, <1>3, <1>6

\* A storage that is the source stays as it is.
LEMMA ExactStep == TypeOK /\ InPhase /\ DrainInv /\ QuietInv /\ [Next]_vars => ExactInv'
<1> SUFFICES ASSUME TypeOK, InPhase, DrainInv, QuietInv, [Next]_vars PROVE ExactInv'
  OBVIOUS
<1>0. ASSUME UNCHANGED <<src, clean, begun, cut>> PROVE (clean /\ Exact)' = (clean /\ Exact)
  BY <1>0 DEF Exact
<1>a. /\ pc = "phase" /\ clean /\ Exact => stats = Zero
      /\ pc \in {"process", "check"} /\ Faultless /\ clean /\ Exact =>
           stats = Zero /\ \E q : Partner(q, Phases[phase], pending, index, NotFound)
      /\ pc = "cleaned" /\ ~dbError /\ ~cancelSync /\ clean /\ Exact => stats = Zero
      /\ Succeeded /\ clean /\ Exact => result = "OkWithoutDataChange"
  BY DEF QuietInv, ExactInv
<1>1. CASE StartRun
  <2>1. \/ pc' = "idle" /\ (result' = "Fail" \/ Phases = <<>>)
        \/ pc' = "phase" /\ stats' = Zero
    BY <1>1 DEF StartRun, Return, Zero
  <2> QED
    BY <2>1 DEF ExactInv, Succeeded, Ok
<1>2. CASE Cancel
  <2>1. /\ UNCHANGED <<src, clean, begun, cut, stats, pc>> /\ cancelSync' /\ pc # "idle"
    BY <1>2 DEF Cancel, runVars
  <2> QED
    BY <1>0, <1>a, <2>1 DEF ExactInv, Succeeded, Faultless
<1>3. CASE SourceFails \/ Stop
  <2>1. pc' = "idle" /\ result' \in {"Fail", "Cancelled"}
    BY <1>3 DEF SourceFails, Stop, Return
  <2> QED
    BY <2>1 DEF ExactInv, Succeeded, Ok
<1>4. CASE UpdateIndexDB
  <2>1. /\ UNCHANGED <<src, clean, begun, stats, phase>> /\ pc = "phase" /\ pc' = "process"
        /\ ~cut' => ~cut
    BY <1>4 DEF UpdateIndexDB, runVars
  <2>2. ASSUME clean', Exact'
        PROVE  /\ stats' = Zero
               /\ (\E q : Partner(q, Phases[phase], pending, index, NotFound))'
    <3>1. clean /\ Exact /\ ~cut'
      BY <2>1, <2>2 DEF Exact
    <3>2. \E q : Partner(q, Phases[phase], pending', index', NotFound')
      BY <1>4, <1>a, <2>1, <3>1, PartnerStart DEF QuietInv
    <3> QED
      BY <1>a, <2>1, <3>1, <3>2 DEF Partner
  <2> QED
    BY <2>1, <2>2 DEF ExactInv, Succeeded
<1>5. ASSUME NEW s \in Slots, ItemAfterCancel(s) PROVE ExactInv'
  <2>1. ~Faultless' /\ pc' = "check"
    BY <1>5 DEF ItemAfterCancel, Faultless
  <2> QED
    BY <2>1 DEF ExactInv, Succeeded
<1>6. ASSUME NEW s \in Slots, ProcessItem(s) PROVE ExactInv'
  <2>1. /\ UNCHANGED <<src, clean, begun, cut, phase, inputError, cancelSync>> /\ pc = "process"
        /\ pc' \in {"process", "check"}
    BY <1>6 DEF ProcessItem, runVars
  <2>2. dbError => dbError'
    BY <1>6 DEF ProcessItem, MarkFound, ModifyCandidate, AddNew
  <2>3. ASSUME clean', Exact', Faultless'
        PROVE  stats' = Zero /\ (\E q : Partner(q, Phases[phase], pending, index, NotFound))'
    <3>1. PICK q : Partner(q, Phases[phase], pending, index, NotFound)
      BY <1>0, <1>a, <2>1, <2>2, <2>3 DEF Faultless
    <3>2. stats = Zero
      BY <1>0, <1>a, <2>1, <2>2, <2>3 DEF Faultless
    <3>3. UNCHANGED stats /\ \E r : Partner(r, Phases[phase], pending', index', NotFound')
      BY <1>6, <3>1, PartnerFound
    <3> QED
      BY <2>1, <3>2, <3>3 DEF Partner
  <2> QED
    BY <2>1, <2>3 DEF ExactInv, Succeeded
<1>7. CASE SourceError
  <2>1. ~Faultless' /\ pc' = "check"
    BY <1>7 DEF SourceError, Faultless
  <2> QED
    BY <2>1 DEF ExactInv, Succeeded
<1>8. CASE SourceEnd
  <2>1. /\ UNCHANGED <<src, clean, begun, cut, phase, inputError, cancelSync, stats, pending, index>>
        /\ pc = "process" /\ pc' = "check" /\ (dbError => dbError')
    BY <1>8 DEF SourceEnd, runVars
  <2>2. NotFound' = NotFound
    BY <2>1 DEF NotFound
  <2>3. ASSUME clean', Exact', Faultless'
        PROVE  stats' = Zero /\ (\E q : Partner(q, Phases[phase], pending, index, NotFound))'
    <3>1. stats = Zero /\ \E q : Partner(q, Phases[phase], pending, index, NotFound)
      BY <1>0, <1>a, <2>1, <2>3 DEF Faultless
    <3> QED
      BY <2>1, <2>2, <3>1 DEF Partner
  <2> QED
    BY <2>1, <2>3 DEF ExactInv, Succeeded
<1>9. CASE CleanStorage
  <2>1. UNCHANGED <<src, clean, begun, cut>> /\ pc = "check" /\ pc' = "cleaned" /\ Faultless
    BY <1>9 DEF CleanStorage, runVars, Faultless
  <2>2. ASSUME clean, Exact PROVE stats' = Zero
    <3>1. PICK q : Partner(q, Phases[phase], pending, index, NotFound)
      BY <1>a, <2>1, <2>2
    <3>2. stats = Zero /\ pending = {}
      BY <1>a, <2>1, <2>2 DEF DrainInv, Streamed
    <3>3. NotFound = {}
      BY <3>1, <3>2 DEF Partner
    <3> QED
      BY <1>9, <3>2, <3>3, RemovedShows DEF CleanStorage
  <2> QED
    BY <1>0, <2>1, <2>2 DEF ExactInv, Succeeded
<1>10. CASE EndPhase
  <2>1. UNCHANGED <<src, clean, begun, cut, stats>> /\ pc = "cleaned"
    BY <1>10 DEF EndPhase
  <2>2. \/ pc' = "phase" /\ ~dbError /\ ~cancelSync
        \/ pc' = "idle" /\ result' \notin Ok
        \/ /\ pc' = "idle" /\ ~dbError /\ ~cancelSync
           /\ result' = IF stats = Zero THEN "OkWithoutDataChange" ELSE "OkWithDataChange"
    BY <1>10 DEF EndPhase, Return, Ok, Zero
  <2> QED
    BY <1>0, <1>a, <2>1, <2>2 DEF ExactInv, Succeeded
<1>11. CASE UNCHANGED vars
  <2>1. /\ UNCHANGED <<src, clean, begun, cut, stats, pc, phase, pending, index, dbError, inputError,
                       cancelSync, result>>
    BY <1>11 DEF vars, runVars
  <2>2. NotFound' = NotFound /\ Faultless' = Faultless /\ Succeeded' = Succeeded
    BY <2>1 DEF NotFound, Faultless, Succeeded
  <2>3. (\E q : Partner(q, Phases[phase], pending, index, NotFound))'
          = (\E q : Partner(q, Phases[phase], pending, index, NotFound))
    BY <2>1, <2>2 DEF Partner
  <2> QED
    BY <1>0, <1>a, <2>1, <2>2, <2>3 DEF ExactInv
<1> QED
  BY <1>1, <1>2, <1>3, <1>4, <1>5, <1>6, <1>7, <1>8, <1>9, <1>10, <1>11 DEF Next

\* Both are inductive.
LEMMA QuietStep == IInv /\ QuietInv /\ [Next]_vars => QuietInv'
  BY IdleStep, ExactStep DEF QuietInv, IInv

\* Both hold at first.
LEMMA QuietInit == Init => QuietInv
  BY DEF Init, QuietInv, IdleInv, ExactInv, Succeeded, Ok

(* A run that reports no change changed nothing, and a run on a storage    *)
(* that already held the source's items reports no change.                 *)
THEOREM ResyncIsQuiet == Spec => []QuietResync
<1>1. QuietInv => QuietResync
  BY DEF QuietInv, IdleInv, ExactInv, Exact, QuietResync
<1> QED
  BY <1>1, InitEstablishes, StepPreserves, QuietInit, QuietStep, PTL DEF Spec
=============================================================================
