-------------------------- MODULE TwoWayMergeProofs --------------------------
(***************************************************************************)
(* What a run of the two-way engine does to the items of the user: what it *)
(* removes (RemovalCorrect), that it leaves a synchronized pair of sides   *)
(* alone (ResyncIsQuiet), and that it brings both to the three-way merge   *)
(* (MergeCorrect).  All three rest on the engine's account of the items,   *)
(* DeepInv of TwoWaySyncProofs.                                            *)
(***************************************************************************)
EXTENDS TwoWaySyncProofs

-----------------------------------------------------------------------------
(* What a step removes.                                                    *)

\* The items that the step takes from its storages.
Goes(t, x) == x \in DOMAIN store[t].items /\ x \notin DOMAIN store'[t].items

\* A flush removes only what is in a queue of removals, also one that fails.
LEMMA FlushRemoves ==
  ASSUME NEW s \in Sides, NEW kind \in Kinds, NEW q \in Seq(EntryType[kind]), NEW m,
         StoresOK, MetaOK(m), Flush(s, kind, q, m)
  PROVE  \A t \in Sides : \A x : Goes(t, x) => t = s /\ kind = "rem" /\ x \in Values(q)
<1> DEFINE w == ApplyBatch(s, kind, m, q)
           f == Feasible(s, kind, q)
<1>1. f \in 0..Len(q) /\ Len(q) \in Nat
  <2>1. Len(q) \in Nat
    OBVIOUS
  <2> QED
    BY <2>1, FeasibleFacts
<1>2. \E n \in 0..f : store' = [store EXCEPT ![s] = w[n].st]
  <2>1. f = Len(q) => Len(q) \in 0..f
    BY <1>1
  <2> QED
    BY <2>1 DEF Flush
<1>3. PICK n \in 0..f : store' = [store EXCEPT ![s] = w[n].st]
  BY <1>2
<1>4. /\ kind # "rem" => \A x \in DOMAIN store[s].items : x \in DOMAIN w[n].st.items
      /\ kind = "rem" => \A x :
                           x \in DOMAIN w[n].st.items <=> x \in DOMAIN store[s].items /\ \A k \in 1..n : q[k] # x
  <2>1. StoreOK(store[s])
    BY DEF StoresOK
  <2> HIDE DEF f, w
  <2>2. w = ApplyBatch(s, kind, m, q) /\ n \in 0..Feasible(s, kind, q)
    BY DEF w, f
  <2> QED
    BY <2>1, <2>2, BatchTypes
<1> HIDE DEF w, f
<1>5. \A t \in Sides : store'[t] = IF t = s THEN w[n].st ELSE store[t]
  BY <1>3 DEF StoresOK
<1>6. n <= Len(q) /\ n \in Nat
  BY <1>1
<1> QED
  BY <1>1, <1>4, <1>5, <1>6 DEF Goes, Values

\* So does putting an entry into a queue.
LEMMA EnqueueRemoves ==
  ASSUME NEW s \in Sides, NEW kind \in Kinds, NEW e \in EntryType[kind], NEW m,
         StoresOK, QueuesOK, MetaOK(m), Enqueue(s, kind, e, m)
  PROVE  \A t \in Sides :
           \A x : Goes(t, x) => t = s /\ kind = "rem" /\ (x \in Values(queue[s][kind]) \/ x = e)
<1> DEFINE q == Append(queue[s][kind], e)
<1>1. queue[s][kind] \in Seq(EntryType[kind])
  BY DEF QueuesOK, QueueOK
<1>2. q \in Seq(EntryType[kind]) /\ \A x \in Values(q) : x \in Values(queue[s][kind]) \/ x = e
  <2>1. /\ q \in Seq(EntryType[kind]) /\ Len(q) = Len(queue[s][kind]) + 1
        /\ Len(queue[s][kind]) \in Nat
        /\ \A k \in 1..Len(queue[s][kind]) : q[k] = queue[s][kind][k]
        /\ q[Len(queue[s][kind]) + 1] = e
    <3> DEFINE p == queue[s][kind]
               A == EntryType[kind]
    <3>1. p \in Seq(A) /\ e \in A
      BY <1>1
    <3> HIDE DEF p, A
    <3>2. /\ Append(p, e) \in Seq(A) /\ Len(Append(p, e)) = Len(p) + 1 /\ Len(p) \in Nat
          /\ \A k \in 1..Len(p) : Append(p, e)[k] = p[k]
          /\ Append(p, e)[Len(p) + 1] = e
      BY <3>1, AppendFacts
    <3> QED
      BY <3>2 DEF p, A
  <2>2. \A k : k \in 1..Len(q) => k \in 1..Len(queue[s][kind]) \/ k = Len(queue[s][kind]) + 1
    BY <2>1
  <2> HIDE DEF q
  <2> QED
    BY <2>1, <2>2 DEF Values
<1>3. CASE store' = store
  BY <1>3 DEF Goes
<1>4. CASE Flush(s, kind, q, m)
  <2> HIDE DEF q
  <2> QED
    BY <1>2, <1>4, FlushRemoves
<1> QED
  BY <1>3, <1>4 DEF Enqueue

\* Additions remove nothing.
LEMMA KeepBothRemoves ==
  ASSUME NEW pair, KeepBoth(pair), NEW t \in Sides, NEW x
  PROVE  ~Goes(t, x)
<1> DEFINE mine   == changed["local"][pair[2]]
           theirs == changed["remote"][pair[1]]
<1>1. PICK l \in AddConflicting("local", theirs), r \in AddConflicting("remote", mine) : store' = [local |-> l.st, remote |-> r.st]
  BY DEF KeepBoth
<1>2. ASSUME NEW s, NEW obj, NEW a \in AddConflicting(s, obj)
      PROVE  \A y \in DOMAIN store[s].items : y \in DOMAIN a.st.items
  <2>1. a.st = store[s] \/ a.st = AddOne(store[s], obj.item)
    BY DEF AddConflicting
  <2> QED
    BY <2>1 DEF AddOne, Put
<1> HIDE DEF mine, theirs
<1>3. /\ \A y \in DOMAIN store["local"].items : y \in DOMAIN l.st.items
      /\ \A y \in DOMAIN store["remote"].items : y \in DOMAIN r.st.items
  BY <1>2
<1>4. store'["local"] = l.st /\ store'["remote"] = r.st
  BY <1>1
<1> QED
  BY <1>3, <1>4, SideFacts DEF Goes

\* Putting an object into a queue of additions removes nothing.
LEMMA AddingRemoves ==
  ASSUME TypeInv, NEW s \in Sides, NEW obj \in Objects, NEW m, MetaOK(m), Enqueue(s, "add", obj, m)
  PROVE  \A t \in Sides : \A x : ~Goes(t, x)
<1>1. "add" \in Kinds /\ obj \in EntryType["add"] /\ StoresOK /\ QueuesOK
  BY DEF Kinds, EntryType, TypeInv
<1> QED
  BY <1>1, EnqueueRemoves

\* A run removes only what it asked to be removed, whatever fails.
LEMMA RemovesAsked ==
  ASSUME TypeInv, RunInv, CleanInv, pc # "idle", [Next]_vars
  PROVE  \A t \in Sides : \A x : Goes(t, x) => GivesWay(t, x)
<1> USE SideFacts
<1>1. StoresOK /\ QueuesOK /\ MetaOK(meta) /\ RemsAsked
  BY DEF TypeInv, PlainOK, CleanInv
<1>2. CASE store' = store
  BY <1>2 DEF Goes
<1>3. CASE Synchronize \/ Edit \/ Restart
  BY <1>3 DEF Synchronize, Edit, Restart
<1>4. CASE \/ BuildIndex \/ ScanDone \/ RestDone \/ NoticeCancel \/ Conclude \/ NextClass \/ MatchDone
           \/ StorageInitFails \/ Cancel
  <2>1. store' = store
    BY <1>4 DEF BuildIndex, ScanDone, RestDone, NoticeCancel, Conclude, NextClass, MatchDone,
       StorageInitFails, Cancel
  <2> QED
    BY <1>2, <2>1
<1>5. CASE Crash
  <2>1. store' = store
    BY <1>5 DEF Crash, NewObject
  <2> QED
    BY <1>2, <2>1
<1>6. CASE UNCHANGED vars
  <2>1. store' = store
    BY <1>6 DEF vars
  <2> QED
    BY <1>2, <2>1
<1>7. CASE \E s \in Sides : Detect(s) \/ Fetch(s)
  <2>1. store' = store
    BY <1>7 DEF Detect, Fetch
  <2> QED
    BY <1>2, <2>1
<1>8. CASE \E e \in todo : ScanRemote(e)
  <2>1. PICK e \in todo : ScanRemote(e)
    BY <1>8
  <2>2. store' = store \/ Enqueue("local", "add", Obj("remote", e[2]), meta)
    BY <2>1 DEF ScanRemote
  <2>3. Obj("remote", e[2]) \in Objects
    <3>1. Stored(e) /\ e[1] = "remote"
      BY <2>1 DEF TypeInv, ScanOK, ScanRemote
    <3>2. e[2] \in DOMAIN store["remote"].items
      BY <3>1, IndexEntry DEF Has
    <3> QED
      BY <1>1, <3>2, ObjType
  <2> QED
    BY <1>1, <1>2, <2>2, <2>3, AddingRemoves
<1>9. CASE \E e \in todo : AddRest(e)
  <2>1. PICK e \in todo : AddRest(e)
    BY <1>9
  <2>2. store' = store \/ (index[e] = "NOT_FOUND" /\ Enqueue("remote", "add", Obj("local", e[2]), meta))
    BY <2>1 DEF AddRest
  <2>3. CASE index[e] = "NOT_FOUND" /\ Enqueue("remote", "add", Obj("local", e[2]), meta)
    <3>1. Stored(e) /\ e[1] = "local"
      BY <2>1, <2>3 DEF TypeInv, ScanOK, AddRest
    <3>2. e[2] \in DOMAIN store["local"].items
      BY <3>1, IndexEntry DEF Has
    <3>3. Obj("local", e[2]) \in Objects
      BY <1>1, <3>2, ObjType
    <3> QED
      BY <1>1, <2>3, <3>3, AddingRemoves
  <2> QED
    BY <1>2, <2>2, <2>3
<1>10. CASE FlushNext
  <2>1. DrainInv
    BY DEF CleanInv
  <2>2. FlushesOver \/ \E k, s, kind : s \in Sides /\ kind \in Kinds /\ FlushAt(k, s, kind)
    BY <1>10, <2>1, FlushPlan
  <2>3. CASE FlushesOver
    BY <1>2, <2>3 DEF FlushesOver
  <2>4. CASE \E k, s, kind : s \in Sides /\ kind \in Kinds /\ FlushAt(k, s, kind)
    <3>1. PICK k, s, kind : s \in Sides /\ kind \in Kinds /\ FlushAt(k, s, kind)
      BY <2>4
    <3>2. Flush(s, kind, queue[s][kind], meta) /\ queue[s][kind] \in Seq(EntryType[kind])
      BY <1>1, <3>1 DEF FlushAt, QueuesOK, QueueOK
    <3> QED
      BY <1>1, <3>1, <3>2, FlushRemoves DEF RemsAsked
  <2> QED
    BY <2>2, <2>3, <2>4
<1>11. CASE \E pair \in todo : ForgetPair(pair)
  <2>1. store' = store
    BY <1>11 DEF ForgetPair
  <2> QED
    BY <1>2, <2>1
<1>12. CASE \E pair \in todo : KeepBoth(pair)
  BY <1>12, KeepBothRemoves
<1>13. CASE \E pair \in todo, s \in Sides : RemoveCounterpart(s, pair)
  <2>1. PICK pair \in todo, s \in Sides : RemoveCounterpart(s, pair)
    BY <1>13
  <2>2. GivesWay(s, Id(pair, s)) /\ "rem" \in Kinds /\ Id(pair, s) \in EntryType["rem"]
    BY <2>1, RemovalWanted DEF Kinds, EntryType
  <2>3. /\ Resolve(Where(s, "NotChanged", "NotPresent"), pair)
        /\ Enqueue(s, "rem", Id(pair, s), RemoveItem(meta, pair[1], pair[2]))
    BY <2>1 DEF RemoveCounterpart
  <2>4. MetaOK(RemoveItem(meta, pair[1], pair[2]))
    BY <2>3, TurnParts
  <2>5. /\ \A t \in Sides :
             \A x : Goes(t, x) => t = s /\ (x \in Values(queue[s]["rem"]) \/ x = Id(pair, s))
    BY <1>1, <2>2, <2>3, <2>4, EnqueueRemoves
  <2> QED
    BY <1>1, <2>2, <2>5 DEF RemsAsked
<1>14. CASE \E pair \in todo, s \in Sides : RestoreItem(s, pair)
  <2>1. PICK pair \in todo, s \in Sides : RestoreItem(s, pair)
    BY <1>14
  <2> DEFINE c == Where(s, "NotPresent", "Modified")
             o == changed[Other(s)][Id(pair, Other(s))]
             m == RemoveItem(meta, pair[1], pair[2])
  <2>2. Resolve(c, pair) /\ Enqueue(s, "add", o, m)
    BY <2>1 DEF RestoreItem
  <2>3. c[Other(s)] = "Modified"
    BY WhereSides DEF WhereFacts
  <2> HIDE DEF c
  <2>4. o \in Objects
    BY <2>2, <2>3, PassedOn
  <2>5. MetaOK(m)
    BY <2>2, TurnParts
  <2> HIDE DEF o, m
  <2> QED
    BY <2>2, <2>4, <2>5, AddingRemoves
<1>15. CASE \E pair \in todo, s \in Sides : PropagateChange(s, pair)
  <2>1. PICK pair \in todo, s \in Sides : PropagateChange(s, pair)
    BY <1>15
  <2> DEFINE c == Where(s, "NotChanged", "Modified")
             o == changed[Other(s)][Id(pair, Other(s))]
             e == [id |-> Id(pair, s), obj |-> o]
             m == UpdateRevision(meta, Other(s), o.id, o.rev)
  <2>2. Resolve(c, pair) /\ Enqueue(s, "mod", e, m)
    BY <2>1 DEF PropagateChange
  <2>3. c[Other(s)] = "Modified"
    BY WhereSides DEF WhereFacts
  <2> HIDE DEF c
  <2>4. o \in Objects
    BY <2>2, <2>3, PassedOn
  <2>5. Id(pair, s) \in Nat
    BY <2>2, HalfFacts
  <2>6. e \in EntryType["mod"] /\ "mod" \in Kinds
    BY <2>4, <2>5 DEF EntryType, Changes, Kinds
  <2> HIDE DEF e
  <2>7. MetaOK(m)
    <3>1. o.id \in Nat /\ o.rev \in Nat
      BY <2>4 DEF Objects
    <3> HIDE DEF o
    <3> QED
      BY <1>1, <3>1, UpdateFacts
  <2> HIDE DEF o, m
  <2> QED
    BY <1>1, <2>2, <2>6, <2>7, EnqueueRemoves
<1>16. CASE \E obj \in fresh.local : MatchFresh(obj)
  <2>1. PICK obj \in fresh.local : MatchFresh(obj)
    BY <1>16
  <2>2. store' = store \/ Enqueue("remote", "add", obj, meta)
    BY <2>1 DEF MatchFresh
  <2>3. obj \in Objects
    BY DEF TypeInv, FoundOK
  <2> QED
    BY <1>1, <1>2, <2>2, <2>3, AddingRemoves
<1>17. CASE \E obj \in fresh.remote : AddFresh(obj)
  <2>1. PICK obj \in fresh.remote : AddFresh(obj)
    BY <1>17
  <2>2. Enqueue("local", "add", obj, meta)
    BY <2>1 DEF AddFresh
  <2>3. obj \in Objects
    BY DEF TypeInv, FoundOK
  <2> QED
    BY <1>1, <2>2, <2>3, AddingRemoves
<1>18. CASE Run
  BY <1>18, <1>3, <1>4, <1>7, <1>8, <1>9, <1>10, <1>11, <1>12, <1>13, <1>14, <1>15, <1>16, <1>17,
     Zenon DEF Run
<1> QED
  BY <1>3, <1>4, <1>5, <1>6, <1>18 DEF Next

\* What a run removes was, when it began, as the last synchronization left it,
\* and its counterpart was not.
THEOREM RemovalCorrect == Spec => RemovalAsked
<1>1. DeepInv /\ [Next]_vars =>
        (pc # "idle" /\ faulty \subseteq {"items", "unread"} =>
           \A s \in Sides :
             \A id \in DOMAIN store[s].items \ DOMAIN store'[s].items : GivesWay(s, id))
  <2> SUFFICES ASSUME DeepInv, [Next]_vars, pc # "idle", faulty \subseteq {"items", "unread"},
                      NEW s \in Sides, NEW id \in DOMAIN store[s].items \ DOMAIN store'[s].items
               PROVE  GivesWay(s, id)
    OBVIOUS
  <2>1. TypeInv /\ RunInv /\ CleanInv
    BY DEF DeepInv, Clean
  <2>2. Goes(s, id)
    BY DEF Goes
  <2> QED
    BY <2>1, <2>2, RemovesAsked
<1> QED
  BY <1>1, DeepCorrect, PTL DEF Spec, RemovalAsked

(***************************************************************************)
(* A run after a successful one, with nothing in between, changes nothing. *)
(***************************************************************************)
InSync(S, m) == Describes(S, m) /\ AllTracked(S, m)

\* The entries of the index that no remote item was matched with, and a
\* matching of the items T to come with the entries N, equal ones each.
Unmatched == {d \in DOMAIN index : index[d] = "NOT_FOUND"}

Twins(f, T, N) ==
  /\ DOMAIN f = T
  /\ \A e \in T : f[e] \in N /\ EntryItem(f[e]) = EntryItem(e)
  /\ \A d, e \in T : f[d] = f[e] => d = e
  /\ \A d \in N : \E e \in T : f[e] = d

\* No change was found on side s.
AllSame(s) == fresh[s] = {} /\ \A x \in DOMAIN meta.rev[s] : StateOf(s, x) = "NotChanged"

Still ==
  /\ ~touched /\ Quiet
  /\ hasMeta \/ pc = "index" => InSync(store, meta)
  /\ pc = "scan" => \E f : Twins(f, todo, Unmatched)
  /\ pc \in {"saveLocal", "rest", "saveRemote"} => Unmatched = {}
  /\ pc = "fetchRemote" \/ pc \in Resolving => AllSame("local")
  /\ pc \in Resolving => AllSame("remote") /\ todo = {}

\* Nothing happened since a successful run but this one.
Steady == begun.synced /\ faulty = {} /\ ~cancelSync

StillInv ==
  /\ pc = "idle" /\ synced => faulty = {} /\ saved = meta /\ saved # NoMeta /\ InSync(store, meta)
  /\ pc # "idle" /\ Steady => Still
  /\ QuietResync

\* During a run, only steps that find it still count.
LEMMA StillMoves ==
  ASSUME StillInv, pc # "idle", pc' # "idle", [Next]_vars, begun' = begun, cancelSync' = cancelSync,
         Still /\ Steady /\ Steady' => Still'
  PROVE  StillInv'
<1>1. faulty' = {} => faulty = {}
  BY FaultyGrows
<1>2. Steady' => Still'
  BY <1>1 DEF Steady, StillInv
<1> QED
  BY <1>2 DEF StillInv, QuietResync, Done

\* What the earlier invariants say in such a run.
LEMMA StillFacts ==
  ASSUME DeepInv, Steady
  PROVE  TypeInv /\ RunInv /\ CleanInv /\ Clean
  BY DEF DeepInv, Steady, Clean
-----------------------------------------------------------------------------
(* A first synchronization of sides that are equal.                        *)

\* The pairs of the metadata match the items.
LEMMA PairsTwin ==
  ASSUME StoresOK, InSync(store, meta), NEW L, NEW R,
         L = {<<"local", id>> : id \in DOMAIN store["local"].items},
         R = {<<"remote", id>> : id \in DOMAIN store["remote"].items}
  PROVE  \E f : Twins(f, R, L)
<1> USE SideFacts
<1> DEFINE f == [e \in R |-> <<"local", meta.map[e[2]]>>]
<1>1. \A r : Mate(meta, r, "remote") = r /\ Mate(meta, r, "local") = meta.map[r]
  BY DEF Mate
<1>2. \A r : Has(store, "remote", r) => r \in DOMAIN meta.map
  <2>1. \A r : Has(store, "remote", r) => Tracks(meta, "remote", r)
    BY DEF InSync, AllTracked, Has
  <2> QED
    BY <1>1, <2>1 DEF InSync, Describes, Bijective, Tracks
<1>3. /\ \A r \in DOMAIN meta.map :
           Has(store, "remote", r) /\ Has(store, "local", meta.map[r]) /\ SameItem(store, meta, r)
  BY <1>1 DEF InSync, Describes, Settled, Knows
<1>4. \A x : Has(store, "local", x) => \E r \in DOMAIN meta.map : meta.map[r] = x
  <2>1. \A x : Has(store, "local", x) => Tracks(meta, "local", x)
    BY DEF InSync, AllTracked, Has
  <2> QED
    BY <1>1, <2>1 DEF InSync, Describes, Bijective, Tracks
<1>5. \A r, t \in DOMAIN meta.map : meta.map[r] = meta.map[t] => r = t
  <2>1. \A r, t \in DOMAIN meta.map : Mate(meta, r, "local") = Mate(meta, t, "local") => r = t
    BY DEF InSync, Describes, Bijective
  <2> QED
    BY <1>1, <2>1
<1>6. /\ \A e \in R :
           e = <<"remote", e[2]>> /\ Has(store, "remote", e[2]) /\ e[2] \in DOMAIN meta.map /\ f[e] = <<"local", meta.map[e[2]]>>
  BY <1>2 DEF Has
<1>7. \A x : Has(store, "local", x) => <<"local", x>> \in L
  BY DEF Has
<1>8. \A r : Has(store, "remote", r) => <<"remote", r>> \in R
  BY DEF Has
<1>9. \A d \in L : \E x : Has(store, "local", x) /\ d = <<"local", x>>
  BY DEF Has
<1>10. DOMAIN f = R
  OBVIOUS
<1> HIDE DEF f
<1>11. ASSUME NEW e \in R PROVE f[e] \in L /\ EntryItem(f[e]) = EntryItem(e)
  <2>1. f[e] = <<"local", meta.map[e[2]]>> /\ e = <<"remote", e[2]>>
    BY <1>6
  <2>2. EntryItem(f[e]) = store["local"].items[meta.map[e[2]]].item
    BY <2>1 DEF EntryItem
  <2>3. EntryItem(e) = store["remote"].items[e[2]].item
    BY <2>1 DEF EntryItem
  <2>4. f[e] \in L
    BY <1>3, <1>6, <1>7
  <2>5. SameItem(store, meta, e[2])
    BY <1>3, <1>6
  <2> QED
    BY <2>2, <2>3, <2>4, <2>5 DEF SameItem
<1>12. ASSUME NEW d \in R, NEW e \in R, f[d] = f[e] PROVE d = e
  <2>1. <<"local", meta.map[d[2]]>> = <<"local", meta.map[e[2]]>>
    BY <1>6, <1>12
  <2>2. meta.map[d[2]] = meta.map[e[2]]
    BY <2>1
  <2>3. d[2] = e[2]
    BY <1>5, <1>6, <2>2
  <2> QED
    BY <1>6, <2>3
<1>13. ASSUME NEW d \in L PROVE \E e \in R : f[e] = d
  <2>1. PICK x : Has(store, "local", x) /\ d = <<"local", x>>
    BY <1>9
  <2>2. PICK r \in DOMAIN meta.map : meta.map[r] = x
    BY <1>4, <2>1
  <2>3. <<"remote", r>> \in R
    BY <1>3, <1>8
  <2>4. f[<<"remote", r>>] = <<"local", meta.map[<<"remote", r>>[2]]>>
    BY <1>6, <2>3
  <2> QED
    BY <2>1, <2>2, <2>3, <2>4
<1> QED
  BY <1>10, <1>11, <1>12, <1>13 DEF Twins

\* All items on both sides are to be matched, and the pairs of the metadata match them.
LEMMA BuildIndexStill ==
  ASSUME DeepInv, DeepInv', Still, Steady, Steady', BuildIndex
  PROVE  Still'
<1>1. TypeInv /\ RunInv
  BY StillFacts
<1>2. pc = "index" /\ pc' = "scan" /\ UNCHANGED <<store, touched, hasMeta, meta, queue>> /\ ~hasMeta
  BY <1>1 DEF BuildIndex, engineVars, RunInv, FirstPcs
<1>3. PICK L \in Delivered("local", FALSE), R \in Delivered("remote", FALSE) :
        index' = [e \in L |-> "NOT_FOUND"] /\ todo' = R
  <2>1. ~Fault({"scan"})
    BY DEF Fault, Steady
  <2> QED
    BY <2>1 DEF BuildIndex, Steady
<1>4. /\ L = {<<"local", id>> : id \in DOMAIN store["local"].items}
      /\ R = {<<"remote", id>> : id \in DOMAIN store["remote"].items}
  BY DeliveredFacts
<1>5. Unmatched' = L
  BY <1>3 DEF Unmatched
<1>6. InSync(store, meta)
  BY <1>2 DEF Still
<1>7. StoresOK
  BY <1>1 DEF TypeInv
<1>8. PICK f : Twins(f, R, L)
  BY ONLY <1>4, <1>6, <1>7, PairsTwin
<1>9. (\E h : Twins(h, todo, Unmatched))'
  BY <1>2, <1>3, <1>5, <1>8 DEF Twins, EntryItem
<1> QED
  BY <1>2, <1>9, PcFacts DEF Still, Quiet, Resolving

\* Once all remote items were matched, no local one is left.
LEMMA ScanDoneStill ==
  ASSUME DeepInv, DeepInv', Still, Steady, Steady', ScanDone
  PROVE  Still'
<1>1. /\ pc = "scan" /\ todo = {} /\ pc' = "saveLocal"
      /\ UNCHANGED <<store, touched, hasMeta, meta, queue, index>>
  BY DEF ScanDone, engineVars
<1>2. ~hasMeta
  BY <1>1, StillFacts DEF RunInv, FirstPcs
<1>3. Unmatched = {}
  BY <1>1 DEF Still, Twins
<1>4. Unmatched' = {}
  BY <1>1, <1>3 DEF Unmatched
<1> QED
  BY <1>1, <1>2, <1>4 DEF Still, Quiet, Resolving

\* An item takes an equal entry, not always the one it was matched with: the
\* two are exchanged.
LEMMA TwinsSwap ==
  ASSUME NEW f, NEW T, NEW N, Twins(f, T, N), NEW e \in T, NEW d \in N, EntryItem(d) = EntryItem(e)
  PROVE  \E g : Twins(g, T \ {e}, N \ {d})
<1> DEFINE g == [x \in T \ {e} |-> IF f[x] = d THEN f[e] ELSE f[x]]
<1>1. DOMAIN g = T \ {e} /\ \A x \in T : x # e => g[x] = IF f[x] = d THEN f[e] ELSE f[x]
  OBVIOUS
<1> HIDE DEF g
<1>2. /\ \A x \in T : f[x] \in N /\ EntryItem(f[x]) = EntryItem(x)
      /\ \A x, y \in T : f[x] = f[y] => x = y
      /\ \A z \in N : \E x \in T : f[x] = z
  BY DEF Twins
<1>3. ASSUME NEW x \in T \ {e} PROVE g[x] \in N \ {d} /\ EntryItem(g[x]) = EntryItem(x)
  BY <1>1, <1>2
<1>4. ASSUME NEW x \in T \ {e}, NEW y \in T \ {e}, g[x] = g[y] PROVE x = y
  BY <1>1, <1>2, <1>4
<1>5. ASSUME NEW z \in N \ {d} PROVE \E x \in T \ {e} : g[x] = z
  <2>1. PICK x \in T : f[x] = z
    BY <1>2
  <2>2. CASE x # e
    BY <1>1, <2>1, <2>2
  <2>3. CASE x = e
    <3>1. PICK y \in T : f[y] = d
      BY <1>2
    <3> QED
      BY <1>1, <2>1, <2>3, <3>1
  <2> QED
    BY <2>2, <2>3
<1> QED
  BY <1>1, <1>3, <1>4, <1>5 DEF Twins

\* An item that has a twin is matched with an equal one, and the twins that are left are matched anew.
LEMMA ScanRemoteStill ==
  ASSUME DeepInv, DeepInv', Still, Steady, Steady', NEW e \in todo, ScanRemote(e)
  PROVE  Still'
<1>1. TypeInv /\ RunInv
  BY StillFacts
<1>2. pc = "scan" /\ pc' = pc /\ hasMeta' = hasMeta /\ ~hasMeta /\ todo' = todo \ {e}
  BY <1>1 DEF ScanRemote, RunInv, FirstPcs
<1>3. PICK f : Twins(f, todo, Unmatched)
  BY <1>2 DEF Still
<1>4. /\ f[e] \in DOMAIN index /\ index[f[e]] = "NOT_FOUND" /\ f[e][1] = "local"
      /\ EntryItem(f[e]) = EntryItem(e)
  BY <1>1, <1>2, <1>3 DEF Twins, Unmatched, TypeInv, ScanOK
<1>5. f[e] \in Equals(e) /\ f[e] \in Candidates(e)
  BY <1>4 DEF Equals, Candidates, EntryKey
<1>6. PICK d \in Equals(e) : index' = [index EXCEPT ![d] = "FOUND"] /\ UNCHANGED <<store, queue,
                                                                                   touched>>
  BY <1>5 DEF ScanRemote
<1>7. d \in Unmatched /\ EntryItem(d) = EntryItem(e)
  BY DEF Equals, Candidates, Unmatched
<1>8. Unmatched' = Unmatched \ {d}
  BY <1>6 DEF Unmatched
<1>9. PICK g : Twins(g, todo \ {e}, Unmatched \ {d})
  BY ONLY <1>3, <1>7, TwinsSwap, e \in todo
<1>10. (\E h : Twins(h, todo, Unmatched))'
  BY <1>2, <1>6, <1>8, <1>9 DEF Twins, EntryItem
<1> QED
  BY <1>2, <1>6, <1>10 DEF Still, Quiet, Resolving

\* The index has nothing that was not found.
LEMMA AddRestStill ==
  ASSUME DeepInv, DeepInv', Still, Steady, Steady', NEW e \in todo, AddRest(e)
  PROVE  Still'
<1>1. TypeInv /\ RunInv
  BY StillFacts
<1>2. pc = "rest" /\ UNCHANGED <<pc, hasMeta, index>> /\ ~hasMeta
  BY <1>1 DEF AddRest, RunInv, FirstPcs
<1>3. Unmatched = {}
  BY <1>2 DEF Still
<1>4. index[e] # "NOT_FOUND"
  BY <1>1, <1>2, <1>3 DEF TypeInv, ScanOK, Unmatched
<1>5. UNCHANGED <<store, queue, touched>>
  BY <1>4 DEF AddRest
<1>6. Unmatched' = {}
  BY <1>2, <1>3 DEF Unmatched
<1> QED
  BY <1>2, <1>5, <1>6 DEF Still, Quiet, Resolving

\* Then there is nothing to flush either.
LEMMA RestDoneStill ==
  ASSUME DeepInv, DeepInv', Still, Steady, Steady', RestDone
  PROVE  Still'
<1>1. /\ pc = "rest" /\ pc' = "saveRemote"
      /\ UNCHANGED <<store, touched, hasMeta, meta, queue, index>>
  BY DEF RestDone, engineVars
<1>2. ~hasMeta
  BY <1>1, StillFacts DEF RunInv, FirstPcs
<1>3. Unmatched' = {}
  BY <1>1 DEF Still, Unmatched
<1> QED
  BY <1>1, <1>2, <1>3 DEF Still, Quiet, Resolving

\* The queues are empty.
LEMMA FlushNextStill ==
  ASSUME DeepInv, DeepInv', Still, Steady, Steady', FlushNext
  PROVE  Still'
<1>1. TypeInv /\ CleanInv /\ RunInv
  BY StillFacts
<1>2. pc \in DOMAIN AfterFlush /\ UNCHANGED <<touched, hasMeta, index, state, fresh>>
  BY DEF FlushNext, fullVars
<1>3. DrainInv
  BY <1>1, <1>2, AfterFlushFacts DEF CleanInv
<1>4. FlushesOver
  <2>1. \A k, s, kind : s \in Sides /\ kind \in Kinds => ~FlushAt(k, s, kind)
    BY DEF FlushAt, Still, Quiet
  <2> QED
    BY <1>1, <1>3, <2>1, FlushPlan
<1>5. UNCHANGED <<store, meta, queue>> /\ pc' = AfterFlush[pc]
  BY <1>4 DEF FlushesOver
<1>6. (pc = "saveLocal" /\ pc' = "rest") \/ pc' = "tokens"
  BY <1>2, <1>5, AfterFlushFacts
<1>7. pc # "index" /\ (pc = "saveLocal" => Unmatched = {})
  BY <1>2, AfterFlushFacts DEF Still
<1>8. Unmatched' = Unmatched
  BY <1>2 DEF Unmatched
<1> QED
  BY <1>2, <1>5, <1>6, <1>7, <1>8 DEF Still, Quiet, Resolving
-----------------------------------------------------------------------------
(* A following synchronization of sides that did not change.               *)

\* Detecting changes leaves storages and metadata alone.
LEMMA DetectStill ==
  ASSUME DeepInv, DeepInv', Still, Steady, Steady', NEW s \in Sides, Detect(s)
  PROVE  Still'
<1>1. /\ pc \in {"detectLocal", "detectRemote"} /\ pc' \in {"detectRemote", "fetchLocal"}
      /\ UNCHANGED <<store, touched, hasMeta, meta, queue>>
  BY DEF Detect, engineVars
<1> QED
  BY <1>1 DEF Still, Quiet, Resolving

\* What was reported is as the metadata knows it.
LEMMA FetchSame ==
  ASSUME NEW s \in Sides, FoundOK, InSync(store, meta), Detected(s), Fetch(s), pc' # "idle"
  PROVE  AllSame(s)'
<1> DEFINE tracked  == {id \in DOMAIN revs[s] : Tracked(meta, s, id)}
           modified == {id \in tracked : meta.rev[s][id] # revs[s][id]}
           added    == DOMAIN revs[s] \ tracked
<1>1. /\ state' = [state EXCEPT ![s] = [id \in DOMAIN @ \cup tracked |->
               IF id \in modified THEN "Modified" ELSE IF id \in tracked THEN "NotChanged" ELSE @[id]]]
      /\ fresh' = [fresh EXCEPT ![s] = {Obj(s, id) : id \in added}]
      /\ meta' = meta
  BY DEF Fetch, Return
<1>2. \A x \in DOMAIN revs[s] : Knows(store, meta, s, x) /\ revs[s][x] = meta.rev[s][x]
  <2> SUFFICES ASSUME NEW x \in DOMAIN revs[s] PROVE Knows(store, meta, s, x) /\ revs[s][x] = meta.rev[s][x]
    OBVIOUS
  <2>1. Has(store, s, x) /\ revs[s][x] = store[s].items[x].rev
    BY DEF Detected
  <2>2. x \in DOMAIN meta.rev[s]
    BY <2>1 DEF InSync, AllTracked, Has, Tracks
  <2>3. Knows(store, meta, s, x)
    BY <2>2, DescribesKnows DEF InSync
  <2> QED
    BY <2>1, <2>3 DEF Knows
<1>3. tracked = DOMAIN revs[s] /\ modified = {} /\ added = {}
  BY <1>2 DEF Knows, Tracked, Tracks
<1> HIDE DEF tracked, modified, added
<1>4. DOMAIN fresh = Sides /\ DOMAIN state = Sides
  BY DEF FoundOK
<1>5. fresh'[s] = {}
  BY <1>1, <1>3, <1>4
<1>6. state'[s] = [id \in DOMAIN state[s] \cup DOMAIN revs[s] |-> IF id \in DOMAIN revs[s] THEN "NotChanged" ELSE state[s][id]]
  BY <1>1, <1>3, <1>4
<1>7. \A x \in DOMAIN meta.rev[s] : x \in DOMAIN state'[s] /\ state'[s][x] = "NotChanged"
  <2> SUFFICES ASSUME NEW x \in DOMAIN meta.rev[s] PROVE x \in DOMAIN state'[s] /\ state'[s][x] = "NotChanged"
    OBVIOUS
  <2>1. x \in DOMAIN state[s]
    BY DEF Detected
  <2>2. Has(store, s, x)
    BY DescribesKnows DEF InSync, Knows
  <2>3. x \notin DOMAIN revs[s] => state[s][x] = "NotChanged"
    BY <2>1, <2>2 DEF Detected
  <2> QED
    BY <1>6, <2>1, <2>3
<1> QED
  BY <1>1, <1>5, <1>7 DEF AllSame, StateOf

\* Nothing was found to have changed, on one side and then on the other.
LEMMA FetchStill ==
  ASSUME DeepInv, DeepInv', Still, Steady, Steady', NEW s \in Sides, Fetch(s), pc' # "idle"
  PROVE  Still'
<1> USE SideFacts
<1>1. TypeInv /\ RunInv /\ CleanInv
  BY StillFacts
<1>2. /\ pc = (IF s = "local" THEN "fetchLocal" ELSE "fetchRemote")
      /\ pc' = (IF s = "local" THEN "fetchRemote" ELSE "resolve")
      /\ UNCHANGED <<store, meta, hasMeta, queue, todo>>
  BY FetchCases
<1>3. touched' = touched
  BY DEF Fetch
<1>4. pc \in Detecting
  BY <1>2 DEF Detecting
<1>5. hasMeta /\ todo = {} /\ DetectInv
  BY <1>1, <1>4, DetectingFacts
<1>6. Detected(s)
  BY <1>2, <1>5 DEF DetectInv
<1>7. InSync(store, meta)
  BY <1>5 DEF Still
<1>8. FoundOK
  BY <1>1 DEF TypeInv
<1>9. AllSame(s)'
  BY ONLY <1>6, <1>7, <1>8, FetchSame, Fetch(s), pc' # "idle", s \in Sides
<1>10. ASSUME s = "remote" PROVE AllSame("local")'
  <2>1. AllSame("local")
    BY <1>2, <1>10 DEF Still
  <2>2. state'["local"] = state["local"] /\ fresh'["local"] = fresh["local"]
    <3>1. pc' # "idle"
      OBVIOUS
    <3>2. /\ \E a, b :
               state' = [state EXCEPT !["remote"] = a] /\ fresh' = [fresh EXCEPT !["remote"] = b]
      BY <1>10, <3>1 DEF Fetch, Return
    <3> QED
      BY <1>8, <3>2 DEF FoundOK
  <2> QED
    BY <1>2, <2>1, <2>2 DEF AllSame, StateOf
<1>11. InSync(store', meta')
  BY <1>2, <1>7
<1> QED
  BY <1>2, <1>3, <1>5, <1>9, <1>10, <1>11 DEF Still, Quiet, Resolving

\* There is no loop about such pairs.
LEMMA NextClassStill ==
  ASSUME DeepInv, DeepInv', Still, Steady, Steady', NextClass
  PROVE  Still'
<1> USE SideFacts
<1>1. TypeInv /\ RunInv
  BY StillFacts
<1>2. /\ pc = "resolve" /\ todo = {} /\ UNCHANGED <<store, meta, hasMeta, queue, state, fresh>>
      /\ (pc' = "match" /\ todo' = todo) \/ \E c : NextLoop(c)
  BY <1>1, NextClassFacts
<1>3. touched' = touched
  BY DEF NextClass
<1>4. hasMeta /\ InSync(store, meta) /\ AllSame("local") /\ AllSame("remote")
  BY <1>1, <1>2 DEF RunInv, Still, Resolving
<1>5. /\ \A r \in DOMAIN meta.map :
           StateOf("remote", r) = "NotChanged" /\ StateOf("local", meta.map[r]) = "NotChanged"
  <2>1. /\ \A r \in DOMAIN meta.map :
             r \in DOMAIN meta.rev["remote"] /\ meta.map[r] \in DOMAIN meta.rev["local"]
    <3>1. \A r : Mate(meta, r, "remote") = r /\ Mate(meta, r, "local") = meta.map[r]
      BY DEF Mate
    <3> QED
      BY <1>4, <3>1 DEF InSync, Describes, Bijective, Tracks
  <2> QED
    BY <1>4, <2>1 DEF AllSame
<1>6. \A c \in 1..8 : ~(Classes[c].remote = "NotChanged" /\ Classes[c].local = "NotChanged")
  <2>1. \A c \in 1..8 : c \in {1, 2, 3, 4, 5, 6, 7, 8}
    OBVIOUS
  <2> QED
    BY <2>1, ClassesFacts
<1>7. \A c \in 1..8 : ItemsWithState(Classes[c]) = {}
  BY <1>5, <1>6, ItemsFacts DEF PairIs
<1>8. todo' = {} /\ pc' \in {"resolve", "match"}
  <2>1. \A c \in class + 1 .. 8 : c \in 1..8
    BY <1>1 DEF TypeInv, PlaceOK
  <2>2. \A c : NextLoop(c) => todo' = {} /\ pc' = pc
    BY <1>7, <2>1 DEF NextLoop
  <2> QED
    BY <1>2, <2>2
<1>9. AllSame("local")' /\ AllSame("remote")'
  BY <1>2, <1>4 DEF AllSame, StateOf
<1>10. InSync(store', meta')
  BY <1>2, <1>4
<1> QED
  BY <1>2, <1>3, <1>8, <1>9, <1>10 DEF Still, Quiet, Resolving

\* Nothing was to be matched.
LEMMA MatchDoneStill ==
  ASSUME DeepInv, DeepInv', Still, Steady, Steady', MatchDone
  PROVE  Still'
<1>1. /\ pc = "match" /\ pc' = "saveAll"
      /\ UNCHANGED <<store, touched, hasMeta, meta, queue, todo, state, fresh>>
  BY DEF MatchDone, engineVars, fullVars
<1> QED
  BY <1>1 DEF Still, Quiet, Resolving, AllSame, StateOf
-----------------------------------------------------------------------------
(* The invariant is inductive.                                             *)

\* Synchronization tokens do not change what metadata describes.
LEMMA TokensMeta ==
  \A S :
    WithTokens(meta, S) # NoMeta /\ WithTokens(meta, S).rev = meta.rev /\ WithTokens(meta, S).map = meta.map
<1>1. /\ \A S :
           WithTokens(meta, S).rev = meta.rev /\ WithTokens(meta, S).map = meta.map /\ DOMAIN WithTokens(meta, S) = {"rev", "map", "token"}
  BY DEF WithTokens
<1>2. DOMAIN NoMeta = {"none"}
  BY DEF NoMeta
<1>3. "map" \in {"rev", "map", "token"} /\ "map" \notin {"none"}
  OBVIOUS
<1> QED
  BY <1>1, <1>2, <1>3

\* The run ends with the sides in sync and without a change.
LEMMA ConcludeStill ==
  ASSUME DeepInv, DeepInv', StillInv, Conclude
  PROVE  StillInv'
<1>1. ConcludeEnds
  BY ConcludeFacts
<1>2. PICK A : meta' = WithTokens(meta, A)
  BY ConcludeFacts
<1>3. result' = Outcome /\ synced' = (Outcome \in Ok /\ faulty' = {}) /\ begun' = begun
  BY DEF Conclude, Return
<1>4. ASSUME faulty' = {} PROVE saved' = meta' /\ saved' # NoMeta /\ InSync(store', meta')
  <2>1. faulty = {} /\ NoneUnread /\ ~Unread
    BY <1>1, <1>4 DEF ConcludeEnds, NoneUnread
  <2>2. TypeInv /\ RunInv /\ CleanInv
    BY <2>1 DEF DeepInv, Clean
  <2>3. InSync(store, meta)
    BY <1>1, <2>1, <2>2, EndFacts DEF ConcludeEnds, InSync
  <2>4. /\ meta'.rev = meta.rev /\ meta'.map = meta.map /\ meta' # NoMeta /\ store' = store
        /\ saved' = meta'
    BY <1>1, <1>2, TokensMeta DEF ConcludeEnds
  <2>5. InSync(store', meta')
    BY <2>3, <2>4 DEF InSync, Describes, AllTracked, Bijective, Known, Settled, SameItem, Knows,
       Tracks, Mate
  <2> QED
    BY <2>4, <2>5
<1>5. ASSUME Done', faulty' = {}, begun'.synced PROVE result' = "OkWithoutDataChange"
  <2>1. ~cancelSync
    BY <1>3, <1>5 DEF Done, Outcome, Ok
  <2>2. faulty = {} /\ pc # "idle"
    BY <1>1, <1>5 DEF ConcludeEnds
  <2>3. Still
    BY <1>3, <1>5, <2>1, <2>2 DEF StillInv, Steady
  <2> QED
    BY <1>3, <1>5, <2>3 DEF Done, Outcome, Ok, Still
<1> QED
  BY <1>1, <1>3, <1>4, <1>5 DEF StillInv, QuietResync, ConcludeEnds

\* It begins in sync if the last one ended so and nothing happened since.
LEMMA SynchronizeStill ==
  ASSUME DeepInv, DeepInv', StillInv, Synchronize
  PROVE  StillInv'
<1>1. /\ pc = "idle" /\ pc' = (IF hasMeta THEN "detectLocal" ELSE "index")
      /\ UNCHANGED <<store, meta, hasMeta, queue>> /\ ~touched' /\ begun'.synced = synced
      /\ (Leftover => faulty' # {})
  BY DEF Synchronize
<1>2. ASSUME Steady' PROVE Still'
  <2>1. ~Leftover /\ synced
    BY <1>1, <1>2 DEF Steady
  <2>2. InSync(store, meta)
    BY <1>1, <2>1 DEF StillInv
  <2>3. Quiet'
    BY <1>1, <2>1 DEF Leftover, Quiet
  <2> QED
    BY <1>1, <2>2, <2>3 DEF Still, Resolving
<1> QED
  BY <1>1, <1>2 DEF StillInv, QuietResync, Done

\* Between runs.
LEMMA IdleStill ==
  ASSUME DeepInv, DeepInv', StillInv, StorageInitFails \/ Edit \/ Restart \/ Crash
  PROVE  StillInv'
<1>1. CASE StorageInitFails
  BY <1>1 DEF StorageInitFails, StillInv, QuietResync, Done, Ok, Fault, InSync, engineVars, histVars
<1>2. CASE Edit
  BY <1>2 DEF Edit, Forget, StillInv, QuietResync, Done, Ok
<1>3. CASE Restart
  <2>1. /\ pc = "idle" /\ pc' = "idle" /\ result' = "None" /\ UNCHANGED <<store, synced, faulty>>
        /\ saved' = saved
        /\ saved # NoMeta => meta' = saved
    BY <1>3 DEF Restart, NewObject, faultVars
  <2> QED
    BY <2>1 DEF StillInv, QuietResync, Done, Ok
<1>4. CASE Crash
  BY <1>4 DEF Crash, NewObject, Forget, StillInv, QuietResync, Done, Ok
<1> QED
  BY <1>1, <1>2, <1>3, <1>4

\* A run that does not come to its end.
LEMMA ReturnStill ==
  ASSUME pc' = "idle", ~synced', result' \notin Ok \/ faulty' # {}
  PROVE  StillInv'
  BY DEF StillInv, QuietResync, Done

\* The step of the invariant, one case for each action.
LEMMA StillStep == DeepInv /\ DeepInv' /\ StillInv /\ [Next]_vars => StillInv'
<1> SUFFICES ASSUME DeepInv, DeepInv', StillInv, [Next]_vars PROVE StillInv'
  OBVIOUS
<1>1. CASE Synchronize
  BY <1>1, SynchronizeStill
<1>2. CASE Conclude
  BY <1>2, ConcludeStill
<1>3. CASE StorageInitFails \/ Edit \/ Restart \/ Crash
  BY <1>3, IdleStill
<1>4. CASE Cancel
  <2>1. pc # "idle" /\ pc' = pc /\ cancelSync'
    BY <1>4 DEF Cancel
  <2> QED
    BY <2>1 DEF StillInv, Steady, QuietResync, Done
<1>5. CASE NoticeCancel
  <2>1. /\ pc' = "idle" /\ result' = Outcome /\ Outcome \in {"Fail", "Cancelled"}
        /\ (synced' => Outcome \in Ok)
    BY <1>5 DEF NoticeCancel, Return, Outcome
  <2> QED
    BY <2>1, ReturnStill DEF Ok
<1>6. CASE \E s \in Sides : Fetch(s)
  <2>1. PICK s \in Sides : Fetch(s)
    BY <1>6
  <2>2. CASE pc' = "idle"
    <3>1. (Fault({"items"}) /\ Return(Outcome)) \/ Return("Fail")
      BY <2>1, <2>2, FetchCases DEF Fetch
    <3>2. Return("Fail") => ~synced' /\ result' \notin Ok
      BY DEF Return, Ok
    <3>3. Fault({"items"}) /\ Return(Outcome) => ~synced' /\ faulty' # {}
      BY DEF Return, Fault
    <3> QED
      BY <2>2, <3>1, <3>2, <3>3, ReturnStill
  <2>3. CASE pc' # "idle"
    <3>1. pc # "idle" /\ begun' = begun
      BY <2>1, <2>3, FetchCases
    <3>2. cancelSync' = cancelSync
      BY <2>1 DEF Fetch
    <3> QED
      BY <2>1, <2>3, <3>1, <3>2, StillMoves, FetchStill
  <2> QED
    BY <2>2, <2>3
<1>7. CASE BuildIndex \/ ScanDone \/ RestDone \/ NextClass \/ MatchDone
  <2>1. pc # "idle" /\ pc' # "idle" /\ begun' = begun /\ cancelSync' = cancelSync
    BY <1>7 DEF BuildIndex, ScanDone, RestDone, NextClass, MatchDone, engineVars, histVars
  <2> QED
    BY <1>7, <2>1, StillMoves, BuildIndexStill, ScanDoneStill, RestDoneStill, NextClassStill,
       MatchDoneStill
<1>8. CASE \E e \in todo : ScanRemote(e) \/ AddRest(e)
  <2>1. pc # "idle" /\ pc' # "idle" /\ begun' = begun /\ cancelSync' = cancelSync
    BY <1>8 DEF ScanRemote, AddRest, histVars
  <2> QED
    BY <1>8, <2>1, StillMoves, ScanRemoteStill, AddRestStill
<1>9. CASE FlushNext
  <2>1. /\ pc \in DOMAIN AfterFlush
        /\ (pc' = pc \/ pc' = AfterFlush[pc]) /\ begun' = begun /\ cancelSync' = cancelSync
    BY <1>9 DEF FlushNext, histVars
  <2>2. pc # "idle" /\ pc' # "idle"
    BY <2>1, AfterFlushFacts
  <2> QED
    BY <1>9, <2>1, <2>2, StillMoves, FlushNextStill
<1>10. CASE \E s \in Sides : Detect(s)
  <2>1. pc # "idle" /\ pc' # "idle" /\ begun' = begun /\ cancelSync' = cancelSync
    BY <1>10 DEF Detect, engineVars, histVars
  <2> QED
    BY <1>10, <2>1, StillMoves, DetectStill
<1>11. CASE \E pair \in todo : \/ ForgetPair(pair) \/ KeepBoth(pair)
                               \/ \E s \in Sides :
                                    RemoveCounterpart(s, pair) \/ RestoreItem(s, pair) \/ PropagateChange(s, pair)
  <2>1. \E c, pair : Resolve(c, pair)
    BY <1>11 DEF ForgetPair, KeepBoth, RemoveCounterpart, RestoreItem, PropagateChange
  <2>2. pc = "resolve" /\ todo # {} /\ pc' = pc /\ begun' = begun /\ cancelSync' = cancelSync
    BY <2>1 DEF Resolve, histVars
  <2>3. ~Still
    BY <2>2 DEF Still, Resolving
  <2> QED
    BY <2>2, <2>3, StillMoves
<1>12. CASE (\E obj \in fresh.local : MatchFresh(obj)) \/ (\E obj \in fresh.remote : AddFresh(obj))
  <2>1. /\ pc = "match" /\ pc' = pc /\ begun' = begun /\ cancelSync' = cancelSync
        /\ (fresh["local"] # {} \/ fresh["remote"] # {})
    BY <1>12 DEF MatchFresh, AddFresh, histVars
  <2>2. ~Still
    BY <2>1 DEF Still, Resolving, AllSame
  <2> QED
    BY <2>1, <2>2, StillMoves
<1>13. CASE UNCHANGED vars
  <2>1. /\ UNCHANGED <<store, saved, meta, hasMeta, queue, touched, result, pc, todo, index, state,
                       fresh, faulty, cancelSync, synced, begun>>
    BY <1>13 DEF vars, engineVars, scanVars, fullVars, faultVars, histVars
  <2>2. Still => Still'
    BY <2>1 DEF Still, Quiet, AllSame, StateOf, Unmatched, Twins, EntryItem
  <2> QED
    BY <2>1, <2>2 DEF StillInv, Steady, QuietResync, Done
<1>14. CASE Run
  BY <1>14, <1>1, <1>2, <1>5, <1>6, <1>7, <1>8, <1>9, <1>10, <1>11, <1>12, Zenon DEF Run
<1> QED
  BY <1>3, <1>4, <1>13, <1>14 DEF Next

\* The changes the engine made itself are not taken for edits by the next
\* run: after a successful one with nothing in between, there are none.
THEOREM ResyncIsQuiet == Spec => []QuietResync
<1>1. Init => StillInv
  BY DEF Init, StillInv, QuietResync, Done, Ok
<1>2. StillInv => QuietResync
  BY DEF StillInv
<1> QED
  BY <1>1, <1>2, StillStep, DeepCorrect, PTL DEF Spec

(***************************************************************************)
(* A successful run brings both sides to the three-way merge.              *)
(***************************************************************************)
\* What does not give way stays as it was when the run began; what a storage
\* holds belongs to the merge or gives way.
StaysAt(s, st) ==
  \A x \in DOMAIN begun.store[s] :
    /\ x \in Nat /\ x <= st.clock
    /\ ~GivesWay(s, x) => x \in DOMAIN st.items /\ st.items[x].item = begun.store[s][x].item

BelongsAt(s, st) == \A x \in DOMAIN st.items : st.items[x].item \in ThreeWay \/ GivesWay(s, x)

\* A pair with an item that gives way is one of the last synchronization.
OldPairs(m) ==
  \A r \in DOMAIN m.map, s \in Sides :
    GivesWay(s, Mate(m, r, s)) => r \in DOMAIN begun.meta.map /\ begun.meta.map[r] = m.map[r]

\* An object that is brought to the other side, and what a queue asks for.
Keeps(s, obj) == ~GivesWay(s, obj.id) /\ obj.item \in ThreeWay

EntryKeeps(s, kind, e) ==
  /\ kind = "add" => Keeps(Other(s), e)
  /\ kind = "mod" => GivesWay(s, e.id)
  /\ kind = "rem" => GivesWay(s, e)

QueuesKeep(Q) == \A s \in Sides, kind \in Kinds :
                   \A e \in Values(Q[s][kind]) : EntryKeeps(s, kind, e)

Upheld(S, m, Q) == (\A s \in Sides :
                      StaysAt(s, S[s]) /\ BelongsAt(s, S[s])) /\ OldPairs(m) /\ QueuesKeep(Q)

\* What was found out of a side: its new objects and its changed ones.
FoundKeeps(s, new, st, ch) ==
  /\ \A f \in new : Keeps(s, f)
  /\ \A x \in DOMAIN st : st[x] = "Modified" => ~Unchanged(s, x) /\ Keeps(s, ch[x])

FoundsKeep(place, new, st, ch) ==
  /\ place = "fetchRemote" \/ place \in Resolving => FoundKeeps("local", new["local"], st["local"], ch["local"])
  /\ place \in Resolving => FoundKeeps("remote", new["remote"], st["remote"], ch["remote"])

Merging ==
  /\ Upheld(store, meta, queue)
  /\ FoundsKeep(pc, fresh, state, changed)
  /\ ~hasMeta => begun.meta = EmptyMeta

MergeInv == (pc # "idle" /\ faulty = {} => Merging) /\ MergeIsThreeWay

\* A step of a run has to keep up the storages, the metadata, the queues and what was found.
LEMMA MergingKept ==
  ASSUME begun' = begun, hasMeta' = hasMeta, Merging,
         Upheld(store', meta', queue'), FoundsKeep(pc', fresh', state', changed')
  PROVE  Merging'
<1>1. \A s, x : GivesWay(s, x)' <=> GivesWay(s, x)
  BY DEF GivesWay, Unchanged, Partners
<1>2. ThreeWay' = ThreeWay
  BY DEF ThreeWay, GivesWay, Unchanged, Partners
<1>3. \A s, x : Unchanged(s, x)' <=> Unchanged(s, x)
  BY DEF Unchanged
<1>4. \A s \in Sides : StaysAt(s, store[s])' /\ BelongsAt(s, store[s])'
  BY <1>1, <1>2 DEF Upheld, StaysAt, BelongsAt
<1>5. OldPairs(meta)'
  BY <1>1 DEF Upheld, OldPairs, Mate
<1>6. QueuesKeep(queue)'
  BY <1>1, <1>2 DEF Upheld, QueuesKeep, EntryKeeps, Keeps, Values
<1>7. FoundsKeep(pc, fresh, state, changed)'
  BY <1>1, <1>2, <1>3 DEF FoundsKeep, FoundKeeps, Keeps
<1> QED
  BY <1>4, <1>5, <1>6, <1>7 DEF Merging, Upheld

\* During a run, only steps that find no failure count.
LEMMA MergingMoves ==
  ASSUME MergeInv, pc # "idle", pc' # "idle", [Next]_vars, Merging /\ faulty = {} /\ faulty' = {} => Merging'
  PROVE  MergeInv'
<1>1. faulty' = {} => faulty = {}
  BY FaultyGrows
<1> QED
  BY <1>1 DEF MergeInv, MergeIsThreeWay, Done

\* Without metadata nothing gives way.
LEMMA EmptyGives ==
  ASSUME begun.meta = EmptyMeta
  PROVE  \A s \in Sides : \A x : ~GivesWay(s, x)
<1>1. \A s \in Sides : begun.meta.rev[s] = <<>>
  BY EmptyTypes DEF EmptyMeta
<1> QED
  BY <1>1 DEF GivesWay, Unchanged

\* In a first synchronization, there are none.
LEMMA NoneGives ==
  ASSUME Merging, ~hasMeta
  PROVE  \A s \in Sides : \A x : ~GivesWay(s, x)
  BY EmptyGives DEF Merging

\* A pair of two items that do not give way.
LEMMA OldPairsAdd ==
  ASSUME NEW m, NEW r, NEW rrev, NEW l, NEW lrev, OldPairs(m), ~GivesWay("remote", r), ~GivesWay("local", l)
  PROVE  OldPairs(AddItem(m, r, rrev, l, lrev))
<1> DEFINE n == AddItem(m, r, rrev, l, lrev)
<1>1. /\ DOMAIN n.map = DOMAIN m.map \cup {r} /\ n.map[r] = l
      /\ \A q \in DOMAIN m.map : q # r => n.map[q] = m.map[q]
  BY AddItemFacts
<1> HIDE DEF n
<1>2. ASSUME NEW q \in DOMAIN n.map, NEW s \in Sides, GivesWay(s, Mate(n, q, s))
      PROVE  q \in DOMAIN begun.meta.map /\ begun.meta.map[q] = n.map[q]
  <2>1. CASE q = r
    BY <1>1, <1>2, <2>1 DEF Mate, Sides
  <2>2. CASE q # r
    <3>1. q \in DOMAIN m.map /\ n.map[q] = m.map[q] /\ Mate(n, q, s) = Mate(m, q, s)
      BY <1>1, <2>2 DEF Mate
    <3> QED
      BY <1>2, <3>1 DEF OldPairs
  <2> QED
    BY <2>1, <2>2
<1>3. OldPairs(n)
  BY <1>2 DEF OldPairs
<1> QED
  BY <1>3 DEF n

\* Revisions do not matter to the pairs.
LEMMA OldPairsSame == ASSUME NEW m, NEW n, OldPairs(m), n.map = m.map PROVE OldPairs(n)
  BY DEF OldPairs, Mate

\* Nor do pairs that are forgotten.
LEMMA OldPairsFewer == ASSUME NEW m, OldPairs(meta), Narrowed(m) PROVE OldPairs(m)
  BY DEF OldPairs, Narrowed, Mate
-----------------------------------------------------------------------------
(* Batches.                                                                *)

\* Metadata and the storage of one side, as a batch works on them.
SideHeld(s, w) == StaysAt(s, w.st) /\ BelongsAt(s, w.st) /\ OldPairs(w.m)

\* An entry adds what the merge has, and changes or removes only what gives way.
LEMMA EntryHeld ==
  ASSUME NEW s \in Sides, NEW kind \in Kinds, NEW v, NEW e \in EntryType[kind], NEW u,
         StoreOK(v.st), SideHeld(s, v), EntryKeeps(s, kind, e), u = ApplyOne(s, kind, v, e)
  PROVE  SideHeld(s, u)
<1> USE SideFacts
<1>1. kind \in {"add", "mod", "rem"} /\ v.st.clock \in Nat
  BY DEF Kinds, StoreOK
<1>2. CASE kind = "add"
  <2>1. u.st = AddOne(v.st, e.item) /\ u.m = Associate(v.m, s, v.st.clock + 1, v.st.clock + 1, e)
    BY <1>2 DEF ApplyOne
  <2> DEFINE c == v.st.clock + 1
  <2>2. Keeps(Other(s), e) /\ e \in Objects
    BY <1>2 DEF EntryKeeps, EntryType
  <2>3. u.st.clock = c /\ u.st.items = Put(v.st.items, c, [item |-> e.item, rev |-> c])
    <3>1. e.item \in Contacts
      BY <2>2 DEF Objects
    <3> QED
      BY <2>1, <3>1, AddOneFacts
  <2>4. c \notin DOMAIN begun.store[s]
    BY <1>1 DEF SideHeld, StaysAt
  <2>5. ~GivesWay(s, c)
    BY <2>4 DEF GivesWay, Unchanged
  <2>6. /\ \A x : x \in DOMAIN u.st.items <=> x \in DOMAIN v.st.items \/ x = c
        /\ u.st.items[c].item = e.item
        /\ \A x \in DOMAIN v.st.items : x # c => u.st.items[x] = v.st.items[x]
    BY <2>3 DEF Put
  <2>7. StaysAt(s, u.st)
    <3> SUFFICES ASSUME NEW x \in DOMAIN begun.store[s]
                 PROVE  /\ x \in Nat /\ x <= u.st.clock
                        /\ ~GivesWay(s, x) => x \in DOMAIN u.st.items /\ u.st.items[x].item = begun.store[s][x].item
      BY DEF StaysAt
    <3>1. /\ x \in Nat /\ x <= v.st.clock
          /\ (~GivesWay(s, x) => x \in DOMAIN v.st.items
             /\ v.st.items[x].item = begun.store[s][x].item)
      BY DEF SideHeld, StaysAt
    <3>2. x # c /\ x <= u.st.clock
      <4>1. x # c
        BY <2>4
      <4>2. x <= u.st.clock
        BY <1>1, <2>3, <3>1
      <4> QED
        BY <4>1, <4>2
    <3> QED
      BY <2>6, <3>1, <3>2
  <2>8. BelongsAt(s, u.st)
    BY <2>2, <2>6 DEF SideHeld, BelongsAt, Keeps
  <2>9. OldPairs(u.m)
    <3>1. CASE s = "remote"
      <4>1. u.m = AddItem(v.m, c, c, e.id, e.rev)
        BY <2>1, <3>1 DEF Associate
      <4>2. ~GivesWay("remote", c) /\ ~GivesWay("local", e.id)
        BY <2>2, <2>5, <3>1 DEF Keeps, Other
      <4> QED
        BY <4>1, <4>2, OldPairsAdd DEF SideHeld
    <3>2. CASE s = "local"
      <4>1. u.m = AddItem(v.m, e.id, e.rev, c, c)
        BY <2>1, <3>2 DEF Associate
      <4>2. ~GivesWay("local", c) /\ ~GivesWay("remote", e.id)
        BY <2>2, <2>5, <3>2 DEF Keeps, Other
      <4> QED
        BY <4>1, <4>2, OldPairsAdd DEF SideHeld
    <3> QED
      BY <3>1, <3>2
  <2> QED
    BY <2>7, <2>8, <2>9 DEF SideHeld
<1>3. CASE kind = "mod"
  <2>1. /\ u.st = ModifyOne(v.st, e.id, e.obj.item)
        /\ u.m = UpdateRevision(v.m, s, e.id, v.st.clock + 1)
    BY <1>3 DEF ApplyOne
  <2>2. GivesWay(s, e.id)
    BY <1>3 DEF EntryKeeps
  <2>3. /\ u.st.clock = v.st.clock + 1 /\ DOMAIN u.st.items = DOMAIN v.st.items
        /\ \A x \in DOMAIN v.st.items : x # e.id => u.st.items[x] = v.st.items[x]
    BY <2>1 DEF ModifyOne
  <2>4. StaysAt(s, u.st)
    <3> SUFFICES ASSUME NEW x \in DOMAIN begun.store[s]
                 PROVE  /\ x \in Nat /\ x <= u.st.clock
                        /\ ~GivesWay(s, x) => x \in DOMAIN u.st.items /\ u.st.items[x].item = begun.store[s][x].item
      BY DEF StaysAt
    <3>1. /\ x \in Nat /\ x <= v.st.clock
          /\ (~GivesWay(s, x) => x \in DOMAIN v.st.items
             /\ v.st.items[x].item = begun.store[s][x].item)
      BY DEF SideHeld, StaysAt
    <3>2. x <= u.st.clock
      BY <1>1, <2>3, <3>1
    <3> QED
      BY <2>2, <2>3, <3>1, <3>2
  <2>5. BelongsAt(s, u.st)
    BY <2>2, <2>3 DEF SideHeld, BelongsAt
  <2>6. u.m.map = v.m.map
    BY <2>1 DEF UpdateRevision
  <2> QED
    BY <2>4, <2>5, <2>6, OldPairsSame DEF SideHeld
<1>4. CASE kind = "rem"
  <2>1. u.st = RemoveOne(v.st, e) /\ u.m = v.m
    BY <1>4 DEF ApplyOne
  <2>2. GivesWay(s, e)
    BY <1>4 DEF EntryKeeps
  <2>3. /\ u.st.clock = v.st.clock + 1
        /\ \A x : x \in DOMAIN u.st.items <=> x \in DOMAIN v.st.items /\ x # e
        /\ \A x \in DOMAIN u.st.items : u.st.items[x] = v.st.items[x]
    BY <2>1 DEF RemoveOne, Without
  <2>4. StaysAt(s, u.st)
    <3> SUFFICES ASSUME NEW x \in DOMAIN begun.store[s]
                 PROVE  /\ x \in Nat /\ x <= u.st.clock
                        /\ ~GivesWay(s, x) => x \in DOMAIN u.st.items /\ u.st.items[x].item = begun.store[s][x].item
      BY DEF StaysAt
    <3>1. /\ x \in Nat /\ x <= v.st.clock
          /\ (~GivesWay(s, x) => x \in DOMAIN v.st.items
             /\ v.st.items[x].item = begun.store[s][x].item)
      BY DEF SideHeld, StaysAt
    <3>2. x <= u.st.clock
      BY <1>1, <2>3, <3>1
    <3> QED
      BY <2>2, <2>3, <3>1, <3>2
  <2>5. BelongsAt(s, u.st)
    BY <2>3 DEF SideHeld, BelongsAt
  <2> QED
    BY <2>1, <2>4, <2>5 DEF SideHeld
<1> QED
  BY <1>1, <1>2, <1>3, <1>4


\* All the entries of a batch.
LEMMA BatchHeld ==
  ASSUME NEW s \in Sides, NEW kind \in Kinds, NEW m, NEW Q, NEW w, StoresOK, MetaOK(m),
  Batched(s, kind, m, Q, w),
         Upheld(store, m, Q)
  PROVE  \A n \in 0..Len(Q[s][kind]) : SideHeld(s, w[n])
<1> DEFINE q == Q[s][kind]
           E == {n \in Nat : n <= Len(q) => SideHeld(s, w[n])}
<1>1. /\ Len(q) \in Nat /\ w[0].st = store[s] /\ w[0].m = m
      /\ \A n \in 0..Len(q) : StoreOK(w[n].st)
      /\ \A n \in 1..Len(q) : w[n] = ApplyOne(s, kind, w[n - 1], q[n])
  BY BatchFacts
<1>2. \A n \in 1..Len(q) : q[n] \in EntryType[kind] /\ EntryKeeps(s, kind, q[n])
  <2>1. \A n \in 1..Len(q) : q[n] \in Values(q)
    BY DEF Values
  <2>2. \A e \in Values(q) : EntryKeeps(s, kind, e)
    BY DEF Upheld, QueuesKeep
  <2>3. q \in Seq(EntryType[kind])
    BY DEF Batched
  <2> QED
    BY <2>1, <2>2, <2>3
<1>3. SideHeld(s, w[0])
  BY <1>1 DEF SideHeld, Upheld
<1> HIDE DEF q
<1>4. 0 \in E
  BY <1>3
<1>5. ASSUME NEW n \in Nat, n \in E PROVE n + 1 \in E
  <2> SUFFICES ASSUME n + 1 <= Len(q) PROVE SideHeld(s, w[n + 1])
    OBVIOUS
  <2>1. n \in 0..Len(q) /\ n + 1 \in 1..Len(q) /\ (n + 1) - 1 = n
    BY <1>1
  <2>2. SideHeld(s, w[n]) /\ StoreOK(w[n].st)
    BY <1>1, <1>5, <2>1
  <2>3. /\ w[n + 1] = ApplyOne(s, kind, w[n], q[n + 1]) /\ q[n + 1] \in EntryType[kind]
        /\ EntryKeeps(s, kind, q[n + 1])
    BY <1>1, <1>2, <2>1
  <2> QED
    BY ONLY <2>2, <2>3, EntryHeld, s \in Sides, kind \in Kinds
<1> HIDE DEF E
<1>6. E = Nat
  BY <1>4, <1>5, NatSetInduction DEF E
<1>7. \A n \in 0..Len(q) : SideHeld(s, w[n])
  BY <1>1, <1>6 DEF E
<1> QED
  BY <1>7 DEF q

\* A flush that does not fail.
LEMMA FlushMerges ==
  ASSUME NEW s \in Sides, NEW kind \in Kinds, NEW Q, NEW N, StoresOK, QueuesOK, MetaOK(N),
         Q[s][kind] \in Seq(EntryType[kind]), LikeQueue(Q, s, kind), Upheld(store, N, Q),
         Flush(s, kind, Q[s][kind], N), "flush" \notin faulty'
  PROVE  Upheld(store', meta', queue')
<1> USE SideFacts
<1> DEFINE L == Len(Q[s][kind])
<1>1. PICK w : Batched(s, kind, N, Q, w) /\ FlushMade(s, kind, Q, w)
  BY FlushParts
<1>2. L \in Nat /\ SideHeld(s, w[L])
  <2>1. \A n \in 0..L : SideHeld(s, w[n])
    BY <1>1, BatchHeld
  <2>2. L \in Nat
    BY <1>1, BatchFacts
  <2> HIDE DEF L
  <2> QED
    BY <2>1, <2>2
<1>3. store'[s] = w[L].st /\ store'[Other(s)] = store[Other(s)] /\ meta' = w[L].m
  BY <1>1 DEF FlushMade
<1>4. \A t \in Sides, k \in Kinds : \A e \in Values(queue'[t][k]) : EntryKeeps(t, k, e)
  <2> SUFFICES ASSUME NEW t \in Sides, NEW k \in Kinds, NEW e \in Values(queue'[t][k]) PROVE EntryKeeps(t, k, e)
    OBVIOUS
  <2>1. CASE t = s /\ k = kind
    BY <1>1, <2>1, EmptyValues DEF FlushMade
  <2>2. CASE t # s \/ k # kind
    BY <1>1, <2>2 DEF FlushMade, Upheld, QueuesKeep
  <2> QED
    BY <2>1, <2>2
<1> HIDE DEF L
<1>5. QueuesKeep(queue')
  BY <1>4 DEF QueuesKeep
<1>6. \A t \in Sides : StaysAt(t, store'[t]) /\ BelongsAt(t, store'[t])
  <2> SUFFICES ASSUME NEW t \in Sides PROVE StaysAt(t, store'[t]) /\ BelongsAt(t, store'[t])
    OBVIOUS
  <2>1. CASE t = s
    BY <1>2, <1>3, <2>1 DEF SideHeld
  <2>2. CASE t = Other(s)
    BY <1>3, <2>2 DEF Upheld
  <2> QED
    BY <2>1, <2>2
<1> QED
  BY <1>2, <1>3, <1>5, <1>6 DEF Upheld, SideHeld

\* An entry put into a queue, and the flush that may follow.
LEMMA EnqueueMerges ==
  ASSUME NEW s \in Sides, NEW kind \in Kinds, NEW e \in EntryType[kind], NEW N, StoresOK, QueuesOK, MetaOK(N),
         Upheld(store, N, queue), EntryKeeps(s, kind, e), Enqueue(s, kind, e, N), "flush" \notin faulty'
  PROVE  Upheld(store', meta', queue')
<1> DEFINE Q == WithEntry(s, kind, e)
           p == queue[s][kind]
           A == EntryType[kind]
<1>1. p \in Seq(A) /\ e \in A
  BY DEF QueuesOK, QueueOK
<1>2. /\ Q[s][kind] = Append(p, e)
      /\ \A t \in Sides, k \in Kinds : t # s \/ k # kind => Q[t][k] = queue[t][k]
  BY DEF WithEntry
<1> HIDE DEF p, A
<1>3. /\ Append(p, e) \in Seq(A) /\ Len(Append(p, e)) = Len(p) + 1 /\ Len(p) \in Nat
      /\ \A k \in 1..Len(p) : Append(p, e)[k] = p[k]
      /\ Append(p, e)[Len(p) + 1] = e
  BY <1>1, AppendFacts
<1>4. \A x \in Values(Append(p, e)) : x \in Values(p) \/ x = e
  <2>1. \A k : k \in 1..Len(Append(p, e)) => k \in 1..Len(p) \/ k = Len(p) + 1
    BY <1>3
  <2> QED
    BY <1>3, <2>1 DEF Values
<1> HIDE DEF Q
<1>5. QueuesKeep(Q)
  <2> SUFFICES ASSUME NEW t \in Sides, NEW k \in Kinds, NEW x \in Values(Q[t][k]) PROVE EntryKeeps(t, k, x)
    BY DEF QueuesKeep
  <2>1. CASE t = s /\ k = kind
    BY <1>2, <1>4, <2>1 DEF Upheld, QueuesKeep, p
  <2>2. CASE t # s \/ k # kind
    BY <1>2, <2>2 DEF Upheld, QueuesKeep
  <2> QED
    BY <2>1, <2>2
<1>6. Upheld(store, N, Q)
  BY <1>5 DEF Upheld
<1>7. Q[s][kind] \in Seq(EntryType[kind]) /\ LikeQueue(Q, s, kind)
  BY <1>2, <1>3 DEF LikeQueue, A
<1>8. Flush(s, kind, Q[s][kind], N) => Upheld(store', meta', queue')
  BY <1>6, <1>7, FlushMerges
<1>9. CASE Flush(s, kind, Q[s][kind], N)
  BY <1>8, <1>9
<1>10. CASE queue' = [queue EXCEPT ![s][kind] = Q[s][kind]] /\ meta' = N /\ store' = store
  <2>1. \A t \in Sides, k \in Kinds : queue'[t][k] = Q[t][k]
    BY <1>2, <1>10, ZenonT(40) DEF QueuesOK, QueueOK
  <2>2. QueuesKeep(queue')
    BY <1>5, <2>1 DEF QueuesKeep
  <2> QED
    BY <1>6, <1>10, <2>2 DEF Upheld
<1> QED
  BY <1>2, <1>9, <1>10 DEF Enqueue, p

-----------------------------------------------------------------------------
(* Steps that leave storages, metadata and queues alone.                   *)

\* They keep the invariant.
LEMMA QuietMerges ==
  ASSUME Merging, BuildIndex \/ ScanDone \/ RestDone \/ MatchDone \/ NextClass \/ Cancel \/ \E s \in Sides : Detect(s)
  PROVE  Merging'
<1>1. UNCHANGED <<store, meta, queue, hasMeta, begun>>
  BY DEF BuildIndex, ScanDone, RestDone, MatchDone, NextClass, Cancel, Detect, engineVars, histVars
<1>2. FoundsKeep(pc', fresh', state', changed')
  <2>1. CASE BuildIndex \/ ScanDone \/ RestDone \/ \E s \in Sides : Detect(s)
    <3>1. pc' \in {"scan", "saveLocal", "saveRemote", "detectRemote", "fetchLocal"}
      BY <2>1 DEF BuildIndex, ScanDone, RestDone, Detect
    <3> QED
      BY <3>1 DEF FoundsKeep, Resolving
  <2>2. CASE MatchDone
    <3>1. pc = "match" /\ pc' = "saveAll" /\ UNCHANGED <<fresh, state, changed>>
      BY <2>2 DEF MatchDone, fullVars
    <3> QED
      BY <3>1 DEF Merging, FoundsKeep, Resolving
  <2>3. CASE NextClass
    <3>1. pc = "resolve" /\ pc' \in {"resolve", "match"} /\ UNCHANGED <<fresh, state, changed>>
      BY <2>3 DEF NextClass
    <3> QED
      BY <3>1 DEF Merging, FoundsKeep, Resolving
  <2>4. CASE Cancel
    <3>1. UNCHANGED <<pc, fresh, state, changed>>
      BY <2>4 DEF Cancel, fullVars
    <3> QED
      BY <3>1 DEF Merging
  <2> QED
    BY <2>1, <2>2, <2>3, <2>4
<1>3. Upheld(store', meta', queue')
  BY <1>1 DEF Merging
<1> QED
  BY <1>1, <1>2, <1>3, MergingKept
-----------------------------------------------------------------------------
(* Fetching: what was found is compared with the beginning of the run.     *)

\* The objects of a side, and those of the states of its tracked items.
LEMMA FetchFinds ==
  ASSUME NEW s \in Sides, FoundOK, Calm(s), Detected(s),
  begun.meta = meta, store[s].items = begun.store[s],
         Fetch(s), pc' # "idle"
  PROVE  FoundKeeps(s, fresh'[s], state'[s], changed'[s])
<1> DEFINE tracked  == {id \in DOMAIN revs[s] : Tracked(meta, s, id)}
           modified == {id \in tracked : meta.rev[s][id] # revs[s][id]}
           added    == DOMAIN revs[s] \ tracked
<1>1. /\ state' = [state EXCEPT ![s] = [id \in DOMAIN @ \cup tracked |->
               IF id \in modified THEN "Modified" ELSE IF id \in tracked THEN "NotChanged" ELSE @[id]]]
      /\ fresh' = [fresh EXCEPT ![s] = {Obj(s, id) : id \in added}]
      /\ changed' = [changed EXCEPT ![s] = [id \in modified |-> Obj(s, id)]]
  BY DEF Fetch, Return
<1>2. DOMAIN fresh = Sides /\ DOMAIN state = Sides /\ DOMAIN changed = Sides
  BY DEF FoundOK
<1> HIDE DEF tracked, modified, added
<1>3. /\ fresh'[s] = {Obj(s, id) : id \in added}
      /\ changed'[s] = [id \in modified |-> Obj(s, id)]
      /\ state'[s] = [id \in DOMAIN state[s] \cup tracked |->
           IF id \in modified THEN "Modified" ELSE IF id \in tracked THEN "NotChanged" ELSE state[s][id]]
  BY <1>1, <1>2
<1>4. ASSUME NEW x, ~Unchanged(s, x), x \in DOMAIN store[s].items
      PROVE  Keeps(s, Obj(s, x))
  <2>1. Obj(s, x).id = x /\ Obj(s, x).item = begun.store[s][x].item
    BY DEF Obj
  <2>2. ~GivesWay(s, x)
    BY <1>4 DEF GivesWay
  <2>3. begun.store[s][x].item \in ThreeWay
    BY <1>4, <2>2 DEF ThreeWay
  <2> QED
    BY <2>1, <2>2, <2>3 DEF Keeps
<1>5. \A x \in added : ~Unchanged(s, x) /\ x \in DOMAIN store[s].items
  BY DEF added, tracked, Tracked, Unchanged, Detected, Has
<1>6. \A x \in modified : ~Unchanged(s, x) /\ x \in DOMAIN store[s].items
  <2> SUFFICES ASSUME NEW x \in modified PROVE ~Unchanged(s, x) /\ x \in DOMAIN store[s].items
    OBVIOUS
  <2>1. x \in DOMAIN revs[s] /\ meta.rev[s][x] # revs[s][x]
    BY DEF modified, tracked
  <2>2. x \in DOMAIN store[s].items /\ revs[s][x] = store[s].items[x].rev
    BY <2>1 DEF Detected, Has
  <2> QED
    BY <2>1, <2>2 DEF Unchanged
<1>7. \A x \in DOMAIN state'[s] : state'[s][x] = "Modified" => x \in modified
  BY <1>3 DEF Calm
<1>8. \A x \in modified : Keeps(s, changed'[s][x])
  BY <1>3, <1>4, <1>6
<1>9. \A f \in fresh'[s] : Keeps(s, f)
  BY <1>3, <1>4, <1>5
<1> QED
  BY <1>6, <1>7, <1>8, <1>9 DEF FoundKeeps

\* What was found of one side does not change while the other one is read.
LEMMA FetchMerges ==
  ASSUME TypeInv, RunInv, CleanInv, Merging, NEW s \in Sides, Fetch(s), pc' # "idle"
  PROVE  Merging'
<1> USE SideFacts
<1>1. /\ pc = (IF s = "local" THEN "fetchLocal" ELSE "fetchRemote")
      /\ pc' = (IF s = "local" THEN "fetchRemote" ELSE "resolve")
      /\ UNCHANGED <<store, meta, hasMeta, queue, begun>>
  BY FetchCases
<1>2. pc \in Detecting
  BY <1>1 DEF Detecting
<1>3. begun.meta = meta /\ store[s].items = begun.store[s] /\ Detected(s)
  <2>1. meta = saved /\ begun.meta = saved /\ DetectInv
    BY <1>2, DetectingFacts
  <2> QED
    BY <1>1, <2>1 DEF DetectInv
<1>4. FoundOK /\ Calm(s)
  BY <1>1 DEF TypeInv, StatesOK
<1>5. FoundKeeps(s, fresh'[s], state'[s], changed'[s])
  BY ONLY <1>3, <1>4, FetchFinds, s \in Sides, Fetch(s), pc' # "idle"
<1>6. s = "remote" => FoundKeeps("local", fresh'["local"], state'["local"], changed'["local"])
  <2> SUFFICES ASSUME s = "remote" PROVE FoundKeeps("local", fresh'["local"], state'["local"], changed'["local"])
    OBVIOUS
  <2>1. FoundKeeps("local", fresh["local"], state["local"], changed["local"])
    BY <1>1 DEF Merging, FoundsKeep
  <2>2. /\ \E a, b, c :
             state' = [state EXCEPT !["remote"] = a] /\ fresh' = [fresh EXCEPT !["remote"] = b]
                      /\ changed' = [changed EXCEPT !["remote"] = c]
    BY DEF Fetch, Return
  <2>3. /\ state'["local"] = state["local"] /\ fresh'["local"] = fresh["local"]
        /\ changed'["local"] = changed["local"]
    BY <1>4, <2>2 DEF FoundOK
  <2> QED
    BY <2>1, <2>3
<1>7. FoundsKeep(pc', fresh', state', changed')
  <2>1. CASE s = "local"
    BY <1>1, <1>5, <2>1 DEF FoundsKeep, Resolving
  <2>2. CASE s = "remote"
    BY <1>1, <1>5, <1>6, <2>2 DEF FoundsKeep, Resolving
  <2> QED
    BY <2>1, <2>2
<1>8. Upheld(store', meta', queue')
  BY <1>1 DEF Merging
<1> QED
  BY <1>1, <1>7, <1>8, MergingKept

-----------------------------------------------------------------------------
(* A first synchronization: without metadata, nothing gives way.           *)

\* An item of a storage is worth bringing to the other side.
LEMMA FirstKeeps ==
  ASSUME StoresOK, Merging, ~hasMeta, NEW s \in Sides, NEW x, Has(store, s, x)
  PROVE  Keeps(s, Obj(s, x)) /\ Obj(s, x) \in EntryType["add"]
<1>1. Obj(s, x) \in Objects /\ Obj(s, x).id = x /\ Obj(s, x).item = store[s].items[x].item
  BY ObjType DEF Has, Obj
<1>2. ~GivesWay(s, x)
  BY NoneGives
<1>3. BelongsAt(s, store[s])
  BY DEF Merging, Upheld
<1>4. store[s].items[x].item \in ThreeWay
  BY <1>2, <1>3 DEF BelongsAt, Has
<1> QED
  BY <1>1, <1>2, <1>4 DEF Keeps, EntryType

\* An item of one side is put into the queue of the other.
LEMMA FirstAdds ==
  ASSUME TypeInv, Merging, ~hasMeta, NEW s \in Sides, NEW x, Has(store, s, x),
         Enqueue(Other(s), "add", Obj(s, x), meta), faulty' = {}
  PROVE  Upheld(store', meta', queue')
<1> USE SideFacts
<1> DEFINE obj == Obj(s, x)
<1>1. Keeps(s, obj) /\ obj \in EntryType["add"]
  BY FirstKeeps DEF TypeInv
<1>2. Other(s) \in Sides /\ Other(Other(s)) = s /\ "add" \in Kinds
  BY DEF Kinds
<1> HIDE DEF obj
<1>3. EntryKeeps(Other(s), "add", obj)
  BY <1>1, <1>2 DEF EntryKeeps
<1>4. Enqueue(Other(s), "add", obj, meta)
  BY DEF obj
<1>5. StoresOK /\ QueuesOK /\ MetaOK(meta) /\ Upheld(store, meta, queue) /\ "flush" \notin faulty'
  BY DEF TypeInv, PlainOK, Merging
<1> QED
  BY <1>1, <1>2, <1>3, <1>4, <1>5, EnqueueMerges

\* A remote item is paired with a local one, or put into the queue.
LEMMA ScanRemoteMerges ==
  ASSUME TypeInv, RunInv, Merging, faulty' = {}, NEW e \in todo, ScanRemote(e)
  PROVE  Merging'
<1> USE SideFacts
<1>1. pc = "scan" /\ pc' = pc /\ UNCHANGED <<hasMeta, begun>>
  BY DEF ScanRemote, histVars
<1>2. ~hasMeta
  BY <1>1 DEF RunInv, FirstPcs
<1>3. e = <<"remote", e[2]>> /\ Has(store, "remote", e[2])
  BY <1>1, IndexEntry DEF TypeInv, ScanOK
<1>4. ASSUME \E d \in Equals(e) :
               /\ meta' = Associate(meta, "local", d[2], store.local.items[d[2]].rev, Obj("remote", e[2]))
               /\ UNCHANGED <<store, queue>>
      PROVE  Upheld(store', meta', queue')
  <2>1. PICK d : /\ meta' = Associate(meta, "local", d[2], store.local.items[d[2]].rev, Obj("remote", e[2]))
                 /\ UNCHANGED <<store, queue>>
    BY <1>4
  <2>2. \E a, b, c, f : meta' = AddItem(meta, a, b, c, f)
    BY <2>1 DEF Associate
  <2>3. OldPairs(meta')
    <3>1. PICK a, b, c, f : meta' = AddItem(meta, a, b, c, f)
      BY <2>2
    <3>2. OldPairs(meta) /\ ~GivesWay("remote", a) /\ ~GivesWay("local", c)
      BY <1>2, NoneGives DEF Merging, Upheld
    <3> QED
      BY <3>1, <3>2, OldPairsAdd
  <2> QED
    BY <2>1, <2>3 DEF Merging, Upheld
<1>5. ASSUME Enqueue("local", "add", Obj("remote", e[2]), meta)
      PROVE  Upheld(store', meta', queue')
  <2>1. Other("remote") = "local"
    BY DEF Other
  <2> QED
    BY <1>2, <1>3, <1>5, <2>1, FirstAdds
<1>6. Upheld(store', meta', queue')
  BY <1>4, <1>5 DEF ScanRemote
<1>7. FoundsKeep(pc', fresh', state', changed')
  BY <1>1 DEF FoundsKeep, Resolving
<1> QED
  BY <1>1, <1>6, <1>7, MergingKept

\* A local item without a counterpart is put into the queue.
LEMMA AddRestMerges ==
  ASSUME TypeInv, RunInv, Merging, faulty' = {}, NEW e \in todo, AddRest(e)
  PROVE  Merging'
<1> USE SideFacts
<1>1. pc = "rest" /\ pc' = pc /\ UNCHANGED <<hasMeta, begun>>
  BY DEF AddRest, histVars
<1>2. ~hasMeta
  BY <1>1 DEF RunInv, FirstPcs
<1>3. ASSUME index[e] = "NOT_FOUND", Enqueue("remote", "add", Obj("local", e[2]), meta)
      PROVE  Upheld(store', meta', queue')
  <2>1. Stored(e) /\ e[1] = "local"
    BY <1>1, <1>3 DEF TypeInv, ScanOK
  <2>2. Has(store, "local", e[2]) /\ Other("local") = "remote"
    BY <2>1, IndexEntry DEF Other
  <2> QED
    BY <1>2, <1>3, <2>2, FirstAdds
<1>4. ASSUME UNCHANGED <<store, meta, queue>>
      PROVE  Upheld(store', meta', queue')
  BY <1>4 DEF Merging
<1>5. Upheld(store', meta', queue')
  BY <1>3, <1>4 DEF AddRest
<1>6. FoundsKeep(pc', fresh', state', changed')
  BY <1>1 DEF FoundsKeep, Resolving
<1> QED
  BY <1>1, <1>5, <1>6, MergingKept

-----------------------------------------------------------------------------
(* The flushes at the end of a loop.                                       *)

\* A flush brings what its queue holds.
LEMMA FlushNextMerges ==
  ASSUME TypeInv, CleanInv, Merging, faulty' = {}, FlushNext
  PROVE  Merging'
<1>1. UNCHANGED <<hasMeta, begun, fresh, state, changed>>
  BY Zenon DEF FlushNext, fullVars, histVars
<1>2. pc \in DOMAIN AfterFlush
  BY Zenon DEF FlushNext
<1>3. DrainInv
  BY <1>2, AfterFlushFacts DEF CleanInv
<1>4. /\ StoresOK /\ QueuesOK /\ MetaOK(meta) /\ Upheld(store, meta, queue)
      /\ FoundsKeep(pc, fresh, state, changed)
  BY DEF TypeInv, PlainOK, Merging
<1>5. FlushesOver \/ \E k, s, kind : s \in Sides /\ kind \in Kinds /\ FlushAt(k, s, kind)
  BY <1>3, FlushPlan
<1>6. CASE FlushesOver
  <2>1. UNCHANGED <<store, meta, queue>> /\ pc' \in {"rest", "tokens"}
    BY <1>2, <1>6, AfterFlushFacts DEF FlushesOver
  <2>2. FoundsKeep(pc', fresh', state', changed')
    BY <2>1 DEF FoundsKeep, Resolving
  <2>3. Upheld(store', meta', queue')
    BY <1>4, <2>1
  <2> QED
    BY <1>1, <2>2, <2>3, MergingKept
<1>7. CASE \E k, s, kind : s \in Sides /\ kind \in Kinds /\ FlushAt(k, s, kind)
  <2>1. PICK k, s, kind : s \in Sides /\ kind \in Kinds /\ FlushAt(k, s, kind)
    BY <1>7
  <2>2. pc' = pc /\ Flush(s, kind, queue[s][kind], meta)
    BY <2>1 DEF FlushAt
  <2>3. queue[s][kind] \in Seq(EntryType[kind]) /\ LikeQueue(queue, s, kind)
    BY <1>4, <2>1 DEF QueuesOK, QueueOK, LikeQueue
  <2>4. Upheld(store', meta', queue')
    BY <1>4, <2>1, <2>2, <2>3, FlushMerges
  <2>5. FoundsKeep(pc', fresh', state', changed')
    BY <1>1, <1>4, <2>2
  <2> QED
    BY <1>1, <2>4, <2>5, MergingKept
<1> QED
  BY <1>5, <1>6, <1>7
-----------------------------------------------------------------------------
(* The loops over the pairs.                                               *)

\* A turn of a loop changes nothing of what was found.
LEMMA TurnMerges ==
  ASSUME Merging, NEW c, NEW pair, Resolve(c, pair), Upheld(store', meta', queue')
  PROVE  Merging'
<1>1. UNCHANGED <<pc, hasMeta, begun, fresh, state, changed>>
  BY DEF Resolve, fullVars, histVars
<1>2. FoundsKeep(pc', fresh', state', changed')
  BY <1>1 DEF Merging
<1> QED
  BY <1>1, <1>2, MergingKept

\* A changed object that a turn passes on.
LEMMA ChangedKeeps ==
  ASSUME TypeInv, RunInv, CleanInv, Merging, NEW c, NEW pair \in todo, Resolve(c, pair), NEW s \in Sides, c[s] = "Modified"
  PROVE  Keeps(s, changed[s][Id(pair, s)]) /\ ~Unchanged(s, Id(pair, s))
<1>1. StateOf(s, Id(pair, s)) = "Modified"
  BY HalfFacts
<1>2. Id(pair, s) \in DOMAIN state[s] /\ state[s][Id(pair, s)] = "Modified"
  BY <1>1 DEF StateOf
<1>3. pc = "resolve"
  BY DEF Resolve
<1>4. FoundKeeps(s, fresh[s], state[s], changed[s])
  BY <1>3 DEF Merging, FoundsKeep, Resolving, Sides
<1> QED
  BY <1>2, <1>4 DEF FoundKeeps

\* An item that was not changed, of a pair whose other half was.
LEMMA HalfGivesWay ==
  ASSUME TypeInv, RunInv, CleanInv, NEW c, NEW pair \in todo, Resolve(c, pair), NEW s \in Sides,
         Unchanged(s, Id(pair, s)), ~Unchanged(Other(s), Id(pair, Other(s)))
  PROVE  GivesWay(s, Id(pair, s))
<1> USE SideFacts
<1>1. hasMeta /\ pc = "resolve" /\ Lineage /\ pair[1] \in Awaiting
  BY ResolveFacts
<1>2. Id(pair, s) = Mate(meta, pair[1], s) /\ Id(pair, Other(s)) = Mate(meta, pair[1], Other(s))
  BY HalfFacts
<1>3. begun.meta = saved /\ pair[1] \in DOMAIN saved.map /\ meta.map[pair[1]] = saved.map[pair[1]]
  BY <1>1 DEF RunInv, Lineage, Awaiting
<1>4. Id(pair, Other(s)) \in Partners(s, Id(pair, s))
  BY <1>2, <1>3 DEF Partners, Mate, Sides, Other
<1> QED
  BY <1>4 DEF GivesWay

\* A turn may forget pairs.
LEMMA UpheldNarrowed ==
  ASSUME NEW m, Narrowed(m), Merging
  PROVE  Upheld(store, m, queue)
  BY OldPairsFewer DEF Merging, Upheld

\* An item that is gone on both sides is forgotten.
LEMMA ForgetPairMerges ==
  ASSUME TypeInv, RunInv, CleanInv, Merging, NEW pair \in todo, ForgetPair(pair)
  PROVE  Merging'
<1> DEFINE c == Where("local", "NotPresent", "NotPresent")
           m == RemoveItem(meta, pair[1], pair[2])
<1>1. Resolve(c, pair) /\ meta' = m /\ UNCHANGED <<store, queue>>
  BY DEF ForgetPair
<1>2. Narrowed(m)
  BY <1>1, TurnParts
<1> HIDE DEF c, m
<1>3. Upheld(store', meta', queue')
  BY <1>1, <1>2, UpheldNarrowed
<1> QED
  BY <1>1, <1>3, TurnMerges

\* A removal takes an item that gives way.
LEMMA RemoveCounterpartMerges ==
  ASSUME TypeInv, RunInv, CleanInv, Merging, faulty' = {}, NEW pair \in todo, NEW s \in Sides, RemoveCounterpart(s, pair)
  PROVE  Merging'
<1> DEFINE c == Where(s, "NotChanged", "NotPresent")
           m == RemoveItem(meta, pair[1], pair[2])
           e == Id(pair, s)
<1>1. Resolve(c, pair) /\ Enqueue(s, "rem", e, m)
  BY DEF RemoveCounterpart
<1>2. GivesWay(s, e) /\ e \in Nat
  BY RemovalWanted
<1>3. MetaOK(m) /\ Narrowed(m)
  BY <1>1, TurnParts
<1> HIDE DEF c, m, e
<1>4. "rem" \in Kinds /\ e \in EntryType["rem"] /\ EntryKeeps(s, "rem", e)
  BY <1>2 DEF Kinds, EntryType, EntryKeeps
<1>5. StoresOK /\ QueuesOK /\ "flush" \notin faulty'
  BY DEF TypeInv
<1>6. Upheld(store', meta', queue')
  BY <1>1, <1>3, <1>4, <1>5, UpheldNarrowed, EnqueueMerges
<1> QED
  BY <1>1, <1>6, TurnMerges

\* A changed item whose counterpart was removed is brought back to the other side.
LEMMA RestoreItemMerges ==
  ASSUME TypeInv, RunInv, CleanInv, Merging, faulty' = {}, NEW pair \in todo, NEW s \in Sides, RestoreItem(s, pair)
  PROVE  Merging'
<1> USE SideFacts
<1> DEFINE c == Where(s, "NotPresent", "Modified")
           m == RemoveItem(meta, pair[1], pair[2])
           e == changed[Other(s)][Id(pair, Other(s))]
<1>1. Resolve(c, pair) /\ Enqueue(s, "add", e, m)
  BY DEF RestoreItem
<1>2. c[Other(s)] = "Modified"
  BY WhereSides DEF WhereFacts
<1>3. MetaOK(m) /\ Narrowed(m)
  BY <1>1, TurnParts
<1> HIDE DEF c, m
<1>4. e \in Objects /\ Keeps(Other(s), e)
  BY <1>1, <1>2, PassedOn, ChangedKeeps
<1> HIDE DEF e
<1>5. "add" \in Kinds /\ e \in EntryType["add"] /\ EntryKeeps(s, "add", e)
  BY <1>4 DEF Kinds, EntryType, EntryKeeps
<1>6. StoresOK /\ QueuesOK /\ "flush" \notin faulty'
  BY DEF TypeInv
<1>7. Upheld(store', meta', queue')
  BY <1>1, <1>3, <1>5, <1>6, UpheldNarrowed, EnqueueMerges
<1> QED
  BY <1>1, <1>7, TurnMerges

\* A change replaces an item that gives way.
LEMMA PropagateChangeMerges ==
  ASSUME TypeInv, RunInv, CleanInv, Merging, faulty' = {}, NEW pair \in todo, NEW s \in Sides, PropagateChange(s, pair)
  PROVE  Merging'
<1> USE SideFacts
<1> DEFINE c == Where(s, "NotChanged", "Modified")
           o == changed[Other(s)][Id(pair, Other(s))]
           n == UpdateRevision(meta, Other(s), o.id, o.rev)
           e == [id |-> Id(pair, s), obj |-> o]
<1>1. Resolve(c, pair) /\ Enqueue(s, "mod", e, n)
  BY DEF PropagateChange
<1>2. c[s] = "NotChanged" /\ c[Other(s)] = "Modified"
  BY WhereSides DEF WhereFacts
<1> HIDE DEF c
<1>3. Id(pair, s) \in Nat /\ Unchanged(s, Id(pair, s))
  BY <1>1, <1>2, HalfFacts
<1>4. o \in Objects /\ ~Unchanged(Other(s), Id(pair, Other(s)))
  BY <1>1, <1>2, PassedOn, ChangedKeeps
<1>5. GivesWay(s, Id(pair, s))
  BY <1>1, <1>3, <1>4, HalfGivesWay
<1> HIDE DEF o
<1>6. e \in Changes /\ e.id = Id(pair, s)
  BY <1>3, <1>4 DEF Changes
<1>7. o.id \in Nat /\ o.rev \in Nat
  BY <1>4 DEF Objects
<1> HIDE DEF e
<1>8. MetaOK(n) /\ n.map = meta.map
  <2>1. MetaOK(meta)
    BY DEF TypeInv, PlainOK
  <2>2. Other(s) \in Sides
    OBVIOUS
  <2>3. /\ \A id, rev \in Nat :
             MetaOK(UpdateRevision(meta, Other(s), id, rev)) /\ UpdateRevision(meta, Other(s), id, rev).map = meta.map
    BY ONLY <2>1, <2>2, UpdateFacts
  <2> QED
    BY <1>7, <2>3
<1> HIDE DEF n
<1>9. Upheld(store, n, queue)
  BY <1>8, OldPairsSame DEF Merging, Upheld
<1>10. "mod" \in Kinds /\ e \in EntryType["mod"] /\ EntryKeeps(s, "mod", e)
  BY <1>5, <1>6 DEF Kinds, EntryType, EntryKeeps
<1>11. StoresOK /\ QueuesOK /\ "flush" \notin faulty'
  BY DEF TypeInv
<1>12. Upheld(store', meta', queue')
  BY <1>1, <1>8, <1>9, <1>10, <1>11, EnqueueMerges
<1> QED
  BY <1>1, <1>12, TurnMerges


\* Both versions of a conflict are brought to the other side.
LEMMA KeepBothMerges ==
  ASSUME TypeInv, RunInv, CleanInv, Merging, faulty' = {}, NEW pair \in todo, KeepBoth(pair)
  PROVE  Merging'
<1> USE SideFacts
<1> DEFINE c == Where("local", "Modified", "Modified")
           m0 == RemoveItem(meta, pair[1], pair[2])
           mine   == changed["local"][pair[2]]
           theirs == changed["remote"][pair[1]]
           l == store["local"].clock + 1
           r == store["remote"].clock + 1
           v == [st |-> store["local"], m |-> m0]
           u == ApplyOne("local", "add", v, theirs)
           w == [st |-> store["remote"], m |-> u.m]
           t == ApplyOne("remote", "add", w, mine)
<1>1. Resolve(c, pair)
  BY DEF KeepBoth
<1>2. c["local"] = "Modified" /\ c["remote"] = "Modified"
  BY DEF Where, Sides
<1> HIDE DEF c
<1>3. Id(pair, "local") = pair[2] /\ Id(pair, "remote") = pair[1]
  BY DEF Id
<1>4. mine \in Objects /\ mine.id = pair[2] /\ Keeps("local", mine)
  BY <1>1, <1>2, <1>3, PassedOn, ChangedKeeps
<1>5. theirs \in Objects /\ theirs.id = pair[1] /\ Keeps("remote", theirs)
  BY <1>1, <1>2, <1>3, PassedOn, ChangedKeeps
<1>6. Narrowed(m0)
  BY <1>1, TurnParts
<1>7. PICK m1 : BothAdded(pair, mine, theirs, m1)
  BY KeepBothParts DEF Clean
<1>8. /\ m1 = AddItem(m0, pair[1], theirs.rev, l, l) /\ meta' = AddItem(m1, r, r, pair[2], mine.rev)
      /\ store'["local"] = AddOne(store["local"], theirs.item)
      /\ store'["remote"] = AddOne(store["remote"], mine.item)
      /\ queue' = queue
  BY <1>7 DEF BothAdded
<1> HIDE DEF m0, mine, theirs
<1>9. /\ u = [st |-> AddOne(store["local"], theirs.item), m |-> Associate(m0, "local", l, l, theirs)]
      /\ t = [st |-> AddOne(store["remote"], mine.item), m |-> Associate(u.m, "remote", r, r, mine)]
  BY DEF ApplyOne
<1> HIDE DEF u, t
<1>10. u.m = m1 /\ t.m = meta' /\ u.st = store'["local"] /\ t.st = store'["remote"]
  BY <1>4, <1>5, <1>8, <1>9 DEF Associate
<1>11. EntryKeeps("local", "add", theirs) /\ EntryKeeps("remote", "add", mine)
  BY <1>4, <1>5 DEF EntryKeeps, Other
<1>12. "add" \in Kinds /\ theirs \in EntryType["add"] /\ mine \in EntryType["add"]
  BY <1>4, <1>5 DEF Kinds, EntryType
<1>13. StoreOK(store["local"]) /\ StoreOK(store["remote"]) /\ Upheld(store, m0, queue)
  BY <1>6, UpheldNarrowed DEF TypeInv, StoresOK
<1>14. SideHeld("local", u)
  <2>1. SideHeld("local", v) /\ StoreOK(v.st)
    BY <1>13 DEF SideHeld, Upheld
  <2>2. u = ApplyOne("local", "add", v, theirs)
    BY DEF u
  <2> HIDE DEF v
  <2> QED
    BY <1>11, <1>12, <2>1, <2>2, EntryHeld
<1>15. SideHeld("remote", t)
  <2>1. SideHeld("remote", w) /\ StoreOK(w.st)
    BY <1>13, <1>14 DEF SideHeld, Upheld
  <2>2. t = ApplyOne("remote", "add", w, mine)
    BY DEF t
  <2> HIDE DEF w
  <2> QED
    BY <1>11, <1>12, <2>1, <2>2, EntryHeld
<1>16. Upheld(store', meta', queue')
  BY <1>8, <1>10, <1>13, <1>14, <1>15 DEF SideHeld, Upheld, Sides
<1> QED
  BY <1>1, <1>16, TurnMerges
-----------------------------------------------------------------------------
(* New objects, matched or added.                                          *)

\* A new object that was dealt with is not a new one any more.
LEMMA MatchMerges ==
  ASSUME Merging, Matching, \A s \in Sides :
                              fresh'[s] \subseteq fresh[s], Upheld(store', meta', queue')
  PROVE  Merging'
<1>1. pc = "match" /\ UNCHANGED <<pc, hasMeta, begun, state, changed>>
  BY DEF Matching
<1>2. \A s \in Sides : FoundKeeps(s, fresh'[s], state'[s], changed'[s])
  <2>1. \A s \in Sides : FoundKeeps(s, fresh[s], state[s], changed[s])
    BY <1>1 DEF Merging, FoundsKeep, Resolving, Sides
  <2> QED
    BY <1>1, <2>1 DEF FoundKeeps
<1>3. FoundsKeep(pc', fresh', state', changed')
  BY <1>1, <1>2, SideFacts DEF FoundsKeep
<1> QED
  BY <1>1, <1>3, MergingKept

\* A new object.
LEMMA FreshKeeps ==
  ASSUME TypeInv, Merging, pc = "match", NEW s \in Sides, NEW f \in fresh[s]
  PROVE  Keeps(s, f) /\ f \in Objects
<1>1. FoundKeeps(s, fresh[s], state[s], changed[s])
  BY DEF Merging, FoundsKeep, Resolving, Sides
<1> QED
  BY <1>1 DEF FoundKeeps, TypeInv, FoundOK

\* A new object of one side is put into the queue of the other.
LEMMA FreshAdds ==
  ASSUME TypeInv, Merging, pc = "match", NEW s \in Sides, NEW f \in fresh[s], Enqueue(Other(s), "add", f, meta), faulty' = {}
  PROVE  Upheld(store', meta', queue')
<1> USE SideFacts
<1>1. Keeps(s, f) /\ f \in EntryType["add"] /\ "add" \in Kinds
  BY FreshKeeps DEF EntryType, Kinds
<1>2. EntryKeeps(Other(s), "add", f)
  BY <1>1 DEF EntryKeeps
<1>3. StoresOK /\ QueuesOK /\ MetaOK(meta) /\ Upheld(store, meta, queue) /\ "flush" \notin faulty'
  BY DEF TypeInv, PlainOK, Merging
<1> QED
  BY <1>1, <1>2, <1>3, EnqueueMerges

\* A new remote object is put into the queue.
LEMMA AddFreshMerges ==
  ASSUME TypeInv, Merging, faulty' = {}, NEW obj \in fresh.remote, AddFresh(obj)
  PROVE  Merging'
<1> USE SideFacts
<1>1. /\ Matching /\ pc = "match" /\ Enqueue("local", "add", obj, meta)
      /\ fresh' = [fresh EXCEPT !.remote = @ \ {obj}]
  BY DEF AddFresh, Matching, scanVars, histVars
<1>2. \A s \in Sides : fresh'[s] \subseteq fresh[s]
  BY <1>1 DEF TypeInv, FoundOK
<1>3. Other("remote") = "local" /\ obj \in fresh["remote"]
  BY DEF Other
<1>4. Upheld(store', meta', queue')
  BY <1>1, <1>3, FreshAdds
<1> QED
  BY <1>1, <1>2, <1>4, MatchMerges

\* A new local object is paired with an equal remote one, or put into the queue.
LEMMA MatchFreshMerges ==
  ASSUME TypeInv, Merging, faulty' = {}, NEW obj \in fresh.local, MatchFresh(obj)
  PROVE  Merging'
<1> USE SideFacts
<1> DEFINE equal == {x \in fresh.remote : x.item = obj.item}
           twin  == CHOOSE x \in equal : \A y \in equal : x.id <= y.id
<1>1. Matching /\ pc = "match"
  BY DEF MatchFresh, Matching, scanVars, histVars
<1>2. DOMAIN fresh = Sides /\ fresh["remote"] \subseteq Objects
  BY DEF TypeInv, FoundOK
<1>3. obj \in fresh["local"] /\ Other("local") = "remote"
  BY DEF Other
<1>4. CASE equal # {}
  <2>1. /\ meta' = AddItem(meta, twin.id, twin.rev, obj.id, obj.rev)
        /\ fresh' = [local |-> fresh.local \ {obj}, remote |-> fresh.remote \ {twin}]
        /\ UNCHANGED <<store, queue>>
    BY <1>4 DEF MatchFresh
  <2>2. twin \in equal
    <3> DEFINE I == {x.id : x \in equal}
    <3>1. I \subseteq Nat /\ I # {}
      BY <1>2, <1>4 DEF Objects
    <3>2. PICK n \in I : \A k \in I : n <= k
      <4> HIDE DEF I
      <4> QED
        BY <3>1, LeastNatural
    <3>3. \E x \in equal : \A y \in equal : x.id <= y.id
      BY <3>2
    <3> HIDE DEF equal
    <3> QED
      BY <3>3
  <2> HIDE DEF twin
  <2>3. twin \in fresh["remote"]
    BY <2>2
  <2>4. ~GivesWay("remote", twin.id) /\ ~GivesWay("local", obj.id)
    BY <1>1, <1>3, <2>3, FreshKeeps DEF Keeps
  <2>5. OldPairs(meta')
    BY <2>1, <2>4, OldPairsAdd DEF Merging, Upheld
  <2>6. Upheld(store', meta', queue')
    BY <2>1, <2>5 DEF Merging, Upheld
  <2>7. \A s \in Sides : fresh'[s] \subseteq fresh[s]
    BY <2>1 DEF Sides
  <2> QED
    BY <1>1, <2>6, <2>7, MatchMerges
<1>5. CASE equal = {}
  <2>1. Enqueue("remote", "add", obj, meta) /\ fresh' = [fresh EXCEPT !.local = @ \ {obj}]
    BY <1>5 DEF MatchFresh
  <2>2. \A s \in Sides : fresh'[s] \subseteq fresh[s]
    BY <1>2, <2>1
  <2> HIDE DEF equal
  <2>3. Upheld(store', meta', queue')
    BY <1>1, <1>3, <2>1, FreshAdds
  <2> QED
    BY <1>1, <2>2, <2>3, MatchMerges
<1> QED
  BY <1>4, <1>5

-----------------------------------------------------------------------------
(* The beginning and the end of a run.                                     *)

\* Before anything is done.
LEMMA BeginMerges ==
  ASSUME StoresOK, \A s \in Sides :
                     begun.store[s] = store[s].items, begun.meta = (IF hasMeta THEN meta ELSE EmptyMeta),
         Quiet, pc \in {"index", "detectLocal"}
  PROVE  Merging
<1>1. \A s \in Sides : StaysAt(s, store[s])
  BY DEF StaysAt, StoresOK, StoreOK, IsMap
<1>2. \A s \in Sides : BelongsAt(s, store[s])
  BY DEF BelongsAt, ThreeWay
<1>3. OldPairs(meta)
  <2>1. CASE hasMeta
    BY <2>1 DEF OldPairs
  <2>2. CASE ~hasMeta
    BY <2>2, EmptyGives DEF OldPairs
  <2> QED
    BY <2>1, <2>2
<1>4. QueuesKeep(queue)
  BY QuietFacts DEF QueuesKeep
<1>5. FoundsKeep(pc, fresh, state, changed)
  BY DEF FoundsKeep, Resolving
<1> QED
  BY <1>1, <1>2, <1>3, <1>4, <1>5 DEF Merging, Upheld

\* A run begins with what the storages hold, and with empty queues.
LEMMA SynchronizeMerges ==
  ASSUME DeepInv', Synchronize
  PROVE  MergeInv'
<1>1. /\ pc' \in {"index", "detectLocal"} /\ UNCHANGED <<store, meta, hasMeta, queue>>
      /\ (Leftover => faulty' # {})
      /\ begun' = [store |-> [s \in Sides |-> store[s].items],
                   meta |-> IF hasMeta THEN meta ELSE EmptyMeta, synced |-> synced]
  BY DEF Synchronize
<1>2. ASSUME faulty' = {} PROVE Merging'
  <2>1. Quiet'
    BY <1>1, <1>2 DEF Leftover, Quiet
  <2>2. \A s \in Sides : begun'.store[s] = store'[s].items
    BY <1>1
  <2>3. begun'.meta = (IF hasMeta' THEN meta' ELSE EmptyMeta)
    BY <1>1
  <2>4. StoresOK'
    BY DEF DeepInv, TypeInv
  <2>5. /\ (StoresOK /\ (\A s \in Sides :
                           begun.store[s] = store[s].items) /\ begun.meta = (IF hasMeta THEN meta ELSE EmptyMeta)
         /\ Quiet /\ pc \in {"index", "detectLocal"} => Merging)'
    BY BeginMerges, PTL
  <2> QED
    BY <1>1, <2>1, <2>2, <2>3, <2>4, <2>5
<1> QED
  BY <1>1, <1>2 DEF MergeInv, MergeIsThreeWay, Done

\* The metadata that a run began with pairs ids one to one.
LEMMA BegunPairs ==
  ASSUME RunInv, CleanInv, pc # "idle", hasMeta
  PROVE  Bijective(begun.meta)
  BY DEF RunInv, CleanInv, MetaSound

\* The counterpart of an item that gives way does not.
LEMMA OtherStays ==
  ASSUME RunInv, CleanInv, Merging, pc # "idle", NEW r \in DOMAIN meta.map, NEW s \in Sides, GivesWay(s, Mate(meta, r, s))
  PROVE  ~GivesWay(Other(s), Mate(meta, r, Other(s)))
<1> USE SideFacts
<1>1. hasMeta
  BY NoneGives
<1>2. Bijective(begun.meta)
  BY <1>1, BegunPairs
<1>3. r \in DOMAIN begun.meta.map /\ begun.meta.map[r] = meta.map[r]
  BY DEF Merging, Upheld, OldPairs
<1>4. PICK z \in Partners(s, Mate(meta, r, s)) : ~Unchanged(Other(s), z)
  BY DEF GivesWay
<1>5. z = Mate(meta, r, Other(s))
  <2>1. CASE s = "remote"
    BY <1>3, <1>4, <2>1 DEF Partners, Mate, Other
  <2>2. CASE s = "local"
    <3>1. z \in DOMAIN begun.meta.map /\ begun.meta.map[z] = begun.meta.map[r]
      BY <1>3, <1>4, <2>2 DEF Partners, Mate
    <3>2. \A p, q \in DOMAIN begun.meta.map : begun.meta.map[p] = begun.meta.map[q] => p = q
      <4>1. /\ \A p, q \in DOMAIN begun.meta.map :
                 Mate(begun.meta, p, "local") = Mate(begun.meta, q, "local") => p = q
        BY <1>2 DEF Bijective
      <4> QED
        BY <4>1 DEF Mate
    <3>3. z = r
      BY <1>3, <3>1, <3>2
    <3> QED
      BY <2>2, <3>3 DEF Mate, Other
  <2> QED
    BY <2>1, <2>2
<1> QED
  BY <1>4, <1>5 DEF GivesWay

\* In the end every item is one of a pair, and nothing that gives way is left.
LEMMA EndMerges ==
  ASSUME RunInv, CleanInv, Merging, pc # "idle", InSync(store, meta)
  PROVE  \A s \in Sides : Contents(store[s].items) = ThreeWay
<1> USE SideFacts
<1>1. \A t \in Sides : \A x : Has(store, t, x) => \E r \in DOMAIN meta.map : Mate(meta, r, t) = x
  <2>1. \A t \in Sides : \A x : Has(store, t, x) => Tracks(meta, t, x)
    BY DEF InSync, AllTracked, Has
  <2> QED
    BY <2>1 DEF InSync, Describes, Bijective, Tracks
<1>2. \A r \in DOMAIN meta.map, t \in Sides : Has(store, t, Mate(meta, r, t))
  BY DEF InSync, Describes, Settled, Knows
<1>3. \A r \in DOMAIN meta.map, s, t \in Sides :
        store[s].items[Mate(meta, r, s)].item = store[t].items[Mate(meta, r, t)].item
  <2>1. \A r \in DOMAIN meta.map : SameItem(store, meta, r)
    BY DEF InSync, Describes, Settled
  <2> QED
    BY <2>1 DEF SameItem, Mate, Sides
<1>4. \A t \in Sides : StaysAt(t, store[t]) /\ BelongsAt(t, store[t])
  BY DEF Merging, Upheld
<1>5. ASSUME NEW s \in Sides, NEW y \in ThreeWay PROVE y \in Contents(store[s].items)
  <2>0. PICK t \in Sides : \E x \in DOMAIN begun.store[t] :
                             ~GivesWay(t, x) /\ y = begun.store[t][x].item
    BY <1>5 DEF ThreeWay
  <2>1. PICK x \in DOMAIN begun.store[t] : ~GivesWay(t, x) /\ y = begun.store[t][x].item
    BY <2>0
  <2>2. Has(store, t, x) /\ store[t].items[x].item = y
    BY <1>4, <2>1 DEF StaysAt, Has
  <2>3. PICK r \in DOMAIN meta.map : Mate(meta, r, t) = x
    BY <1>1, <2>2
  <2>4. Has(store, s, Mate(meta, r, s)) /\ store[s].items[Mate(meta, r, s)].item = y
    BY <1>2, <1>3, <2>2, <2>3
  <2> QED
    BY <2>4 DEF Contents, Has
<1>6. ASSUME NEW s \in Sides, NEW x \in DOMAIN store[s].items PROVE store[s].items[x].item \in ThreeWay
  <2>1. store[s].items[x].item \in ThreeWay \/ GivesWay(s, x)
    BY <1>4 DEF BelongsAt
  <2>2. ASSUME GivesWay(s, x) PROVE store[s].items[x].item \in ThreeWay
    <3>1. PICK r \in DOMAIN meta.map : Mate(meta, r, s) = x
      BY <1>1 DEF Has
    <3>2. ~GivesWay(Other(s), Mate(meta, r, Other(s)))
      BY <2>2, <3>1, OtherStays
    <3>3. Has(store, Other(s), Mate(meta, r, Other(s)))
      BY <1>2
    <3>4. store[Other(s)].items[Mate(meta, r, Other(s))].item \in ThreeWay
      BY <1>4, <3>2, <3>3 DEF BelongsAt, Has
    <3> QED
      BY <1>3, <3>1, <3>4
  <2> QED
    BY <2>1, <2>2
<1> QED
  BY <1>5, <1>6 DEF Contents

\* A run that ends with success has reached the merge.
LEMMA ConcludeMerges ==
  ASSUME DeepInv, MergeInv, Conclude
  PROVE  MergeInv'
<1>1. ConcludeEnds
  BY ConcludeFacts
<1>2. begun' = begun
  BY DEF Conclude, Return
<1>3. ASSUME faulty' = {} PROVE \A s \in Sides : Contents(store'[s].items) = ThreeWay'
  <2>1. pc = "tokens" /\ faulty = {} /\ NoneUnread /\ ~Unread /\ store' = store
    BY <1>1, <1>3 DEF ConcludeEnds, NoneUnread
  <2>2. TypeInv /\ RunInv /\ CleanInv /\ Merging
    BY <2>1 DEF DeepInv, Clean, MergeInv
  <2>3. InSync(store, meta)
    BY <2>1, <2>2, EndFacts DEF InSync
  <2>4. \A s \in Sides : Contents(store[s].items) = ThreeWay
    BY <2>1, <2>2, <2>3, EndMerges
  <2>5. ThreeWay' = ThreeWay
    BY <1>2 DEF ThreeWay, GivesWay, Unchanged, Partners
  <2> QED
    BY <2>1, <2>4, <2>5 DEF Contents
<1> QED
  BY <1>1, <1>3 DEF MergeInv, MergeIsThreeWay, ConcludeEnds
-----------------------------------------------------------------------------
(* The invariant is inductive.                                             *)

\* What ends a run, or happens between runs, without success.
LEMMA ReturnMerges ==
  ASSUME pc' = "idle", result' \notin Ok \/ faulty' # {}
  PROVE  MergeInv'
  BY DEF MergeInv, MergeIsThreeWay, Done

\* What happens between runs, or ends one, is no success.
LEMMA IdleMerges ==
  ASSUME StorageInitFails \/ Edit \/ Restart \/ Crash
  PROVE  MergeInv'
<1>1. pc' = "idle" /\ result' \in {"None", "Fail"}
  BY DEF StorageInitFails, Edit, Restart, Crash, NewObject, Forget
<1> QED
  BY <1>1, ReturnMerges DEF Ok

\* What the earlier invariants say of a run without failures.
LEMMA MergeFacts ==
  ASSUME DeepInv, faulty = {}
  PROVE  TypeInv /\ RunInv /\ CleanInv
  BY DEF DeepInv, Clean

\* The step of the invariant, one case for each action.
LEMMA MergeStep == DeepInv /\ DeepInv' /\ MergeInv /\ [Next]_vars => MergeInv'
<1> SUFFICES ASSUME DeepInv, DeepInv', MergeInv, [Next]_vars PROVE MergeInv'
  OBVIOUS
<1>1. CASE Synchronize
  BY <1>1, SynchronizeMerges
<1>2. CASE Conclude
  BY <1>2, ConcludeMerges
<1>3. CASE StorageInitFails \/ Edit \/ Restart \/ Crash
  BY <1>3, IdleMerges
<1>4. CASE NoticeCancel
  <2>1. pc' = "idle" /\ result' \in {"Fail", "Cancelled"}
    BY <1>4 DEF NoticeCancel, Return, Outcome
  <2> QED
    BY <2>1, ReturnMerges DEF Ok
<1>5. CASE \E s \in Sides : Fetch(s)
  <2>1. PICK s \in Sides : Fetch(s)
    BY <1>5
  <2>2. CASE pc' = "idle"
    <3>1. (Fault({"items"}) /\ Return(Outcome)) \/ Return("Fail")
      BY <2>1, <2>2, FetchCases DEF Fetch
    <3>2. Return("Fail") => result' \notin Ok
      BY DEF Return, Ok
    <3>3. Fault({"items"}) => faulty' # {}
      BY DEF Fault
    <3> QED
      BY <2>2, <3>1, <3>2, <3>3, ReturnMerges
  <2>3. CASE pc' # "idle"
    <3>1. pc # "idle"
      BY <2>1, <2>3, FetchCases
    <3>2. Merging /\ faulty = {} => Merging'
      BY <2>1, <2>3, FetchMerges, MergeFacts
    <3> QED
      BY <2>3, <3>1, <3>2, MergingMoves
  <2> QED
    BY <2>2, <2>3
<1>6. CASE BuildIndex \/ ScanDone \/ RestDone \/ MatchDone \/ NextClass \/ Cancel \/ \E s \in Sides : Detect(s)
  <2>1. pc # "idle" /\ pc' # "idle"
    BY <1>6 DEF BuildIndex, ScanDone, RestDone, NextClass, MatchDone, Cancel, Detect
  <2> QED
    BY <1>6, <2>1, MergingMoves, QuietMerges
<1>7. CASE \E e \in todo : ScanRemote(e) \/ AddRest(e)
  <2>1. pc # "idle" /\ pc' # "idle"
    BY <1>7 DEF ScanRemote, AddRest
  <2>2. Merging /\ faulty = {} /\ faulty' = {} => Merging'
    BY <1>7, ScanRemoteMerges, AddRestMerges, MergeFacts
  <2> QED
    BY <2>1, <2>2, MergingMoves
<1>8. CASE FlushNext
  <2>1. pc \in DOMAIN AfterFlush /\ (pc' = pc \/ pc' = AfterFlush[pc])
    BY <1>8, Zenon DEF FlushNext
  <2>2. pc # "idle" /\ pc' # "idle"
    BY <2>1, AfterFlushFacts
  <2>3. Merging /\ faulty = {} /\ faulty' = {} => Merging'
    BY <1>8, FlushNextMerges, MergeFacts
  <2> QED
    BY <2>2, <2>3, MergingMoves
<1>9. CASE \E pair \in todo : \/ ForgetPair(pair) \/ KeepBoth(pair)
                              \/ \E s \in Sides :
                                   RemoveCounterpart(s, pair) \/ RestoreItem(s, pair) \/ PropagateChange(s, pair)
  <2>1. PICK pair \in todo : \/ ForgetPair(pair) \/ KeepBoth(pair)
                             \/ \E s \in Sides :
                                  RemoveCounterpart(s, pair) \/ RestoreItem(s, pair) \/ PropagateChange(s, pair)
    BY <1>9
  <2>2. \E c : Resolve(c, pair)
    BY <2>1 DEF ForgetPair, KeepBoth, RemoveCounterpart, RestoreItem, PropagateChange
  <2>3. pc # "idle" /\ pc' # "idle"
    BY <2>2 DEF Resolve
  <2>4. Merging /\ faulty = {} /\ faulty' = {} => Merging'
    BY <2>1, ForgetPairMerges, KeepBothMerges, RemoveCounterpartMerges, RestoreItemMerges,
       PropagateChangeMerges, MergeFacts
  <2> QED
    BY <2>3, <2>4, MergingMoves
<1>10. CASE (\E obj \in fresh.local : MatchFresh(obj)) \/ (\E obj \in fresh.remote : AddFresh(obj))
  <2>1. pc # "idle" /\ pc' # "idle"
    BY <1>10 DEF MatchFresh, AddFresh
  <2>2. Merging /\ faulty = {} /\ faulty' = {} => Merging'
    BY <1>10, MatchFreshMerges, AddFreshMerges, MergeFacts
  <2> QED
    BY <2>1, <2>2, MergingMoves
<1>11. CASE UNCHANGED vars
  <2>1. UNCHANGED <<store, meta, hasMeta, queue, result, pc, state, fresh, changed, faulty, begun>>
    BY <1>11 DEF vars, engineVars, fullVars, faultVars, histVars
  <2>2. Merging => Merging'
    BY <2>1, MergingKept DEF Merging
  <2>3. ThreeWay' = ThreeWay
    BY <2>1 DEF ThreeWay, GivesWay, Unchanged, Partners
  <2>4. MergeIsThreeWay'
    BY <2>1, <2>3 DEF MergeInv, MergeIsThreeWay, Done, Contents
  <2> QED
    BY <2>1, <2>2, <2>4 DEF MergeInv
<1>12. CASE Run
  BY <1>12, <1>1, <1>2, <1>4, <1>5, <1>6, <1>7, <1>8, <1>9, <1>10, Zenon DEF Run
<1> QED
  BY <1>3, <1>6, <1>11, <1>12 DEF Next

\* A successful run brings both sides to the three-way merge of what they
\* held: no edit of a user is lost and nothing removed comes back.
THEOREM MergeCorrect == Spec => []MergeIsThreeWay
<1>1. Init => MergeInv
  BY DEF Init, MergeInv, MergeIsThreeWay, Done, Ok
<1>2. MergeInv => MergeIsThreeWay
  BY DEF MergeInv
<1> QED
  BY <1>1, <1>2, MergeStep, DeepCorrect, PTL DEF Spec
=============================================================================
