-------------------------- MODULE TwoWaySyncProofs --------------------------
(***************************************************************************)
(* Proofs about the two-way synchronization engine.                        *)
(***************************************************************************)
EXTENDS TwoWaySync, SharedFacts

(***************************************************************************)
(* Types.                                                                  *)
(***************************************************************************)
\* A partial function.
IsMap(f, S, T) == DOMAIN f \subseteq S /\ f \in [DOMAIN f -> T]

ForSides(f) == DOMAIN f = Sides

Items   == [item : Contacts, rev : Nat]
Objects == [id : Nat, item : Contacts, rev : Nat]
Changes == [id : Nat, obj : Objects]

StoreOK(st) ==
  /\ st.clock \in Nat
  /\ IsMap(st.items, 1..st.clock, Items)
  /\ \A id \in DOMAIN st.items : st.items[id].rev \in 1..st.clock
  /\ IsMap(st.gone, 1..st.clock, 1..st.clock)
  /\ \A id \in DOMAIN st.gone : id \notin DOMAIN st.items

MetaOK(m) ==
  /\ ForSides(m.rev) /\ \A s \in Sides : IsMap(m.rev[s], Nat, Nat)
  /\ IsMap(m.map, Nat, Nat)
  /\ m.token \in [Sides -> Nat]

EntryType == [add |-> Objects, mod |-> Changes, rem |-> Nat]
QueueOK(q) == DOMAIN q = Kinds /\ \A kind \in Kinds : q[kind] \in Seq(EntryType[kind])

\* There are two sides, each the other of the other.
LEMMA SideFacts ==
  /\ "local" \in Sides /\ "remote" \in Sides
  /\ \A s \in Sides :
       /\ s \in {"local", "remote"} /\ Other(s) \in Sides /\ Other(s) # s /\ Other(Other(s)) = s
                      /\ \A t \in Sides : t = s \/ t = Other(s)
  BY DEF Sides, Other

\* What a map holds once an entry was put into it.
LEMMA PutFacts ==
  ASSUME NEW f, NEW k, NEW v
  PROVE  /\ DOMAIN Put(f, k, v) = DOMAIN f \cup {k}
         /\ Put(f, k, v)[k] = v
         /\ \A x : x \in DOMAIN Put(f, k, v) <=> x \in DOMAIN f \/ x = k
         /\ \A x \in DOMAIN f : x # k => Put(f, k, v)[x] = f[x]
  BY DEF Put

\* An entry of the right type leaves a map well typed.
LEMMA PutType ==
  ASSUME NEW S, NEW T, NEW f, NEW k \in S, NEW v \in T, IsMap(f, S, T)
  PROVE  IsMap(Put(f, k, v), S, T)
  BY DEF Put, IsMap

\* What a map holds once an entry was taken out.
LEMMA WithoutFacts ==
  ASSUME NEW f, NEW k
  PROVE  /\ \A x : x \in DOMAIN Without(f, {k}) <=> x \in DOMAIN f /\ x # k
         /\ \A x \in DOMAIN f : x # k => Without(f, {k})[x] = f[x]
  BY DEF Without

\* A map stays well typed when an entry is taken out.
LEMMA WithoutType ==
  ASSUME NEW S, NEW T, NEW f, NEW k, IsMap(f, S, T)
  PROVE  IsMap(Without(f, {k}), S, T)
  BY DEF Without, IsMap

\* An item added to a storage gets the next number as id and revision.
LEMMA AddOneFacts ==
  ASSUME NEW st, NEW item, NEW t, item \in Contacts, StoreOK(st), t = AddOne(st, item)
  PROVE  /\ StoreOK(t) /\ t.clock = st.clock + 1 /\ t.gone = st.gone
         /\ t.items = Put(st.items, st.clock + 1, [item |-> item, rev |-> st.clock + 1])
<1> DEFINE i == [item |-> item, rev |-> st.clock + 1]
<1>1. /\ t = [items |-> Put(st.items, st.clock + 1, i), clock |-> st.clock + 1, gone |-> st.gone]
  BY DEF AddOne
<1>2. /\ t.items = Put(st.items, st.clock + 1, i) /\ t.clock = st.clock + 1 /\ t.gone = st.gone
  BY <1>1
<1>3. i \in Items /\ i.rev = st.clock + 1 /\ st.clock \in Nat
  BY DEF Items, StoreOK
<1> HIDE DEF i
<1>p. /\ t.items[st.clock + 1] = i
      /\ \A x : x \in DOMAIN t.items <=> x \in DOMAIN st.items \/ x = st.clock + 1
      /\ \A x \in DOMAIN st.items : x # st.clock + 1 => t.items[x] = st.items[x]
  BY <1>2 DEF Put
<1>4. IsMap(st.items, 1..t.clock, Items) /\ IsMap(st.gone, 1..t.clock, 1..t.clock)
  BY <1>2, <1>3 DEF StoreOK, IsMap
<1>5. IsMap(t.items, 1..t.clock, Items)
  <2>1. st.clock + 1 \in 1..t.clock
    BY <1>2, <1>3
  <2> QED
    BY <1>2, <1>3, <1>4, <2>1, PutType
<1>6. \A id \in DOMAIN t.items : t.items[id].rev \in 1..t.clock
  <2> SUFFICES ASSUME NEW id \in DOMAIN t.items PROVE t.items[id].rev \in 1..t.clock
    OBVIOUS
  <2>1. CASE id = st.clock + 1
    BY <1>2, <1>3, <2>1, <1>p
  <2>2. CASE id # st.clock + 1
    BY <1>2, <1>3, <2>2, <1>p DEF StoreOK
  <2> QED
    BY <2>1, <2>2
<1>7. \A id \in DOMAIN t.gone : id \notin DOMAIN t.items
  BY <1>2, <1>3, <1>p DEF StoreOK, IsMap
<1>8. StoreOK(t)
  BY <1>1, <1>2, <1>3, <1>4, <1>5, <1>6, <1>7 DEF StoreOK
<1> QED
  BY <1>2, <1>8 DEF i

\* A modified item keeps its id; the storage stays well typed.
LEMMA ModifyOneType ==
  ASSUME NEW st, NEW id, NEW item, NEW t, item \in Contacts, StoreOK(st), t = ModifyOne(st, id, item)
  PROVE  /\ StoreOK(t) /\ t.clock = st.clock + 1 /\ t.gone = st.gone
         /\ DOMAIN t.items = DOMAIN st.items
<1> DEFINE i == [item |-> item, rev |-> st.clock + 1]
           f == [st.items EXCEPT ![id] = i]
<1>1. /\ t = [items |-> f, clock |-> st.clock + 1, gone |-> st.gone]
  BY DEF ModifyOne
<1>2. /\ t.items = f /\ t.clock = st.clock + 1 /\ t.gone = st.gone
  BY <1>1
<1>3. i \in Items /\ i.rev = st.clock + 1 /\ st.clock \in Nat
  BY DEF Items, StoreOK
<1>4. IsMap(st.items, 1..t.clock, Items) /\ IsMap(st.gone, 1..t.clock, 1..t.clock)
  BY <1>2, <1>3 DEF StoreOK, IsMap
<1>5. /\ DOMAIN f = DOMAIN st.items /\ \A x \in DOMAIN f : f[x] = IF x = id THEN i ELSE st.items[x]
  OBVIOUS
<1>6. IsMap(f, 1..t.clock, Items)
  <2> HIDE DEF i
  <2> QED
    BY <1>3, <1>4 DEF IsMap
<1> HIDE DEF f, i
<1>7. \A x \in DOMAIN f : f[x].rev \in 1..t.clock
  BY <1>2, <1>3, <1>5 DEF StoreOK
<1>8. StoreOK(t)
  BY <1>1, <1>2, <1>3, <1>4, <1>5, <1>6, <1>7 DEF StoreOK
<1> QED
  BY <1>2, <1>5, <1>8

\* A modified item gets the next revision; the others stay.
LEMMA ModifyOneItems ==
  ASSUME NEW st, NEW id, NEW item
  PROVE  LET t == ModifyOne(st, id, item) IN
         /\ id \in DOMAIN st.items => t.items[id] = [item |-> item, rev |-> st.clock + 1]
         /\ \A x \in DOMAIN st.items : x # id => t.items[x] = st.items[x]
  BY DEF ModifyOne

\* A removal takes one item away and is remembered under the next number.
LEMMA RemoveOneFacts ==
  ASSUME NEW st, NEW id, NEW t, id \in DOMAIN st.items, StoreOK(st), t = RemoveOne(st, id)
  PROVE  /\ StoreOK(t) /\ t.clock = st.clock + 1
         /\ t.items = Without(st.items, {id}) /\ t.gone = Put(st.gone, id, st.clock + 1)
<1>1. /\ t = [items |-> Without(st.items, {id}), clock |-> st.clock + 1, gone |-> Put(st.gone, id, st.clock + 1)]
  BY DEF RemoveOne
<1>2. /\ t.items = Without(st.items, {id}) /\ t.clock = st.clock + 1
      /\ t.gone = Put(st.gone, id, st.clock + 1)
  BY <1>1
<1>3. st.clock \in Nat /\ id \in 1..t.clock /\ st.clock + 1 \in 1..t.clock
  BY <1>2 DEF StoreOK, IsMap
<1>p. /\ \A x : x \in DOMAIN t.items <=> x \in DOMAIN st.items /\ x # id
      /\ \A x \in DOMAIN t.items : t.items[x] = st.items[x]
      /\ \A x : x \in DOMAIN t.gone <=> x \in DOMAIN st.gone \/ x = id
  BY <1>2 DEF Put, Without
<1>4. IsMap(st.items, 1..t.clock, Items) /\ IsMap(st.gone, 1..t.clock, 1..t.clock)
  BY <1>2, <1>3 DEF StoreOK, IsMap
<1>5. IsMap(t.items, 1..t.clock, Items) /\ IsMap(t.gone, 1..t.clock, 1..t.clock)
  BY <1>2, <1>3, <1>4, PutType, WithoutType
<1>6. \A x \in DOMAIN t.items : t.items[x].rev \in 1..t.clock
  <2> SUFFICES ASSUME NEW x \in DOMAIN t.items PROVE t.items[x].rev \in 1..t.clock
    OBVIOUS
  <2>1. x \in DOMAIN st.items /\ t.items[x] = st.items[x]
    BY <1>p
  <2>2. st.items[x].rev \in 1..st.clock
    BY <2>1 DEF StoreOK
  <2> QED
    BY <1>2, <1>3, <2>1, <2>2
<1>7. \A x \in DOMAIN t.gone : x \notin DOMAIN t.items
  BY <1>2, <1>3, <1>p DEF StoreOK, IsMap
<1>8. StoreOK(t)
  <2>1. t.clock \in Nat
    BY <1>2, <1>3
  <2> QED
    BY <2>1, <1>5, <1>6, <1>7 DEF StoreOK
<1> QED
  BY <1>2, <1>8

-----------------------------------------------------------------------------
\* ApplyBatch(), a recursive function, applies one entry after the other.
LEMMA BatchSteps ==
  ASSUME NEW s, NEW kind, NEW m, NEW q, NEW w, Len(q) \in Nat, w = ApplyBatch(s, kind, m, q)
  PROVE  /\ w[0] = [st |-> store[s], m |-> m]
         /\ \A n \in 1..Len(q) : w[n] = ApplyOne(s, kind, w[n - 1], q[n])
<1> DEFINE L == Len(q)
           Step(v, n) == ApplyOne(s, kind, v, q[n])
           base == [st |-> store[s], m |-> m]
           Runs(b, g) == g = [i \in 0..b |-> g[i]] /\ g[0] = base /\ \A i \in 1..b :
                                                                       g[i] = Step(g[i - 1], i)
           Exists(b) == \E g : Runs(b, g)
           E == {b \in Nat : Exists(b)}
<1>0. w = CHOOSE g : g = [n \in 0..L |-> IF n = 0 THEN base ELSE Step(g[n - 1], n)]
  BY DEF ApplyBatch
<1> HIDE DEF base, Step
<1>1. 0 \in E
  <2>1. Runs(0, [i \in 0..0 |-> base])
    OBVIOUS
  <2> QED
    BY <2>1
<1>2. ASSUME NEW b \in Nat, b \in E PROVE b + 1 \in E
  <2>0. Exists(b)
    <3> HIDE DEF Exists
    <3> QED
      BY <1>2
  <2>1. PICK g : Runs(b, g)
    BY <2>0
  <2> DEFINE h == [i \in 0..b + 1 |-> IF i = b + 1 THEN Step(g[b], b + 1) ELSE g[i]]
  <2>3. h = [i \in 0..b + 1 |-> h[i]] /\ \A i \in 0..b : h[i] = g[i]
    OBVIOUS
  <2>4. h[0] = base /\ h[b + 1] = Step(h[b], b + 1)
    BY <2>1
  <2>6. \A i \in 1..b + 1 : (i \in 1..b /\ i \in 0..b /\ i - 1 \in 0..b) \/ (i = b + 1 /\ i - 1 = b)
    OBVIOUS
  <2> HIDE DEF h
  <2>7. \A i \in 1..b + 1 : h[i] = Step(h[i - 1], i)
    BY <2>1, <2>3, <2>4, <2>6
  <2>8. Runs(b + 1, h)
    BY <2>3, <2>4, <2>7
  <2> HIDE DEF Runs
  <2>9. Exists(b + 1)
    BY <2>8
  <2> HIDE DEF Exists
  <2> QED
    BY <2>9
<1>3. Exists(L)
  <2> HIDE DEF Exists
  <2>1. Nat \subseteq E
    <3> HIDE DEF E
    <3> QED
      BY <1>1, <1>2, NatSetInduction
  <2> QED
    BY <2>1
<1> HIDE DEF L
<1>4. PICK g : Runs(L, g)
  BY <1>3
<1>5. g = [n \in 0..L |-> IF n = 0 THEN base ELSE Step(g[n - 1], n)]
  <2>1. \A n \in 0..L : n = 0 \/ n \in 1..L
    BY DEF L
  <2>2. \A n \in 0..L : g[n] = IF n = 0 THEN base ELSE Step(g[n - 1], n)
    BY <1>4, <2>1
  <2>3. g = [n \in 0..L |-> g[n]]
    BY <1>4
  <2>4. [n \in 0..L |-> g[n]] = [n \in 0..L |-> IF n = 0 THEN base ELSE Step(g[n - 1], n)]
    BY <2>2
  <2> QED
    BY <2>3, <2>4, Zenon
<1>6. w = [n \in 0..L |-> IF n = 0 THEN base ELSE Step(w[n - 1], n)]
  BY <1>0, <1>5
<1> DEFINE e == [n \in 0..L |-> IF n = 0 THEN base ELSE Step(w[n - 1], n)]
<1>7. L \in Nat
  BY DEF L
<1>8. e[0] = base
  BY <1>7
<1>9. \A n \in 1..L : e[n] = Step(w[n - 1], n)
  BY <1>7
<1>10. w = e
  BY <1>6
<1> HIDE DEF e
<1> QED
  BY <1>8, <1>9, <1>10 DEF L, Step, base

-----------------------------------------------------------------------------
\* What the metadata holds after an association, by side.
LEMMA AssociateFacts ==
  ASSUME NEW m, NEW s \in Sides, NEW id, NEW rev, NEW obj
  PROVE  LET n == Associate(m, s, id, rev, obj) IN
         /\ DOMAIN n.rev = Sides
         /\ n.rev[s] = Put(m.rev[s], id, rev)
         /\ n.rev[Other(s)] = Put(m.rev[Other(s)], obj.id, obj.rev)
         /\ s = "remote" => n.map = Put(m.map, id, obj.id)
         /\ s = "local" => n.map = Put(m.map, obj.id, id)
         /\ n.token = m.token
<1>1. CASE s = "remote"
  BY <1>1 DEF Associate, AddItem, Other, Sides
<1>2. CASE s = "local"
  BY <1>2 DEF Associate, AddItem, Other, Sides
<1> QED
  BY <1>1, <1>2, SideFacts

\* addItem() keeps the metadata well typed.
LEMMA AddItemType ==
  ASSUME NEW m, NEW r \in Nat, NEW rrev \in Nat, NEW l \in Nat, NEW lrev \in Nat, MetaOK(m)
  PROVE  MetaOK(AddItem(m, r, rrev, l, lrev))
<1> DEFINE n == AddItem(m, r, rrev, l, lrev)
<1>1. /\ n.rev.local = Put(m.rev.local, l, lrev) /\ n.rev.remote = Put(m.rev.remote, r, rrev)
      /\ n.map = Put(m.map, r, l) /\ n.token = m.token /\ DOMAIN n.rev = Sides
  BY DEF AddItem, Sides
<1> HIDE DEF n
<1>2. IsMap(m.rev.local, Nat, Nat) /\ IsMap(m.rev.remote, Nat, Nat) /\ IsMap(m.map, Nat, Nat)
  BY SideFacts DEF MetaOK
<1>3. IsMap(n.rev.local, Nat, Nat) /\ IsMap(n.rev.remote, Nat, Nat) /\ IsMap(n.map, Nat, Nat)
  BY <1>1, <1>2, PutType
<1> QED
  BY <1>1, <1>3, SideFacts DEF MetaOK, ForSides, n

\* So does an association of an id of one side with an object of the other.
LEMMA AssociateType ==
  ASSUME NEW m, NEW s \in Sides, NEW id \in Nat, NEW rev \in Nat, NEW obj \in Objects, MetaOK(m)
  PROVE  MetaOK(Associate(m, s, id, rev, obj))
<1>1. obj.id \in Nat /\ obj.rev \in Nat
  BY DEF Objects
<1> QED
  BY <1>1, AddItemType DEF Associate

\* removeItem() keeps the metadata well typed.
LEMMA RemoveItemType ==
  ASSUME NEW m, NEW r, NEW l, MetaOK(m)
  PROVE  MetaOK(RemoveItem(m, r, l))
<1> DEFINE n == RemoveItem(m, r, l)
<1>1. /\ n.rev.local = Without(m.rev.local, {l}) /\ n.rev.remote = Without(m.rev.remote, {r})
      /\ n.map = Without(m.map, {r}) /\ n.token = m.token /\ DOMAIN n.rev = Sides
  BY DEF RemoveItem, Sides
<1> HIDE DEF n
<1>2. IsMap(m.rev.local, Nat, Nat) /\ IsMap(m.rev.remote, Nat, Nat) /\ IsMap(m.map, Nat, Nat)
  BY SideFacts DEF MetaOK
<1>3. IsMap(n.rev.local, Nat, Nat) /\ IsMap(n.rev.remote, Nat, Nat) /\ IsMap(n.map, Nat, Nat)
  BY <1>1, <1>2, WithoutType
<1> QED
  BY <1>1, <1>3, SideFacts DEF MetaOK, ForSides, n

\* updateLocalRevision() and updateRemoteRevision() touch one side only.
LEMMA UpdateFacts ==
  ASSUME NEW m, NEW s \in Sides, NEW id \in Nat, NEW rev \in Nat, MetaOK(m)
  PROVE  LET n == UpdateRevision(m, s, id, rev) IN
         /\ MetaOK(n) /\ n.map = m.map /\ n.token = m.token
         /\ n.rev[s] = Put(m.rev[s], id, rev) /\ n.rev[Other(s)] = m.rev[Other(s)]
<1> DEFINE n == UpdateRevision(m, s, id, rev)
<1>1. /\ n.rev = [m.rev EXCEPT ![s] = Put(@, id, rev)] /\ n.map = m.map /\ n.token = m.token
  BY DEF UpdateRevision
<1> HIDE DEF n
<1>2. DOMAIN n.rev = Sides /\ n.rev[s] = Put(m.rev[s], id, rev) /\ n.rev[Other(s)] = m.rev[Other(s)]
  BY <1>1, SideFacts DEF MetaOK, ForSides
<1>3. IsMap(n.rev[s], Nat, Nat)
  BY <1>2, PutType DEF MetaOK
<1>4. IsMap(n.rev[Other(s)], Nat, Nat)
  BY <1>2, SideFacts DEF MetaOK
<1>5. \A t \in Sides : IsMap(n.rev[t], Nat, Nat)
  BY <1>3, <1>4, SideFacts
<1>6. MetaOK(n)
  BY <1>1, <1>2, <1>5 DEF MetaOK, ForSides
<1> QED
  BY <1>1, <1>2, <1>6 DEF n

\* One entry of a batch that finds its item: types, and the ids that remain.
LEMMA ApplyTypes ==
  ASSUME NEW s \in Sides, NEW kind \in Kinds, NEW w, NEW e \in EntryType[kind],
         StoreOK(w.st), MetaOK(w.m), kind = "rem" => e \in DOMAIN w.st.items
  PROVE  LET t == ApplyOne(s, kind, w, e) IN
         /\ StoreOK(t.st) /\ MetaOK(t.m) /\ t.st.clock = w.st.clock + 1
         /\ kind # "rem" => \A x \in DOMAIN w.st.items : x \in DOMAIN t.st.items
         /\ kind = "rem" => \A x : x \in DOMAIN t.st.items <=> x \in DOMAIN w.st.items /\ x # e
<1> DEFINE t == ApplyOne(s, kind, w, e)
           new == w.st.clock + 1
<1>0. new \in Nat
  BY DEF StoreOK
<1>1. CASE kind = "add"
  <2>1. e \in Objects /\ e.item \in Contacts
    BY <1>1 DEF EntryType, Objects
  <2>2. t.st = AddOne(w.st, e.item) /\ t.m = Associate(w.m, s, new, new, e)
    BY <1>1 DEF ApplyOne
  <2> HIDE DEF t
  <2>3. /\ StoreOK(t.st) /\ t.st.clock = new
        /\ t.st.items = Put(w.st.items, new, [item |-> e.item, rev |-> new])
    BY <2>1, <2>2, AddOneFacts
  <2>4. MetaOK(t.m)
    BY <1>0, <2>1, <2>2, AssociateType
  <2>5. \A x \in DOMAIN w.st.items : x \in DOMAIN t.st.items
    BY <2>3 DEF Put
  <2> QED
    BY <1>1, <2>3, <2>4, <2>5 DEF t
<1>2. CASE kind = "mod"
  <2>1. e.id \in Nat /\ e.obj.item \in Contacts
    BY <1>2 DEF EntryType, Objects, Changes
  <2>2. t.st = ModifyOne(w.st, e.id, e.obj.item) /\ t.m = UpdateRevision(w.m, s, e.id, new)
    BY <1>2 DEF ApplyOne
  <2> HIDE DEF t
  <2>3. StoreOK(t.st) /\ t.st.clock = new /\ DOMAIN t.st.items = DOMAIN w.st.items
    BY <2>1, <2>2, ModifyOneType
  <2>4. MetaOK(t.m)
    BY <1>0, <2>1, <2>2, UpdateFacts
  <2> QED
    BY <1>2, <2>3, <2>4 DEF t
<1>3. CASE kind = "rem"
  <2>2. t.st = RemoveOne(w.st, e) /\ t.m = w.m
    BY <1>3 DEF ApplyOne
  <2> HIDE DEF t
  <2>3. StoreOK(t.st) /\ t.st.clock = new /\ t.st.items = Without(w.st.items, {e})
    BY <1>3, <2>2, RemoveOneFacts
  <2>4. \A x : x \in DOMAIN t.st.items <=> x \in DOMAIN w.st.items /\ x # e
    BY <2>3 DEF Without
  <2> QED
    BY <1>3, <2>2, <2>3, <2>4 DEF t
<1> QED
  BY <1>1, <1>2, <1>3 DEF Kinds

\* Least() is the least element of a set of numbers.
LEMMA LeastFacts ==
  ASSUME NEW S, S \subseteq Nat, S # {}
  PROVE  Least(S) \in S /\ \A n \in S : Least(S) <= n
<1>1. \E n \in S : \A k \in S : n <= k
  BY LeastNatural
<1> QED
  BY <1>1 DEF Least

\* The entries before the first infeasible one find their items.
LEMMA FeasibleFacts ==
  ASSUME NEW s, NEW kind \in Kinds, NEW q, Len(q) \in Nat
  PROVE  /\ Feasible(s, kind, q) \in 0..Len(q)
         /\ \A k \in 1..Feasible(s, kind, q) :
              /\ kind = "mod" => q[k].id \in DOMAIN store[s].items
              /\ kind = "rem" => q[k] \in DOMAIN store[s].items /\ \A j \in 1..k - 1 : q[j] # q[k]
<1> DEFINE missing(k) == \/ Target(kind, q[k]) \notin DOMAIN store[s].items
                         \/ kind = "rem" /\ \E j \in 1..k-1 : q[j] = q[k]
           bad == {k \in 1..Len(q) : missing(k)}
           f == Feasible(s, kind, q)
<1>1. f = IF kind = "add" \/ bad = {} THEN Len(q) ELSE Least(bad) - 1
  BY DEF Feasible
<1>2. CASE kind = "add"
  BY <1>1, <1>2
<1>3. CASE kind # "add"
  <2>1. bad # {} => Least(bad) \in bad /\ \A n \in bad : Least(bad) <= n
    <3>1. bad \subseteq Nat
      OBVIOUS
    <3> HIDE DEF bad
    <3> QED
      BY <3>1, LeastFacts
  <2>2. bad # {} => Least(bad) \in 1..Len(q)
    BY <2>1
  <2>3. f \in 0..Len(q) /\ \A k \in 1..f : k \notin bad /\ k \in 1..Len(q)
    <3> HIDE DEF bad, f
    <3> QED
      BY <1>1, <1>3, <2>1, <2>2
  <2>4. \A k \in 1..f : ~missing(k)
    <3> HIDE DEF f, missing
    <3> QED
      BY <2>3
  <2> HIDE DEF f
  <2> QED
    BY <1>3, <2>3, <2>4 DEF Target, f
<1> QED
  BY <1>2, <1>3

\* A feasible part of a batch: types, the clock, and the ids that remain.
LEMMA BatchTypes ==
  ASSUME NEW s \in Sides, NEW kind \in Kinds, NEW m, NEW q \in Seq(EntryType[kind]), NEW w,
         w = ApplyBatch(s, kind, m, q), StoreOK(store[s]), MetaOK(m)
  PROVE  \A n \in 0..Feasible(s, kind, q) :
           /\ StoreOK(w[n].st) /\ MetaOK(w[n].m) /\ w[n].st.clock = store[s].clock + n
           /\ kind # "rem" => \A x \in DOMAIN store[s].items : x \in DOMAIN w[n].st.items
           /\ kind = "rem" => \A x : x \in DOMAIN w[n].st.items
                                     <=> x \in DOMAIN store[s].items /\ \A k \in 1..n : q[k] # x
<1> DEFINE f == Feasible(s, kind, q)
           P(n) == /\ StoreOK(w[n].st) /\ MetaOK(w[n].m) /\ w[n].st.clock = store[s].clock + n
                   /\ kind # "rem" => \A x \in DOMAIN store[s].items : x \in DOMAIN w[n].st.items
                   /\ kind = "rem" => \A x : x \in DOMAIN w[n].st.items
                                             <=> x \in DOMAIN store[s].items /\ \A k \in 1..n :
                                                                                  q[k] # x
           E == {n \in Nat : n <= f => P(n)}
<1>0. /\ f \in 0..Len(q) /\ Len(q) \in Nat
      /\ \A k \in 1..f :
           kind = "rem" => q[k] \in DOMAIN store[s].items /\ \A j \in 1..k - 1 : q[j] # q[k]
  BY FeasibleFacts
<1>1. /\ w[0] = [st |-> store[s], m |-> m]
      /\ \A n \in 1..Len(q) : w[n] = ApplyOne(s, kind, w[n - 1], q[n])
  BY <1>0, BatchSteps
<1> HIDE DEF f
<1>2. 0 \in E
  <2>1. w[0].st = store[s] /\ w[0].m = m
    BY <1>1
  <2>2. store[s].clock + 0 = store[s].clock
    BY DEF StoreOK
  <2>3. P(0)
    BY <2>1, <2>2
  <2> QED
    BY <2>3
<1>3. ASSUME NEW n \in Nat, n \in E PROVE n + 1 \in E
  <2> SUFFICES ASSUME n + 1 <= f PROVE P(n + 1)
    <3> HIDE DEF P
    <3> QED
      OBVIOUS
  <2>1. P(n)
    <3>1. n <= f
      BY <1>0
    <3> HIDE DEF P
    <3> QED
      BY <1>3, <3>1
  <2>2. n + 1 \in 1..f /\ n + 1 \in 1..Len(q) /\ (n + 1) - 1 = n
    BY <1>0
  <2>3. w[n + 1] = ApplyOne(s, kind, w[n], q[n + 1]) /\ q[n + 1] \in EntryType[kind]
    BY <1>1, <2>2
  <2>4. kind = "rem" => q[n + 1] \in DOMAIN w[n].st.items
    BY <1>0, <2>1, <2>2
  <2> DEFINE t == w[n + 1]
  <2>5. /\ StoreOK(t.st) /\ MetaOK(t.m) /\ t.st.clock = w[n].st.clock + 1
        /\ kind # "rem" => \A x \in DOMAIN w[n].st.items : x \in DOMAIN t.st.items
        /\ kind = "rem" => \A x :
                             x \in DOMAIN t.st.items <=> x \in DOMAIN w[n].st.items /\ x # q[n + 1]
    BY <2>1, <2>3, <2>4, ApplyTypes
  <2>6. store[s].clock + n + 1 = store[s].clock + (n + 1)
    BY DEF StoreOK
  <2>7. \A k \in 1..n + 1 : k \in 1..n \/ k = n + 1
    OBVIOUS
  <2>8. \A k \in 1..n : k \in 1..n + 1
    OBVIOUS
  <2>9. n + 1 \in 1..n + 1
    OBVIOUS
  <2> HIDE DEF t
  <2>10. kind = "rem" => \A x : x \in DOMAIN t.st.items
                                 <=> x \in DOMAIN store[s].items /\ \A k \in 1..n + 1 : q[k] # x
    BY <2>1, <2>5, <2>7, <2>8, <2>9
  <2> QED
    BY <2>1, <2>5, <2>6, <2>10 DEF t
<1>4. Nat \subseteq E
  <2> HIDE DEF E
  <2> QED
    BY <1>2, <1>3, NatSetInduction
<1>5. \A n \in 0..f : P(n)
  <2> HIDE DEF P
  <2> QED
    BY <1>0, <1>4
<1> QED
  BY <1>5 DEF f

-----------------------------------------------------------------------------
(* The type invariant, by parts.                                           *)
StoresOK == DOMAIN store = Sides /\ \A s \in Sides : StoreOK(store[s])

QueuesOK ==
  /\ DOMAIN queue = Sides
  /\ \A s \in Sides : QueueOK(queue[s])
  /\ \A s \in Sides, kind \in Kinds : "flush" \notin faulty => Len(queue[s][kind]) <= BatchSize

PlainOK ==
  /\ MetaOK(meta) /\ (saved # NoMeta => MetaOK(saved))
  /\ hasMeta \in BOOLEAN /\ dbError \in BOOLEAN /\ inputError \in BOOLEAN /\ cancelSync \in BOOLEAN
  /\ touched \in BOOLEAN /\ synced \in BOOLEAN
  /\ faulty \subseteq Faults

Detecting == {"detectLocal", "detectRemote", "fetchLocal", "fetchRemote"}
FirstPcs  == {"index", "scan", "saveLocal", "rest", "saveRemote"}
Places    == Detecting \cup FirstPcs \cup {"idle", "resolve", "match", "saveAll", "tokens"}

PlaceOK ==
  /\ pc \in Places
  /\ result \in Ok \cup {"None", "Fail", "Cancelled"}
  /\ class \in 0..8 /\ plan \in Nat
  /\ pc \in Detecting \cup {"idle"} => todo = {}

FoundOK ==
  /\ DOMAIN revs = Sides /\ DOMAIN state = Sides /\ DOMAIN fresh = Sides /\ DOMAIN changed = Sides
  /\ \A s \in Sides : /\ IsMap(revs[s], Nat, Nat) /\ IsMap(state[s], Nat, States)
                      /\ fresh[s] \subseteq Objects /\ IsMap(changed[s], Nat, Objects)

\* The entries of the index, and of the loops over it, are items.
Stored(e) == \E s \in Sides : \E id \in DOMAIN store[s].items : e = <<s, id>>

ScanOK ==
  /\ pc = "scan" => \A e \in todo : e[1] = "remote" /\ Stored(e)
  /\ pc \in {"scan", "saveLocal", "rest"} =>
       \A e \in DOMAIN index : Stored(e) /\ (index[e] = "NOT_FOUND" => e[1] = "local")
  /\ pc = "rest" => todo \subseteq DOMAIN index

\* What was detected of a side.
Calm(s) == \A x \in DOMAIN state[s] : state[s][x] # "Modified"
Fetched(s) == \A x \in DOMAIN state[s] : state[s][x] = "Modified" => x \in DOMAIN changed[s]

Reported(s) == \A x \in DOMAIN revs[s] : x \in DOMAIN store[s].items

StatesOK ==
  /\ pc \in {"detectRemote", "fetchLocal"} => Calm("local") /\ Reported("local")
  /\ pc \in {"fetchLocal", "fetchRemote"} => Calm("remote") /\ Reported("remote")
  /\ pc \in {"fetchRemote", "resolve"} => Fetched("local")
  /\ pc = "resolve" => Fetched("remote")
  /\ pc = "resolve" => \A p \in todo :
       /\ class \in DOMAIN Classes /\ p[1] \in Nat /\ p[2] \in Nat
       /\ StateOf("remote", p[1]) = Classes[class].remote
       /\ StateOf("local", p[2]) = Classes[class].local

TypeInv == StoresOK /\ QueuesOK /\ PlainOK /\ PlaceOK /\ FoundOK /\ ScanOK /\ StatesOK

\* The inductive invariant implies the type invariant that TLC checks.
LEMMA TypeInvIsEnough == TypeInv => TypeOK
<1> SUFFICES ASSUME TypeInv PROVE TypeOK
  OBVIOUS
<1> USE DEF TypeInv
<1>1. pc \in Places /\ result \in Ok \cup {"None", "Fail", "Cancelled"} /\ class \in 0..8
  BY DEF PlaceOK, Detecting
<1>2. Len(Classes) = 8
  BY DEF Classes
<1>3. /\ faulty \subseteq Faults
      /\ {hasMeta, dbError, inputError, cancelSync, touched, synced} \subseteq BOOLEAN
  BY DEF PlainOK
<1>4. ASSUME NEW s \in Sides, NEW id \in DOMAIN store[s].items
      PROVE  store[s].items[id].item \in Contacts /\ {id, store[s].items[id].rev} \subseteq 1..store[s].clock
  <2>1. StoreOK(store[s])
    BY DEF StoresOK
  <2>2. /\ store[s].items[id] \in Items /\ id \in 1..store[s].clock
        /\ store[s].items[id].rev \in 1..store[s].clock
    BY <2>1 DEF StoreOK, IsMap
  <2> QED
    BY <2>2 DEF Items
<1>5. ASSUME NEW s \in Sides, NEW id \in DOMAIN state[s] PROVE state[s][id] \in States
  BY DEF FoundOK, IsMap
<1>6. \A s \in Sides, kind \in Kinds : "flush" \notin faulty => Len(queue[s][kind]) <= BatchSize
  BY DEF QueuesOK
<1> QED
  BY <1>1, <1>2, <1>3, <1>4, <1>5, <1>6 DEF TypeOK, Places, Detecting, FirstPcs

\* The empty map has any type.
LEMMA EmptyMap == \A S, T : IsMap(<<>>, S, T)
  BY DEF IsMap

\* The empty metadata and the empty queues are well typed.
LEMMA EmptyTypes ==
  /\ MetaOK(EmptyMeta)
  /\ DOMAIN NoRevisions = Sides /\ \A s \in Sides : NoRevisions[s] = <<>>
  /\ QueueOK(NoQueue) /\ \A kind \in Kinds : NoQueue[kind] = <<>>
<1>1. DOMAIN NoRevisions = Sides /\ \A s \in Sides : NoRevisions[s] = <<>>
  BY DEF NoRevisions, Sides
<1>2. DOMAIN NoQueue = Kinds /\ \A kind \in Kinds : NoQueue[kind] = <<>>
  BY DEF NoQueue, Kinds
<1>3. QueueOK(NoQueue)
  <2>1. \A S : <<>> \in Seq(S)
    OBVIOUS
  <2> HIDE DEF NoQueue
  <2> QED
    BY <1>2, <2>1 DEF QueueOK
<1>4. EmptyMeta.rev = NoRevisions /\ EmptyMeta.map = <<>> /\ EmptyMeta.token \in [Sides -> Nat]
  BY DEF EmptyMeta
<1>5. MetaOK(EmptyMeta)
  BY <1>1, <1>4, EmptyMap DEF MetaOK, ForSides
<1> QED
  BY <1>1, <1>2, <1>3, <1>5

\* Initially the types are right.
LEMMA InitTypes == Init => TypeInv
<1> SUFFICES ASSUME Init PROVE TypeInv
  OBVIOUS
<1>1. StoresOK
  <2>1. PICK n \in 0..MaxInitial, k \in 0..MaxInitial : \E f \in [1..n -> Contacts], g \in [1..k -> Contacts] :
          store = [local  |-> [items |-> InitialItems(n, f), clock |-> n + 1, gone |-> <<>>],
                   remote |-> [items |-> InitialItems(k, g), clock |-> k + 1, gone |-> <<>>]]
    BY Zenon DEF Init
  <2>2. PICK f \in [1..n -> Contacts], g \in [1..k -> Contacts] :
          store = [local  |-> [items |-> InitialItems(n, f), clock |-> n + 1, gone |-> <<>>],
                   remote |-> [items |-> InitialItems(k, g), clock |-> k + 1, gone |-> <<>>]]
    BY <2>1
  <2>3. ASSUME NEW j \in 0..MaxInitial, NEW h \in [1..j -> Contacts], NEW st,
               st.items = InitialItems(j, h), st.clock = j + 1, st.gone = <<>>
        PROVE  StoreOK(st)
    <3>0. j \in Nat
      BY TwoWaySyncAssumption
    <3>1. /\ DOMAIN st.items = 1..j /\ st.items \in [1..j -> Items]
          /\ \A i \in 1..j : st.items[i].rev = i /\ i \in 1..j + 1
      BY <2>3, <3>0 DEF InitialItems, Items
    <3>2. /\ IsMap(st.items, 1..st.clock, Items)
          /\ \A i \in DOMAIN st.items : st.items[i].rev \in 1..st.clock
      BY <2>3, <3>1 DEF IsMap
    <3>3. IsMap(st.gone, 1..st.clock, 1..st.clock) /\ DOMAIN st.gone = {}
      BY <2>3, EmptyMap
    <3> QED
      BY <2>3, <3>0, <3>2, <3>3 DEF StoreOK
  <2>4. /\ DOMAIN store = {"local", "remote"}
        /\ store["local"].items = InitialItems(n, f) /\ store["local"].clock = n + 1
        /\ store["local"].gone = <<>>
        /\ store["remote"].items = InitialItems(k, g) /\ store["remote"].clock = k + 1
        /\ store["remote"].gone = <<>>
    BY <2>2
  <2>5. StoreOK(store["local"]) /\ StoreOK(store["remote"])
    BY <2>3, <2>4
  <2> QED
    BY <2>4, <2>5 DEF StoresOK, Sides
<1>2. QueuesOK
  <2>1. DOMAIN queue = Sides /\ \A s \in Sides : queue[s] = NoQueue
    BY DEF Init, Sides
  <2>2. Len(<<>>) = 0 /\ 0 <= BatchSize
    BY TwoWaySyncAssumption
  <2> QED
    BY <2>1, <2>2, EmptyTypes DEF QueuesOK
<1>3. PlainOK
  BY EmptyTypes DEF Init, PlainOK
<1>4. PlaceOK
  BY DEF Init, PlaceOK, Places, Detecting
<1>5. FoundOK
  <2>1. revs = NoRevisions /\ state = NoRevisions /\ changed = NoRevisions
    BY DEF Init
  <2>2. DOMAIN fresh = Sides /\ \A s \in Sides : fresh[s] = {}
    BY DEF Init, Sides
  <2> QED
    BY <2>1, <2>2, EmptyTypes, EmptyMap DEF FoundOK
<1>6. ScanOK /\ StatesOK
  BY DEF Init, ScanOK, StatesOK, Detecting
<1> QED
  BY <1>1, <1>2, <1>3, <1>4, <1>5, <1>6 DEF TypeInv

-----------------------------------------------------------------------------
\* One storage is replaced by a well typed one.
LEMMA StoreUpdate ==
  ASSUME NEW s \in Sides, NEW st, StoresOK, StoreOK(st), store' = [store EXCEPT ![s] = st]
  PROVE  StoresOK' /\ store'[s] = st /\ store'[Other(s)] = store[Other(s)]
<1>1. /\ DOMAIN store' = Sides /\ store'[s] = st /\ \A t \in Sides : t # s => store'[t] = store[t]
  BY DEF StoresOK
<1> QED
  BY <1>1, SideFacts DEF StoresOK

\* One queue is replaced: the other five stay.
LEMMA QueueUpdate ==
  ASSUME NEW s \in Sides, NEW kind \in Kinds, NEW q \in Seq(EntryType[kind]), QueuesOK,
         queue' = [queue EXCEPT ![s][kind] = q]
  PROVE  /\ DOMAIN queue' = Sides /\ \A t \in Sides : QueueOK(queue'[t])
         /\ queue'[s][kind] = q
         /\ \A t \in Sides, k \in Kinds : t # s \/ k # kind => queue'[t][k] = queue[t][k]
<1>1. DOMAIN queue' = Sides /\ queue'[s] = [queue[s] EXCEPT ![kind] = q]
      /\ \A t \in Sides : t # s => queue'[t] = queue[t]
  BY DEF QueuesOK
<1>2. DOMAIN queue[s] = Kinds
  BY DEF QueuesOK, QueueOK
<1>3. /\ DOMAIN queue'[s] = Kinds /\ queue'[s][kind] = q
      /\ \A k \in Kinds : k # kind => queue'[s][k] = queue[s][k]
  BY <1>1, <1>2
<1>4. QueueOK(queue'[s])
  BY <1>3 DEF QueueOK, QueuesOK
<1>5. \A t \in Sides : t # s => QueueOK(queue'[t])
  BY <1>1 DEF QueuesOK
<1> QED
  BY <1>1, <1>3, <1>4, <1>5

\* The same, with the bound on the length of a queue.
LEMMA QueueTypes ==
  ASSUME NEW s \in Sides, NEW kind \in Kinds, NEW q \in Seq(EntryType[kind]), QueuesOK,
         queue' = [queue EXCEPT ![s][kind] = q], faulty \subseteq faulty',
         "flush" \notin faulty' => Len(q) <= BatchSize
  PROVE  QueuesOK'
<1>1. \A t \in Sides, k \in Kinds : "flush" \notin faulty' => Len(queue'[t][k]) <= BatchSize
  BY QueueUpdate DEF QueuesOK
<1> QED
  BY <1>1, QueueUpdate DEF QueuesOK

FlushKeeps(kind) ==
  /\ StoresOK' /\ QueuesOK' /\ MetaOK(meta') /\ dbError' \in BOOLEAN
  /\ faulty \subseteq faulty' /\ faulty' \subseteq Faults
  /\ kind # "rem" => \A t \in Sides : \A x \in DOMAIN store[t].items : x \in DOMAIN store'[t].items

\* A flush, successful or not, keeps stores, queues and metadata well typed.
LEMMA FlushTypes ==
  ASSUME NEW s \in Sides, NEW kind \in Kinds, NEW q \in Seq(EntryType[kind]), NEW m,
         StoresOK, QueuesOK, PlainOK, MetaOK(m), Flush(s, kind, q, m)
  PROVE  FlushKeeps(kind)
<1> DEFINE w == ApplyBatch(s, kind, m, q)
           L == Len(q)
           F == Feasible(s, kind, q)
<1>0. StoreOK(store[s]) /\ L \in Nat /\ F \in 0..L
  BY FeasibleFacts DEF StoresOK
<1>1. \A n \in 0..F : /\ StoreOK(w[n].st) /\ MetaOK(w[n].m)
                      /\ kind # "rem" => \A x \in DOMAIN store[s].items : x \in DOMAIN w[n].st.items
  BY <1>0, BatchTypes
<1> HIDE DEF w, L, F
<1>2. ASSUME NEW n \in 0..F, store' = [store EXCEPT ![s] = w[n].st]
      PROVE  /\ StoresOK'
             /\ kind # "rem" => \A t \in Sides :
                                  \A x \in DOMAIN store[t].items : x \in DOMAIN store'[t].items
  <2>1. StoresOK' /\ store'[s] = w[n].st /\ store'[Other(s)] = store[Other(s)]
    BY <1>1, <1>2, StoreUpdate
  <2> QED
    BY <1>1, <2>1, SideFacts
<1>3. CASE /\ F = L /\ store' = [store EXCEPT ![s] = w[L].st] /\ meta' = w[L].m
           /\ queue' = [queue EXCEPT ![s][kind] = <<>>] /\ UNCHANGED <<dbError, faultVars>>
  <2>1. L \in 0..F
    BY <1>0, <1>3
  <2>2. <<>> \in Seq(EntryType[kind]) /\ Len(<<>>) <= BatchSize
    BY TwoWaySyncAssumption
  <2>3. faulty' = faulty /\ dbError' = dbError
    BY <1>3 DEF faultVars
  <2>4. QueuesOK'
    BY <1>3, <2>2, <2>3, QueueTypes
  <2> QED
    BY <1>1, <1>2, <1>3, <2>1, <2>3, <2>4 DEF FlushKeeps, PlainOK
<1>4. CASE /\ \E n \in 0..F : /\ store' = [store EXCEPT ![s] = w[n].st]
                              /\ faulty' = faulty \cup {"flush"}
           /\ queue' = [queue EXCEPT ![s][kind] = q] /\ meta' = m /\ dbError' = TRUE
  <2>1. PICK n \in 0..F : store' = [store EXCEPT ![s] = w[n].st] /\ faulty' = faulty \cup {"flush"}
    BY <1>4
  <2>2. QueuesOK'
    BY <1>4, <2>1, QueueTypes
  <2>3. faulty \subseteq faulty' /\ faulty' \subseteq Faults
    BY <2>1 DEF PlainOK, Faults
  <2> QED
    BY <1>2, <1>4, <2>1, <2>2, <2>3 DEF FlushKeeps
<1> QED
  BY <1>3, <1>4 DEF Flush, Fault, w, L, F

\* So does an entry put into a queue, with the flush that may follow.
LEMMA EnqueueTypes ==
  ASSUME NEW s \in Sides, NEW kind \in Kinds, NEW e \in EntryType[kind], NEW m,
         StoresOK, QueuesOK, PlainOK, MetaOK(m), Enqueue(s, kind, e, m)
  PROVE  FlushKeeps(kind) /\ touched' = TRUE
<1> DEFINE q == Append(queue[s][kind], e)
<1>1. q \in Seq(EntryType[kind]) /\ Len(q) \in Nat
  <2>1. queue[s][kind] \in Seq(EntryType[kind])
    BY DEF QueuesOK, QueueOK
  <2> HIDE DEF EntryType
  <2>2. q \in Seq(EntryType[kind])
    BY <2>1, AppendFacts
  <2> HIDE DEF q
  <2> QED
    BY <2>2
<1> HIDE DEF q
<1>2. CASE Len(q) > BatchSize /\ Flush(s, kind, q, m)
  BY <1>1, <1>2, FlushTypes DEF Enqueue
<1>3. CASE /\ ~(Len(q) > BatchSize) /\ queue' = [queue EXCEPT ![s][kind] = q] /\ meta' = m
           /\ UNCHANGED <<store, dbError, faultVars>>
  <2>1. Len(q) <= BatchSize /\ faulty' = faulty /\ store' = store /\ dbError' = dbError
    BY <1>1, <1>3, TwoWaySyncAssumption DEF faultVars
  <2>2. QueuesOK'
    BY <1>1, <1>3, <2>1, QueueTypes
  <2> QED
    BY <1>3, <2>1, <2>2 DEF FlushKeeps, PlainOK, StoresOK, Enqueue
<1> QED
  BY <1>2, <1>3 DEF Enqueue, q

\* An item of a storage as the engine sees it.
LEMMA ObjType ==
  ASSUME NEW s \in Sides, NEW id, id \in DOMAIN store[s].items, StoresOK
  PROVE  Obj(s, id) \in Objects /\ Obj(s, id).id = id /\ id \in Nat
<1>1. store[s].items[id] \in Items /\ id \in Nat
  BY DEF StoresOK, StoreOK, IsMap
<1> QED
  BY <1>1 DEF Obj, Objects, Items

\* Nothing is asked of the loops of a run that is over.
LEMMA IdleTypes ==
  ASSUME pc' = "idle"
  PROVE  ScanOK' /\ StatesOK'
  BY DEF ScanOK, StatesOK

\* Nor of what a run had found out, once it is cleared.
LEMMA ClearedTypes ==
  ASSUME revs' = NoRevisions, state' = NoRevisions, changed' = NoRevisions,
         fresh' = [local |-> {}, remote |-> {}]
  PROVE  FoundOK'
<1>1. DOMAIN fresh' = Sides /\ \A s \in Sides : fresh'[s] = {}
  BY DEF Sides
<1>2. \A s \in Sides : revs'[s] = <<>> /\ state'[s] = <<>> /\ changed'[s] = <<>>
  BY EmptyTypes
<1> QED
  BY <1>1, <1>2, EmptyTypes, EmptyMap DEF FoundOK

\* The end of a run.
LEMMA ReturnTypes ==
  ASSUME NEW res \in Ok \cup {"None", "Fail", "Cancelled"}, Return(res)
  PROVE  PlaceOK' /\ FoundOK' /\ ScanOK' /\ StatesOK' /\ synced' \in BOOLEAN
<1>1. PlaceOK' /\ synced' \in BOOLEAN
  BY DEF Return, PlaceOK, Places, Ok, Detecting
<1> QED
  BY <1>1, IdleTypes, ClearedTypes DEF Return

\* doSynchronize() returns one of five values.
LEMMA OutcomeType == Outcome \in Ok \cup {"None", "Fail", "Cancelled"}
  BY DEF Outcome, Ok

\* Synchronize keeps the types.
LEMMA SynchronizeTypes == ASSUME TypeInv, Synchronize PROVE TypeInv'
<1>1. StoresOK' /\ FoundOK'
  BY DEF TypeInv, Synchronize, StoresOK, FoundOK, fullVars
<1>2. /\ faulty' \subseteq Faults /\ ("flush" \notin faulty' => "flush" \notin faulty)
      /\ synced' = FALSE /\ touched' = FALSE /\ dbError' = FALSE
  BY DEF TypeInv, Synchronize, PlainOK, Faults
<1>3. QueuesOK'
  BY <1>2 DEF TypeInv, Synchronize, QueuesOK
<1>4. PlainOK'
  BY <1>2 DEF TypeInv, Synchronize, PlainOK
<1>5. PlaceOK'
  BY DEF TypeInv, Synchronize, PlaceOK, fullVars, scanVars, Places, Detecting, FirstPcs
<1>6. ScanOK' /\ StatesOK'
  BY DEF Synchronize, ScanOK, StatesOK
<1> QED
  BY <1>1, <1>3, <1>4, <1>5, <1>6 DEF TypeInv

\* StorageInitFails keeps the types.
LEMMA StorageInitFailsTypes == ASSUME TypeInv, StorageInitFails PROVE TypeInv'
<1> USE DEF TypeInv, StorageInitFails
<1>1. StoresOK' /\ FoundOK'
  BY DEF StoresOK, FoundOK, fullVars
<1>2. QueuesOK' /\ PlainOK'
  BY DEF QueuesOK, PlainOK, engineVars, Fault, histVars
<1>3. PlaceOK'
  BY DEF PlaceOK, fullVars, scanVars, Detecting
<1>4. ScanOK' /\ StatesOK'
  BY IdleTypes
<1> QED
  BY <1>1, <1>2, <1>3, <1>4

\* Cancel keeps the types.
LEMMA CancelTypes == ASSUME TypeInv, Cancel PROVE TypeInv'
<1> USE DEF TypeInv, Cancel
<1>1. StoresOK' /\ FoundOK'
  BY DEF StoresOK, FoundOK, fullVars
<1>2. QueuesOK' /\ PlainOK'
  BY DEF QueuesOK, PlainOK, Fault, histVars
<1>3. PlaceOK'
  BY DEF PlaceOK, fullVars, scanVars, Detecting
<1>4. ScanOK'
  BY DEF ScanOK, Stored, scanVars
<1>5. StatesOK'
  BY DEF StatesOK, Calm, Reported, Fetched, StateOf, fullVars, scanVars
<1> QED
  BY <1>1, <1>2, <1>3, <1>4, <1>5

\* Conclude keeps the types: tokens are clocks.
LEMMA ConcludeTypes == ASSUME TypeInv, Conclude PROVE TypeInv'
<1>0. /\ store' = store /\ queue' = queue /\ hasMeta' = hasMeta /\ dbError' = dbError
      /\ inputError' = inputError /\ cancelSync' = cancelSync /\ touched' = touched
      /\ saved' = meta' /\ Return(Outcome)
  BY DEF Conclude
<1>1. PlaceOK' /\ FoundOK' /\ ScanOK' /\ StatesOK' /\ synced' \in BOOLEAN
  BY <1>0, OutcomeType, ReturnTypes
<1>2. faulty \subseteq faulty' /\ faulty' \subseteq Faults
  BY DEF Conclude, Fault, TypeInv, PlainOK, Faults
<1>3. \E S : meta' = WithTokens(meta, S)
  BY DEF Conclude
<1>4. ASSUME NEW S, NEW t, t = WithTokens(meta, S) PROVE MetaOK(t)
  <2>1. /\ t.rev = meta.rev /\ t.map = meta.map
        /\ t.token = [s \in Sides |-> IF s \in S THEN store[s].clock ELSE 0]
    BY <1>4 DEF WithTokens
  <2>2. \A s \in Sides : store[s].clock \in Nat
    BY DEF TypeInv, StoresOK, StoreOK
  <2>3. t.token \in [Sides -> Nat]
    BY <2>1, <2>2
  <2> QED
    BY <2>1, <2>3 DEF MetaOK, TypeInv, PlainOK
<1>5. MetaOK(meta')
  BY <1>3, <1>4
<1>6. PlainOK'
  BY <1>0, <1>1, <1>2, <1>5 DEF PlainOK, TypeInv
<1>7. StoresOK' /\ QueuesOK'
  BY <1>0, <1>2 DEF StoresOK, QueuesOK, TypeInv
<1> QED
  BY <1>1, <1>6, <1>7 DEF TypeInv

\* Edit keeps the types.
LEMMA EditTypes == ASSUME TypeInv, Edit PROVE TypeInv'
<1>1. PICK s \in Sides :
       \/ \E item \in Contacts : store' = [store EXCEPT ![s] = AddOne(@, item)]
       \/ \E id \in DOMAIN store[s].items, item \in Contacts :
            store' = [store EXCEPT ![s] = ModifyOne(@, id, item)]
       \/ \E id \in DOMAIN store[s].items : store' = [store EXCEPT ![s] = RemoveOne(@, id)]
  BY DEF Edit
<1>2. StoreOK(store[s]) /\ DOMAIN store = Sides
  BY DEF TypeInv, StoresOK
<1>3. StoresOK'
  <2>1. CASE \E item \in Contacts : store' = [store EXCEPT ![s] = AddOne(@, item)]
    <3>1. PICK item \in Contacts : store' = [store EXCEPT ![s] = AddOne(store[s], item)]
      BY <2>1
    <3>2. StoreOK(AddOne(store[s], item))
      BY <1>2, AddOneFacts
    <3> QED
      BY <3>1, <3>2, StoreUpdate DEF TypeInv
  <2>2. CASE \E id \in DOMAIN store[s].items, item \in Contacts :
               store' = [store EXCEPT ![s] = ModifyOne(@, id, item)]
    <3>1. PICK id \in DOMAIN store[s].items, item \in Contacts : store' = [store EXCEPT ![s] = ModifyOne(store[s], id, item)]
      BY <2>2
    <3>2. StoreOK(ModifyOne(store[s], id, item))
      BY <1>2, ModifyOneType
    <3> QED
      BY <3>1, <3>2, StoreUpdate DEF TypeInv
  <2>3. CASE \E id \in DOMAIN store[s].items : store' = [store EXCEPT ![s] = RemoveOne(@, id)]
    <3>1. PICK id \in DOMAIN store[s].items : store' = [store EXCEPT ![s] = RemoveOne(store[s], id)]
      BY <2>3
    <3>2. StoreOK(RemoveOne(store[s], id))
      BY <1>2, RemoveOneFacts
    <3> QED
      BY <3>1, <3>2, StoreUpdate DEF TypeInv
  <2> QED
    BY <1>1, <2>1, <2>2, <2>3
<1>4. QueuesOK' /\ PlainOK'
  BY DEF Edit, Forget, TypeInv, QueuesOK, PlainOK, engineVars, faultVars
<1>5. FoundOK' /\ PlaceOK'
  BY DEF Edit, Forget, TypeInv, FoundOK, PlaceOK, fullVars, scanVars, Detecting
<1>6. ScanOK' /\ StatesOK'
  BY IdleTypes DEF Edit
<1> QED
  BY <1>3, <1>4, <1>5, <1>6 DEF TypeInv

\* A new object starts well typed, with the metadata saved last or none.
LEMMA NewObjectTypes ==
  ASSUME TypeInv, NEW m \in {saved, NoMeta}, NewObject(m),
  faulty \subseteq faulty', faulty' \subseteq Faults,
         result' = "None", synced' \in BOOLEAN
  PROVE  TypeInv'
<1>1. StoresOK' /\ FoundOK' /\ ScanOK' /\ StatesOK'
  BY IdleTypes, ClearedTypes DEF NewObject, TypeInv, StoresOK
<1>2. PlaceOK'
  BY DEF NewObject, PlaceOK, Places, Detecting
<1>3. QueuesOK'
  <2>1. DOMAIN queue' = Sides /\ \A s \in Sides : queue'[s] = NoQueue
    BY DEF NewObject, Sides
  <2>2. Len(<<>>) = 0 /\ 0 <= BatchSize
    BY TwoWaySyncAssumption
  <2> QED
    BY <2>1, <2>2, EmptyTypes DEF QueuesOK
<1>4. m # NoMeta => MetaOK(m)
  BY DEF TypeInv, PlainOK
<1>5. meta' = (IF m = NoMeta THEN EmptyMeta ELSE m) /\ saved' = m
  BY DEF NewObject
<1>6. PlainOK'
  BY <1>4, <1>5, EmptyTypes DEF NewObject, PlainOK
<1> QED
  BY <1>1, <1>2, <1>3, <1>6 DEF TypeInv

\* Restart keeps the types.
LEMMA RestartTypes == ASSUME TypeInv, Restart PROVE TypeInv'
<1>1. faulty \subseteq faulty' /\ faulty' \subseteq Faults /\ synced' \in BOOLEAN
  BY DEF Restart, faultVars, TypeInv, PlainOK
<1> QED
  BY <1>1, NewObjectTypes DEF Restart

\* Crash keeps the types.
LEMMA CrashTypes == ASSUME TypeInv, Crash PROVE TypeInv'
<1>1. /\ faulty \subseteq faulty' /\ faulty' \subseteq Faults /\ synced' \in BOOLEAN
      /\ result' = "None"
  BY DEF Crash, Fault, Forget, TypeInv, PlainOK
<1>2. PICK m \in {saved, NoMeta} : NewObject(m)
  BY DEF Crash
<1> QED
  BY <1>1, <1>2, NewObjectTypes

\* BuildIndex keeps the types: the index has items of the local side.
LEMMA BuildIndexTypes == ASSUME TypeInv, BuildIndex PROVE TypeInv'
<1> DEFINE In(X, s) == \A e \in X : \E id \in DOMAIN store[s].items : e = <<s, id>>
           Got(L, R) == index' = [e \in L |-> "NOT_FOUND"] /\ todo' = R
           Goal == \E L, R : In(L, "local") /\ In(R, "remote") /\ Got(L, R)
<1>d. \A s \in Sides, b \in BOOLEAN : \A X \in Delivered(s, b) : In(X, s)
  BY DEF Delivered
<1> HIDE DEF In, Got
<1>1. Goal
  <2>1. ASSUME \E L \in Delivered("local", FALSE), R \in Delivered("remote", FALSE) :
                 Got(L, R) PROVE Goal
    BY <2>1, <1>d, SideFacts
  <2>2. ASSUME \E s \in Sides :
                 \E L \in Delivered("local", s = "local"), R \in Delivered("remote", s = "remote") : Got(L, R)
        PROVE  Goal
    BY <2>2, <1>d, SideFacts
  <2>3. ASSUME \E L \in Delivered("local", TRUE), R \in Delivered("remote", FALSE) :
                 Got(L, R) PROVE Goal
    BY <2>3, <1>d, SideFacts
  <2> HIDE DEF Goal
  <2> QED
    BY <2>1, <2>2, <2>3 DEF BuildIndex, Got
<1>2. PICK L, R : In(L, "local") /\ In(R, "remote") /\ Got(L, R)
  BY <1>1
<1> USE DEF In, Got
<1>3. store' = store /\ faulty \subseteq faulty' /\ faulty' \subseteq Faults
  BY DEF BuildIndex, faultVars, Fault, TypeInv, PlainOK, Faults
<1>4. ScanOK'
  <2>1. \A e \in L : e[1] = "local" /\ Stored(e)'
    BY <1>2, <1>3, SideFacts DEF Stored
  <2>2. \A e \in R : e[1] = "remote" /\ Stored(e)'
    BY <1>2, <1>3, SideFacts DEF Stored
  <2>3. DOMAIN index' = L /\ todo' = R
    BY <1>2
  <2>4. pc' = "scan"
    BY DEF BuildIndex
  <2> QED
    BY <2>1, <2>2, <2>3, <2>4 DEF ScanOK
<1>5. StoresOK' /\ FoundOK' /\ PlaceOK' /\ StatesOK'
  BY <1>3 DEF BuildIndex, TypeInv, StoresOK, FoundOK, PlaceOK, StatesOK, fullVars, Places,
     FirstPcs, Detecting
<1>6. QueuesOK' /\ PlainOK'
  BY <1>3 DEF BuildIndex, TypeInv, QueuesOK, PlainOK, engineVars, histVars
<1> QED
  BY <1>4, <1>5, <1>6 DEF TypeInv

\* An item stays in its storage when other items are added.
LEMMA StoredStays ==
  ASSUME NEW e, Stored(e), FlushKeeps("add")
  PROVE  Stored(e)'
<1>1. PICK s, id : s \in Sides /\ id \in DOMAIN store[s].items /\ e = <<s, id>>
  BY DEF Stored
<1>2. id \in DOMAIN store'[s].items
  BY <1>1 DEF FlushKeeps
<1> QED
  BY <1>1, <1>2 DEF Stored

\* A part of a step that leaves stores and queues alone.
LEMMA QuietKeeps ==
  ASSUME NEW kind, StoresOK, QueuesOK, PlainOK, store' = store, queue' = queue, MetaOK(meta'),
  dbError' = dbError,
         faulty \subseteq faulty', faulty' \subseteq Faults
  PROVE  FlushKeeps(kind)
  BY DEF FlushKeeps, StoresOK, QueuesOK, PlainOK

\* ScanRemote keeps the types, in each of its three cases.
LEMMA ScanRemoteTypes ==
  ASSUME TypeInv, NEW e \in todo, ScanRemote(e)
  PROVE  TypeInv'
<1>0. /\ pc = "scan" /\ pc' = "scan" /\ e[1] = "remote" /\ Stored(e) /\ todo' = todo \ {e}
      /\ \A d \in todo : d[1] = "remote" /\ Stored(d)
      /\ \A d \in DOMAIN index : Stored(d) /\ (index[d] = "NOT_FOUND" => d[1] = "local")
  BY DEF TypeInv, ScanOK, ScanRemote
<1> DEFINE obj == Obj("remote", e[2])
           Goal == /\ FlushKeeps("add") /\ touched' \in BOOLEAN
                   /\ \A x \in DOMAIN index' :
                        Stored(x) /\ (index'[x] = "NOT_FOUND" => x[1] = "local")
<1>1. obj \in Objects
  <2>1. PICK s, id : s \in Sides /\ id \in DOMAIN store[s].items /\ e = <<s, id>>
    BY <1>0 DEF Stored
  <2>2. e[2] \in DOMAIN store["remote"].items
    BY <1>0, <2>1
  <2> QED
    BY <2>2, ObjType, SideFacts DEF TypeInv
<1>2. ASSUME \E d \in Equals(e) :
          /\ index' = [index EXCEPT ![d] = "FOUND"]
          /\ meta' = Associate(meta, "local", d[2], store.local.items[d[2]].rev, obj)
          /\ UNCHANGED <<store, queue, touched, dbError, faultVars>>
      PROVE  Goal
  <2>1. PICK d \in Equals(e) :
          /\ index' = [index EXCEPT ![d] = "FOUND"]
          /\ meta' = Associate(meta, "local", d[2], store.local.items[d[2]].rev, obj)
          /\ UNCHANGED <<store, queue, touched, dbError, faultVars>>
    BY <1>2
  <2>2. d \in DOMAIN index /\ d[1] = "local"
    BY DEF Equals, Candidates
  <2>3. PICK s, id : s \in Sides /\ id \in DOMAIN store[s].items /\ d = <<s, id>>
    BY <1>0, <2>2 DEF Stored
  <2>4. d[2] \in DOMAIN store["local"].items
    BY <2>2, <2>3
  <2>5. d[2] \in Nat /\ store["local"].items[d[2]].rev \in Nat
    BY <2>4, SideFacts DEF TypeInv, StoresOK, StoreOK, IsMap, Items
  <2>6. MetaOK(meta')
    BY <1>1, <2>1, <2>5, SideFacts, AssociateType DEF TypeInv, PlainOK
  <2>7. FlushKeeps("add") /\ touched' \in BOOLEAN
    BY <2>1, <2>6, QuietKeeps DEF TypeInv, PlainOK, faultVars
  <2>8. /\ \A x \in DOMAIN index' :
             x \in DOMAIN index /\ (index'[x] = "NOT_FOUND" => index[x] = "NOT_FOUND")
    BY <2>1
  <2>9. \A x \in DOMAIN index' : Stored(x) /\ (index'[x] = "NOT_FOUND" => x[1] = "local")
    BY <1>0, <2>8
  <2> QED
    BY <2>7, <2>9
<1>3. ASSUME /\ \E d \in Candidates(e) : index' = [index EXCEPT ![d] = "MODIFIED"]
             /\ faulty' = faulty \cup {"unmerged"}
             /\ UNCHANGED <<store, meta, queue, touched, dbError, faults>>
      PROVE  Goal
  <2>1. /\ \A x \in DOMAIN index' :
             x \in DOMAIN index /\ (index'[x] = "NOT_FOUND" => index[x] = "NOT_FOUND")
    BY <1>3
  <2>2. faulty \subseteq faulty' /\ faulty' \subseteq Faults
    BY <1>3 DEF TypeInv, PlainOK, Faults
  <2>3. MetaOK(meta') /\ touched' \in BOOLEAN
    BY <1>3 DEF TypeInv, PlainOK
  <2>4. FlushKeeps("add")
    BY <1>3, <2>2, <2>3, QuietKeeps DEF TypeInv
  <2>5. \A x \in DOMAIN index' : Stored(x) /\ (index'[x] = "NOT_FOUND" => x[1] = "local")
    BY <1>0, <2>1
  <2> QED
    BY <2>3, <2>4, <2>5
<1>4. ASSUME index' = Put(index, e, "ADDED"), Enqueue("local", "add", obj, meta)
      PROVE  Goal
  <2>1. obj \in EntryType["add"]
    BY <1>1 DEF EntryType
  <2>2. FlushKeeps("add") /\ touched' = TRUE
    <3> HIDE DEF obj
    <3> QED
      BY <1>4, <2>1, SideFacts, EnqueueTypes DEF TypeInv, PlainOK, Kinds
  <2>3. \A x \in DOMAIN index' : \/ x = e /\ index'[x] = "ADDED"
                                 \/ x \in DOMAIN index /\ index'[x] = index[x]
    <3>1. \A x \in DOMAIN Put(index, e, "ADDED") :
            \/ x = e /\ Put(index, e, "ADDED")[x] = "ADDED"
            \/ x \in DOMAIN index /\ Put(index, e, "ADDED")[x] = index[x]
      BY DEF Put
    <3> QED
      BY <1>4, <3>1
  <2>4. \A x \in DOMAIN index' : Stored(x) /\ (index'[x] = "NOT_FOUND" => x[1] = "local")
    BY <1>0, <2>3
  <2> QED
    BY <2>2, <2>4
<1>5. Goal
  <2> HIDE DEF Goal
  <2> QED
    BY <1>2, <1>3, <1>4 DEF ScanRemote
<1>6. ScanOK'
  <2>1. \A x \in todo' : x[1] = "remote" /\ Stored(x)'
    BY <1>0, <1>5, StoredStays
  <2>2. \A x \in DOMAIN index' : Stored(x)'
    BY <1>5, StoredStays
  <2> QED
    BY <1>0, <1>5, <2>1, <2>2 DEF ScanOK
<1>7. FoundOK' /\ PlaceOK' /\ StatesOK'
  BY <1>0 DEF ScanRemote, TypeInv, FoundOK, PlaceOK, StatesOK, fullVars, Detecting
<1>8. StoresOK' /\ QueuesOK' /\ PlainOK'
  BY <1>5 DEF ScanRemote, FlushKeeps, TypeInv, PlainOK, histVars
<1> QED
  BY <1>6, <1>7, <1>8 DEF TypeInv

\* AddRest keeps the types: only local items are NOT_FOUND.
LEMMA AddRestTypes ==
  ASSUME TypeInv, NEW e \in todo, AddRest(e)
  PROVE  TypeInv'
<1>0. /\ pc = "rest" /\ pc' = "rest" /\ todo' = todo \ {e} /\ index' = index
      /\ todo \subseteq DOMAIN index
      /\ Stored(e) /\ (index[e] = "NOT_FOUND" => e[1] = "local")
      /\ \A d \in DOMAIN index : Stored(d) /\ (index[d] = "NOT_FOUND" => d[1] = "local")
  BY DEF TypeInv, ScanOK, AddRest
<1>1. FlushKeeps("add") /\ touched' \in BOOLEAN
  <2>1. CASE index[e] = "NOT_FOUND"
    <3>1. PICK s, id : s \in Sides /\ id \in DOMAIN store[s].items /\ e = <<s, id>>
      BY <1>0 DEF Stored
    <3>2. e[2] \in DOMAIN store["local"].items
      BY <1>0, <2>1, <3>1
    <3>3. Obj("local", e[2]) \in EntryType["add"]
      BY <3>2, ObjType, SideFacts DEF TypeInv, EntryType
    <3>4. Enqueue("remote", "add", Obj("local", e[2]), meta)
      BY <2>1 DEF AddRest
    <3> QED
      BY <3>3, <3>4, SideFacts, EnqueueTypes, ZenonT(40) DEF TypeInv, PlainOK, Kinds
  <2>2. CASE index[e] # "NOT_FOUND"
    <3>1. UNCHANGED <<store, meta, queue, touched, dbError, faultVars>>
      BY <2>2 DEF AddRest
    <3> QED
      BY <3>1, QuietKeeps DEF TypeInv, PlainOK, faultVars
  <2> QED
    BY <2>1, <2>2
<1>2. ScanOK'
  <2>1. \A x \in DOMAIN index' : Stored(x)'
    BY <1>0, <1>1, StoredStays
  <2> QED
    BY <1>0, <2>1 DEF ScanOK
<1>3. FoundOK' /\ PlaceOK' /\ StatesOK'
  BY <1>0 DEF AddRest, TypeInv, FoundOK, PlaceOK, StatesOK, fullVars, Detecting
<1>4. StoresOK' /\ QueuesOK' /\ PlainOK'
  BY <1>1 DEF AddRest, FlushKeeps, TypeInv, PlainOK, histVars
<1> QED
  BY <1>2, <1>3, <1>4 DEF TypeInv

\* Steps that change none of the stores, the queues and the metadata.
LEMMA PlainSteps ==
  ASSUME TypeInv, ScanDone \/ RestDone \/ MatchDone \/ NoticeCancel
  PROVE  TypeInv'
<1>1. StoresOK' /\ QueuesOK' /\ (synced' \in BOOLEAN => PlainOK')
  BY DEF TypeInv, ScanDone, RestDone, MatchDone, NoticeCancel, StoresOK, QueuesOK, PlainOK,
     engineVars, faultVars
<1>2. CASE NoticeCancel
  BY <1>1, <1>2, OutcomeType, ReturnTypes DEF NoticeCancel, TypeInv
<1>3. CASE ScanDone \/ RestDone \/ MatchDone
  <2>1. synced' \in BOOLEAN
    BY <1>3 DEF TypeInv, PlainOK, ScanDone, RestDone, MatchDone, histVars
  <2>2. FoundOK' /\ PlaceOK'
    BY <1>3 DEF TypeInv, FoundOK, PlaceOK, Places, FirstPcs, ScanDone, RestDone, MatchDone,
       fullVars, Detecting
  <2>3. ScanOK'
    BY <1>3 DEF TypeInv, ScanOK, Stored, ScanDone, RestDone, MatchDone
  <2>4. StatesOK'
    BY <1>3 DEF StatesOK, ScanDone, RestDone, MatchDone
  <2> QED
    BY <1>1, <2>1, <2>2, <2>3, <2>4 DEF TypeInv
<1> QED
  BY <1>2, <1>3

\* FlushNext keeps the types, whichever queue is next.
LEMMA FlushNextTypes == ASSUME TypeInv, FlushNext PROVE TypeInv'
<1> DEFINE F == Flushes[pc]
           left == {k \in plan + 1 .. Len(F) : queue[F[k][1]][F[k][2]] # <<>>}
<1>0. pc \in {"saveLocal", "saveRemote", "saveAll"} /\ pc \in DOMAIN AfterFlush /\ plan \in Nat
      /\ fullVars' = fullVars /\ index' = index
  BY Zenon DEF FlushNext, AfterFlush, TypeInv, PlaceOK, Detecting
<1>1. /\ Len(F) \in Nat
      /\ \A k \in 1..Len(F) :
           F[k][1] \in Sides /\ F[k][2] \in Kinds /\ (pc # "saveAll" => F[k][2] # "rem")
  <2>1. CASE pc = "saveLocal"
    BY <2>1 DEF Flushes, Sides, Kinds
  <2>2. CASE pc = "saveRemote"
    BY <2>2 DEF Flushes, Sides, Kinds
  <2>3. CASE pc = "saveAll"
    BY <2>3 DEF Flushes, Sides, Kinds
  <2> QED
    BY <1>0, <2>1, <2>2, <2>3
<1>2. CASE left = {}
  <2>1. /\ pc' = AfterFlush[pc] /\ plan' = 0
        /\ todo' = (IF pc = "saveLocal" THEN DOMAIN index ELSE {})
        /\ UNCHANGED <<store, meta, queue, dbError, faultVars>>
    BY <1>2, Zenon DEF FlushNext
  <2>2. FlushKeeps("add")
    BY <2>1, QuietKeeps DEF TypeInv, PlainOK, faultVars
  <2>3. StoresOK' /\ QueuesOK' /\ PlainOK'
    BY <2>2, Zenon DEF FlushNext, FlushKeeps, TypeInv, PlainOK, histVars
  <2>0. pc' \in {"rest", "tokens"} /\ (pc' = "rest" => pc = "saveLocal")
    BY <1>0, <2>1 DEF AfterFlush
  <2>4. FoundOK' /\ PlaceOK'
    BY <1>0, <2>0, <2>1, Zenon DEF FlushNext, TypeInv, FoundOK, PlaceOK, Places, FirstPcs, fullVars,
       Detecting
  <2>5. ScanOK'
    BY <1>0, <2>0, <2>1 DEF TypeInv, ScanOK, Stored
  <2>6. StatesOK'
    BY <2>0 DEF StatesOK
  <2> QED
    BY <2>3, <2>4, <2>5, <2>6 DEF TypeInv
<1>3. CASE left # {}
  <2> DEFINE n == Least(left)
  <2>1. n \in left
    <3>1. left \subseteq Nat
      BY <1>0
    <3> HIDE DEF left
    <3> QED
      BY <1>3, <3>1, LeastFacts
  <2> HIDE DEF n
  <2>2. n \in 1..Len(F) /\ n \in Nat
    BY <1>0, <1>1, <2>1
  <2>3. PICK s, kind : s = F[n][1] /\ kind = F[n][2] /\ s \in Sides /\ kind \in Kinds /\ (pc # "saveAll" => kind # "rem")
    BY <1>1, <2>2
  <2>4. plan' = n /\ Flush(s, kind, queue[s][kind], meta) /\ pc' = pc /\ todo' = todo
    BY <1>3, <2>3, Zenon DEF FlushNext, n
  <2>5. queue[s][kind] \in Seq(EntryType[kind])
    BY <2>3 DEF TypeInv, QueuesOK, QueueOK
  <2>6. FlushKeeps(kind)
    BY <2>3, <2>4, <2>5, FlushTypes DEF TypeInv, PlainOK
  <2>7. StoresOK' /\ QueuesOK' /\ PlainOK'
    BY <2>6, Zenon DEF FlushNext, FlushKeeps, TypeInv, PlainOK, histVars
  <2>8. FoundOK' /\ PlaceOK'
    BY <1>0, <2>2, <2>4, Zenon DEF FlushNext, TypeInv, FoundOK, PlaceOK, fullVars, Detecting
  <2>9. ScanOK'
    <3>1. CASE pc # "saveAll"
      <4>1. FlushKeeps("add")
        BY <2>3, <2>6, <3>1 DEF FlushKeeps
      <4>2. /\ pc = "saveLocal" => \A x \in DOMAIN index' :
                                     Stored(x)' /\ (index'[x] = "NOT_FOUND" => x[1] = "local")
        BY <1>0, <4>1, StoredStays DEF TypeInv, ScanOK
      <4> QED
        BY <1>0, <2>4, <4>2 DEF ScanOK
    <3>2. CASE pc = "saveAll"
      BY <2>4, <3>2 DEF ScanOK
    <3> QED
      BY <3>1, <3>2
  <2>10. StatesOK'
    BY <1>0, <2>4 DEF StatesOK
  <2> QED
    BY <2>7, <2>8, <2>9, <2>10 DEF TypeInv
<1> QED
  BY <1>2, <1>3

\* What getRevisions() and getChangedRevisions() report.
LEMMA RevisionsType ==
  ASSUME NEW s \in Sides, NEW n, StoresOK
  PROVE  /\ IsMap(Revisions(s, n), Nat, Nat)
         /\ \A x \in DOMAIN Revisions(s, n) : /\ x \in DOMAIN store[s].items
                                              /\ Revisions(s, n)[x] = store[s].items[x].rev
<1>1. \A x \in DOMAIN store[s].items : x \in Nat /\ store[s].items[x].rev \in Nat
  BY DEF StoresOK, StoreOK, IsMap, Items
<1> QED
  BY <1>1 DEF Revisions, IsMap

\* Assigning to one side.
LEMMA SideUpdate ==
  ASSUME NEW f, NEW s \in Sides, NEW v, NEW g, DOMAIN f = Sides, g = [f EXCEPT ![s] = v]
  PROVE  DOMAIN g = Sides /\ g[s] = v /\ \A t \in Sides : t # s => g[t] = f[t]
  OBVIOUS

\* Detect keeps the types: no state is Modified yet.
LEMMA DetectTypes == ASSUME TypeInv, NEW s \in Sides, Detect(s) PROVE TypeInv'
<1> DEFINE removed == {id \in DOMAIN store[s].gone : store[s].gone[id] > meta.token[s]}
           byToken == [id \in DOMAIN meta.rev[s] \cup removed |->
                         IF id \in removed THEN "NotPresent" ELSE "NotChanged"]
           Goal == \E r, st : /\ revs' = [revs EXCEPT ![s] = r] /\ state' = [state EXCEPT ![s] = st]
                              /\ IsMap(r, Nat, Nat)
                              /\ (\A x \in DOMAIN r : x \in DOMAIN store[s].items)
                              /\ IsMap(st, Nat, States) /\ \A x \in DOMAIN st : st[x] # "Modified"
<1>0. (\A x \in DOMAIN meta.rev[s] : x \in Nat) /\ \A x \in DOMAIN store[s].gone : x \in Nat
  BY DEF TypeInv, PlainOK, MetaOK, StoresOK, StoreOK, IsMap
<1>1. Goal
  <2>1. ASSUME DetectChanges(s) PROVE Goal
    <3>1. /\ revs' = [revs EXCEPT ![s] = Revisions(s, meta.token[s])]
          /\ state' = [state EXCEPT ![s] = byToken]
      BY <2>1 DEF DetectChanges
    <3>2. \A x \in DOMAIN byToken : x \in Nat /\ byToken[x] \in States /\ byToken[x] # "Modified"
      BY <1>0 DEF States
    <3>3. IsMap(byToken, Nat, States)
      BY <3>2 DEF IsMap
    <3> DEFINE rs == Revisions(s, meta.token[s])
    <3>4. IsMap(rs, Nat, Nat) /\ \A x \in DOMAIN rs : x \in DOMAIN store[s].items
      BY RevisionsType DEF TypeInv
    <3> HIDE DEF byToken, rs
    <3> QED
      BY <3>1, <3>2, <3>3, <3>4 DEF rs
  <2>2. ASSUME DetectAll(s) PROVE Goal
    <3> DEFINE none == ResetStates(s, "NotPresent")
    <3>1. state' = [state EXCEPT ![s] = none]
          /\ (revs' = [revs EXCEPT ![s] = Revisions(s, -1)] \/ revs' = [revs EXCEPT ![s] = <<>>])
      BY <2>2 DEF DetectAll
    <3>2. IsMap(none, Nat, States) /\ \A x \in DOMAIN none : none[x] # "Modified"
      BY <1>0 DEF States, ResetStates, IsMap
    <3>3. IsMap(<<>>, Nat, Nat) /\ \A x \in DOMAIN (<<>>) : x \in DOMAIN store[s].items
      BY EmptyMap
    <3> DEFINE rs == Revisions(s, -1)
    <3>4. IsMap(rs, Nat, Nat) /\ \A x \in DOMAIN rs : x \in DOMAIN store[s].items
      BY RevisionsType DEF TypeInv
    <3> HIDE DEF none, rs
    <3>5. CASE revs' = [revs EXCEPT ![s] = rs]
      BY <3>1, <3>2, <3>4, <3>5
    <3>6. CASE revs' = [revs EXCEPT ![s] = <<>>]
      BY <3>1, <3>2, <3>3, <3>6
    <3> QED
      BY <3>1, <3>5, <3>6 DEF rs
  <2> HIDE DEF Goal
  <2> QED
    BY <2>1, <2>2 DEF Detect
<1>2. PICK r, st : /\ revs' = [revs EXCEPT ![s] = r] /\ state' = [state EXCEPT ![s] = st]
                   /\ IsMap(r, Nat, Nat) /\ (\A x \in DOMAIN r : x \in DOMAIN store[s].items)
                   /\ IsMap(st, Nat, States) /\ \A x \in DOMAIN st : st[x] # "Modified"
  BY <1>1
<1>3. /\ DOMAIN revs' = Sides /\ revs'[s] = r /\ (\A t \in Sides : t # s => revs'[t] = revs[t])
      /\ DOMAIN state' = Sides /\ state'[s] = st /\ (\A t \in Sides : t # s => state'[t] = state[t])
  BY <1>2, SideUpdate DEF TypeInv, FoundOK
<1>4. /\ store' = store /\ fresh' = fresh /\ changed' = changed
      /\ pc = (IF s = "local" THEN "detectLocal" ELSE "detectRemote")
      /\ pc' = IF s = "local" THEN "detectRemote" ELSE "fetchLocal"
  BY DEF Detect
<1>5. FoundOK'
  BY <1>2, <1>3, <1>4 DEF TypeInv, FoundOK
<1>6. Calm(s)' /\ Reported(s)' /\ (s = "remote" => Calm("local")' /\ Reported("local")')
  <2>1. Calm(s)' /\ Reported(s)'
    BY <1>2, <1>3, <1>4 DEF Calm, Reported
  <2>2. ASSUME s = "remote" PROVE Calm("local")' /\ Reported("local")'
    <3>1. Calm("local") /\ Reported("local")
      BY <1>4, <2>2 DEF TypeInv, StatesOK
    <3>2. state'["local"] = state["local"] /\ revs'["local"] = revs["local"]
      BY <1>3, <2>2, SideFacts
    <3> QED
      BY <1>4, <3>1, <3>2 DEF Calm, Reported
  <2> QED
    BY <2>1, <2>2
<1>7. StatesOK'
  BY <1>4, <1>6, SideFacts DEF StatesOK
<1>8. ScanOK' /\ PlaceOK'
  BY <1>4 DEF Detect, ScanOK, TypeInv, PlaceOK, Places, Detecting, scanVars
<1>9. faulty \subseteq faulty' /\ faulty' \subseteq Faults
  BY DEF Detect, DetectChanges, DetectAll, Fault, faultVars, TypeInv, PlainOK, Faults
<1>10. StoresOK' /\ QueuesOK' /\ PlainOK'
  BY <1>4, <1>9 DEF Detect, TypeInv, StoresOK, QueuesOK, PlainOK, engineVars, histVars
<1> QED
  BY <1>5, <1>7, <1>8, <1>10 DEF TypeInv

\* Fetch keeps the types: each Modified item has its object in "changed".
LEMMA FetchTypes == ASSUME TypeInv, NEW s \in Sides, Fetch(s) PROVE TypeInv'
<1> DEFINE tracked  == {id \in DOMAIN revs[s] : Tracked(meta, s, id)}
           modified == {id \in tracked : meta.rev[s][id] # revs[s][id]}
           added    == DOMAIN revs[s] \ tracked
           st == [id \in DOMAIN state[s] \cup tracked |->
                    IF id \in modified THEN "Modified" ELSE IF id \in tracked THEN "NotChanged" ELSE state[s][id]]
           new == {Obj(s, id) : id \in added}
           ch == [id \in modified |-> Obj(s, id)]
<1>0. /\ pc = (IF s = "local" THEN "fetchLocal" ELSE "fetchRemote") /\ Calm(s) /\ Reported(s)
      /\ store' = store /\ meta' = meta /\ queue' = queue
      /\ hasMeta' = hasMeta /\ dbError' = dbError /\ cancelSync' = cancelSync /\ saved' = saved
      /\ touched' = touched
  BY SideFacts DEF Fetch, TypeInv, StatesOK
<1>1. faulty \subseteq faulty' /\ faulty' \subseteq Faults /\ inputError' \in BOOLEAN
  BY DEF Fetch, Fault, faultVars, TypeInv, PlainOK, Faults
<1>2. StoresOK' /\ QueuesOK' /\ (synced' \in BOOLEAN => PlainOK')
  BY <1>0, <1>1 DEF TypeInv, StoresOK, QueuesOK, PlainOK
<1>3. CASE Return(Outcome) \/ Return("Fail")
  BY <1>2, <1>3, OutcomeType, ReturnTypes DEF TypeInv
<1>4. CASE /\ state' = [state EXCEPT ![s] = st]
           /\ fresh' = [fresh EXCEPT ![s] = new]
           /\ changed' = [changed EXCEPT ![s] = ch]
           /\ pc' = IF s = "local" THEN "fetchRemote" ELSE "resolve"
           /\ UNCHANGED <<result, plan, todo, index, revs, class, inputError, faultVars, synced,
                          begun>>
  <2>1. \A x \in added \cup modified : Obj(s, x) \in Objects /\ x \in Nat
    BY <1>0, ObjType DEF Reported, TypeInv
  <2>2. new \subseteq Objects
    BY <2>1
  <2>3. DOMAIN ch = modified /\ IsMap(ch, Nat, Objects)
    BY <2>1 DEF IsMap
  <2>4. /\ DOMAIN st \subseteq Nat
        /\ \A x \in DOMAIN st : st[x] \in States /\ (st[x] = "Modified" => x \in modified)
    <3>1. \A x \in DOMAIN state[s] : x \in Nat /\ state[s][x] \in States /\ state[s][x] # "Modified"
      BY <1>0 DEF TypeInv, FoundOK, Calm, IsMap
    <3>2. \A x \in tracked : x \in Nat
      BY DEF TypeInv, FoundOK, IsMap
    <3> HIDE DEF modified, tracked
    <3> QED
      BY <3>1, <3>2 DEF States
  <2>5. IsMap(st, Nat, States)
    BY <2>4 DEF IsMap
  <2> HIDE DEF st, new, ch, modified
  <2>6. /\ DOMAIN state' = Sides /\ state'[s] = st
        /\ (\A t \in Sides : t # s => state'[t] = state[t])
        /\ DOMAIN fresh' = Sides /\ fresh'[s] = new
        /\ (\A t \in Sides : t # s => fresh'[t] = fresh[t])
        /\ DOMAIN changed' = Sides /\ changed'[s] = ch
        /\ (\A t \in Sides : t # s => changed'[t] = changed[t])
    BY <1>4, SideUpdate DEF TypeInv, FoundOK
  <2>7. FoundOK'
    BY <1>4, <2>2, <2>3, <2>5, <2>6 DEF TypeInv, FoundOK
  <2>8. Fetched(s)'
    BY <2>3, <2>4, <2>6 DEF Fetched
  <2>9. s = "local" => Calm("remote")' /\ Reported("remote")'
    BY <1>0, <1>4, <2>6, SideFacts DEF TypeInv, StatesOK, Calm, Reported
  <2>10. s = "remote" => Fetched("local")'
    BY <1>0, <1>4, <2>6, SideFacts DEF TypeInv, StatesOK, Fetched
  <2>11. todo' = {} /\ plan' = plan /\ class' = class /\ result' = result /\ synced' = synced
    BY <1>0, <1>4 DEF TypeInv, PlaceOK, Detecting
  <2>12. StatesOK'
    BY <1>4, <2>8, <2>9, <2>10, <2>11, SideFacts DEF StatesOK
  <2>13. ScanOK' /\ PlaceOK' /\ synced' \in BOOLEAN
    <3>1. pc' \in {"fetchRemote", "resolve"}
      BY <1>4
    <3> QED
      BY <2>11, <3>1 DEF ScanOK, TypeInv, PlaceOK, Places, Detecting, PlainOK
  <2> QED
    BY <1>2, <2>7, <2>12, <2>13 DEF TypeInv
<1> QED
  BY <1>3, <1>4 DEF Fetch

\* NextClass keeps the types: the pairs of a loop are in its states.
LEMMA NextClassTypes == ASSUME TypeInv, NextClass PROVE TypeInv'
<1> DEFINE left == {c \in class + 1 .. Len(Classes) : ItemsWithState(Classes[c]) # {}}
<1>0. /\ pc = "resolve" /\ store' = store /\ state' = state /\ changed' = changed /\ revs' = revs
      /\ fresh' = fresh
      /\ meta' = meta /\ plan' = plan /\ result' = result /\ synced' = synced /\ faulty' = faulty
      /\ UNCHANGED <<saved, touched, engineVars>>
      /\ class \in 0..8 /\ Len(Classes) = 8 /\ DOMAIN Classes = 1..8
  BY DEF NextClass, TypeInv, PlaceOK, Classes, histVars, faultVars, engineVars
<1>1. StoresOK' /\ QueuesOK' /\ PlainOK' /\ FoundOK' /\ Fetched("local")' /\ Fetched("remote")'
  BY <1>0 DEF TypeInv, StoresOK, QueuesOK, PlainOK, FoundOK, StatesOK, Fetched, engineVars
<1>2. CASE left = {}
  <2>1. pc' = "match" /\ class' = class /\ todo' = todo
    BY <1>2 DEF NextClass
  <2> QED
    BY <1>0, <1>1, <2>1 DEF TypeInv, PlaceOK, Places, Detecting, ScanOK, StatesOK
<1>3. CASE left # {}
  <2>1. pc' = "resolve" /\ class' = Least(left) /\ todo' = ItemsWithState(Classes[class'])
    BY <1>0, <1>3 DEF NextClass
  <2>2. Least(left) \in left
    <3>1. left \subseteq Nat
      BY <1>0
    <3> HIDE DEF left
    <3> QED
      BY <1>3, <3>1, LeastFacts
  <2>3. class' \in 1..8
    BY <1>0, <2>1, <2>2
  <2>4. \A r \in DOMAIN meta.map : r \in Nat /\ meta.map[r] \in Nat
    BY DEF TypeInv, PlainOK, MetaOK, IsMap
  <2>5. ASSUME NEW p \in todo'
        PROVE  /\ p[1] \in Nat /\ p[2] \in Nat
               /\ StateOf("remote", p[1]) = Classes[class'].remote
               /\ StateOf("local", p[2]) = Classes[class'].local
    BY <2>1, <2>4, <2>5 DEF ItemsWithState
  <2>6. \A s, x : StateOf(s, x)' = StateOf(s, x)
    BY <1>0 DEF StateOf
  <2>7. Classes' = Classes
    BY DEF Classes
  <2>8. StatesOK'
    BY <1>0, <1>1, <2>1, <2>3, <2>5, <2>6, <2>7 DEF StatesOK
  <2> QED
    BY <1>0, <1>1, <2>1, <2>3, <2>8 DEF TypeInv, PlaceOK, Places, Detecting, ScanOK
<1> QED
  BY <1>2, <1>3

\* One turn of a loop over pairs, when its effect on the rest is sound.
LEMMA ResolveTypes ==
  ASSUME TypeInv, NEW c, NEW pair \in todo, Resolve(c, pair), NEW kind, FlushKeeps(kind), touched' \in BOOLEAN
  PROVE  TypeInv'
<1>0. /\ pc = "resolve" /\ pc' = "resolve" /\ todo' = todo \ {pair} /\ class' = class
      /\ state' = state /\ changed' = changed /\ revs' = revs /\ fresh' = fresh
  BY DEF Resolve, fullVars
<1>1. StoresOK' /\ QueuesOK' /\ PlainOK'
  BY DEF Resolve, FlushKeeps, TypeInv, PlainOK, histVars
<1>2. FoundOK' /\ PlaceOK' /\ ScanOK'
  BY <1>0 DEF Resolve, TypeInv, FoundOK, PlaceOK, ScanOK, Detecting
<1>3. Fetched("local")' /\ Fetched("remote")'
  BY <1>0 DEF TypeInv, StatesOK, Fetched
<1>4. \A s, x : StateOf(s, x)' = StateOf(s, x)
  BY <1>0 DEF StateOf
<1>5. Classes' = Classes
  BY DEF Classes
<1>6. StatesOK'
  BY <1>0, <1>3, <1>4, <1>5 DEF TypeInv, StatesOK
<1> QED
  BY <1>1, <1>2, <1>6 DEF TypeInv

\* The ids of a pair, and the object of its changed item.
LEMMA PairTypes ==
  ASSUME TypeInv, NEW c, NEW pair \in todo, Resolve(c, pair)
  PROVE  /\ pair[1] \in Nat /\ pair[2] \in Nat /\ \A s \in Sides : Id(pair, s) \in Nat
         /\ MetaOK(RemoveItem(meta, pair[1], pair[2]))
         /\ \A s \in Sides : c[s] = "Modified" => changed[s][Id(pair, s)] \in Objects
<1>1. pc = "resolve" /\ Classes[class] = c
  BY DEF Resolve
<1>2. /\ pair[1] \in Nat /\ pair[2] \in Nat /\ StateOf("remote", pair[1]) = c.remote
      /\ StateOf("local", pair[2]) = c.local
  BY <1>1 DEF TypeInv, StatesOK
<1>3. ASSUME NEW s \in Sides, c[s] = "Modified" PROVE changed[s][Id(pair, s)] \in Objects
  <2>1. StateOf(s, Id(pair, s)) = "Modified"
    BY <1>2, <1>3 DEF Sides, Id
  <2>2. Id(pair, s) \in DOMAIN state[s] /\ state[s][Id(pair, s)] = "Modified"
    BY <2>1 DEF StateOf
  <2>3. Id(pair, s) \in DOMAIN changed[s]
    BY <1>1, <2>2 DEF TypeInv, StatesOK, Fetched, Sides
  <2> QED
    BY <2>3 DEF TypeInv, FoundOK, IsMap
<1> QED
  BY <1>2, <1>3, RemoveItemType DEF Id, TypeInv, PlainOK

\* ForgetPair keeps the types.
LEMMA ForgetPairTypes == ASSUME TypeInv, NEW pair \in todo, ForgetPair(pair) PROVE TypeInv'
<1> DEFINE c == Where("local", "NotPresent", "NotPresent")
<1>1. Resolve(c, pair) /\ meta' = RemoveItem(meta, pair[1], pair[2])
      /\ UNCHANGED <<store, queue, touched, dbError, faultVars>>
  BY DEF ForgetPair
<1> HIDE DEF c
<1>2. MetaOK(meta')
  BY <1>1, PairTypes
<1>3. FlushKeeps("add") /\ touched' \in BOOLEAN
  BY <1>1, <1>2, QuietKeeps DEF TypeInv, PlainOK, faultVars
<1> QED
  BY <1>1, <1>3, ResolveTypes

\* RemoveCounterpart keeps the types.
LEMMA RemoveCounterpartTypes ==
  ASSUME TypeInv, NEW pair \in todo, NEW s \in Sides, RemoveCounterpart(s, pair)
  PROVE  TypeInv'
<1> DEFINE c == Where(s, "NotChanged", "NotPresent")
           m == RemoveItem(meta, pair[1], pair[2])
<1>1. Resolve(c, pair) /\ Enqueue(s, "rem", Id(pair, s), m)
  BY DEF RemoveCounterpart
<1> HIDE DEF c
<1>2. MetaOK(m) /\ Id(pair, s) \in EntryType["rem"]
  BY <1>1, PairTypes DEF EntryType
<1> HIDE DEF m
<1>3. FlushKeeps("rem") /\ touched' \in BOOLEAN
  BY <1>1, <1>2, EnqueueTypes DEF TypeInv, Kinds
<1> QED
  BY <1>1, <1>3, ResolveTypes

\* RestoreItem keeps the types.
LEMMA RestoreItemTypes ==
  ASSUME TypeInv, NEW pair \in todo, NEW s \in Sides, RestoreItem(s, pair)
  PROVE  TypeInv'
<1> DEFINE c == Where(s, "NotPresent", "Modified")
           m == RemoveItem(meta, pair[1], pair[2])
           obj == changed[Other(s)][Id(pair, Other(s))]
<1>0. c[Other(s)] = "Modified"
  BY SideFacts DEF Where
<1>1. Resolve(c, pair) /\ Enqueue(s, "add", obj, m)
  BY DEF RestoreItem
<1> HIDE DEF c
<1>2. MetaOK(m) /\ obj \in EntryType["add"]
  BY <1>0, <1>1, SideFacts, PairTypes DEF EntryType
<1> HIDE DEF m, obj
<1>3. FlushKeeps("add") /\ touched' \in BOOLEAN
  BY <1>1, <1>2, EnqueueTypes DEF TypeInv, Kinds
<1> QED
  BY <1>1, <1>3, ResolveTypes

\* PropagateChange keeps the types.
LEMMA PropagateChangeTypes ==
  ASSUME TypeInv, NEW pair \in todo, NEW s \in Sides, PropagateChange(s, pair)
  PROVE  TypeInv'
<1> DEFINE c == Where(s, "NotChanged", "Modified")
           obj == changed[Other(s)][Id(pair, Other(s))]
           e == [id |-> Id(pair, s), obj |-> obj]
           m == UpdateRevision(meta, Other(s), obj.id, obj.rev)
<1>0. c[Other(s)] = "Modified"
  BY SideFacts DEF Where
<1>1. Resolve(c, pair) /\ Enqueue(s, "mod", e, m)
  BY DEF PropagateChange
<1> HIDE DEF c
<1>2. obj \in Objects /\ Id(pair, s) \in Nat
  BY <1>0, <1>1, SideFacts, PairTypes
<1> HIDE DEF obj
<1>3. e \in EntryType["mod"]
  BY <1>2 DEF EntryType, Changes
<1>4. MetaOK(m)
  BY <1>2, SideFacts, UpdateFacts DEF Objects, TypeInv, PlainOK
<1> HIDE DEF m, e
<1>5. FlushKeeps("mod") /\ touched' \in BOOLEAN
  BY <1>1, <1>3, <1>4, EnqueueTypes DEF TypeInv, Kinds
<1> QED
  BY <1>1, <1>5, ResolveTypes

\* KeepBoth keeps the types, also when addItem() fails.
LEMMA KeepBothTypes == ASSUME TypeInv, NEW pair \in todo, KeepBoth(pair) PROVE TypeInv'
<1> DEFINE c == Where("local", "Modified", "Modified")
           mine == changed.local[pair[2]]
           theirs == changed.remote[pair[1]]
           m == RemoveItem(meta, pair[1], pair[2])
<1>1. Resolve(c, pair) /\ touched' = TRUE /\ queue' = queue /\ dbError' = dbError
  BY DEF KeepBoth
<1>2. /\ c["local"] = "Modified" /\ c["remote"] = "Modified" /\ Id(pair, "local") = pair[2]
      /\ Id(pair, "remote") = pair[1]
  BY DEF Where, Sides, Id
<1> HIDE DEF c
<1>3. mine \in Objects /\ theirs \in Objects /\ pair[1] \in Nat /\ pair[2] \in Nat /\ MetaOK(m)
  BY <1>1, <1>2, SideFacts, PairTypes
<1>4. ASSUME NEW s \in Sides, NEW obj \in Objects, NEW a \in AddConflicting(s, obj) PROVE StoreOK(a.st) /\ a.id \in Nat
  <2>1. StoreOK(store[s]) /\ store[s].clock + 1 \in Nat
    BY DEF TypeInv, StoresOK, StoreOK
  <2>2. StoreOK(AddOne(store[s], obj.item))
    BY <2>1, AddOneFacts, ZenonT(40) DEF Objects
  <2> QED
    BY <2>1, <2>2 DEF AddConflicting
<1>5. faulty \subseteq faulty' /\ faulty' \subseteq Faults
  BY DEF KeepBoth, Fault, faultVars, TypeInv, PlainOK, Faults
<1>6. \E l \in AddConflicting("local", theirs), r \in AddConflicting("remote", mine) :
        /\ store' = [local |-> l.st, remote |-> r.st]
        /\ meta' = AddItem(AddItem(m, pair[1], theirs.rev, l.id, l.id), r.id, r.id, pair[2], mine.rev)
  BY DEF KeepBoth
<1> HIDE DEF m, mine, theirs
<1>7. PICK l \in AddConflicting("local", theirs), r \in AddConflicting("remote", mine) :
        /\ store' = [local |-> l.st, remote |-> r.st]
        /\ meta' = AddItem(AddItem(m, pair[1], theirs.rev, l.id, l.id), r.id, r.id, pair[2], mine.rev)
  BY <1>6
<1>8. /\ StoreOK(l.st) /\ l.id \in Nat /\ StoreOK(r.st) /\ r.id \in Nat /\ theirs.rev \in Nat
      /\ mine.rev \in Nat
  BY <1>3, <1>4, SideFacts DEF Objects
<1>9. MetaOK(meta')
  BY <1>3, <1>7, <1>8, AddItemType
<1>10. StoresOK'
  BY <1>7, <1>8 DEF StoresOK, Sides
<1>11. QueuesOK'
  BY <1>1, <1>5 DEF TypeInv, QueuesOK
<1>12. FlushKeeps("rem")
  BY <1>1, <1>5, <1>9, <1>10, <1>11 DEF FlushKeeps, TypeInv, PlainOK
<1> QED
  BY <1>1, <1>12, ResolveTypes

\* One turn of a loop over the new items.
LEMMA FreshTypes ==
  ASSUME TypeInv, pc = "match", pc' = "match", FlushKeeps("add"), touched' \in BOOLEAN,
         UNCHANGED <<saved, result, hasMeta, inputError, cancelSync, scanVars, revs, state,
                     changed, class, synced>>,
         DOMAIN fresh' = Sides, \A s \in Sides : fresh'[s] \subseteq fresh[s]
  PROVE  TypeInv'
<1>1. StoresOK' /\ QueuesOK' /\ PlainOK'
  BY DEF FlushKeeps, TypeInv, PlainOK
<1>2. FoundOK' /\ PlaceOK'
  BY DEF TypeInv, FoundOK, PlaceOK, Detecting, scanVars
<1>3. ScanOK' /\ StatesOK'
  BY DEF ScanOK, StatesOK
<1> QED
  BY <1>1, <1>2, <1>3 DEF TypeInv

\* MatchFresh keeps the types.
LEMMA MatchFreshTypes == ASSUME TypeInv, NEW obj \in fresh.local, MatchFresh(obj) PROVE TypeInv'
<1> DEFINE equal == {x \in fresh.remote : x.item = obj.item}
<1>1. /\ fresh["local"] \subseteq Objects /\ fresh["remote"] \subseteq Objects /\ obj \in Objects
      /\ DOMAIN fresh = Sides
  BY SideFacts DEF TypeInv, FoundOK
<1>2. /\ FlushKeeps("add") /\ touched' \in BOOLEAN /\ DOMAIN fresh' = Sides
      /\ \A s \in Sides : fresh'[s] \subseteq fresh[s]
  <2>1. CASE equal # {}
    <3>1. PICK twin : /\ twin = CHOOSE x \in equal : \A y \in equal : x.id <= y.id
                      /\ meta' = AddItem(meta, twin.id, twin.rev, obj.id, obj.rev)
                      /\ fresh' = [local |-> fresh.local \ {obj}, remote |-> fresh.remote \ {twin}]
                      /\ UNCHANGED <<store, queue, touched, dbError, faultVars>>
      BY <2>1 DEF MatchFresh
    <3>2. twin \in equal
      <4> DEFINE I == {x.id : x \in equal}
      <4>1. I \subseteq Nat /\ I # {}
        BY <1>1, <2>1 DEF Objects
      <4>2. PICK n \in I : \A k \in I : n <= k
        <5> HIDE DEF I
        <5> QED
          BY <4>1, LeastNatural
      <4>3. \E x \in equal : \A y \in equal : x.id <= y.id
        BY <4>2
      <4> HIDE DEF equal
      <4> QED
        BY <3>1, <4>3
    <3>3. twin \in Objects
      BY <1>1, <3>2
    <3>4. MetaOK(meta')
      <4>1. twin.id \in Nat /\ twin.rev \in Nat /\ obj.id \in Nat /\ obj.rev \in Nat
        BY <1>1, <3>3 DEF Objects
      <4> QED
        BY <3>1, <4>1, AddItemType DEF TypeInv, PlainOK
    <3>5. FlushKeeps("add") /\ touched' \in BOOLEAN
      BY <3>1, <3>4, QuietKeeps DEF TypeInv, PlainOK, faultVars
    <3> QED
      BY <3>1, <3>5 DEF Sides
  <2>2. CASE equal = {}
    <3>1. /\ Enqueue("remote", "add", obj, meta)
          /\ fresh' = [fresh EXCEPT !["local"] = fresh["local"] \ {obj}]
      BY <2>2 DEF MatchFresh
    <3>2. obj \in EntryType["add"] /\ "add" \in Kinds
      BY <1>1 DEF EntryType, Kinds
    <3>3. FlushKeeps("add") /\ touched' \in BOOLEAN
      BY <3>1, <3>2, SideFacts, EnqueueTypes DEF TypeInv, PlainOK
    <3> QED
      BY <1>1, <3>1, <3>3
  <2> QED
    BY <2>1, <2>2
<1> QED
  BY <1>2, FreshTypes DEF MatchFresh, histVars

\* AddFresh keeps the types.
LEMMA AddFreshTypes == ASSUME TypeInv, NEW obj \in fresh.remote, AddFresh(obj) PROVE TypeInv'
<1>1. obj \in Objects /\ DOMAIN fresh = Sides
  BY SideFacts DEF TypeInv, FoundOK
<1>2. /\ Enqueue("local", "add", obj, meta)
      /\ fresh' = [fresh EXCEPT !["remote"] = fresh["remote"] \ {obj}]
  BY DEF AddFresh
<1>3. obj \in EntryType["add"] /\ "add" \in Kinds
  BY <1>1 DEF EntryType, Kinds
<1>4. FlushKeeps("add") /\ touched' \in BOOLEAN
  BY <1>2, <1>3, SideFacts, EnqueueTypes DEF TypeInv, PlainOK
<1>5. DOMAIN fresh' = Sides /\ \A s \in Sides : fresh'[s] \subseteq fresh[s]
  BY <1>1, <1>2
<1> QED
  BY <1>4, <1>5, FreshTypes DEF AddFresh, histVars

\* So does a step that changes nothing.
LEMMA StutterTypes == TypeInv /\ UNCHANGED vars => TypeInv'
<1> SUFFICES ASSUME TypeInv, UNCHANGED vars PROVE TypeInv'
  OBVIOUS
<1> USE DEF vars, engineVars, scanVars, fullVars, countVars, faultVars, histVars
<1>1. StoresOK' /\ QueuesOK' /\ PlainOK' /\ PlaceOK' /\ FoundOK'
  BY DEF TypeInv, StoresOK, QueuesOK, PlainOK, PlaceOK, FoundOK
<1>2. ScanOK'
  BY DEF TypeInv, ScanOK, Stored
<1>3. \A s, x : StateOf(s, x)' = StateOf(s, x)
  BY DEF StateOf
<1>4. Classes' = Classes
  BY DEF Classes
<1>5. StatesOK'
  BY <1>3, <1>4 DEF TypeInv, StatesOK, Calm, Reported, Fetched
<1> QED
  BY <1>1, <1>2, <1>5 DEF TypeInv

\* The type invariant is inductive.
LEMMA TypeStep == TypeInv /\ [Next]_vars => TypeInv'
<1> SUFFICES ASSUME TypeInv, [Next]_vars PROVE TypeInv'
  OBVIOUS
<1>1. CASE Synchronize
  BY <1>1, SynchronizeTypes
<1>2. CASE BuildIndex
  BY <1>2, BuildIndexTypes
<1>3. CASE ScanDone \/ RestDone \/ MatchDone \/ NoticeCancel
  BY <1>3, PlainSteps
<1>4. CASE \E e \in todo : ScanRemote(e)
  BY <1>4, ScanRemoteTypes
<1>5. CASE \E e \in todo : AddRest(e)
  BY <1>5, AddRestTypes
<1>6. CASE FlushNext
  BY <1>6, FlushNextTypes
<1>7. CASE Conclude
  BY <1>7, ConcludeTypes
<1>8. CASE \E s \in Sides : Detect(s)
  BY <1>8, DetectTypes
<1>9. CASE \E s \in Sides : Fetch(s)
  BY <1>9, FetchTypes
<1>10. CASE NextClass
  BY <1>10, NextClassTypes
<1>11. CASE \E pair \in todo : ForgetPair(pair)
  BY <1>11, ForgetPairTypes
<1>12. CASE \E pair \in todo : KeepBoth(pair)
  BY <1>12, KeepBothTypes
<1>13. CASE \E pair \in todo, s \in Sides : RemoveCounterpart(s, pair)
  BY <1>13, RemoveCounterpartTypes
<1>14. CASE \E pair \in todo, s \in Sides : RestoreItem(s, pair)
  BY <1>14, RestoreItemTypes
<1>15. CASE \E pair \in todo, s \in Sides : PropagateChange(s, pair)
  BY <1>15, PropagateChangeTypes
<1>16. CASE \E obj \in fresh.local : MatchFresh(obj)
  BY <1>16, MatchFreshTypes
<1>17. CASE \E obj \in fresh.remote : AddFresh(obj)
  BY <1>17, AddFreshTypes
<1>18. CASE StorageInitFails
  BY <1>18, StorageInitFailsTypes
<1>19. CASE Cancel
  BY <1>19, CancelTypes
<1>20. CASE Edit
  BY <1>20, EditTypes
<1>21. CASE Restart
  BY <1>21, RestartTypes
<1>22. CASE Crash
  BY <1>22, CrashTypes
<1>23. CASE UNCHANGED vars
  BY <1>23, StutterTypes
<1>24. CASE Run
  BY <1>24, <1>1, <1>2, <1>3, <1>4, <1>5, <1>6, <1>7, <1>8, <1>9, <1>10, <1>11, <1>12, <1>13, <1>14,
     <1>15, <1>16, <1>17, Zenon DEF Run
<1> QED
  BY <1>18, <1>19, <1>20, <1>21, <1>22, <1>23, <1>24 DEF Next

\* It holds in every behaviour of the specification.
LEMMA TypeInvCorrect == Spec => []TypeInv
<1>1. Init => TypeInv
  BY InitTypes
<1>2. TypeInv /\ [Next]_vars => TypeInv'
  BY TypeStep
<1> QED
  BY <1>1, <1>2, PTL DEF Spec

\* Type correctness of the two-way engine, and the size of its queues: longer
\* than a batch only after a call that failed.
THEOREM TypeCorrect == Spec => []TypeOK
  BY TypeInvCorrect, TypeInvIsEnough, PTL

-----------------------------------------------------------------------------
(* What the engine keeps true of storages and metadata.  S stands for the  *)
(* storages, m for the metadata, s for a side and x for an id of it.       *)

Has(S, s, x)    == x \in DOMAIN S[s].items
Tracks(m, s, x) == x \in DOMAIN m.rev[s]
Knows(S, m, s, x) == Has(S, s, x) /\ Tracks(m, s, x) /\ m.rev[s][x] = S[s].items[x].rev
Object(S, s, x) == [id |-> x, item |-> S[s].items[x].item, rev |-> S[s].items[x].rev]

\* The half on side s of the pair with the remote id r.
Mate(m, r, s) == IF s = "remote" THEN r ELSE m.map[r]

\* The metadata pairs the ids it tracks one to one.
Bijective(m) ==
  /\ \A r \in DOMAIN m.map, s \in Sides : Tracks(m, s, Mate(m, r, s))
  /\ \A r, t \in DOMAIN m.map, s \in Sides : Mate(m, r, s) = Mate(m, t, s) => r = t
  /\ \A s \in Sides : \A x \in DOMAIN m.rev[s] : \E r \in DOMAIN m.map : Mate(m, r, s) = x

\* It knows nothing that the storages have not given out yet.
Known(S, m) == \A s \in Sides :
                 \A x \in DOMAIN m.rev[s] : x <= S[s].clock /\ m.rev[s][x] <= S[s].clock

SameItem(S, m, r) == S["remote"].items[r].item = S["local"].items[m.map[r]].item

\* Both halves are as the metadata knows them, and equal.
Settled(S, m, r) == (\A s \in Sides : Knows(S, m, s, Mate(m, r, s))) /\ SameItem(S, m, r)

(* Of each side, U holds the objects that wait for a counterpart on the    *)
(* other, M the modifications and R the removals to come; W holds the      *)
(* pairs that a loop will come to, and V what was found out: the states    *)
(* and the changed objects.                                                *)

Scheduled(m, M, r) == \E s \in Sides : \E e \in M[s] : e.id = Mate(m, r, s)

PairsOK(S, m, M, W) == \A r \in DOMAIN m.map : r \in W \/ Settled(S, m, r) \/ Scheduled(m, M, r)

FoundState(V, s, x) == IF x \in DOMAIN V.state[s] THEN V.state[s][x] ELSE "NotPresent"

\* An item is as the engine found it.
InState(V, S, m, s, x) ==
  /\ FoundState(V, s, x) = "NotPresent" => ~Has(S, s, x)
  /\ FoundState(V, s, x) = "NotChanged" => Knows(S, m, s, x)
  /\ FoundState(V, s, x) = "Modified" => Has(S, s, x) /\ V.changed[s][x] = Object(S, s, x)

WaitsOK(V, S, m, W) == \A r \in W :
                         r \in DOMAIN m.map /\ \A s \in Sides : InState(V, S, m, s, Mate(m, r, s))

\* A modification brings one half of a pair to the other half, which the
\* metadata knows and which nothing else is going to modify.
Change(S, m, M, W, s, e) ==
  /\ e \in Changes
  /\ \E r \in DOMAIN m.map : r \notin W /\ Mate(m, r, s) = e.id /\ Mate(m, r, Other(s)) = e.obj.id
  /\ Has(S, s, e.id) /\ Knows(S, m, Other(s), e.obj.id) /\ e.obj = Object(S, Other(s), e.obj.id)
  /\ \A d \in M[Other(s)] : d.id # e.obj.id

ModsOK(S, m, M, W) == \A s \in Sides : \A e \in M[s] : Change(S, m, M, W, s, e)

\* What waits or is to be removed is there and untracked.
Waiting(S, m, R, s, f) == f \in Objects /\ Has(S, s, f.id) /\ f = Object(S, s, f.id) /\ ~Tracks(m, s, f.id) /\ f.id \notin R[s]

ClaimsOK(S, m, U, R) ==
  \A s \in Sides : /\ \A f \in U[s] : Waiting(S, m, R, s, f)
                   /\ \A x \in R[s] : Has(S, s, x) /\ ~Tracks(m, s, x)

Sound(V, S, m, U, M, R, W) ==
  /\ Bijective(m) /\ Known(S, m)
  /\ PairsOK(S, m, M, W) /\ WaitsOK(V, S, m, W) /\ ModsOK(S, m, M, W) /\ ClaimsOK(S, m, U, R)

\* Every item is tracked, waits, or is to be removed.
Covered(S, m, U, R) ==
  \A s \in Sides :
    \A x \in DOMAIN S[s].items : Tracks(m, s, x) \/ x \in R[s] \/ \E f \in U[s] : f.id = x

-----------------------------------------------------------------------------
(* What a step leaves alone: from storages S and metadata m to T and n.    *)

SameAt(S, m, T, n, s, x) ==
  /\ Has(T, s, x) <=> Has(S, s, x)
  /\ Has(S, s, x) => T[s].items[x] = S[s].items[x]
  /\ Tracks(n, s, x) <=> Tracks(m, s, x)
  /\ Tracks(m, s, x) => n.rev[s][x] = m.rev[s][x]

\* What a step leaves alone it leaves known, tracked and unchanged.
LEMMA SameFacts ==
  ASSUME NEW S, NEW m, NEW T, NEW n, NEW s, NEW x, SameAt(S, m, T, n, s, x)
  PROVE  /\ Knows(T, n, s, x) <=> Knows(S, m, s, x)
         /\ Has(T, s, x) <=> Has(S, s, x)
         /\ Tracks(n, s, x) <=> Tracks(m, s, x)
         /\ Has(S, s, x) => Object(T, s, x) = Object(S, s, x)
         /\ Has(S, s, x) => T[s].items[x] = S[s].items[x]
  BY DEF SameAt, Knows, Object

\* Everything but the ids in X, one of each side or none.
Elsewhere(S, m, T, n, X) == \A s \in Sides : \A x : x \notin X[s] => SameAt(S, m, T, n, s, x)

\* A settled pair that a step leaves alone stays settled.
LEMMA SettledStays ==
  ASSUME NEW S, NEW m, NEW T, NEW n, NEW r, Settled(S, m, r),
         \A s \in Sides : Mate(n, r, s) = Mate(m, r, s) /\ SameAt(S, m, T, n, s, Mate(m, r, s))
  PROVE  Settled(T, n, r)
<1>1. \A s \in Sides : Knows(T, n, s, Mate(n, r, s))
  BY SameFacts DEF Settled
<1>2. /\ Mate(m, r, "remote") = r /\ Mate(m, r, "local") = m.map[r]
      /\ Mate(n, r, "remote") = r /\ Mate(n, r, "local") = n.map[r]
  BY DEF Mate
<1>3. Has(S, "remote", r) /\ Has(S, "local", m.map[r])
  BY <1>2, SideFacts DEF Settled, Knows
<1>4. /\ T["remote"].items[r] = S["remote"].items[r]
      /\ T["local"].items[n.map[r]] = S["local"].items[m.map[r]]
  BY <1>2, <1>3, SideFacts, SameFacts
<1> QED
  BY <1>1, <1>4 DEF Settled, SameItem

\* An item that a step leaves alone stays as the engine found it.
LEMMA InStateStays ==
  ASSUME NEW V, NEW S, NEW m, NEW T, NEW n, NEW s, NEW x, SameAt(S, m, T, n, s, x), InState(V, S, m, s, x)
  PROVE  InState(V, T, n, s, x)
  BY SameFacts DEF InState

\* A scheduled modification whose two items a step leaves alone stays sound.
LEMMA ChangeStays ==
  ASSUME NEW S, NEW m, NEW T, NEW n, NEW M, NEW L, NEW W, NEW X, NEW s \in Sides, NEW e, Change(S, m, M, W, s, e),
         SameAt(S, m, T, n, s, e.id), SameAt(S, m, T, n, Other(s), e.obj.id),
         \A d \in L[Other(s)] : d.id # e.obj.id,
         \E r \in DOMAIN n.map :
           r \notin X /\ Mate(n, r, s) = e.id /\ Mate(n, r, Other(s)) = e.obj.id
  PROVE  Change(T, n, L, X, s, e)
<1>1. Has(T, s, e.id)
  BY SameFacts DEF Change
<1>2. Knows(T, n, Other(s), e.obj.id)
  BY SameFacts DEF Change
<1>3. Has(S, Other(s), e.obj.id)
  BY DEF Change, Knows
<1>4. Object(T, Other(s), e.obj.id) = Object(S, Other(s), e.obj.id)
  BY <1>3, SameFacts
<1>5. e \in Changes /\ e.obj = Object(S, Other(s), e.obj.id)
  BY DEF Change
<1> QED
  BY <1>1, <1>2, <1>4, <1>5 DEF Change

\* An object that a step leaves alone goes on waiting.
LEMMA WaitingStays ==
  ASSUME NEW S, NEW m, NEW T, NEW n, NEW R, NEW Q, NEW s, NEW f, Waiting(S, m, R, s, f),
         SameAt(S, m, T, n, s, f.id), f.id \notin Q[s]
  PROVE  Waiting(T, n, Q, s, f)
  BY SameFacts DEF Waiting

-----------------------------------------------------------------------------
(* Two items become a pair: both existed and waited, or one was made as    *)
(* the copy of the other.                                                  *)

Joined(m, n, r, l) ==
  /\ DOMAIN n.map = DOMAIN m.map \cup {r} /\ n.map[r] = l
  /\ \A q \in DOMAIN m.map : n.map[q] = m.map[q]
  /\ ~Tracks(m, "remote", r) /\ ~Tracks(m, "local", l)

Ends(r, l) == [s \in Sides |-> {IF s = "remote" THEN r ELSE l}]

\* Making a pair keeps the account sound, if nothing of either half was asked
\* for before.
LEMMA JoinSound ==
  ASSUME NEW V, NEW S, NEW m, NEW U, NEW M, NEW R, NEW W, NEW T, NEW n, NEW N, NEW r, NEW l,
         Sound(V, S, m, U, M, R, W), Known(T, n), Joined(m, n, r, l),
         Elsewhere(S, m, T, n, Ends(r, l)), Settled(T, n, r),
         \A s \in Sides : N[s] \subseteq U[s] /\ \A f \in N[s] : f.id # Mate(n, r, s),
         \A s \in Sides : Mate(n, r, s) \notin R[s]
  PROVE  Sound(V, T, n, N, M, R, W)
<1>0. /\ Bijective(m) /\ Known(S, m)
      /\ PairsOK(S, m, M, W) /\ WaitsOK(V, S, m, W) /\ ModsOK(S, m, M, W) /\ ClaimsOK(S, m, U, R)
  BY DEF Sound
<1>1. r \notin DOMAIN m.map
  <2>1. r \in DOMAIN m.map => Tracks(m, "remote", Mate(m, r, "remote"))
    BY <1>0, SideFacts DEF Bijective
  <2> QED
    BY <2>1 DEF Joined, Mate
<1>2. \A q \in DOMAIN m.map : q # r /\ \A s \in Sides : Mate(n, q, s) = Mate(m, q, s)
  BY <1>1 DEF Joined, Mate
<1>3. \A s \in Sides : ~Tracks(m, s, Mate(n, r, s)) /\ Ends(r, l)[s] = {Mate(n, r, s)}
  BY SideFacts DEF Joined, Mate, Ends
<1>4. \A s \in Sides : \A x : x # Mate(n, r, s) => SameAt(S, m, T, n, s, x)
  BY <1>3 DEF Elsewhere
<1>5. \A s \in Sides : \A x : Tracks(m, s, x) => x # Mate(n, r, s) /\ SameAt(S, m, T, n, s, x)
  BY <1>3, <1>4
<1>6. /\ \A q \in DOMAIN m.map, s \in Sides :
           Tracks(m, s, Mate(m, q, s)) /\ SameAt(S, m, T, n, s, Mate(m, q, s))
  BY <1>0, <1>5 DEF Bijective
<1>7. \A s \in Sides : Tracks(n, s, Mate(n, r, s))
  BY DEF Settled, Knows
<1>8. \A s \in Sides : \A x : Tracks(n, s, x) <=> Tracks(m, s, x) \/ x = Mate(n, r, s)
  BY <1>4, <1>5, <1>7 DEF SameAt
<1>9. \A q : q \in DOMAIN n.map <=> q \in DOMAIN m.map \/ q = r
  BY DEF Joined
<1>10. Bijective(n)
  <2>1. ASSUME NEW q \in DOMAIN n.map, NEW s \in Sides PROVE Tracks(n, s, Mate(n, q, s))
    BY <1>2, <1>6, <1>7, <1>8, <1>9
  <2>2. ASSUME NEW q \in DOMAIN n.map, NEW t \in DOMAIN n.map, NEW s \in Sides, Mate(n, q, s) = Mate(n, t, s)
        PROVE q = t
    <3>1. \A p \in DOMAIN m.map : Mate(n, p, s) # Mate(n, r, s)
      BY <1>2, <1>6, <1>3
    <3>2. CASE q = r \/ t = r
      BY <3>1, <3>2, <2>2, <1>9
    <3>3. CASE q \in DOMAIN m.map /\ t \in DOMAIN m.map
      BY <3>3, <2>2, <1>2, <1>0 DEF Bijective
    <3> QED
      BY <3>2, <3>3, <1>9
  <2>3. ASSUME NEW s \in Sides, NEW x \in DOMAIN n.rev[s] PROVE \E q \in DOMAIN n.map :
                                                                  Mate(n, q, s) = x
    <3>1. CASE x = Mate(n, r, s)
      BY <3>1, <1>9
    <3>2. CASE Tracks(m, s, x)
      <4>1. PICK q \in DOMAIN m.map : Mate(m, q, s) = x
        BY <3>2, <1>0 DEF Bijective, Tracks
      <4> QED
        BY <4>1, <1>2, <1>9
    <3> QED
      BY <3>1, <3>2, <1>8 DEF Tracks
  <2> QED
    BY <2>1, <2>2, <2>3 DEF Bijective
<1>11. PairsOK(T, n, M, W)
  <2> SUFFICES ASSUME NEW q \in DOMAIN n.map, q # r, q \notin W PROVE Settled(T, n, q) \/ Scheduled(n, M, q)
    BY DEF PairsOK
  <2>1. q \in DOMAIN m.map /\ (Settled(S, m, q) \/ Scheduled(m, M, q))
    BY <1>0, <1>9 DEF PairsOK
  <2>2. Settled(S, m, q) => Settled(T, n, q)
    BY <2>1, <1>2, <1>6, SettledStays
  <2>3. Scheduled(m, M, q) => Scheduled(n, M, q)
    BY <2>1, <1>2 DEF Scheduled
  <2> QED
    BY <2>1, <2>2, <2>3
<1>12. WaitsOK(V, T, n, W)
  <2> SUFFICES ASSUME NEW q \in W PROVE q \in DOMAIN n.map /\ \A s \in Sides :
                                                                InState(V, T, n, s, Mate(n, q, s))
    BY DEF WaitsOK
  <2>1. q \in DOMAIN m.map /\ \A s \in Sides : InState(V, S, m, s, Mate(m, q, s))
    BY <1>0 DEF WaitsOK
  <2> QED
    BY <2>1, <1>2, <1>6, <1>9, InStateStays
<1>13. ModsOK(T, n, M, W)
  <2> SUFFICES ASSUME NEW s \in Sides, NEW e \in M[s] PROVE Change(T, n, M, W, s, e)
    BY DEF ModsOK
  <2>1. Change(S, m, M, W, s, e) /\ Other(s) \in Sides
    BY <1>0, SideFacts DEF ModsOK
  <2>2. PICK q \in DOMAIN m.map : q \notin W /\ Mate(m, q, s) = e.id /\ Mate(m, q, Other(s)) = e.obj.id
    BY <2>1 DEF Change
  <2>3. SameAt(S, m, T, n, s, e.id) /\ SameAt(S, m, T, n, Other(s), e.obj.id)
    BY <2>1, <2>2, <1>6
  <2>4. /\ \E t \in DOMAIN n.map :
             t \notin W /\ Mate(n, t, s) = e.id /\ Mate(n, t, Other(s)) = e.obj.id
    BY <2>1, <2>2, <1>2, <1>9
  <2>5. \A d \in M[Other(s)] : d.id # e.obj.id
    BY <2>1 DEF Change
  <2> QED
    BY <2>1, <2>3, <2>4, <2>5, ChangeStays
<1>14. ClaimsOK(T, n, N, R)
  <2>1. ASSUME NEW s \in Sides, NEW f \in N[s] PROVE Waiting(T, n, R, s, f)
    <3>1. Waiting(S, m, R, s, f) /\ f.id # Mate(n, r, s)
      BY <1>0 DEF ClaimsOK
    <3> QED
      BY <3>1, <1>4, WaitingStays DEF Waiting
  <2>2. ASSUME NEW s \in Sides, NEW x \in R[s] PROVE Has(T, s, x) /\ ~Tracks(n, s, x)
    BY <1>0, <1>4 DEF ClaimsOK, SameAt
  <2> QED
    BY <2>1, <2>2 DEF ClaimsOK
<1> QED
  BY <1>10, <1>11, <1>12, <1>13, <1>14 DEF Sound

\* Making a pair leaves no item out.
LEMMA JoinCovered ==
  ASSUME NEW S, NEW m, NEW U, NEW R, NEW T, NEW n, NEW N, NEW r, NEW l,
         Covered(S, m, U, R), n.map[r] = l,
         Elsewhere(S, m, T, n, Ends(r, l)), Settled(T, n, r),
         \A s \in Sides : \A f \in U[s] : f \in N[s] \/ f.id = Mate(n, r, s)
  PROVE  Covered(T, n, N, R)
<1> SUFFICES ASSUME NEW s \in Sides, NEW x \in DOMAIN T[s].items
             PROVE  Tracks(n, s, x) \/ x \in R[s] \/ \E f \in N[s] : f.id = x
  BY DEF Covered
<1>1. CASE x = Mate(n, r, s)
  BY <1>1 DEF Settled, Knows
<1>2. CASE x # Mate(n, r, s)
  <2>1. SameAt(S, m, T, n, s, x)
    BY <1>2, SideFacts DEF Elsewhere, Ends, Mate
  <2>2. Has(S, s, x) /\ (Tracks(n, s, x) <=> Tracks(m, s, x))
    BY <2>1 DEF SameAt, Has
  <2>3. Tracks(m, s, x) \/ x \in R[s] \/ \E f \in U[s] : f.id = x
    BY <2>2 DEF Covered, Has
  <2> QED
    BY <2>2, <2>3, <1>2
<1> QED
  BY <1>1, <1>2

-----------------------------------------------------------------------------
(* A pair that a loop comes to is forgotten; its items wait, are to be     *)
(* removed, or are not there any more.                                     *)

Parted(m, n, r) ==
  /\ \A q : q \in DOMAIN n.map <=> q \in DOMAIN m.map /\ q # r
  /\ \A q \in DOMAIN n.map : n.map[q] = m.map[q]
  /\ \A s \in Sides : \A x : Tracks(n, s, x) <=> Tracks(m, s, x) /\ x # Mate(m, r, s)
  /\ \A s \in Sides : \A x \in DOMAIN n.rev[s] : n.rev[s][x] = m.rev[s][x]

\* Forgetting a pair keeps the account sound, if its halves wait or are to be
\* removed.
LEMMA PartSound ==
  ASSUME NEW V, NEW S, NEW m, NEW U, NEW M, NEW R, NEW W, NEW n, NEW N, NEW Q, NEW r \in W,
         Sound(V, S, m, U, M, R, W), Parted(m, n, r),
         \A s \in Sides : \A f \in N[s] :
            f \in U[s] \/ (f \in Objects /\ f.id = Mate(m, r, s) /\ Has(S, s, f.id) /\ f = Object(S, s, f.id)
                           /\ f.id \notin Q[s]),
         \A s \in Sides : \A x \in Q[s] : x \in R[s] \/ (x = Mate(m, r, s) /\ Has(S, s, x))
  PROVE  Sound(V, S, n, N, M, Q, W \ {r})
<1> DEFINE X == W \ {r}
<1>0. /\ Bijective(m) /\ Known(S, m)
      /\ PairsOK(S, m, M, W) /\ WaitsOK(V, S, m, W) /\ ModsOK(S, m, M, W) /\ ClaimsOK(S, m, U, R)
  BY DEF Sound
<1>1. \A q : q \in DOMAIN n.map <=> q \in DOMAIN m.map /\ q # r
  BY DEF Parted
<1>2. \A q \in DOMAIN n.map, s \in Sides : Mate(n, q, s) = Mate(m, q, s)
  BY DEF Parted, Mate
<1>3. \A s \in Sides : \A x : x # Mate(m, r, s) => SameAt(S, m, S, n, s, x)
  BY DEF Parted, SameAt, Tracks
<1>4. r \in DOMAIN m.map
  BY <1>0 DEF WaitsOK
<1>5. /\ \A q \in DOMAIN n.map, s \in Sides :
           Mate(m, q, s) # Mate(m, r, s) /\ SameAt(S, m, S, n, s, Mate(m, q, s))
  BY <1>0, <1>1, <1>3, <1>4 DEF Bijective
<1>6. \A s \in Sides : \A x : Tracks(n, s, x) <=> Tracks(m, s, x) /\ x # Mate(m, r, s)
  BY DEF Parted
<1>10. Bijective(n)
  <2>1. ASSUME NEW q \in DOMAIN n.map, NEW s \in Sides PROVE Tracks(n, s, Mate(n, q, s))
    BY <1>0, <1>1, <1>2, <1>5, <1>6 DEF Bijective
  <2>2. ASSUME NEW q \in DOMAIN n.map, NEW t \in DOMAIN n.map, NEW s \in Sides, Mate(n, q, s) = Mate(n, t, s)
        PROVE q = t
    BY <2>2, <1>0, <1>1, <1>2 DEF Bijective
  <2>3. ASSUME NEW s \in Sides, NEW x \in DOMAIN n.rev[s] PROVE \E q \in DOMAIN n.map :
                                                                  Mate(n, q, s) = x
    <3>1. x \in DOMAIN m.rev[s] /\ x # Mate(m, r, s)
      BY <1>6 DEF Tracks
    <3>2. PICK q \in DOMAIN m.map : Mate(m, q, s) = x
      BY <3>1, <1>0 DEF Bijective
    <3> QED
      BY <3>1, <3>2, <1>1, <1>2
  <2> QED
    BY <2>1, <2>2, <2>3 DEF Bijective
<1>11. Known(S, n)
  BY <1>0, <1>6 DEF Known, Parted, Tracks
<1>12. PairsOK(S, n, M, X)
  <2> SUFFICES ASSUME NEW q \in DOMAIN n.map, q \notin X PROVE Settled(S, n, q) \/ Scheduled(n, M, q)
    BY DEF PairsOK
  <2>1. q \in DOMAIN m.map /\ q \notin W /\ (Settled(S, m, q) \/ Scheduled(m, M, q))
    BY <1>0, <1>1 DEF PairsOK
  <2>2. Settled(S, m, q) => Settled(S, n, q)
    BY <1>2, <1>5, SettledStays
  <2>3. Scheduled(m, M, q) => Scheduled(n, M, q)
    BY <1>2 DEF Scheduled
  <2> QED
    BY <2>1, <2>2, <2>3
<1>13. WaitsOK(V, S, n, X)
  <2> SUFFICES ASSUME NEW q \in X PROVE q \in DOMAIN n.map /\ \A s \in Sides :
                                                                InState(V, S, n, s, Mate(n, q, s))
    BY DEF WaitsOK
  <2>1. q \in DOMAIN m.map /\ \A s \in Sides : InState(V, S, m, s, Mate(m, q, s))
    BY <1>0 DEF WaitsOK
  <2>2. q \in DOMAIN n.map
    BY <2>1, <1>1
  <2> QED
    BY <2>1, <2>2, <1>2, <1>5, InStateStays
<1>14. ModsOK(S, n, M, X)
  <2> SUFFICES ASSUME NEW s \in Sides, NEW e \in M[s] PROVE Change(S, n, M, X, s, e)
    BY DEF ModsOK
  <2>1. Change(S, m, M, W, s, e) /\ Other(s) \in Sides
    BY <1>0, SideFacts DEF ModsOK
  <2>2. PICK q \in DOMAIN m.map : q \notin W /\ Mate(m, q, s) = e.id /\ Mate(m, q, Other(s)) = e.obj.id
    BY <2>1 DEF Change
  <2>3. q \in DOMAIN n.map /\ q \notin X
    BY <2>2, <1>1
  <2>4. SameAt(S, m, S, n, s, e.id) /\ SameAt(S, m, S, n, Other(s), e.obj.id)
    BY <2>1, <2>2, <2>3, <1>5
  <2>5. Mate(n, q, s) = e.id /\ Mate(n, q, Other(s)) = e.obj.id
    BY <2>1, <2>2, <2>3, <1>2
  <2>6. \A d \in M[Other(s)] : d.id # e.obj.id
    BY <2>1 DEF Change
  <2> QED
    BY <2>1, <2>3, <2>4, <2>5, <2>6, ChangeStays
<1>15. ClaimsOK(S, n, N, Q)
  <2>1. ASSUME NEW s \in Sides, NEW f \in N[s] PROVE Waiting(S, n, Q, s, f)
    <3>1. CASE f \in U[s]
      <4>1. Waiting(S, m, R, s, f)
        BY <3>1, <1>0 DEF ClaimsOK
      <4>2. f.id # Mate(m, r, s)
        BY <4>1, <1>0, <1>4 DEF Waiting, Bijective
      <4>3. f.id \notin Q[s]
        BY <4>1, <4>2 DEF Waiting
      <4> QED
        BY <4>1, <4>2, <4>3, <1>3, WaitingStays
    <3>2. CASE f \notin U[s]
      BY <3>2, <1>6 DEF Waiting
    <3> QED
      BY <3>1, <3>2
  <2>2. ASSUME NEW s \in Sides, NEW x \in Q[s] PROVE Has(S, s, x) /\ ~Tracks(n, s, x)
    BY <1>0, <1>6 DEF ClaimsOK
  <2> QED
    BY <2>1, <2>2 DEF ClaimsOK
<1> QED
  BY <1>10, <1>11, <1>12, <1>13, <1>14, <1>15 DEF Sound

\* Forgetting a pair leaves no item out, if its halves wait or are to be
\* removed.
LEMMA PartCovered ==
  ASSUME NEW S, NEW m, NEW U, NEW R, NEW n, NEW N, NEW Q, NEW r,
         Covered(S, m, U, R), Parted(m, n, r),
         \A s \in Sides : U[s] \subseteq N[s] /\ R[s] \subseteq Q[s],
         \A s \in Sides : Has(S, s, Mate(m, r, s)) =>
            Mate(m, r, s) \in Q[s] \/ \E f \in N[s] : f.id = Mate(m, r, s)
  PROVE  Covered(S, n, N, Q)
<1> SUFFICES ASSUME NEW s \in Sides, NEW x \in DOMAIN S[s].items
             PROVE  Tracks(n, s, x) \/ x \in Q[s] \/ \E f \in N[s] : f.id = x
  BY DEF Covered
<1>1. CASE x = Mate(m, r, s)
  BY <1>1 DEF Has
<1>2. CASE x # Mate(m, r, s)
  <2>1. Tracks(n, s, x) <=> Tracks(m, s, x)
    BY <1>2 DEF Parted
  <2> QED
    BY <2>1 DEF Covered
<1> QED
  BY <1>1, <1>2

-----------------------------------------------------------------------------
(* The change of one half of a pair is scheduled for the other, s.         *)

\* Scheduling the change of a pair keeps the account sound.
LEMMA ScheduleSound ==
  ASSUME NEW V, NEW S, NEW m, NEW U, NEW M, NEW R, NEW W, NEW n, NEW L, NEW r \in W, NEW s \in Sides, NEW e \in Changes,
         Sound(V, S, m, U, M, R, W), Known(S, n), n.map = m.map,
         e.id = Mate(m, r, s), e.obj.id = Mate(m, r, Other(s)),
         \A t \in Sides : \A x : t = s \/ x # e.obj.id => SameAt(S, m, S, n, t, x),
         Has(S, s, e.id), Knows(S, n, Other(s), e.obj.id), e.obj = Object(S, Other(s), e.obj.id),
         \A d : d \in L[s] <=> d \in M[s] \/ d = e, L[Other(s)] = M[Other(s)]
  PROVE  Sound(V, S, n, U, L, R, W \ {r})
<1> DEFINE X == W \ {r}
           o == Other(s)
           y == e.obj.id
<1>0. /\ Bijective(m) /\ Known(S, m)
      /\ PairsOK(S, m, M, W) /\ WaitsOK(V, S, m, W) /\ ModsOK(S, m, M, W) /\ ClaimsOK(S, m, U, R)
  BY DEF Sound
<1>1. r \in DOMAIN m.map /\ DOMAIN n.map = DOMAIN m.map /\ \A q, t : Mate(n, q, t) = Mate(m, q, t)
  BY <1>0 DEF WaitsOK, Mate
<1>2. o \in Sides /\ o # s /\ Other(o) = s /\ \A t \in Sides : t = s \/ t = o
  BY SideFacts
<1>3. Tracks(m, o, y) /\ Tracks(n, o, y)
  BY <1>0, <1>1, <1>2 DEF Bijective, Knows
<1>4. \A t \in Sides : \A x : Tracks(n, t, x) <=> Tracks(m, t, x)
  BY <1>2, <1>3 DEF SameAt
<1>5. \A q \in DOMAIN m.map, t \in Sides : q # r => SameAt(S, m, S, n, t, Mate(m, q, t))
  <2> SUFFICES ASSUME NEW q \in DOMAIN m.map, NEW t \in Sides, q # r PROVE SameAt(S, m, S, n, t, Mate(m, q, t))
    OBVIOUS
  <2>1. t = s \/ Mate(m, q, t) # y
    BY <1>0, <1>1, <1>2 DEF Bijective
  <2> QED
    BY <2>1
<1> HIDE DEF o, y
<1>10. Bijective(n)
  BY <1>0, <1>1, <1>4 DEF Bijective, Tracks
<1>11. PairsOK(S, n, L, X)
  <2> SUFFICES ASSUME NEW q \in DOMAIN n.map, q \notin X PROVE Settled(S, n, q) \/ Scheduled(n, L, q)
    BY DEF PairsOK
  <2>1. CASE q = r
    <3>1. e \in L[s] /\ e.id = Mate(n, q, s)
      BY <2>1, <1>1
    <3> QED
      BY <3>1 DEF Scheduled
  <2>2. CASE q # r
    <3>1. q \in DOMAIN m.map /\ (Settled(S, m, q) \/ Scheduled(m, M, q))
      BY <2>2, <1>0, <1>1 DEF PairsOK
    <3>2. Settled(S, m, q) => Settled(S, n, q)
      BY <3>1, <2>2, <1>1, <1>5, SettledStays
    <3>3. \A t \in Sides : M[t] \subseteq L[t]
      BY <1>2 DEF o
    <3>4. Scheduled(m, M, q) => Scheduled(n, L, q)
      BY <3>3, <1>1 DEF Scheduled
    <3> QED
      BY <3>1, <3>2, <3>4
  <2> QED
    BY <2>1, <2>2
<1>12. WaitsOK(V, S, n, X)
  <2> SUFFICES ASSUME NEW q \in X PROVE q \in DOMAIN n.map /\ \A t \in Sides :
                                                                InState(V, S, n, t, Mate(n, q, t))
    BY DEF WaitsOK
  <2>1. q \in DOMAIN m.map /\ \A t \in Sides : InState(V, S, m, t, Mate(m, q, t))
    BY <1>0 DEF WaitsOK
  <2> QED
    BY <2>1, <1>1, <1>5, InStateStays
<1>13. ModsOK(S, n, L, X)
  <2>0. Mate(m, r, s) = e.id /\ Mate(m, r, o) = y
    BY DEF o, y
  <2>1. Change(S, n, L, X, s, e)
    <3>1. ASSUME NEW d \in L[o], d.id = y PROVE FALSE
      <4>1. d \in M[o] /\ Change(S, m, M, W, o, d)
        BY <1>0, <1>2 DEF ModsOK, o
      <4>2. PICK q \in DOMAIN m.map : q \notin W /\ Mate(m, q, o) = d.id
        BY <4>1 DEF Change
      <4>3. q = r
        BY <4>2, <3>1, <2>0, <1>0, <1>1, <1>2 DEF Bijective
      <4> QED
        BY <4>2, <4>3
    <3>2. /\ \E q \in DOMAIN n.map :
               q \notin X /\ Mate(n, q, s) = e.id /\ Mate(n, q, Other(s)) = e.obj.id
      BY <2>0, <1>1 DEF o, y
    <3> QED
      BY <3>1, <3>2 DEF Change, o, y
  <2>2. ASSUME NEW t \in Sides, NEW d \in L[t], d \in M[t] PROVE Change(S, n, L, X, t, d)
    <3>1. Change(S, m, M, W, t, d) /\ Other(t) \in Sides
      BY <2>2, <1>0, SideFacts DEF ModsOK
    <3>2. PICK q \in DOMAIN m.map : q \notin W /\ Mate(m, q, t) = d.id /\ Mate(m, q, Other(t)) = d.obj.id
      BY <3>1 DEF Change
    <3>3. q # r
      BY <3>2
    <3>4. SameAt(S, m, S, n, t, d.id) /\ SameAt(S, m, S, n, Other(t), d.obj.id)
      BY <3>1, <3>2, <3>3, <1>5
    <3>5. /\ \E p \in DOMAIN n.map :
               p \notin X /\ Mate(n, p, t) = d.id /\ Mate(n, p, Other(t)) = d.obj.id
      BY <3>2, <1>1
    <3>6. ASSUME NEW c \in L[Other(t)] PROVE c.id # d.obj.id
      <4>1. CASE c \in M[Other(t)]
        BY <4>1, <3>1 DEF Change
      <4>2. CASE c \notin M[Other(t)]
        <5>1. Other(t) = s /\ c = e
          BY <4>2, <3>1, <1>2 DEF o
        <5>2. Mate(m, q, s) # Mate(m, r, s)
          BY <3>2, <3>3, <1>0, <1>1 DEF Bijective
        <5> QED
          BY <5>1, <5>2, <3>2
      <4> QED
        BY <4>1, <4>2
    <3> QED
      BY <3>1, <3>4, <3>5, <3>6, ChangeStays
  <2>3. ASSUME NEW t \in Sides, NEW d \in L[t] PROVE d \in M[t] \/ (t = s /\ d = e)
    BY <1>2 DEF o
  <2> QED
    BY <2>1, <2>2, <2>3 DEF ModsOK
<1>14. ClaimsOK(S, n, U, R)
  BY <1>0, <1>4 DEF ClaimsOK, Waiting
<1> QED
  BY <1>10, <1>11, <1>12, <1>13, <1>14 DEF Sound

-----------------------------------------------------------------------------
(* A scheduled change is made: the pair is settled.                        *)

\* Of side s, L is M without e.
OneLess(L, M, s, e) == (\A d :
                          d \in L[s] <=> d \in M[s] /\ d # e) /\ \A t \in Sides :
                                                                   t # s => L[t] = M[t]

\* Making a scheduled change keeps the account sound.
LEMMA CarrySound ==
  ASSUME NEW V, NEW S, NEW m, NEW U, NEW M, NEW R, NEW W, NEW T, NEW n, NEW L, NEW s \in Sides, NEW e \in M[s],
         Sound(V, S, m, U, M, R, W), Known(T, n), n.map = m.map,
         \A t \in Sides : \A x : t # s \/ x # e.id => SameAt(S, m, T, n, t, x),
         Knows(T, n, s, e.id), T[s].items[e.id].item = e.obj.item,
         OneLess(L, M, s, e)
  PROVE  Sound(V, T, n, U, L, R, W)
<1> DEFINE o == Other(s)
           x == e.id
           y == e.obj.id
<1>0. /\ Bijective(m) /\ Known(S, m)
      /\ PairsOK(S, m, M, W) /\ WaitsOK(V, S, m, W) /\ ModsOK(S, m, M, W) /\ ClaimsOK(S, m, U, R)
  BY DEF Sound
<1>1. DOMAIN n.map = DOMAIN m.map /\ \A q, t : Mate(n, q, t) = Mate(m, q, t)
  BY DEF Mate
<1>2. o \in Sides /\ o # s /\ Other(o) = s /\ \A t \in Sides : t = s \/ t = o
  BY SideFacts
<1>b. /\ \A d : d \in L[s] <=> d \in M[s] /\ d # e
      /\ L[o] = M[o]
  BY <1>2 DEF OneLess
<1>3. Change(S, m, M, W, s, e)
  BY <1>0 DEF ModsOK
<1>4. PICK r \in DOMAIN m.map : r \notin W /\ Mate(m, r, s) = x /\ Mate(m, r, o) = y
  BY <1>3 DEF Change
<1>5. Tracks(m, s, x) /\ Tracks(n, s, x)
  BY <1>0, <1>4 DEF Bijective, Knows
<1>6. \A t \in Sides : \A z : Tracks(n, t, z) <=> Tracks(m, t, z)
  BY <1>2, <1>5 DEF SameAt
<1>7. \A q \in DOMAIN m.map, t \in Sides : q # r \/ t = o => SameAt(S, m, T, n, t, Mate(m, q, t))
  <2> SUFFICES ASSUME NEW q \in DOMAIN m.map, NEW t \in Sides, q # r \/ t = o PROVE SameAt(S, m, T, n, t, Mate(m, q, t))
    OBVIOUS
  <2>1. t # s \/ Mate(m, q, t) # x
    BY <1>0, <1>2, <1>4 DEF Bijective
  <2> QED
    BY <2>1
<1>8. Knows(T, n, o, y)
  <2>1. Knows(S, m, o, y)
    BY <1>3 DEF Change
  <2>2. SameAt(S, m, T, n, o, y)
    BY <1>2
  <2> QED
    BY <2>1, <2>2, SameFacts
<1>9. Settled(T, n, r)
  <2>1. \A t \in Sides : Knows(T, n, t, Mate(n, r, t))
    BY <1>1, <1>2, <1>4, <1>8
  <2>2. e.obj.item = S[o].items[y].item
    BY <1>3 DEF Change, Object
  <2>3. T[o].items[y] = S[o].items[y]
    <3>1. Has(S, o, y) /\ SameAt(S, m, T, n, o, y)
      BY <1>2, <1>3 DEF Change, Knows
    <3> QED
      BY <3>1, SameFacts
  <2>4. T[s].items[Mate(n, r, s)].item = T[o].items[Mate(n, r, o)].item
    BY <2>2, <2>3, <1>1, <1>4
  <2>5. /\ (s = "remote" /\ o = "local") \/ (s = "local" /\ o = "remote")
        /\ Mate(n, r, "remote") = r /\ Mate(n, r, "local") = n.map[r]
    BY <1>2 DEF Sides, Mate
  <2>6. SameItem(T, n, r)
    BY <2>4, <2>5 DEF SameItem
  <2> QED
    BY <2>1, <2>6 DEF Settled
<1> HIDE DEF o, x, y
<1>10. Bijective(n)
  BY <1>0, <1>1, <1>6 DEF Bijective, Tracks
<1>11. PairsOK(T, n, L, W)
  <2> SUFFICES ASSUME NEW q \in DOMAIN n.map, q \notin W, q # r PROVE Settled(T, n, q) \/ Scheduled(n, L, q)
    BY <1>9 DEF PairsOK
  <2>1. q \in DOMAIN m.map /\ (Settled(S, m, q) \/ Scheduled(m, M, q))
    BY <1>0, <1>1 DEF PairsOK
  <2>2. Settled(S, m, q) => Settled(T, n, q)
    BY <2>1, <1>1, <1>7, SettledStays
  <2>3. ASSUME Scheduled(m, M, q) PROVE Scheduled(n, L, q)
    <3>1. PICK t \in Sides : \E d \in M[t] : d.id = Mate(m, q, t)
      BY <2>3 DEF Scheduled
    <3>0. PICK d \in M[t] : d.id = Mate(m, q, t)
      BY <3>1
    <3>2. t = s => d # e
      BY <3>0, <2>1, <1>0, <1>4 DEF Bijective, x
    <3>3. d \in L[t]
      BY <3>0, <3>2, <1>2, <1>b
    <3> QED
      BY <3>0, <3>3, <1>1 DEF Scheduled
  <2> QED
    BY <2>1, <2>2, <2>3
<1>12. WaitsOK(V, T, n, W)
  <2> SUFFICES ASSUME NEW q \in W PROVE q \in DOMAIN n.map /\ \A t \in Sides :
                                                                InState(V, T, n, t, Mate(n, q, t))
    BY DEF WaitsOK
  <2>1. q \in DOMAIN m.map /\ q # r /\ \A t \in Sides : InState(V, S, m, t, Mate(m, q, t))
    BY <1>0, <1>4 DEF WaitsOK
  <2> QED
    BY <2>1, <1>1, <1>7, InStateStays
<1>13. ModsOK(T, n, L, W)
  <2> SUFFICES ASSUME NEW t \in Sides, NEW d \in L[t] PROVE Change(T, n, L, W, t, d)
    BY DEF ModsOK
  <2>1. d \in M[t] /\ (t = s => d # e)
    BY <1>2, <1>b
  <2>2. Change(S, m, M, W, t, d) /\ Other(t) \in Sides
    BY <2>1, <1>0, SideFacts DEF ModsOK
  <2>3. PICK q \in DOMAIN m.map : q \notin W /\ Mate(m, q, t) = d.id /\ Mate(m, q, Other(t)) = d.obj.id
    BY <2>2 DEF Change
  <2>4. q # r
    <3>1. ASSUME q = r PROVE FALSE
      <4>1. CASE t = s
        <5>1. d.id = e.id /\ d.obj.id = e.obj.id
          BY <3>1, <4>1, <2>3, <1>4 DEF x, y, o
        <5>2. /\ d.obj = Object(S, o, d.obj.id) /\ e.obj = Object(S, o, e.obj.id) /\ d \in Changes
              /\ e \in Changes
          BY <4>1, <2>2, <1>3 DEF Change, o
        <5>3. d = e
          BY <5>1, <5>2 DEF Changes
        <5> QED
          BY <4>1, <5>3, <2>1
      <4>2. CASE t = o
        <5>1. d.id = e.obj.id /\ d \in M[Other(s)]
          BY <3>1, <4>2, <2>1, <2>3, <1>4 DEF y, o
        <5> QED
          BY <5>1, <1>3 DEF Change
      <4> QED
        BY <4>1, <4>2, <1>2
    <3> QED
      BY <3>1
  <2>5. SameAt(S, m, T, n, t, d.id) /\ SameAt(S, m, T, n, Other(t), d.obj.id)
    BY <2>2, <2>3, <2>4, <1>7
  <2>6. \A c \in L[Other(t)] : c.id # d.obj.id
    <3>1. \A c \in M[Other(t)] : c.id # d.obj.id
      BY <2>2 DEF Change
    <3>2. Other(t) = s \/ Other(t) = o
      BY <2>2, <1>2
    <3> QED
      BY <3>1, <3>2, <1>b
  <2>7. /\ \E p \in DOMAIN n.map :
             p \notin W /\ Mate(n, p, t) = d.id /\ Mate(n, p, Other(t)) = d.obj.id
    BY <2>3, <1>1
  <2> QED
    BY <2>2, <2>5, <2>6, <2>7, ChangeStays
<1>14. ClaimsOK(T, n, U, R)
  <2>1. ASSUME NEW t \in Sides, NEW z, ~Tracks(m, t, z) PROVE SameAt(S, m, T, n, t, z)
    BY <2>1, <1>5 DEF x
  <2>2. ASSUME NEW t \in Sides, NEW f \in U[t] PROVE Waiting(T, n, R, t, f)
    <3>1. Waiting(S, m, R, t, f)
      BY <1>0 DEF ClaimsOK
    <3>2. SameAt(S, m, T, n, t, f.id) /\ f.id \notin R[t]
      BY <3>1, <2>1 DEF Waiting
    <3> QED
      BY <3>1, <3>2, WaitingStays
  <2>3. ASSUME NEW t \in Sides, NEW z \in R[t] PROVE Has(T, t, z) /\ ~Tracks(n, t, z)
    BY <2>1, <1>0 DEF ClaimsOK, SameAt
  <2> QED
    BY <2>2, <2>3 DEF ClaimsOK
<1> QED
  BY <1>10, <1>11, <1>12, <1>13, <1>14 DEF Sound

\* Items come and go on no side, and none is tracked that was not.
LEMMA SameCovered ==
  ASSUME NEW S, NEW m, NEW U, NEW R, NEW T, NEW n, Covered(S, m, U, R),
         \A s \in Sides :
           \A x : (Has(T, s, x) => Has(S, s, x)) /\ (Tracks(m, s, x) => Tracks(n, s, x))
  PROVE  Covered(T, n, U, R)
  BY DEF Covered, Has

-----------------------------------------------------------------------------
(* A removal is made.                                                      *)

\* Making a removal keeps the account sound.
LEMMA DiscardSound ==
  ASSUME NEW V, NEW S, NEW m, NEW U, NEW M, NEW R, NEW W, NEW T, NEW Q, NEW s \in Sides, NEW z \in R[s],
         Sound(V, S, m, U, M, R, W), Known(T, m),
         \A t \in Sides : \A x : t # s \/ x # z => SameAt(S, m, T, m, t, x),
         OneLess(Q, R, s, z)
  PROVE  Sound(V, T, m, U, M, Q, W)
<1>0. /\ Bijective(m) /\ Known(S, m)
      /\ PairsOK(S, m, M, W) /\ WaitsOK(V, S, m, W) /\ ModsOK(S, m, M, W) /\ ClaimsOK(S, m, U, R)
  BY DEF Sound
<1>1. ~Tracks(m, s, z) /\ \A t \in Sides : t = s \/ t = Other(s)
  BY <1>0, SideFacts DEF ClaimsOK
<1>2. \A t \in Sides : \A x : Tracks(m, t, x) => SameAt(S, m, T, m, t, x)
  BY <1>1
<1>3. \A q \in DOMAIN m.map, t \in Sides : SameAt(S, m, T, m, t, Mate(m, q, t))
  BY <1>0, <1>2 DEF Bijective
<1>4. PairsOK(T, m, M, W)
  <2>1. \A q \in DOMAIN m.map : Settled(S, m, q) => Settled(T, m, q)
    BY <1>3, SettledStays
  <2> QED
    BY <2>1, <1>0 DEF PairsOK
<1>5. WaitsOK(V, T, m, W)
  BY <1>0, <1>3, InStateStays DEF WaitsOK
<1>6. ModsOK(T, m, M, W)
  <2> SUFFICES ASSUME NEW t \in Sides, NEW d \in M[t] PROVE Change(T, m, M, W, t, d)
    BY DEF ModsOK
  <2>1. Change(S, m, M, W, t, d) /\ Other(t) \in Sides
    BY <1>0, SideFacts DEF ModsOK
  <2>2. PICK q \in DOMAIN m.map : q \notin W /\ Mate(m, q, t) = d.id /\ Mate(m, q, Other(t)) = d.obj.id
    BY <2>1 DEF Change
  <2>3. SameAt(S, m, T, m, t, d.id) /\ SameAt(S, m, T, m, Other(t), d.obj.id)
    BY <2>1, <2>2, <1>3
  <2>4. \A c \in M[Other(t)] : c.id # d.obj.id
    BY <2>1 DEF Change
  <2> QED
    BY <2>1, <2>2, <2>3, <2>4, ChangeStays
<1>7. \A t \in Sides : \A x : x \in Q[t] => x \in R[t] /\ SameAt(S, m, T, m, t, x)
  BY <1>1 DEF OneLess
<1>8. ClaimsOK(T, m, U, Q)
  <2>1. ASSUME NEW t \in Sides, NEW f \in U[t] PROVE Waiting(T, m, Q, t, f)
    <3>1. Waiting(S, m, R, t, f)
      BY <1>0 DEF ClaimsOK
    <3>2. SameAt(S, m, T, m, t, f.id) /\ f.id \notin Q[t]
      BY <3>1, <1>7 DEF Waiting
    <3> QED
      BY <3>1, <3>2, WaitingStays
  <2>2. ASSUME NEW t \in Sides, NEW x \in Q[t] PROVE Has(T, t, x) /\ ~Tracks(m, t, x)
    BY <1>0, <1>7 DEF ClaimsOK, SameAt
  <2> QED
    BY <2>1, <2>2 DEF ClaimsOK
<1> QED
  BY <1>0, <1>4, <1>5, <1>6, <1>8 DEF Sound

\* Making a removal leaves no item out.
LEMMA DiscardCovered ==
  ASSUME NEW S, NEW m, NEW U, NEW R, NEW T, NEW Q, NEW s \in Sides, NEW z,
         Covered(S, m, U, R), ~Has(T, s, z),
         \A t \in Sides : \A x : t # s \/ x # z => SameAt(S, m, T, m, t, x),
         OneLess(Q, R, s, z)
  PROVE  Covered(T, m, U, Q)
<1> SUFFICES ASSUME NEW t \in Sides, NEW x \in DOMAIN T[t].items
             PROVE  Tracks(m, t, x) \/ x \in Q[t] \/ \E f \in U[t] : f.id = x
  BY DEF Covered
<1>1. t # s \/ x # z
  BY DEF Has
<1>2. Has(S, t, x)
  BY <1>1 DEF SameAt, Has
<1>3. t = s \/ t = Other(s)
  BY SideFacts
<1> QED
  BY <1>1, <1>2, <1>3 DEF Covered, Has, OneLess

-----------------------------------------------------------------------------
(* The steps of the code that these are.                                   *)

\* addItem() of two ids that were not tracked.
LEMMA AddItemFacts ==
  ASSUME NEW m, NEW r, NEW rrev, NEW l, NEW lrev, NEW n, n = AddItem(m, r, rrev, l, lrev)
  PROVE  /\ DOMAIN n.map = DOMAIN m.map \cup {r} /\ n.map[r] = l
         /\ \A q \in DOMAIN m.map : q # r => n.map[q] = m.map[q]
         /\ \A x : Tracks(n, "remote", x) <=> Tracks(m, "remote", x) \/ x = r
         /\ \A x : Tracks(n, "local", x) <=> Tracks(m, "local", x) \/ x = l
         /\ n.rev["remote"][r] = rrev /\ n.rev["local"][l] = lrev
         /\ \A x : Tracks(m, "remote", x) /\ x # r => n.rev["remote"][x] = m.rev["remote"][x]
         /\ \A x : Tracks(m, "local", x) /\ x # l => n.rev["local"][x] = m.rev["local"][x]
<1>1. /\ n.rev["local"] = Put(m.rev["local"], l, lrev)
      /\ n.rev["remote"] = Put(m.rev["remote"], r, rrev)
      /\ n.map = Put(m.map, r, l)
  BY DEF AddItem
<1>2. /\ DOMAIN n.map = DOMAIN m.map \cup {r} /\ n.map[r] = l
      /\ \A q : q \in DOMAIN m.map /\ q # r => n.map[q] = m.map[q]
  BY <1>1 DEF Put
<1>3. /\ n.rev["remote"][r] = rrev
      /\ \A x : x \in DOMAIN n.rev["remote"] <=> x \in DOMAIN m.rev["remote"] \/ x = r
      /\ \A x : x \in DOMAIN m.rev["remote"] /\ x # r => n.rev["remote"][x] = m.rev["remote"][x]
  BY <1>1 DEF Put
<1>4. /\ n.rev["local"][l] = lrev
      /\ \A x : x \in DOMAIN n.rev["local"] <=> x \in DOMAIN m.rev["local"] \/ x = l
      /\ \A x : x \in DOMAIN m.rev["local"] /\ x # l => n.rev["local"][x] = m.rev["local"][x]
  BY <1>1 DEF Put
<1> QED
  BY <1>2, <1>3, <1>4 DEF Tracks

\* The storages S, with well-typed contents.
Stores(S) == DOMAIN S = Sides /\ \A s \in Sides : StoreOK(S[s])

\* Of a side, all items but x are as they were; and what x is.
Kept(S, T, s, x) ==
  \A y : y # x => (Has(T, s, y) <=> Has(S, s, y)) /\ (Has(S, s, y) => T[s].items[y] = S[s].items[y])
Holds(T, s, x, item, rev) ==
  /\ Has(T, s, x) /\ T[s].items[x].item = item /\ T[s].items[x].rev = rev
  /\ x <= T[s].clock /\ rev <= T[s].clock

\* Nothing is known of x, and N is U without it.
Stranger(m, R, s, x) == ~Tracks(m, s, x) /\ x \notin R[s]
Minus(N, U, s, x) == \A f : f \in N[s] <=> f \in U[s] /\ f.id # x

Clocks(S, T) == \A s \in Sides :
                  S[s].clock <= T[s].clock /\ S[s].clock \in Nat /\ T[s].clock \in Nat

\* A pair is made of an object of each side.
LEMMA PairStep ==
  ASSUME NEW V, NEW S, NEW m, NEW U, NEW M, NEW R, NEW W, NEW T, NEW n, NEW N,
         NEW r, NEW l, NEW rrev, NEW lrev, NEW item, MetaOK(m), Sound(V, S, m, U, M, R, W),
         n = AddItem(m, r, rrev, l, lrev), Clocks(S, T),
         Stranger(m, R, "remote", r), Kept(S, T, "remote", r), Holds(T, "remote", r, item, rrev),
         Minus(N, U, "remote", r),
         Stranger(m, R, "local", l), Kept(S, T, "local", l), Holds(T, "local", l, item, lrev), Minus(N, U, "local", l)
  PROVE  /\ Sound(V, T, n, N, M, R, W)
         /\ Covered(S, m, U, R) => Covered(T, n, N, R)
<1>1. /\ DOMAIN n.map = DOMAIN m.map \cup {r} /\ n.map[r] = l
      /\ \A q \in DOMAIN m.map : q # r => n.map[q] = m.map[q]
      /\ \A x : Tracks(n, "remote", x) <=> Tracks(m, "remote", x) \/ x = r
      /\ \A x : Tracks(n, "local", x) <=> Tracks(m, "local", x) \/ x = l
      /\ n.rev["remote"][r] = rrev /\ n.rev["local"][l] = lrev
      /\ \A x : Tracks(m, "remote", x) /\ x # r => n.rev["remote"][x] = m.rev["remote"][x]
      /\ \A x : Tracks(m, "local", x) /\ x # l => n.rev["local"][x] = m.rev["local"][x]
  BY AddItemFacts
<1>2. Bijective(m) /\ Known(S, m)
  BY DEF Sound
<1>3. r \notin DOMAIN m.map
  <2>1. r \in DOMAIN m.map => Tracks(m, "remote", Mate(m, r, "remote"))
    BY <1>2, SideFacts DEF Bijective
  <2> QED
    BY <2>1 DEF Mate, Stranger
<1>4. Joined(m, n, r, l)
  BY <1>1, <1>3 DEF Joined, Stranger
<1>5. Mate(n, r, "remote") = r /\ Mate(n, r, "local") = l
  BY <1>1 DEF Mate
<1>6. Elsewhere(S, m, T, n, Ends(r, l))
  <2>1. ASSUME NEW x, x # r PROVE SameAt(S, m, T, n, "remote", x)
    BY <2>1, <1>1 DEF SameAt, Kept
  <2>2. ASSUME NEW x, x # l PROVE SameAt(S, m, T, n, "local", x)
    BY <2>2, <1>1 DEF SameAt, Kept
  <2>3. Ends(r, l)["remote"] = {r} /\ Ends(r, l)["local"] = {l}
    BY SideFacts DEF Ends
  <2> QED
    BY <2>1, <2>2, <2>3, SideFacts DEF Elsewhere
<1>7. Settled(T, n, r)
  <2>1. Knows(T, n, "remote", r) /\ Knows(T, n, "local", l)
    BY <1>1 DEF Knows, Holds
  <2>2. SameItem(T, n, r)
    BY <1>1 DEF SameItem, Holds
  <2> QED
    BY <2>1, <2>2, <1>5, SideFacts DEF Settled
<1>8. Known(T, n)
  <2> SUFFICES ASSUME NEW s \in Sides, NEW x \in DOMAIN n.rev[s] PROVE x <= T[s].clock /\ n.rev[s][x] <= T[s].clock
    BY DEF Known
  <2>1. ASSUME NEW k, NEW v, NEW c, NEW d, c \in Nat, d \in Nat, c <= d, k \in Nat, v \in Nat, k <= c /\ v <= c
        PROVE  k <= d /\ v <= d
    BY <2>1
  <2>0. \/ Tracks(m, s, x) /\ n.rev[s][x] = m.rev[s][x]
        \/ s = "remote" /\ x = r
        \/ s = "local" /\ x = l
    <3>1. CASE s = "remote"
      BY <3>1, <1>1 DEF Tracks
    <3>2. CASE s = "local"
      BY <3>2, <1>1 DEF Tracks
    <3> QED
      BY <3>1, <3>2, SideFacts
  <2>2. CASE Tracks(m, s, x) /\ n.rev[s][x] = m.rev[s][x]
    <3>1. x <= S[s].clock /\ m.rev[s][x] <= S[s].clock
      BY <2>2, <1>2 DEF Known, Tracks
    <3>2. x \in Nat /\ m.rev[s][x] \in Nat
      BY <2>2 DEF MetaOK, IsMap, Tracks
    <3>3. S[s].clock \in Nat /\ T[s].clock \in Nat /\ S[s].clock <= T[s].clock
      BY DEF Clocks
    <3> QED
      BY <3>1, <3>2, <3>3, <2>1, <2>2
  <2>3. CASE s = "remote" /\ x = r
    BY <2>3, <1>1 DEF Holds
  <2>4. CASE s = "local" /\ x = l
    BY <2>4, <1>1 DEF Holds
  <2> QED
    BY <2>0, <2>2, <2>3, <2>4
<1>9. \A s \in Sides : N[s] \subseteq U[s] /\ \A f \in N[s] : f.id # Mate(n, r, s)
  BY <1>5, SideFacts DEF Minus
<1>10. \A s \in Sides : Mate(n, r, s) \notin R[s]
  BY <1>5, SideFacts DEF Stranger
<1>11. \A s \in Sides : \A f \in U[s] : f \in N[s] \/ f.id = Mate(n, r, s)
  BY <1>5, SideFacts DEF Minus
<1>12. Sound(V, T, n, N, M, R, W)
  BY <1>4, <1>6, <1>7, <1>8, <1>9, <1>10, JoinSound
<1>13. Covered(S, m, U, R) => Covered(T, n, N, R)
  BY <1>1, <1>6, <1>7, <1>11, JoinCovered
<1> QED
  BY <1>12, <1>13

-----------------------------------------------------------------------------
(* Storages only grow: what changes gets a new number.                     *)

Grown(a, b) ==
  /\ a.clock <= b.clock
  /\ \A x \in DOMAIN b.items :
       (x \in DOMAIN a.items /\ b.items[x] = a.items[x]) \/ a.clock < b.items[x].rev
  /\ \A x \in DOMAIN a.items : x \in DOMAIN b.items \/ (x \in DOMAIN b.gone /\ a.clock < b.gone[x])
  /\ \A x \in DOMAIN a.gone : x \in DOMAIN b.gone /\ b.gone[x] = a.gone[x]

\* A storage that grows twice has grown.
LEMMA GrownTwice ==
  ASSUME NEW a, NEW b, NEW c, StoreOK(a), StoreOK(b), StoreOK(c), Grown(a, b), Grown(b, c)
  PROVE  Grown(a, c)
<1>1. /\ a.clock \in Nat /\ b.clock \in Nat /\ c.clock \in Nat /\ a.clock <= b.clock
      /\ b.clock <= c.clock
  BY DEF StoreOK, Grown
<1>2. /\ \A x \in DOMAIN b.items : b.items[x].rev \in Nat
      /\ \A x \in DOMAIN c.items : c.items[x].rev \in Nat
      /\ \A x \in DOMAIN b.gone : b.gone[x] \in Nat
      /\ \A x \in DOMAIN c.gone : c.gone[x] \in Nat
  BY DEF StoreOK, IsMap
<1>3. ASSUME NEW k \in Nat, b.clock < k PROVE a.clock < k
  BY <1>1, <1>3
<1>4. ASSUME NEW x \in DOMAIN c.items
      PROVE  (x \in DOMAIN a.items /\ c.items[x] = a.items[x]) \/ a.clock < c.items[x].rev
  <2>1. CASE b.clock < c.items[x].rev
    BY <2>1, <1>2, <1>3
  <2>2. CASE x \in DOMAIN b.items /\ c.items[x] = b.items[x]
    BY <2>2 DEF Grown
  <2> QED
    BY <2>1, <2>2 DEF Grown
<1>5. ASSUME NEW x \in DOMAIN a.items PROVE x \in DOMAIN c.items \/ (x \in DOMAIN c.gone /\ a.clock < c.gone[x])
  <2>1. CASE x \in DOMAIN b.items
    <3>1. x \in DOMAIN c.items \/ (x \in DOMAIN c.gone /\ b.clock < c.gone[x])
      BY <2>1 DEF Grown
    <3> QED
      BY <3>1, <1>2, <1>3
  <2>2. CASE x \in DOMAIN b.gone /\ a.clock < b.gone[x]
    BY <2>2 DEF Grown
  <2> QED
    BY <2>1, <2>2 DEF Grown
<1>6. \A x \in DOMAIN a.gone : x \in DOMAIN c.gone /\ c.gone[x] = a.gone[x]
  BY DEF Grown
<1>7. a.clock <= c.clock
  BY <1>1
<1> QED
  BY <1>4, <1>5, <1>6, <1>7 DEF Grown

\* A storage that does not change has grown.
LEMMA GrownSame == ASSUME NEW a, StoreOK(a) PROVE Grown(a, a)
<1>1. a.clock <= a.clock
  BY DEF StoreOK
<1> QED
  BY <1>1 DEF Grown

\* An addition makes a storage grow.
LEMMA AddGrows == ASSUME NEW a, NEW item \in Contacts, NEW b, StoreOK(a), b = AddOne(a, item) PROVE Grown(a, b)
<1>1. /\ b.clock = a.clock + 1 /\ b.gone = a.gone
      /\ b.items = Put(a.items, a.clock + 1, [item |-> item, rev |-> a.clock + 1])
  BY AddOneFacts
<1>2. a.clock \in Nat
  BY DEF StoreOK
<1>3. /\ \A x : x \in DOMAIN b.items <=> x \in DOMAIN a.items \/ x = a.clock + 1
      /\ \A x \in DOMAIN a.items : x # a.clock + 1 => b.items[x] = a.items[x]
      /\ b.items[a.clock + 1].rev = a.clock + 1
  BY <1>1 DEF Put
<1>4. a.clock < a.clock + 1 /\ a.clock <= a.clock + 1
  BY <1>2
<1> QED
  BY <1>1, <1>3, <1>4 DEF Grown

\* A modification makes a storage grow.
LEMMA ModifyGrows ==
  ASSUME NEW a, NEW id, NEW item \in Contacts, NEW b, StoreOK(a), b = ModifyOne(a, id, item)
  PROVE  Grown(a, b)
<1>1. b.clock = a.clock + 1 /\ b.gone = a.gone /\ DOMAIN b.items = DOMAIN a.items
  BY ModifyOneType
<1>2. /\ id \in DOMAIN a.items => b.items[id].rev = a.clock + 1
      /\ \A x \in DOMAIN a.items : x # id => b.items[x] = a.items[x]
  BY DEF ModifyOne
<1>3. a.clock < a.clock + 1 /\ a.clock <= a.clock + 1
  BY DEF StoreOK
<1> QED
  BY <1>1, <1>2, <1>3 DEF Grown

\* A removal makes a storage grow.
LEMMA RemoveGrows ==
  ASSUME NEW a, NEW id \in DOMAIN a.items, NEW b, StoreOK(a), b = RemoveOne(a, id)
  PROVE  Grown(a, b)
<1>1. /\ b.clock = a.clock + 1 /\ b.items = Without(a.items, {id})
      /\ b.gone = Put(a.gone, id, a.clock + 1)
  BY RemoveOneFacts
<1>2. /\ \A x : x \in DOMAIN b.items <=> x \in DOMAIN a.items /\ x # id
      /\ \A x \in DOMAIN b.items : b.items[x] = a.items[x]
  BY <1>1 DEF Without
<1>3. /\ \A x : x \in DOMAIN b.gone <=> x \in DOMAIN a.gone \/ x = id
      /\ b.gone[id] = a.clock + 1
      /\ \A x \in DOMAIN a.gone : x # id => b.gone[x] = a.gone[x]
  BY <1>1 DEF Put
<1>4. id \notin DOMAIN a.gone
  BY DEF StoreOK
<1>5. a.clock < a.clock + 1 /\ a.clock <= a.clock + 1
  BY DEF StoreOK
<1> QED
  BY <1>1, <1>2, <1>3, <1>4, <1>5 DEF Grown

-----------------------------------------------------------------------------
(* Metadata between runs, and what the next run makes of it.               *)

\* A synchronization token: later changes are seen with it.  "all" says that
\* no item was left unread.
Seen(S, m, s, all) ==
  s \in Incremental /\ m.token[s] # 0 =>
    /\ \A x \in DOMAIN m.rev[s] :
         \/ x \in DOMAIN S[s].gone /\ m.token[s] < S[s].gone[x]
         \/ Has(S, s, x) /\ (m.token[s] < S[s].items[x].rev \/ S[s].items[x].rev = m.rev[s][x])
    /\ all => \A x \in DOMAIN S[s].items : Tracks(m, s, x) \/ m.token[s] < S[s].items[x].rev

MetaSound(S, m, all) ==
  /\ Bijective(m) /\ Known(S, m)
  /\ \A s \in Sides : m.token[s] <= S[s].clock /\ Seen(S, m, s, all)
  /\ \A r \in DOMAIN m.map : (\A s \in Sides : Knows(S, m, s, Mate(m, r, s))) => SameItem(S, m, r)

\* What metadata knows of storages it knows of those they grow to.
LEMMA KnownGrown ==
  ASSUME NEW S, NEW T, NEW m, Stores(S), Stores(T), MetaOK(m), \A s \in Sides :
                                                                 S[s].clock <= T[s].clock, Known(S, m)
  PROVE  Known(T, m)
<1> SUFFICES ASSUME NEW s \in Sides, NEW x \in DOMAIN m.rev[s] PROVE x <= T[s].clock /\ m.rev[s][x] <= T[s].clock
  BY DEF Known
<1>1. x \in Nat /\ m.rev[s][x] \in Nat /\ S[s].clock \in Nat /\ T[s].clock \in Nat
  BY DEF MetaOK, IsMap, Stores, StoreOK
<1>2. S[s].clock <= T[s].clock /\ x <= S[s].clock /\ m.rev[s][x] <= S[s].clock
  BY DEF Known
<1> QED
  BY <1>1, <1>2

\* Metadata that is sound for storages is sound for those they grow to.
LEMMA GrownKeeps ==
  ASSUME NEW S, NEW T, NEW m, NEW all, NEW every, Stores(S), Stores(T), MetaOK(m),
         \A s \in Sides : Grown(S[s], T[s]), MetaSound(S, m, all), every => all
  PROVE  MetaSound(T, m, every)
<1>1. \A s \in Sides : /\ S[s].clock \in Nat /\ T[s].clock \in Nat /\ m.token[s] \in Nat
                       /\ S[s].clock <= T[s].clock /\ m.token[s] <= S[s].clock
  BY DEF Stores, StoreOK, MetaOK, Grown, MetaSound
<1>2. Bijective(m) /\ Known(S, m)
  BY DEF MetaSound
<1>3. Known(T, m)
  BY <1>1, <1>2, KnownGrown
<1>4. ASSUME NEW s \in Sides PROVE m.token[s] <= T[s].clock /\ Seen(T, m, s, every)
  <2> DEFINE k == m.token[s]
             c == S[s].clock
             d == T[s].clock
  <2>1. k \in Nat /\ c \in Nat /\ d \in Nat /\ k <= c /\ c <= d
    BY <1>1
  <2>2. /\ \A x \in DOMAIN T[s].items : T[s].items[x].rev \in Nat
        /\ \A x \in DOMAIN T[s].gone : T[s].gone[x] \in Nat
    BY DEF Stores, StoreOK, IsMap
  <2>3. ASSUME NEW v \in Nat, c < v PROVE k < v
    BY <2>1, <2>3
  <2>4. /\ Grown(S[s], T[s]) /\ Seen(S, m, s, all)
    BY DEF MetaSound
  <2>5. k <= d
    BY <2>1
  <2> HIDE DEF k, c, d
  <2>6. ASSUME s \in Incremental, k # 0, NEW x \in DOMAIN m.rev[s]
        PROVE  \/ x \in DOMAIN T[s].gone /\ k < T[s].gone[x]
               \/ Has(T, s, x) /\ (k < T[s].items[x].rev \/ T[s].items[x].rev = m.rev[s][x])
    <3>1. CASE x \in DOMAIN S[s].gone /\ k < S[s].gone[x]
      BY <3>1, <2>4 DEF Grown
    <3>2. CASE Has(S, s, x) /\ (k < S[s].items[x].rev \/ S[s].items[x].rev = m.rev[s][x])
      <4>1. CASE Has(T, s, x)
        <5>1. (T[s].items[x] = S[s].items[x]) \/ c < T[s].items[x].rev
          BY <4>1, <2>4 DEF Grown, Has, c
        <5>2. c < T[s].items[x].rev => k < T[s].items[x].rev
          BY <4>1, <2>2, <2>3 DEF Has
        <5> QED
          BY <3>2, <4>1, <5>1, <5>2
      <4>2. CASE ~Has(T, s, x)
        <5>1. x \in DOMAIN T[s].gone /\ c < T[s].gone[x]
          BY <3>2, <4>2, <2>4 DEF Grown, Has, c
        <5> QED
          BY <5>1, <2>2, <2>3
      <4> QED
        BY <4>1, <4>2
    <3>3. \/ x \in DOMAIN S[s].gone /\ k < S[s].gone[x]
          \/ Has(S, s, x) /\ (k < S[s].items[x].rev \/ S[s].items[x].rev = m.rev[s][x])
      BY <2>4, <2>6 DEF Seen, k
    <3> QED
      BY <3>1, <3>2, <3>3
  <2>7. ASSUME s \in Incremental, k # 0, every, NEW x \in DOMAIN T[s].items
        PROVE  Tracks(m, s, x) \/ k < T[s].items[x].rev
    <3>1. CASE x \in DOMAIN S[s].items /\ T[s].items[x] = S[s].items[x]
      BY <3>1, <2>4, <2>7 DEF Seen, k
    <3>2. CASE c < T[s].items[x].rev
      BY <3>2, <2>2, <2>3
    <3> QED
      BY <3>1, <3>2, <2>4 DEF Grown, c
  <2> QED
    BY <2>5, <2>6, <2>7 DEF Seen, k, d
<1>5. ASSUME NEW r \in DOMAIN m.map, \A s \in Sides :
                                       Knows(T, m, s, Mate(m, r, s)) PROVE SameItem(T, m, r)
  <2>1. ASSUME NEW s \in Sides, NEW x, Knows(T, m, s, x) PROVE Knows(S, m, s, x) /\ T[s].items[x] = S[s].items[x]
    <3>1. Has(T, s, x) /\ Tracks(m, s, x) /\ m.rev[s][x] = T[s].items[x].rev
      BY <2>1 DEF Knows
    <3>2. m.rev[s][x] <= S[s].clock /\ m.rev[s][x] \in Nat /\ S[s].clock \in Nat
      BY <3>1, <1>1, <1>2 DEF Known, Tracks, MetaOK, IsMap
    <3>3. ~(S[s].clock < T[s].items[x].rev)
      BY <3>1, <3>2
    <3>4. x \in DOMAIN S[s].items /\ T[s].items[x] = S[s].items[x]
      BY <3>1, <3>3 DEF Grown, Has
    <3> QED
      BY <3>1, <3>4 DEF Knows, Has
  <2>2. /\ \A s \in Sides :
             Knows(S, m, s, Mate(m, r, s)) /\ T[s].items[Mate(m, r, s)] = S[s].items[Mate(m, r, s)]
    BY <1>5, <2>1
  <2>3. SameItem(S, m, r)
    BY <2>2 DEF MetaSound
  <2>4. Mate(m, r, "remote") = r /\ Mate(m, r, "local") = m.map[r]
    BY DEF Mate
  <2> QED
    BY <2>2, <2>3, <2>4, SideFacts DEF SameItem
<1> QED
  BY <1>2, <1>3, <1>4, <1>5 DEF MetaSound

-----------------------------------------------------------------------------
(* One entry of a batch.                                                   *)

\* The storage of one side is exchanged.
Exchanged(S, T, s, st) == DOMAIN T = Sides /\ T[s] = st /\ T[Other(s)] = S[Other(s)]

\* Exchanging one storage for one it grew to makes both grow.
LEMMA StoresExcept ==
  ASSUME NEW S, NEW s \in Sides, NEW st, NEW T, Stores(S), StoreOK(st), Grown(S[s], st), Exchanged(S, T, s, st)
  PROVE  Stores(T) /\ Clocks(S, T) /\ \A t \in Sides : Grown(S[t], T[t])
<1>2. Stores(T)
  BY SideFacts DEF Stores, Exchanged
<1>3. \A t \in Sides : Grown(S[t], T[t])
  BY SideFacts, GrownSame DEF Stores, Exchanged
<1>4. Clocks(S, T)
  BY <1>2, <1>3 DEF Grown, Stores, StoreOK, Clocks
<1> QED
  BY <1>2, <1>3, <1>4

\* n is m with the object e and its copy on side s.
Copied(S, m, s, e, n) == n = Associate(m, s, S[s].clock + 1, S[s].clock + 1, e)

\* An object of the other side is added and paired.
AddMade(S, m, s, e, T, n) == Exchanged(S, T, s, AddOne(S[s], e.item)) /\ Copied(S, m, s, e, n)

\* A waiting object is added on the other side and paired with the copy.
LEMMA AddStep ==
  ASSUME NEW V, NEW S, NEW m, NEW U, NEW M, NEW R, NEW W, NEW s \in Sides, NEW e \in U[Other(s)], NEW T, NEW n, NEW N,
         Stores(S), MetaOK(m), Sound(V, S, m, U, M, R, W), AddMade(S, m, s, e, T, n), OneLess(N, U, Other(s), e)
  PROVE  /\ Sound(V, T, n, N, M, R, W)
         /\ Covered(S, m, U, R) => Covered(T, n, N, R)
<1> DEFINE x == S[s].clock + 1
           st == AddOne(S[s], e.item)
           o == Other(s)
<1>0. Exchanged(S, T, s, st) /\ n = Associate(m, s, x, x, e)
  BY DEF AddMade, Copied
<1>1. /\ o \in Sides /\ o # s /\ \A t \in Sides : t = s \/ t = o
      /\ (s = "remote" /\ o = "local") \/ (s = "local" /\ o = "remote")
  BY SideFacts DEF Sides
<1>2. ClaimsOK(S, m, U, R) /\ Known(S, m)
  BY DEF Sound
<1>3. Waiting(S, m, R, o, e)
  BY <1>1, <1>2 DEF ClaimsOK
<1>4. e \in Objects /\ e.item \in Contacts /\ e.id \in Nat /\ e.rev \in Nat
  BY <1>3 DEF Waiting, Objects
<1>5. StoreOK(S[s]) /\ StoreOK(S[o])
  BY <1>1 DEF Stores
<1>6. /\ StoreOK(st) /\ st.clock = x /\ Grown(S[s], st)
      /\ st.items = Put(S[s].items, x, [item |-> e.item, rev |-> x])
  BY <1>4, <1>5, AddOneFacts, AddGrows
<1>7. /\ st.items[x].rev = x /\ st.items[x].item = e.item
      /\ \A y : y \in DOMAIN st.items <=> y \in DOMAIN S[s].items \/ y = x
      /\ \A y \in DOMAIN S[s].items : y # x => st.items[y] = S[s].items[y]
  BY <1>6 DEF Put
<1>8. x \in Nat /\ S[s].clock \in Nat /\ ~(x <= S[s].clock)
  BY <1>5 DEF StoreOK
<1> HIDE DEF x, st, o
<1>9. x \notin DOMAIN S[s].items
  BY <1>5, <1>8 DEF StoreOK, IsMap
<1>10. T[s] = st /\ T[o] = S[o] /\ Clocks(S, T)
  <2>2. Clocks(S, T)
    BY <1>0, <1>6, StoresExcept
  <2> QED
    BY <1>0, <2>2 DEF Exchanged, o
<1>11. ~Tracks(m, s, x)
  BY <1>2, <1>8 DEF Known, Tracks
<1>12. ~Tracks(m, o, e.id) /\ e.id \notin R[o] /\ Has(S, o, e.id)
       /\ e.rev = S[o].items[e.id].rev /\ e.item = S[o].items[e.id].item
  <2>1. e = Object(S, o, e.id)
    BY <1>3 DEF Waiting
  <2> QED
    BY <2>1, <1>3 DEF Waiting, Object
<1>13. x \notin R[s]
  BY <1>2, <1>9 DEF ClaimsOK, Has
<1>14. e.id <= S[o].clock /\ e.rev <= S[o].clock
  <2>1. e.id \in 1..S[o].clock /\ e.rev \in 1..S[o].clock
    BY <1>5, <1>12 DEF StoreOK, IsMap, Has
  <2> QED
    BY <2>1, <1>5 DEF StoreOK
<1>15. Kept(S, T, s, x) /\ Kept(S, T, o, e.id) /\ Stranger(m, R, s, x) /\ Stranger(m, R, o, e.id)
  BY <1>7, <1>10, <1>11, <1>12, <1>13 DEF Kept, Stranger, Has
<1>21. Holds(T, s, x, e.item, x) /\ Holds(T, o, e.id, e.item, e.rev)
  <2>1. x <= T[s].clock
    BY <1>6, <1>8, <1>10
  <2> QED
    BY <2>1, <1>7, <1>10, <1>12, <1>14 DEF Holds, Has
<1>16. \A f \in U[o] : f.id = e.id <=> f = e
  <2> SUFFICES ASSUME NEW f \in U[o], f.id = e.id PROVE f = e
    OBVIOUS
  <2>1. f = Object(S, o, f.id) /\ e = Object(S, o, e.id)
    BY <1>1, <1>2, <1>3 DEF ClaimsOK, Waiting
  <2> QED
    BY <2>1
<1>17. \A f \in U[s] : f.id # x
  BY <1>2, <1>9 DEF ClaimsOK, Waiting, Has
<1>18. Minus(N, U, o, e.id) /\ Minus(N, U, s, x)
  <2>1. (\A f : f \in N[o] <=> f \in U[o] /\ f # e) /\ N[s] = U[s]
    BY <1>1 DEF o, OneLess
  <2> QED
    BY <2>1, <1>16, <1>17 DEF Minus
<1>19. CASE s = "remote"
  <2>1. o = "local"
    BY <1>1, <1>19
  <2>2. n = AddItem(m, x, x, e.id, e.rev)
    BY <1>0, <1>19 DEF Associate
  <2> QED
    BY <2>1, <2>2, <1>19, <1>10, <1>15, <1>18, <1>21, PairStep
<1>20. CASE s = "local"
  <2>1. o = "remote"
    BY <1>1, <1>20
  <2>2. n = AddItem(m, e.id, e.rev, x, x)
    BY <1>0, <1>20 DEF Associate
  <2> QED
    BY <2>1, <2>2, <1>20, <1>10, <1>15, <1>18, <1>21, PairStep
<1> QED
  BY <1>1, <1>19, <1>20

\* A modification is made.
LEMMA ModStep ==
  ASSUME NEW V, NEW S, NEW m, NEW U, NEW M, NEW R, NEW W, NEW s \in Sides, NEW e \in M[s], NEW T, NEW n, NEW L,
         Stores(S), MetaOK(m), Sound(V, S, m, U, M, R, W),
         Exchanged(S, T, s, ModifyOne(S[s], e.id, e.obj.item)),
         n = UpdateRevision(m, s, e.id, S[s].clock + 1),
         OneLess(L, M, s, e)
  PROVE  /\ Sound(V, T, n, U, L, R, W)
         /\ Covered(S, m, U, R) => Covered(T, n, U, R)
<1> DEFINE x == e.id
           c == S[s].clock
           st == ModifyOne(S[s], x, e.obj.item)
           o == Other(s)
<1>1. o \in Sides /\ o # s /\ \A t \in Sides : t = s \/ t = o
  BY SideFacts
<1>2. Change(S, m, M, W, s, e) /\ Known(S, m) /\ Bijective(m)
  BY DEF Sound, ModsOK
<1>3. x \in Nat /\ e.obj.item \in Contacts /\ x \in DOMAIN S[s].items
  BY <1>2 DEF Change, Changes, Objects, Has
<1>4. StoreOK(S[s]) /\ c \in Nat
  BY DEF Stores, StoreOK
<1>5. StoreOK(st) /\ Grown(S[s], st) /\ st.clock = c + 1
  BY <1>3, <1>4, ModifyOneType, ModifyGrows
<1>6. /\ st.items[x].item = e.obj.item /\ st.items[x].rev = c + 1
      /\ DOMAIN st.items = DOMAIN S[s].items
      /\ \A y \in DOMAIN S[s].items : y # x => st.items[y] = S[s].items[y]
  BY <1>3 DEF ModifyOne
<1>7. /\ n.map = m.map /\ n.rev[s] = Put(m.rev[s], x, c + 1) /\ n.rev[o] = m.rev[o]
  BY <1>3, <1>4, UpdateFacts
<1>8. Tracks(m, s, x)
  <2>1. PICK r \in DOMAIN m.map : Mate(m, r, s) = x
    BY <1>2 DEF Change
  <2> QED
    BY <2>1, <1>2 DEF Bijective
<1>9. /\ \A y : y \in DOMAIN n.rev[s] <=> y \in DOMAIN m.rev[s]
      /\ n.rev[s][x] = c + 1
      /\ \A y \in DOMAIN m.rev[s] : y # x => n.rev[s][y] = m.rev[s][y]
  BY <1>7, <1>8 DEF Put, Tracks
<1> HIDE DEF x, st, o, c
<1>10. T[s] = st /\ T[o] = S[o] /\ Clocks(S, T)
  <2>1. Exchanged(S, T, s, st)
    BY DEF st, x
  <2>2. Clocks(S, T)
    BY <2>1, <1>5, StoresExcept
  <2> QED
    BY <2>1, <2>2 DEF Exchanged, o
<1>11. \A t \in Sides : \A y : t # s \/ y # x => SameAt(S, m, T, n, t, y)
  BY <1>1, <1>6, <1>7, <1>9, <1>10 DEF SameAt, Has, Tracks
<1>12. Knows(T, n, s, x) /\ T[s].items[x].item = e.obj.item
  BY <1>3, <1>6, <1>8, <1>9, <1>10 DEF Knows, Has, Tracks
<1>13. Known(T, n)
  <2> SUFFICES ASSUME NEW t \in Sides, NEW y \in DOMAIN n.rev[t] PROVE y <= T[t].clock /\ n.rev[t][y] <= T[t].clock
    BY DEF Known
  <2>0. S[t].clock \in Nat /\ T[t].clock \in Nat /\ S[t].clock <= T[t].clock
    BY <1>10 DEF Clocks
  <2>1. y \in DOMAIN m.rev[t] /\ y <= S[t].clock /\ m.rev[t][y] <= S[t].clock
    BY <1>1, <1>2, <1>7, <1>9 DEF Known
  <2>2. y \in Nat /\ m.rev[t][y] \in Nat
    BY <2>1 DEF MetaOK, IsMap
  <2>3. y <= T[t].clock /\ m.rev[t][y] <= T[t].clock
    BY <2>0, <2>1, <2>2
  <2>4. CASE t = s /\ y = x
    BY <2>3, <2>4, <1>4, <1>5, <1>9, <1>10
  <2>5. CASE t # s \/ y # x
    BY <2>1, <2>3, <2>5, <1>1, <1>7, <1>9
  <2> QED
    BY <2>4, <2>5
<1>14. Sound(V, T, n, U, L, R, W)
  BY <1>7, <1>11, <1>12, <1>13, CarrySound DEF x
<1>15. ASSUME NEW t \in Sides, NEW y PROVE (Has(T, t, y) => Has(S, t, y)) /\ (Tracks(m, t, y) => Tracks(n, t, y))
  BY <1>1, <1>6, <1>7, <1>9, <1>10 DEF Has, Tracks
<1> QED
  BY <1>14, <1>15, SameCovered

\* A removal is made.
LEMMA RemStep ==
  ASSUME NEW V, NEW S, NEW m, NEW U, NEW M, NEW R, NEW W, NEW s \in Sides, NEW z \in R[s], NEW T, NEW Q,
         Stores(S), MetaOK(m), Sound(V, S, m, U, M, R, W), Exchanged(S, T, s, RemoveOne(S[s], z)),
         OneLess(Q, R, s, z)
  PROVE  /\ Sound(V, T, m, U, M, Q, W)
         /\ Covered(S, m, U, R) => Covered(T, m, U, Q)
<1> DEFINE st == RemoveOne(S[s], z)
           o == Other(s)
<1>1. o \in Sides /\ o # s /\ \A t \in Sides : t = s \/ t = o
  BY SideFacts
<1>2. Known(S, m) /\ z \in DOMAIN S[s].items /\ StoreOK(S[s])
  BY DEF Sound, ClaimsOK, Has, Stores
<1>3. StoreOK(st) /\ Grown(S[s], st) /\ st.items = Without(S[s].items, {z})
  BY <1>2, RemoveOneFacts, RemoveGrows
<1>4. /\ \A y : y \in DOMAIN st.items <=> y \in DOMAIN S[s].items /\ y # z
      /\ \A y \in DOMAIN st.items : st.items[y] = S[s].items[y]
  BY <1>3 DEF Without
<1> HIDE DEF st, o
<1>5. T[s] = st /\ T[o] = S[o] /\ Stores(T) /\ Clocks(S, T)
  <2>1. Exchanged(S, T, s, st)
    BY DEF st
  <2>2. Stores(T) /\ Clocks(S, T)
    BY <2>1, <1>3, StoresExcept
  <2> QED
    BY <2>1, <2>2 DEF Exchanged, o
<1>6. Known(T, m)
  BY <1>2, <1>5, KnownGrown DEF Clocks
<1>7. \A t \in Sides : \A y : t # s \/ y # z => SameAt(S, m, T, m, t, y)
  BY <1>1, <1>4, <1>5 DEF SameAt, Has
<1>8. ~Has(T, s, z)
  BY <1>4, <1>5 DEF Has
<1>9. Sound(V, T, m, U, M, Q, W)
  BY <1>6, <1>7, DiscardSound
<1>10. ASSUME Covered(S, m, U, R) PROVE Covered(T, m, U, Q)
  BY <1>7, <1>8, <1>10, DiscardCovered
<1> QED
  BY <1>9, <1>10

-----------------------------------------------------------------------------
(* The same with the queues Q, and the new objects F that are not in one   *)
(* yet.                                                                    *)

Values(q)   == {q[k] : k \in 1..Len(q)}
Distinct(q) == \A j, k \in 1..Len(q) : q[j] = q[k] => j = k

Unknown(F, Q) == [s \in Sides |-> F[s] \cup Values(Q[Other(s)].add)]
Changing(Q)   == [s \in Sides |-> Values(Q[s].mod)]
Removing(Q)   == [s \in Sides |-> Values(Q[s].rem)]

Engine(V, S, m, F, Q, W) ==
  /\ Sound(V, S, m, Unknown(F, Q), Changing(Q), Removing(Q), W)
  /\ \A s \in Sides, kind \in Kinds : Distinct(Q[s][kind])
  /\ \A s \in Sides : \A f \in F[s] : f \notin Values(Q[Other(s)].add)

Complete(S, m, F, Q) == Covered(S, m, Unknown(F, Q), Removing(Q))

\* Of the queues Q, the one of the side s and the kind has one entry less in P.
Shorter(Q, P, s, kind, e) ==
  /\ \A d : d \in Values(Q[s][kind]) <=> d \in Values(P[s][kind]) \/ d = e
  /\ e \notin Values(P[s][kind]) /\ Distinct(P[s][kind])
  /\ \A t \in Sides, k \in Kinds : t # s \/ k # kind => P[t][k] = Q[t][k]

\* The side s is to be worked on; one entry is done.
Begins(S, m, s, v) == v.st = S[s] /\ v.m = m
Applied(s, kind, v, e, w) == w = ApplyOne(s, kind, v, e)

\* One entry of a batch keeps the account of the items, and leaves no item
\* out.
LEMMA EntryStep ==
  ASSUME NEW V, NEW S, NEW m, NEW F, NEW Q, NEW W, NEW s \in Sides, NEW kind \in Kinds, NEW e, NEW v, NEW w, NEW T, NEW P,
         Stores(S), MetaOK(m), Engine(V, S, m, F, Q, W), Shorter(Q, P, s, kind, e),
         Begins(S, m, s, v), Applied(s, kind, v, e, w), Exchanged(S, T, s, w.st)
  PROVE  /\ Engine(V, T, w.m, F, P, W)
         /\ Complete(S, m, F, Q) => Complete(T, w.m, F, P)
<1> DEFINE o == Other(s)
<1>1. /\ o \in Sides /\ o # s /\ Other(o) = s /\ \A t \in Sides : t = s \/ t = o
      /\ \A t \in Sides : Other(t) \in Sides /\ (Other(t) = s <=> t = o)
      /\ kind = "add" \/ kind = "mod" \/ kind = "rem"
      /\ "add" \in Kinds /\ "mod" \in Kinds /\ "rem" \in Kinds
  BY SideFacts DEF Kinds
<1>2. Sound(V, S, m, Unknown(F, Q), Changing(Q), Removing(Q), W)
  BY DEF Engine
<1>3. \A t \in Sides, k \in Kinds : Distinct(P[t][k])
  BY DEF Engine, Shorter
<1>4. \A t \in Sides, k \in Kinds : Values(P[t][k]) \subseteq Values(Q[t][k])
  BY DEF Shorter
<1>5. \A t \in Sides : \A f \in F[t] : f \notin Values(P[Other(t)].add)
  BY <1>1, <1>4 DEF Engine
<1>6. kind # "add" => Unknown(F, P) = Unknown(F, Q)
  BY <1>1 DEF Unknown, Shorter
<1>7. kind # "mod" => Changing(P) = Changing(Q)
  BY <1>1 DEF Changing, Shorter
<1>8. kind # "rem" => Removing(P) = Removing(Q)
  BY <1>1 DEF Removing, Shorter
<1>9. CASE kind = "add"
  <2>1. w.st = AddOne(S[s], e.item) /\ w.m = Associate(m, s, S[s].clock + 1, S[s].clock + 1, e)
    BY <1>9 DEF ApplyOne, Applied, Begins
  <2>2. e \in Unknown(F, Q)[o]
    BY <1>1, <1>9 DEF Unknown, Shorter
  <2>3. OneLess(Unknown(F, P), Unknown(F, Q), o, e)
    <3>1. \A f : f \in Unknown(F, P)[o] <=> f \in F[o] \/ f \in Values(P[s]["add"])
      BY <1>1 DEF Unknown
    <3>2. \A f : f \in Unknown(F, Q)[o] <=> f \in F[o] \/ f \in Values(Q[s]["add"])
      BY <1>1 DEF Unknown
    <3>3. e \in Values(Q[s]["add"]) /\ e \notin Values(P[s]["add"])
          /\ \A d : d \in Values(Q[s]["add"]) <=> d \in Values(P[s]["add"]) \/ d = e
      BY <1>9 DEF Shorter
    <3>4. e \notin F[o]
      BY <3>3, <1>1 DEF Engine
    <3>5. \A t \in Sides : t # o => Unknown(F, P)[t] = Unknown(F, Q)[t]
      BY <1>1 DEF Unknown, Shorter
    <3> QED
      BY <3>1, <3>2, <3>3, <3>4, <3>5 DEF OneLess
  <2>5. Exchanged(S, T, s, AddOne(S[s], e.item))
    BY <2>1
  <2>6. /\ Sound(V, T, w.m, Unknown(F, P), Changing(Q), Removing(Q), W)
        /\ Complete(S, m, F, Q) => Covered(T, w.m, Unknown(F, P), Removing(Q))
    <3> HIDE DEF Unknown, Changing, Removing
    <3>2. AddMade(S, m, s, e, T, w.m)
      BY <2>1, <2>5 DEF AddMade, Copied
    <3> QED
      BY <3>2, <2>2, <2>3, <1>2, AddStep DEF o, Complete
  <2> QED
    BY <2>6, <1>3, <1>5, <1>7, <1>8, <1>9 DEF Engine, Complete
<1>10. CASE kind = "mod"
  <2>1. w.st = ModifyOne(S[s], e.id, e.obj.item) /\ w.m = UpdateRevision(m, s, e.id, S[s].clock + 1)
    BY <1>10 DEF ApplyOne, Applied, Begins
  <2>2. e \in Changing(Q)[s]
    BY <1>1, <1>10 DEF Changing, Shorter
  <2>3. OneLess(Changing(P), Changing(Q), s, e)
    <3>1. Changing(P)[s] = Values(P[s]["mod"]) /\ Changing(Q)[s] = Values(Q[s]["mod"])
      BY DEF Changing
    <3>2. /\ e \notin Values(P[s]["mod"])
          /\ \A d : d \in Values(Q[s]["mod"]) <=> d \in Values(P[s]["mod"]) \/ d = e
      BY <1>10 DEF Shorter
    <3>3. \A t \in Sides : t # s => Changing(P)[t] = Changing(Q)[t]
      BY DEF Changing, Shorter, Kinds
    <3> QED
      BY <3>1, <3>2, <3>3 DEF OneLess
  <2>5. Exchanged(S, T, s, ModifyOne(S[s], e.id, e.obj.item))
    BY <2>1
  <2>6. /\ Sound(V, T, w.m, Unknown(F, Q), Changing(P), Removing(Q), W)
        /\ Complete(S, m, F, Q) => Covered(T, w.m, Unknown(F, Q), Removing(Q))
    <3> HIDE DEF Unknown, Changing, Removing
    <3>1. w.m = UpdateRevision(m, s, e.id, S[s].clock + 1)
      BY <2>1
    <3>2. /\ Sound(V, T, w.m, Unknown(F, Q), Changing(P), Removing(Q), W)
          /\ Covered(S, m, Unknown(F, Q), Removing(Q)) => Covered(T, w.m, Unknown(F, Q), Removing(Q))
      BY <3>1, <2>2, <2>3, <2>5, <1>2, ModStep
    <3> QED
      BY <3>2 DEF Complete
  <2> QED
    BY <2>6, <1>3, <1>5, <1>6, <1>8, <1>10 DEF Engine, Complete
<1>11. CASE kind = "rem"
  <2>1. w.st = RemoveOne(S[s], e) /\ w.m = m
    BY <1>11 DEF ApplyOne, Applied, Begins
  <2>2. e \in Removing(Q)[s]
    BY <1>1, <1>11 DEF Removing, Shorter
  <2>3. OneLess(Removing(P), Removing(Q), s, e)
    <3>1. Removing(P)[s] = Values(P[s]["rem"]) /\ Removing(Q)[s] = Values(Q[s]["rem"])
      BY DEF Removing
    <3>2. /\ e \notin Values(P[s]["rem"])
          /\ \A d : d \in Values(Q[s]["rem"]) <=> d \in Values(P[s]["rem"]) \/ d = e
      BY <1>11 DEF Shorter
    <3>3. \A t \in Sides : t # s => Removing(P)[t] = Removing(Q)[t]
      BY DEF Removing, Shorter, Kinds
    <3> QED
      BY <3>1, <3>2, <3>3 DEF OneLess
  <2>5. Exchanged(S, T, s, RemoveOne(S[s], e))
    BY <2>1
  <2>6. /\ Sound(V, T, m, Unknown(F, Q), Changing(Q), Removing(P), W)
        /\ Complete(S, m, F, Q) => Covered(T, m, Unknown(F, Q), Removing(P))
    BY <2>2, <2>3, <2>5, <1>2, RemStep DEF Complete
  <2> QED
    BY <2>1, <2>6, <1>3, <1>5, <1>6, <1>7, <1>11 DEF Engine, Complete
<1> QED
  BY <1>1, <1>9, <1>10, <1>11

-----------------------------------------------------------------------------
(* A whole batch.                                                          *)

\* The queues P and Q hold the same entries.
SameQueues(Q, P) == \A t \in Sides, k \in Kinds :
                      Values(P[t][k]) = Values(Q[t][k]) /\ Distinct(P[t][k])

\* The account depends on what is in the queues, not on its order.
LEMMA RequeueSound ==
  ASSUME NEW V, NEW S, NEW m, NEW F, NEW Q, NEW P, NEW W, Engine(V, S, m, F, Q, W), SameQueues(Q, P)
  PROVE  Engine(V, S, m, F, P, W) /\ (Complete(S, m, F, Q) => Complete(S, m, F, P))
<1>1. Unknown(F, P) = Unknown(F, Q) /\ Changing(P) = Changing(Q) /\ Removing(P) = Removing(Q)
  BY SideFacts DEF Unknown, Changing, Removing, SameQueues, Kinds
<1>2. \A s \in Sides : \A f \in F[s] : f \notin Values(P[Other(s)].add)
  BY SideFacts DEF Engine, SameQueues, Kinds
<1>3. \A t \in Sides, k \in Kinds : Distinct(P[t][k])
  BY DEF SameQueues
<1> QED
  BY <1>1, <1>2, <1>3 DEF Engine, Complete

\* One entry makes its storage grow.
LEMMA EntryGrows ==
  ASSUME NEW s \in Sides, NEW kind \in Kinds, NEW v, NEW e \in EntryType[kind], StoreOK(v.st),
         kind = "rem" => e \in DOMAIN v.st.items
  PROVE  Grown(v.st, ApplyOne(s, kind, v, e).st)
<1>1. CASE kind = "add"
  <2>1. e.item \in Contacts
    BY <1>1 DEF EntryType, Objects
  <2> QED
    BY <1>1, <2>1, AddGrows DEF ApplyOne
<1>2. CASE kind = "mod"
  <2>1. e.obj.item \in Contacts
    BY <1>2 DEF EntryType, Objects, Changes
  <2> QED
    BY <1>2, <2>1, ModifyGrows DEF ApplyOne
<1>3. CASE kind = "rem"
  BY <1>3, RemoveGrows DEF ApplyOne
<1> QED
  BY <1>1, <1>2, <1>3 DEF Kinds

\* The storages, with st for side s; and the queues without the first n
\* entries of one.
WithStore(S, s, st)  == [t \in Sides |-> IF t = s THEN st ELSE S[t]]
Left(Q, s, kind, n)  == [t \in Sides |-> [k \in Kinds |->
  IF t = s /\ k = kind THEN SubSeq(Q[t][k], n + 1, Len(Q[t][k])) ELSE Q[t][k]]]

\* The storages with another one for one side.
LEMMA WithStoreFacts ==
  ASSUME NEW S, NEW s \in Sides, NEW st, Stores(S), StoreOK(st)
  PROVE  LET T == WithStore(S, s, st) IN Stores(T) /\ T[s] = st /\ T[Other(s)] = S[Other(s)] /\ Exchanged(S, T, s, st)
  BY SideFacts DEF WithStore, Stores, Exchanged

\* What the rest of a queue holds.
LEMMA LeftFacts ==
  ASSUME NEW A, NEW q \in Seq(A), NEW n \in 0..Len(q), Distinct(q), NEW p, p = SubSeq(q, n + 1, Len(q))
  PROVE  /\ \A d : d \in Values(p) <=> \E k \in n + 1..Len(q) : d = q[k]
         /\ Distinct(p)
<1>0. Len(q) \in Nat /\ n \in Nat /\ n <= Len(q)
  OBVIOUS
<1>1. \A k \in n + 1..Len(q) : q[k] \in A
  BY <1>0
<1>2. /\ Len(p) = IF n + 1 <= Len(q) THEN Len(q) - (n + 1) + 1 ELSE 0
      /\ \A i \in 1..Len(q) - (n + 1) + 1 : p[i] = q[n + 1 + i - 1]
  BY <1>0, <1>1
<1>3. /\ Len(p) = Len(q) - n
      /\ \A i \in 1..Len(p) : p[i] = q[n + i] /\ n + i \in n + 1..Len(q) /\ n + i \in 1..Len(q)
  <2>1. Len(p) = Len(q) - n /\ Len(p) = Len(q) - (n + 1) + 1
    BY <1>0, <1>2
  <2> QED
    BY <1>0, <1>2, <2>1
<1>4. \A k \in n + 1..Len(q) : k - n \in 1..Len(p) /\ n + (k - n) = k
  BY <1>0, <1>3
<1>5. \A d : d \in Values(p) <=> \E k \in n + 1..Len(q) : d = q[k]
  <2>1. ASSUME NEW d, d \in Values(p) PROVE \E k \in n + 1..Len(q) : d = q[k]
    BY <2>1, <1>3 DEF Values
  <2>2. ASSUME NEW k \in n + 1..Len(q) PROVE q[k] \in Values(p)
    <3>1. p[k - n] = q[k]
      BY <1>3, <1>4
    <3> QED
      BY <3>1, <1>4 DEF Values
  <2> QED
    BY <2>1, <2>2
<1>6. Distinct(p)
  <2> SUFFICES ASSUME NEW j \in 1..Len(p), NEW k \in 1..Len(p), p[j] = p[k] PROVE j = k
    BY DEF Distinct
  <2>1. n + j \in 1..Len(q) /\ n + k \in 1..Len(q) /\ q[n + j] = q[n + k]
    BY <1>3
  <2>2. n + j = n + k
    BY <2>1 DEF Distinct
  <2> QED
    BY <2>2, <1>0, <1>3
<1> QED
  BY <1>5, <1>6

\* One entry more of a batch leaves one entry less in its queue.
LEMMA LeftStep ==
  ASSUME NEW Q, NEW s \in Sides, NEW kind \in Kinds, NEW A, Q[s][kind] \in Seq(A),
  Distinct(Q[s][kind]),
         NEW n \in Nat, n + 1 <= Len(Q[s][kind])
  PROVE  Shorter(Left(Q, s, kind, n), Left(Q, s, kind, n + 1), s, kind, Q[s][kind][n + 1])
<1> DEFINE q == Q[s][kind]
           p == SubSeq(q, n + 1, Len(q))
           o == SubSeq(q, n + 1 + 1, Len(q))
           e == q[n + 1]
<1>1. /\ Left(Q, s, kind, n)[s][kind] = p /\ Left(Q, s, kind, n + 1)[s][kind] = o
      /\ \A t \in Sides, k \in Kinds :
           t # s \/ k # kind => Left(Q, s, kind, n + 1)[t][k] = Left(Q, s, kind, n)[t][k]
  BY DEF Left
<1>2. /\ Len(q) \in Nat /\ n \in 0..Len(q) /\ n + 1 \in 0..Len(q) /\ n + 1 \in 1..Len(q)
      /\ q \in Seq(A) /\ Distinct(q)
  OBVIOUS
<1> HIDE DEF q
<1>3. \A d : d \in Values(p) <=> \E k \in n + 1..Len(q) : d = q[k]
  BY <1>2, LeftFacts, ZenonT(40)
<1>4. (\A d : d \in Values(o) <=> \E k \in n + 1 + 1..Len(q) : d = q[k]) /\ Distinct(o)
  BY <1>2, LeftFacts
<1> HIDE DEF p, o
<1>5. \A k : k \in n + 1..Len(q) <=> k \in n + 1 + 1..Len(q) \/ k = n + 1
  BY <1>2
<1>6. \A d : d \in Values(p) <=> d \in Values(o) \/ d = e
  BY <1>3, <1>4, <1>5
<1>7. e \notin Values(o)
  <2> SUFFICES ASSUME NEW k \in n + 1 + 1..Len(q), e = q[k] PROVE FALSE
    BY <1>4
  <2>1. k \in 1..Len(q) /\ k # n + 1
    BY <1>2
  <2> QED
    BY <2>1, <1>2 DEF Distinct, q
<1> QED
  BY <1>1, <1>4, <1>6, <1>7 DEF Shorter, q
-----------------------------------------------------------------------------
(* The pairs that a batch makes, and metadata of an earlier run.           *)

\* The pairs of m stay; a new one is of an entry of q and of an id that side
\* s had not given out.
Paired(S, m, n, s, q) ==
  /\ \A r \in DOMAIN m.map : r \in DOMAIN n.map /\ n.map[r] = m.map[r]
  /\ \A r \in DOMAIN n.map : r \in DOMAIN m.map
       \/ ((\E e \in Values(q) : e.id = Mate(n, r, Other(s))) /\ S[s].clock < Mate(n, r, s))

PairAdded(m, n, s, e, x) ==
  /\ \A r \in DOMAIN m.map : r \in DOMAIN n.map /\ n.map[r] = m.map[r]
  /\ \A r \in DOMAIN n.map :
       r \in DOMAIN m.map \/ (e.id = Mate(n, r, Other(s)) /\ x = Mate(n, r, s))

\* An added entry makes one pair, of a new id.
LEMMA EntryPairs ==
  ASSUME NEW V, NEW S, NEW m, NEW U, NEW M, NEW R, NEW W, NEW s \in Sides, NEW e \in U[Other(s)], NEW n,
         Stores(S), Sound(V, S, m, U, M, R, W), Copied(S, m, s, e, n)
  PROVE  /\ Waiting(S, m, R, Other(s), e) /\ S[s].clock + 1 \notin DOMAIN m.rev[s]
         /\ PairAdded(m, n, s, e, S[s].clock + 1)
<1> DEFINE x == S[s].clock + 1
           o == Other(s)
<1>1. /\ o \in Sides
      /\ (s = "remote" /\ o = "local") \/ (s = "local" /\ o = "remote")
  BY SideFacts DEF Sides
<1>2. ClaimsOK(S, m, U, R) /\ Known(S, m) /\ Bijective(m)
  BY DEF Sound
<1>3. Waiting(S, m, R, o, e) /\ ~Tracks(m, o, e.id)
  BY SideFacts, <1>2 DEF ClaimsOK, Waiting
<1>4. S[s].clock \in Nat /\ ~(x <= S[s].clock)
  BY DEF Stores, StoreOK
<1> HIDE DEF x, o
<1>5. ~Tracks(m, s, x)
  BY <1>2, <1>4 DEF Known, Tracks
<1>6. \A q \in DOMAIN m.map : Tracks(m, "remote", q)
  BY <1>2, SideFacts DEF Bijective, Mate
<1>7. CASE s = "remote"
  <2>1. o = "local" /\ n.map = Put(m.map, x, e.id) /\ x \notin DOMAIN m.map
    BY <1>1, <1>5, <1>6, <1>7 DEF Copied, Associate, AddItem, x
  <2> QED
    BY <2>1, <1>3, <1>5, <1>7 DEF Put, Mate, x, o, Tracks, PairAdded
<1>8. CASE s = "local"
  <2>1. o = "remote" /\ n.map = Put(m.map, e.id, x) /\ e.id \notin DOMAIN m.map
    BY <1>1, <1>3, <1>6, <1>8 DEF Copied, Associate, AddItem, x
  <2> QED
    BY <2>1, <1>3, <1>5, <1>8 DEF Put, Mate, x, o, Tracks, PairAdded
<1> QED
  BY <1>1, <1>7, <1>8

\* N, with what an earlier run of the object left in memory, contains m.
Below(m, N) ==
  /\ \A s \in Sides : \A x \in DOMAIN m.rev[s] : Tracks(N, s, x) /\ N.rev[s][x] = m.rev[s][x]
  /\ \A r \in DOMAIN m.map : r \in DOMAIN N.map /\ N.map[r] = m.map[r]

Present(S, N) == \A s \in Sides : DOMAIN N.rev[s] \subseteq DOMAIN S[s].items

Memory(S, N) ==
  /\ DOMAIN N.map = DOMAIN N.rev["remote"]
  /\ DOMAIN N.rev["remote"] = {} => DOMAIN N.rev["local"] = {}
  /\ Known(S, N)

Around(S, m, N) == Below(m, N) /\ Present(S, N) /\ Memory(S, N)

\* Metadata of an earlier run contains a pair made in both.
LEMMA AroundPair ==
  ASSUME NEW S, NEW T, NEW m, NEW n, NEW N, NEW K, NEW r, NEW l, NEW rrev, NEW lrev, MetaOK(N),
         Around(S, m, N), Clocks(S, T),
         \A s \in Sides : DOMAIN S[s].items \subseteq DOMAIN T[s].items,
         n = AddItem(m, r, rrev, l, lrev), K = AddItem(N, r, rrev, l, lrev),
         Has(T, "remote", r), Has(T, "local", l),
         r <= T["remote"].clock, rrev <= T["remote"].clock, l <= T["local"].clock, lrev <= T["local"].clock
  PROVE  Around(T, n, K)
<1>1. /\ DOMAIN n.map = DOMAIN m.map \cup {r} /\ n.map[r] = l
      /\ \A q \in DOMAIN m.map : q # r => n.map[q] = m.map[q]
      /\ \A x : Tracks(n, "remote", x) <=> Tracks(m, "remote", x) \/ x = r
      /\ \A x : Tracks(n, "local", x) <=> Tracks(m, "local", x) \/ x = l
      /\ n.rev["remote"][r] = rrev /\ n.rev["local"][l] = lrev
      /\ \A x : Tracks(m, "remote", x) /\ x # r => n.rev["remote"][x] = m.rev["remote"][x]
      /\ \A x : Tracks(m, "local", x) /\ x # l => n.rev["local"][x] = m.rev["local"][x]
  BY AddItemFacts
<1>2. /\ DOMAIN K.map = DOMAIN N.map \cup {r} /\ K.map[r] = l
      /\ \A q \in DOMAIN N.map : q # r => K.map[q] = N.map[q]
      /\ \A x : Tracks(K, "remote", x) <=> Tracks(N, "remote", x) \/ x = r
      /\ \A x : Tracks(K, "local", x) <=> Tracks(N, "local", x) \/ x = l
      /\ K.rev["remote"][r] = rrev /\ K.rev["local"][l] = lrev
      /\ \A x : Tracks(N, "remote", x) /\ x # r => K.rev["remote"][x] = N.rev["remote"][x]
      /\ \A x : Tracks(N, "local", x) /\ x # l => K.rev["local"][x] = N.rev["local"][x]
  BY AddItemFacts
<1>3. /\ \A x :
           Tracks(m, "remote", x) => Tracks(N, "remote", x) /\ N.rev["remote"][x] = m.rev["remote"][x]
      /\ \A x :
           Tracks(m, "local", x) => Tracks(N, "local", x) /\ N.rev["local"][x] = m.rev["local"][x]
      /\ \A q \in DOMAIN m.map : q \in DOMAIN N.map /\ N.map[q] = m.map[q]
  BY SideFacts DEF Around, Below, Tracks
<1>4. Below(n, K)
  <2>1. /\ \A x :
             Tracks(n, "remote", x) => Tracks(K, "remote", x) /\ K.rev["remote"][x] = n.rev["remote"][x]
    BY <1>1, <1>2, <1>3
  <2>2. /\ \A x :
             Tracks(n, "local", x) => Tracks(K, "local", x) /\ K.rev["local"][x] = n.rev["local"][x]
    BY <1>1, <1>2, <1>3
  <2>3. \A q \in DOMAIN n.map : q \in DOMAIN K.map /\ K.map[q] = n.map[q]
    BY <1>1, <1>2, <1>3
  <2> QED
    BY <2>1, <2>2, <2>3 DEF Below, Tracks, Sides
<1>5. Present(T, K)
  <2>1. \A x : Tracks(K, "remote", x) => Has(T, "remote", x)
    BY <1>2, SideFacts DEF Around, Present, Tracks, Has
  <2>2. \A x : Tracks(K, "local", x) => Has(T, "local", x)
    BY <1>2, SideFacts DEF Around, Present, Tracks, Has
  <2> QED
    BY <2>1, <2>2 DEF Present, Tracks, Has, Sides
<1>6. Memory(T, K)
  <2>1. DOMAIN N.map = DOMAIN N.rev["remote"] /\ Known(S, N)
    BY DEF Around, Memory
  <2>2. DOMAIN K.map = DOMAIN K.rev["remote"] /\ r \in DOMAIN K.rev["remote"]
    BY <1>2, <2>1 DEF Tracks
  <2>3. ASSUME NEW s \in Sides, NEW x, Tracks(N, s, x)
        PROVE  x <= T[s].clock /\ N.rev[s][x] <= T[s].clock
    <3>1. x <= S[s].clock /\ N.rev[s][x] <= S[s].clock /\ x \in Nat /\ N.rev[s][x] \in Nat
      BY <2>1, <2>3 DEF Known, Tracks, MetaOK, IsMap
    <3> QED
      BY <3>1 DEF Clocks
  <2>4. /\ \A x :
             Tracks(K, "remote", x) => x <= T["remote"].clock /\ K.rev["remote"][x] <= T["remote"].clock
    BY <2>3, <1>2, SideFacts
  <2>5. /\ \A x :
             Tracks(K, "local", x) => x <= T["local"].clock /\ K.rev["local"][x] <= T["local"].clock
    BY <2>3, <1>2, SideFacts
  <2>6. Known(T, K)
    BY <2>4, <2>5 DEF Known, Tracks, Sides
  <2> QED
    BY <2>2, <2>6 DEF Memory
<1> QED
  BY <1>4, <1>5, <1>6 DEF Around
\* T holds the same as S.
SameStores(S, T) == \A s \in Sides : T[s] = S[s]

\* The account depends only on what each side holds.
LEMMA SwapSound ==
  ASSUME NEW V, NEW S, NEW m, NEW U, NEW M, NEW R, NEW W, NEW T, Sound(V, S, m, U, M, R, W), SameStores(S, T)
  PROVE  Sound(V, T, m, U, M, R, W) /\ (Covered(S, m, U, R) => Covered(T, m, U, R))
<1>0. /\ Bijective(m) /\ Known(S, m)
      /\ PairsOK(S, m, M, W) /\ WaitsOK(V, S, m, W) /\ ModsOK(S, m, M, W) /\ ClaimsOK(S, m, U, R)
  BY DEF Sound
<1>1. \A s \in Sides : \A x : SameAt(S, m, T, m, s, x)
  BY DEF SameStores, SameAt, Has
<1>2. Known(T, m)
  BY <1>0 DEF Known, SameStores
<1>3. PairsOK(T, m, M, W)
  <2> SUFFICES ASSUME NEW r \in DOMAIN m.map, Settled(S, m, r) PROVE Settled(T, m, r)
    BY <1>0 DEF PairsOK
  <2> QED
    BY <1>1, SettledStays
<1>4. WaitsOK(V, T, m, W)
  BY <1>0, <1>1, InStateStays DEF WaitsOK
<1>5. ModsOK(T, m, M, W)
  <2> SUFFICES ASSUME NEW s \in Sides, NEW e \in M[s] PROVE Change(T, m, M, W, s, e)
    BY DEF ModsOK
  <2>1. Change(S, m, M, W, s, e)
    BY <1>0 DEF ModsOK
  <2>2. /\ \A d \in M[Other(s)] : d.id # e.obj.id
        /\ \E r \in DOMAIN m.map :
             r \notin W /\ Mate(m, r, s) = e.id /\ Mate(m, r, Other(s)) = e.obj.id
    BY <2>1 DEF Change
  <2> QED
    BY <1>1, <2>1, <2>2, SideFacts, ChangeStays
<1>6. ClaimsOK(T, m, U, R)
  <2>1. ASSUME NEW s \in Sides, NEW f \in U[s] PROVE Waiting(T, m, R, s, f)
    <3>1. Waiting(S, m, R, s, f) /\ f.id \notin R[s]
      BY <1>0 DEF ClaimsOK, Waiting
    <3> QED
      BY <3>1, <1>1, WaitingStays
  <2>2. ASSUME NEW s \in Sides, NEW x \in R[s] PROVE Has(T, s, x) /\ ~Tracks(m, s, x)
    BY <1>0, <1>1 DEF ClaimsOK, SameAt
  <2> QED
    BY <2>1, <2>2 DEF ClaimsOK
<1>7. Covered(S, m, U, R) => Covered(T, m, U, R)
  BY DEF Covered, SameStores
<1> QED
  BY <1>0, <1>2, <1>3, <1>4, <1>5, <1>6, <1>7 DEF Sound

\* So does the account with queues.
LEMMA SwapStores ==
  ASSUME NEW V, NEW S, NEW m, NEW F, NEW Q, NEW W, NEW T, Engine(V, S, m, F, Q, W), SameStores(S, T)
  PROVE  Engine(V, T, m, F, Q, W) /\ (Complete(S, m, F, Q) => Complete(T, m, F, Q))
  BY SwapSound DEF Engine, Complete
\* After n entries of a batch.
Midway(V, m, F, Q, W, s, kind, v, n) ==
  LET T == WithStore(store, s, v.st)  P == Left(Q, s, kind, n) IN
  /\ Engine(V, T, v.m, F, P, W)
  /\ Complete(store, m, F, Q) => Complete(T, v.m, F, P)
  /\ Grown(store[s], v.st)
  /\ Paired(store, m, v.m, s, Q[s][kind])
  /\ kind # "add" => v.m.map = m.map

\* One entry more of a batch.
LEMMA MidwayStep ==
  ASSUME NEW V, NEW m, NEW F, NEW Q, NEW W, NEW s \in Sides, NEW kind \in Kinds, NEW v, NEW n \in Nat,
         StoresOK, Q[s][kind] \in Seq(EntryType[kind]), Distinct(Q[s][kind]),
         n + 1 <= Len(Q[s][kind]),
         StoreOK(v.st), MetaOK(v.m), v.st.clock = store[s].clock + n,
         Midway(V, m, F, Q, W, s, kind, v, n),
         NEW u, u = ApplyOne(s, kind, v, Q[s][kind][n + 1]), StoreOK(u.st)
  PROVE  /\ Midway(V, m, F, Q, W, s, kind, u, n + 1)
         /\ kind = "add" => /\ \E R :
                                 Waiting(WithStore(store, s, v.st), v.m, R, Other(s), Q[s][kind][n + 1])
                            /\ u.m = Associate(v.m, s, v.st.clock + 1, v.st.clock + 1, Q[s][kind][n + 1])
                            /\ u.st = AddOne(v.st, Q[s][kind][n + 1].item)
<1> DEFINE q == Q[s][kind]
           e == q[n + 1]
           S == WithStore(store, s, v.st)
           T == WithStore(store, s, u.st)
           L == Left(Q, s, kind, n)
           P == Left(Q, s, kind, n + 1)
<1>1. e \in EntryType[kind] /\ e \in Values(q) /\ n + 1 \in 1..Len(q)
  <2>1. n + 1 \in 1..Len(q)
    OBVIOUS
  <2> HIDE DEF q
  <2>2. q \in Seq(EntryType[kind])
    BY DEF q
  <2> QED
    BY <2>1, <2>2 DEF Values
<1>2. Shorter(L, P, s, kind, e)
  BY LeftStep
<1>3. e \in Values(L[s][kind])
  BY <1>2 DEF Shorter
<1>0. Stores(store)
  BY DEF StoresOK, Stores
<1>a. Stores(S) /\ S[s] = v.st /\ S[Other(s)] = store[Other(s)]
  BY <1>0, WithStoreFacts
<1>b. T[s] = u.st /\ T[Other(s)] = store[Other(s)] /\ DOMAIN T = Sides
  BY SideFacts DEF WithStore
<1>4. Stores(S) /\ S[s] = v.st /\ T[s] = u.st
  BY <1>a, <1>b
<1>5. Exchanged(S, T, s, u.st)
  BY <1>a, <1>b DEF Exchanged
<1>6. /\ Engine(V, S, v.m, F, L, W)
      /\ Complete(store, m, F, Q) => Complete(S, v.m, F, L)
      /\ Grown(store[s], v.st) /\ Paired(store, m, v.m, s, q)
      /\ kind # "add" => v.m.map = m.map
  BY DEF Midway
<1> HIDE DEF e, S, T, L, P
<1>u. u = ApplyOne(s, kind, v, e)
  BY DEF e
<1>7. /\ Engine(V, T, u.m, F, P, W)
      /\ Complete(S, v.m, F, L) => Complete(T, u.m, F, P)
  <2>1. Engine(V, S, v.m, F, L, W) /\ Begins(S, v.m, s, v) /\ Applied(s, kind, v, e, u)
    BY <1>u, <1>4, <1>6 DEF Begins, Applied
  <2> QED
    BY <2>1, <1>2, <1>4, <1>5, EntryStep, SMTT(30)
<1>8. Sound(V, S, v.m, Unknown(F, L), Changing(L), Removing(L), W)
  BY <1>6 DEF Engine
<1>9. kind = "rem" => e \in DOMAIN v.st.items
  <2>1. kind = "rem" => e \in Removing(L)[s]
    BY <1>3 DEF Removing
  <2> QED
    BY <2>1, <1>4, <1>8 DEF Sound, ClaimsOK, Has
<1>10. Grown(store[s], u.st)
  <2>1. Grown(v.st, u.st)
    BY <1>1, <1>9, <1>u, EntryGrows
  <2>2. StoreOK(store[s])
    BY DEF StoresOK
  <2> QED
    BY <2>1, <2>2, <1>6, GrownTwice
<1>11. CASE kind = "add"
  <2>1. u.m = Associate(v.m, s, v.st.clock + 1, v.st.clock + 1, e) /\ u.st = AddOne(v.st, e.item)
    BY <1>11, <1>u DEF ApplyOne
  <2>2. e \in Unknown(F, L)[Other(s)]
    BY <1>3, <1>11, SideFacts DEF Unknown
  <2>3. /\ Waiting(S, v.m, Removing(L), Other(s), e)
        /\ \A r \in DOMAIN v.m.map : r \in DOMAIN u.m.map /\ u.m.map[r] = v.m.map[r]
        /\ \A r \in DOMAIN u.m.map : r \in DOMAIN v.m.map
              \/ (e.id = Mate(u.m, r, Other(s)) /\ v.st.clock + 1 = Mate(u.m, r, s))
    <3>1. Copied(S, v.m, s, e, u.m)
      BY <2>1, <1>4 DEF Copied
    <3>2. Waiting(S, v.m, Removing(L), Other(s), e)
      BY <3>1, <2>2, <1>4, <1>8, EntryPairs
    <3>3. PairAdded(v.m, u.m, s, e, S[s].clock + 1)
      BY <3>1, <2>2, <1>4, <1>8, EntryPairs
    <3> QED
      BY <3>2, <3>3, <1>4 DEF PairAdded
  <2>4. store[s].clock < v.st.clock + 1
    <3>1. store[s].clock \in Nat
      BY Zenon DEF StoresOK, StoreOK
    <3> QED
      BY <3>1
  <2>5. \A r \in DOMAIN v.m.map : \A t : Mate(u.m, r, t) = Mate(v.m, r, t)
    BY <2>3 DEF Mate
  <2>6. Paired(store, m, u.m, s, q)
    BY <1>1, <1>6, <2>3, <2>4, <2>5, SMTT(30) DEF Paired
  <2> QED
    BY <1>6, <1>7, <1>10, <1>11, <2>1, <2>3, <2>6, Zenon DEF Midway, S, T, L, P, e
<1>12. CASE kind # "add"
  <2>1. u.m.map = v.m.map
    BY <1>12, <1>u DEF ApplyOne, UpdateRevision, Kinds
  <2>2. Paired(store, m, u.m, s, q)
    BY <2>1, <1>6 DEF Paired, Mate
  <2> QED
    BY <1>6, <1>7, <1>10, <1>12, <2>1, <2>2 DEF Midway, S, T, L, P
<1> QED
  BY <1>11, <1>12
\* A batch whose entries all find their item.
Batched(s, kind, m, Q, w) ==
  /\ w = ApplyBatch(s, kind, m, Q[s][kind])
  /\ Q[s][kind] \in Seq(EntryType[kind]) /\ Feasible(s, kind, Q[s][kind]) = Len(Q[s][kind])

\* The states of a batch: types, clocks, and how each follows from the one
\* before.
LEMMA BatchFacts ==
  ASSUME NEW s \in Sides, NEW kind \in Kinds, NEW m, NEW Q, NEW w, StoresOK, MetaOK(m), Batched(s, kind, m, Q, w)
  PROVE  /\ Len(Q[s][kind]) \in Nat
         /\ w[0].st = store[s] /\ w[0].m = m
         /\ \A n \in 0..Len(Q[s][kind]) :
              StoreOK(w[n].st) /\ MetaOK(w[n].m) /\ w[n].st.clock = store[s].clock + n
         /\ \A n \in 1..Len(Q[s][kind]) : w[n] = ApplyOne(s, kind, w[n - 1], Q[s][kind][n])
<1>1. Len(Q[s][kind]) \in Nat
  BY DEF Batched
<1>2. /\ w[0] = [st |-> store[s], m |-> m]
      /\ \A n \in 1..Len(Q[s][kind]) : w[n] = ApplyOne(s, kind, w[n - 1], Q[s][kind][n])
  BY <1>1, BatchSteps DEF Batched
<1>3. StoreOK(store[s])
  BY DEF StoresOK
<1>4. /\ \A n \in 0..Len(Q[s][kind]) :
           StoreOK(w[n].st) /\ MetaOK(w[n].m) /\ w[n].st.clock = store[s].clock + n
  BY <1>3, BatchTypes DEF Batched
<1> QED
  BY <1>1, <1>2, <1>4

\* Before the first entry nothing has changed.
LEMMA MidwayStart ==
  ASSUME NEW V, NEW m, NEW F, NEW Q, NEW W, NEW s \in Sides, NEW kind \in Kinds, NEW v, NEW A,
         StoresOK, Q[s][kind] \in Seq(A), Engine(V, store, m, F, Q, W), v.st = store[s], v.m = m
  PROVE  Midway(V, m, F, Q, W, s, kind, v, 0)
<1> DEFINE T == WithStore(store, s, v.st)
           P == Left(Q, s, kind, 0)
           q == Q[s][kind]
<1>1. SameStores(store, T)
  BY DEF WithStore, SameStores
<1>2. SameQueues(Q, P)
  <2>1. \A t \in Sides, k \in Kinds : Distinct(Q[t][k])
    BY DEF Engine
  <2>2. \A t \in Sides, k \in Kinds : t # s \/ k # kind => P[t][k] = Q[t][k]
    BY DEF Left
  <2>3. P[s][kind] = SubSeq(q, 0 + 1, Len(q))
    BY DEF Left
  <2>4. q \in Seq(A) /\ Distinct(q) /\ 0 \in 0..Len(q) /\ 0 + 1 = 1
    BY <2>1
  <2> HIDE DEF P, q
  <2>5. /\ (\A d :
              d \in Values(P[s][kind]) <=> \E k \in 0 + 1..Len(q) :
                                             d = q[k]) /\ Distinct(P[s][kind])
    BY <2>3, <2>4, LeftFacts
  <2>6. Values(P[s][kind]) = Values(q)
    BY <2>4, <2>5 DEF Values
  <2> QED
    BY <2>1, <2>2, <2>5, <2>6 DEF SameQueues, q
<1>3. Engine(V, T, m, F, P, W) /\ (Complete(store, m, F, Q) => Complete(T, m, F, P))
  <2> HIDE DEF P, T
  <2>1. Engine(V, store, m, F, P, W) /\ (Complete(store, m, F, Q) => Complete(store, m, F, P))
    BY <1>2, RequeueSound
  <2> QED
    BY <1>1, <2>1, SwapStores
<1>4. Grown(store[s], store[s])
  BY GrownSame DEF StoresOK
<1>5. Paired(store, m, m, s, q)
  BY DEF Paired
<1> QED
  BY <1>3, <1>4, <1>5 DEF Midway

\* After every entry of a batch the account is right.
LEMMA BatchMidway ==
  ASSUME NEW V, NEW m, NEW F, NEW Q, NEW W, NEW s \in Sides, NEW kind \in Kinds, NEW w,
         StoresOK, MetaOK(m), Engine(V, store, m, F, Q, W), Batched(s, kind, m, Q, w)
  PROVE  \A n \in 0..Len(Q[s][kind]) : Midway(V, m, F, Q, W, s, kind, w[n], n)
<1> DEFINE q == Q[s][kind]
           E == {n \in Nat : n <= Len(q) => Midway(V, m, F, Q, W, s, kind, w[n], n)}
<1>1. /\ Len(q) \in Nat
      /\ w[0].st = store[s] /\ w[0].m = m
      /\ \A n \in 0..Len(q) :
           StoreOK(w[n].st) /\ MetaOK(w[n].m) /\ w[n].st.clock = store[s].clock + n
      /\ \A n \in 1..Len(q) : w[n] = ApplyOne(s, kind, w[n - 1], q[n])
  BY BatchFacts
<1>2. q \in Seq(EntryType[kind]) /\ Distinct(q)
  BY DEF Batched, Engine
<1>3. 0 \in E
  <2>1. Midway(V, m, F, Q, W, s, kind, w[0], 0)
    BY <1>1, <1>2, MidwayStart
  <2> QED
    BY <2>1
<1>4. ASSUME NEW n \in Nat, n \in E PROVE n + 1 \in E
  <2> SUFFICES ASSUME n + 1 <= Len(q) PROVE Midway(V, m, F, Q, W, s, kind, w[n + 1], n + 1)
    OBVIOUS
  <2>1. n \in 0..Len(q) /\ n + 1 \in 0..Len(q) /\ n + 1 \in 1..Len(q) /\ (n + 1) - 1 = n
    BY <1>1
  <2>2. Midway(V, m, F, Q, W, s, kind, w[n], n)
    BY <1>4, <2>1
  <2>3. w[n + 1] = ApplyOne(s, kind, w[n], q[n + 1])
    BY <1>1, <2>1
  <2>4. /\ StoreOK(w[n].st) /\ MetaOK(w[n].m) /\ w[n].st.clock = store[s].clock + n
        /\ StoreOK(w[n + 1].st)
    BY <1>1, <2>1
  <2> QED
    BY <1>2, <2>2, <2>3, <2>4, MidwayStep
<1>5. Nat \subseteq E
  <2> HIDE DEF E
  <2> QED
    BY <1>3, <1>4, NatSetInduction
<1> QED
  BY <1>1, <1>5
-----------------------------------------------------------------------------
(* Flushes and entries put into queues.                                    *)

\* Q is like the queues but for one of them.
LikeQueue(Q, s, kind) == \A t \in Sides, k \in Kinds : t # s \/ k # kind => Q[t][k] = queue[t][k]

\* A flush that did not fail: w are the states of its batch.
FlushMade(s, kind, Q, w) ==
  /\ \A t \in Sides : store'[t] = IF t = s THEN w[Len(Q[s][kind])].st ELSE store[t]
  /\ meta' = w[Len(Q[s][kind])].m
  /\ queue'[s][kind] = <<>> /\ LikeQueue(Q, s, kind)
  /\ \A t \in Sides, k \in Kinds : t # s \/ k # kind => queue'[t][k] = Q[t][k]
  /\ UNCHANGED <<dbError, faultVars>>

\* A flush that did not fail did a whole batch.
LEMMA FlushParts ==
  ASSUME NEW s \in Sides, NEW kind \in Kinds, NEW Q, NEW N, StoresOK, QueuesOK,
         Q[s][kind] \in Seq(EntryType[kind]), LikeQueue(Q, s, kind),
         Flush(s, kind, Q[s][kind], N), "flush" \notin faulty'
  PROVE  \E w : Batched(s, kind, N, Q, w) /\ FlushMade(s, kind, Q, w)
<1> DEFINE q == Q[s][kind]
           w == ApplyBatch(s, kind, N, q)
<1>1. /\ Feasible(s, kind, q) = Len(q)
      /\ store' = [store EXCEPT ![s] = w[Len(q)].st] /\ meta' = w[Len(q)].m
      /\ queue' = [queue EXCEPT ![s][kind] = <<>>]
      /\ UNCHANGED <<dbError, faultVars>>
  BY DEF Flush, Fault
<1>2. Batched(s, kind, N, Q, w)
  BY <1>1 DEF Batched
<1> HIDE DEF w
<1>3. <<>> \in Seq(EntryType[kind])
  OBVIOUS
<1>4. /\ queue'[s][kind] = <<>>
      /\ \A t \in Sides, k \in Kinds : t # s \/ k # kind => queue'[t][k] = queue[t][k]
  <2>1. queue' = [queue EXCEPT ![s][kind] = <<>>]
    BY <1>1
  <2> QED
    BY <2>1 DEF QueuesOK, QueueOK
<1>5. \A t \in Sides : store'[t] = IF t = s THEN w[Len(q)].st ELSE store[t]
  BY <1>1 DEF StoresOK
<1>6. FlushMade(s, kind, Q, w)
  BY <1>1, <1>4, <1>5 DEF FlushMade, LikeQueue
<1> QED
  BY <1>2, <1>6

\* What a flush does to the engine's account of the items.
FlushEnds(V, m, F, Q, W, s, kind, n) ==
  /\ Engine(V, store', n, F, queue', W)
  /\ Complete(store, m, F, Q) => Complete(store', n, F, queue')
  /\ \A t \in Sides : Grown(store[t], store'[t])
  /\ Paired(store, m, n, s, Q[s][kind])
  /\ kind # "add" => n.map = m.map

\* After the last entry of a batch the queue is empty.
LEMMA MidwayEnd ==
  ASSUME NEW V, NEW m, NEW F, NEW Q, NEW W, NEW s \in Sides, NEW kind \in Kinds, NEW w, NEW v,
         StoresOK, MetaOK(m), Engine(V, store, m, F, Q, W), Batched(s, kind, m, Q, v),
         FlushMade(s, kind, Q, w),
         w[Len(Q[s][kind])].st = v[Len(Q[s][kind])].st
  PROVE  FlushEnds(V, m, F, Q, W, s, kind, v[Len(Q[s][kind])].m)
<1> DEFINE q == Q[s][kind]
           u == v[Len(q)]
           T == WithStore(store, s, u.st)
           P == Left(Q, s, kind, Len(q))
<1>1. Len(q) \in Nat /\ Len(q) \in 0..Len(q)
  BY BatchFacts
<1>2. Midway(V, m, F, Q, W, s, kind, u, Len(q))
  BY <1>1, BatchMidway
<1>3. /\ Engine(V, T, u.m, F, P, W) /\ (Complete(store, m, F, Q) => Complete(T, u.m, F, P))
      /\ Grown(store[s], u.st)
      /\ Paired(store, m, u.m, s, q)
      /\ kind # "add" => u.m.map = m.map
  BY <1>2 DEF Midway
<1>4. SameStores(T, store')
  BY DEF SameStores, WithStore, FlushMade
<1>5. SameQueues(P, queue')
  <2>1. \A t \in Sides, k \in Kinds : t # s \/ k # kind => P[t][k] = queue'[t][k]
    BY DEF Left, FlushMade
  <2>2. P[s][kind] = SubSeq(q, Len(q) + 1, Len(q))
    BY DEF Left
  <2>3. q \in Seq(EntryType[kind]) /\ Distinct(q)
    BY DEF Batched, Engine
  <2>4. \A t \in Sides, k \in Kinds : Distinct(Q[t][k])
    BY DEF Engine
  <2> HIDE DEF P, q
  <2>5. Len(P[s][kind]) = 0
    BY <1>1, <2>2, <2>3
  <2>6. \A d : d \notin Values(P[s][kind])
    BY <2>5 DEF Values
  <2>7. queue'[s][kind] = <<>>
    BY DEF FlushMade
  <2>8. \A d : d \notin Values(<<>>)
    BY DEF Values
  <2>9. Distinct(<<>>)
    BY DEF Distinct
  <2>10. Values(queue'[s][kind]) = Values(P[s][kind]) /\ Distinct(queue'[s][kind])
    BY <2>6, <2>7, <2>8, <2>9
  <2>11. \A t \in Sides, k \in Kinds : t # s \/ k # kind =>
           Values(queue'[t][k]) = Values(P[t][k]) /\ Distinct(queue'[t][k])
    BY <2>1, <2>4 DEF FlushMade
  <2> QED
    BY <2>10, <2>11 DEF SameQueues
<1> HIDE DEF T, P
<1>6. Engine(V, store', u.m, F, P, W) /\ (Complete(T, u.m, F, P) => Complete(store', u.m, F, P))
  BY <1>3, <1>4, SwapStores
<1>7. /\ Engine(V, store', u.m, F, queue', W)
      /\ (Complete(store', u.m, F, P) => Complete(store', u.m, F, queue'))
  BY <1>5, <1>6, RequeueSound
<1>8. \A t \in Sides : Grown(store[t], store'[t])
  BY <1>3, GrownSame DEF FlushMade, StoresOK
<1> QED
  BY <1>3, <1>6, <1>7, <1>8 DEF FlushEnds

\* What a flush leaves of queues, and what it removes.
FlushLeaves(Q, s, kind) ==
  /\ queue'[s][kind] = <<>>
  /\ \A t \in Sides, k \in Kinds : t # s \/ k # kind => queue'[t][k] = Q[t][k]
  /\ \A t \in Sides : \A x \in DOMAIN store[t].items :
       x \in DOMAIN store'[t].items \/ (t = s /\ kind = "rem" /\ x \in Values(Q[s][kind]))
  /\ UNCHANGED <<dbError, faultVars>>

\* A flush that did not fail keeps the account of the items.
LEMMA FlushSound ==
  ASSUME NEW V, NEW m, NEW F, NEW Q, NEW W, NEW s \in Sides, NEW kind \in Kinds,
         StoresOK, QueuesOK, MetaOK(m), Engine(V, store, m, F, Q, W),
         Q[s][kind] \in Seq(EntryType[kind]), LikeQueue(Q, s, kind),
         Flush(s, kind, Q[s][kind], m), "flush" \notin faulty'
  PROVE  FlushEnds(V, m, F, Q, W, s, kind, meta') /\ FlushLeaves(Q, s, kind)
<1> DEFINE q == Q[s][kind]
<1>1. PICK w : Batched(s, kind, m, Q, w) /\ FlushMade(s, kind, Q, w)
  BY FlushParts
<1>2. FlushEnds(V, m, F, Q, W, s, kind, w[Len(q)].m)
  BY <1>1, MidwayEnd
<1>3. StoreOK(store[s]) /\ Len(q) \in Nat
  BY DEF StoresOK
<1>4. /\ kind # "rem" => \A x \in DOMAIN store[s].items : x \in DOMAIN w[Len(q)].st.items
      /\ kind = "rem" => \A x : x \in DOMAIN w[Len(q)].st.items
                                <=> x \in DOMAIN store[s].items /\ \A k \in 1..Len(q) : q[k] # x
  <2>1. w = ApplyBatch(s, kind, m, q) /\ Len(q) \in 0..Feasible(s, kind, q)
    BY <1>1, <1>3 DEF Batched
  <2> QED
    BY <1>3, <2>1, BatchTypes
<1>5. \A t \in Sides : \A x \in DOMAIN store[t].items :
        x \in DOMAIN store'[t].items \/ (t = s /\ kind = "rem" /\ x \in Values(q))
  <2> SUFFICES ASSUME NEW x \in DOMAIN store[s].items, x \notin DOMAIN w[Len(q)].st.items
               PROVE  kind = "rem" /\ x \in Values(q)
    BY <1>1 DEF FlushMade
  <2> QED
    BY <1>4 DEF Values
<1>6. meta' = w[Len(q)].m
  BY <1>1 DEF FlushMade
<1> QED
  BY <1>1, <1>2, <1>5, <1>6 DEF FlushLeaves, FlushMade
-----------------------------------------------------------------------------
(* A flush in a first synchronization.                                     *)

\* Metadata of an earlier run contains what an added entry makes of both.
LEMMA AroundStep ==
  ASSUME NEW S, NEW T, NEW m, NEW n, NEW N, NEW K, NEW s \in Sides, NEW e, NEW R,
         Stores(S), MetaOK(N), Around(S, m, N), Waiting(S, m, R, Other(s), e),
         Exchanged(S, T, s, AddOne(S[s], e.item)), Copied(S, m, s, e, n), Copied(S, N, s, e, K)
  PROVE  Around(T, n, K)
<1> DEFINE x == S[s].clock + 1
           st == AddOne(S[s], e.item)
           o == Other(s)
<1>1. /\ o \in Sides
      /\ (s = "remote" /\ o = "local") \/ (s = "local" /\ o = "remote")
  BY SideFacts DEF Sides
<1>2. e \in Objects /\ e.item \in Contacts /\ e.id \in Nat /\ e.rev \in Nat
  BY DEF Waiting, Objects
<1>3. StoreOK(S[s]) /\ StoreOK(S[o])
  BY <1>1 DEF Stores
<1>4. /\ StoreOK(st) /\ st.clock = x /\ Grown(S[s], st)
      /\ st.items = Put(S[s].items, x, [item |-> e.item, rev |-> x])
  BY <1>2, <1>3, AddOneFacts, AddGrows
<1>5. x \in DOMAIN st.items /\ DOMAIN S[s].items \subseteq DOMAIN st.items
  BY <1>4 DEF Put
<1>6. x \in Nat
  BY <1>3 DEF StoreOK
<1>7. e.id \in DOMAIN S[o].items /\ e.id <= S[o].clock /\ e.rev <= S[o].clock
  <2>1. e = Object(S, o, e.id) /\ e.id \in DOMAIN S[o].items
    BY DEF Waiting, Has
  <2>2. e.rev = S[o].items[e.id].rev
    BY <2>1 DEF Object
  <2>3. e.id \in 1..S[o].clock /\ e.rev \in 1..S[o].clock
    BY <1>3, <2>1, <2>2 DEF StoreOK, IsMap
  <2> QED
    BY <2>1, <2>3, <1>3 DEF StoreOK
<1>8. T[s] = st /\ T[o] = S[o] /\ Clocks(S, T)
  <2> HIDE DEF st
  <2>1. Exchanged(S, T, s, st)
    BY DEF st
  <2>2. Clocks(S, T)
    BY <1>4, <2>1, StoresExcept
  <2> QED
    BY <2>1, <2>2 DEF Exchanged
<1> HIDE DEF x, st, o
<1>9. \A t \in Sides : DOMAIN S[t].items \subseteq DOMAIN T[t].items
  <2>1. \A t \in Sides : t = s \/ t = o
    BY SideFacts DEF o
  <2> QED
    BY <2>1, <1>5, <1>8
<1>10. /\ Has(T, s, x) /\ Has(T, o, e.id) /\ x <= T[s].clock /\ e.id <= T[o].clock
       /\ e.rev <= T[o].clock
  BY <1>4, <1>5, <1>6, <1>7, <1>8 DEF Has
<1>11. CASE s = "remote"
  <2>1. o = "local"
    BY <1>1, <1>11
  <2>2. n = AddItem(m, x, x, e.id, e.rev) /\ K = AddItem(N, x, x, e.id, e.rev)
    BY <1>11 DEF Copied, Associate, x
  <2> QED
    BY <2>1, <2>2, <1>8, <1>9, <1>10, <1>11, AroundPair
<1>12. CASE s = "local"
  <2>1. o = "remote"
    BY <1>1, <1>12
  <2>2. n = AddItem(m, e.id, e.rev, x, x) /\ K = AddItem(N, e.id, e.rev, x, x)
    BY <1>12 DEF Copied, Associate, x
  <2> QED
    BY <2>1, <2>2, <1>8, <1>9, <1>10, <1>12, AroundPair
<1> QED
  BY <1>1, <1>11, <1>12

\* That too depends only on what each side holds.
LEMMA AroundSwap ==
  ASSUME NEW S, NEW T, NEW m, NEW N, Around(S, m, N), SameStores(S, T)
  PROVE  Around(T, m, N)
  BY DEF Around, Present, Memory, Known, SameStores

\* In step with the batch, metadata of an earlier run gets the same pairs.
InStep(w, v, s, Q) ==
  \A n \in 0..Len(Q[s]["add"]) :
    w[n].st = v[n].st /\ Around(WithStore(store, s, v[n].st), v[n].m, w[n].m)

\* With the metadata made in this run, the one in memory grows by the same
\* pairs.
LEMMA AroundMidway ==
  ASSUME NEW V, NEW m, NEW N, NEW F, NEW Q, NEW W, NEW s \in Sides, NEW w, NEW v,
         StoresOK, MetaOK(m), MetaOK(N), Engine(V, store, m, F, Q, W),
         Batched(s, "add", m, Q, v), Batched(s, "add", N, Q, w), Around(store, m, N)
  PROVE  InStep(w, v, s, Q)
<1> DEFINE q == Q[s]["add"]
           H(n) == w[n].st = v[n].st /\ Around(WithStore(store, s, v[n].st), v[n].m, w[n].m)
           E == {n \in Nat : n <= Len(q) => H(n)}
<1>0. "add" \in Kinds
  BY DEF Kinds
<1>1. /\ Len(q) \in Nat
      /\ v[0].st = store[s] /\ v[0].m = m
      /\ \A n \in 0..Len(q) :
           StoreOK(v[n].st) /\ MetaOK(v[n].m) /\ v[n].st.clock = store[s].clock + n
      /\ \A n \in 1..Len(q) : v[n] = ApplyOne(s, "add", v[n - 1], q[n])
  BY <1>0, BatchFacts
<1>2. /\ w[0].st = store[s] /\ w[0].m = N
      /\ \A n \in 0..Len(q) :
           StoreOK(w[n].st) /\ MetaOK(w[n].m) /\ w[n].st.clock = store[s].clock + n
      /\ \A n \in 1..Len(q) : w[n] = ApplyOne(s, "add", w[n - 1], q[n])
  BY <1>0, BatchFacts
<1>3. q \in Seq(EntryType["add"]) /\ Distinct(q)
  BY <1>0 DEF Batched, Engine
<1>4. 0 \in E
  <2>1. SameStores(store, WithStore(store, s, v[0].st))
    BY <1>1 DEF SameStores, WithStore
  <2>2. H(0)
    BY <1>1, <1>2, <2>1, AroundSwap
  <2> QED
    BY <2>2
<1>5. ASSUME NEW n \in Nat, n \in E PROVE n + 1 \in E
  <2> SUFFICES ASSUME n + 1 <= Len(q) PROVE H(n + 1)
    <3> HIDE DEF H
    <3> QED
      OBVIOUS
  <2>1. n \in 0..Len(q) /\ n + 1 \in 0..Len(q) /\ n + 1 \in 1..Len(q) /\ (n + 1) - 1 = n
    BY <1>1
  <2> DEFINE e == q[n + 1]
             S == WithStore(store, s, v[n].st)
             T == WithStore(store, s, v[n + 1].st)
  <2>2. H(n)
    <3>1. n <= Len(q)
      BY <2>1, <1>1
    <3> HIDE DEF H
    <3> QED
      BY <1>5, <3>1
  <2>3. v[n + 1] = ApplyOne(s, "add", v[n], e) /\ w[n + 1] = ApplyOne(s, "add", w[n], e)
    BY <1>1, <1>2, <2>1
  <2>4. /\ StoreOK(v[n].st) /\ MetaOK(v[n].m) /\ v[n].st.clock = store[s].clock + n
        /\ StoreOK(v[n + 1].st)
        /\ MetaOK(w[n].m)
    BY <1>1, <1>2, <2>1
  <2>5. Midway(V, m, F, Q, W, s, "add", v[n], n)
    BY <1>0, <2>1, BatchMidway
  <2>6. /\ \E R : Waiting(S, v[n].m, R, Other(s), e)
        /\ v[n + 1].m = Associate(v[n].m, s, v[n].st.clock + 1, v[n].st.clock + 1, e)
        /\ v[n + 1].st = AddOne(v[n].st, e.item)
    BY <1>0, <1>3, <2>3, <2>4, <2>5, MidwayStep
  <2>7. PICK R : Waiting(S, v[n].m, R, Other(s), e)
    BY <2>6
  <2>8. /\ w[n + 1].m = Associate(w[n].m, s, w[n].st.clock + 1, w[n].st.clock + 1, e)
        /\ w[n + 1].st = AddOne(w[n].st, e.item)
    BY <2>3 DEF ApplyOne
  <2>9. /\ S[s] = v[n].st /\ S[Other(s)] = store[Other(s)] /\ T[s] = v[n + 1].st
        /\ T[Other(s)] = store[Other(s)]
        /\ DOMAIN T = Sides
    BY SideFacts DEF WithStore
  <2>10. Stores(S)
    <3>1. Stores(store)
      BY DEF Stores, StoresOK
    <3> QED
      BY <2>4, <3>1, WithStoreFacts
  <2> HIDE DEF e, S, T
  <2>11. Exchanged(S, T, s, AddOne(S[s], e.item))
    BY <2>6, <2>9 DEF Exchanged
  <2>12. /\ Copied(S, v[n].m, s, e, v[n + 1].m) /\ Copied(S, w[n].m, s, e, w[n + 1].m)
         /\ w[n + 1].st = v[n + 1].st
    BY <2>2, <2>6, <2>8, <2>9 DEF Copied
  <2>13. Around(S, v[n].m, w[n].m)
    BY <2>2 DEF S
  <2>14. Around(T, v[n + 1].m, w[n + 1].m)
    BY <2>4, <2>7, <2>10, <2>11, <2>12, <2>13, AroundStep
  <2> QED
    BY <2>12, <2>14 DEF T
<1>6. Nat \subseteq E
  <2> HIDE DEF E
  <2> QED
    BY <1>4, <1>5, NatSetInduction
<1>7. \A n \in 0..Len(q) : H(n)
  <2> HIDE DEF H
  <2> QED
    BY <1>1, <1>6
<1> QED
  BY <1>7 DEF InStep

\* A flush in a first synchronization that did not fail keeps both accounts.
LEMMA FlushFirst ==
  ASSUME NEW V, NEW m, NEW N, NEW F, NEW Q, NEW W, NEW s \in Sides,
         StoresOK, QueuesOK, MetaOK(m), MetaOK(N), Engine(V, store, m, F, Q, W),
         Around(store, m, N),
         Q[s]["add"] \in Seq(EntryType["add"]), LikeQueue(Q, s, "add"),
         Flush(s, "add", Q[s]["add"], N), "flush" \notin faulty'
  PROVE  /\ \E n : MetaOK(n) /\ FlushEnds(V, m, F, Q, W, s, "add", n) /\ Around(store', n, meta')
         /\ FlushLeaves(Q, s, "add")
<1> DEFINE q == Q[s]["add"]
<1>0. "add" \in Kinds
  BY DEF Kinds
<1>1. PICK w : Batched(s, "add", N, Q, w) /\ FlushMade(s, "add", Q, w)
  BY <1>0, FlushParts
<1>2. PICK v : Batched(s, "add", m, Q, v)
  BY <1>1 DEF Batched
<1>3. Len(q) \in 0..Len(q)
  BY <1>0, <1>1, BatchFacts
<1> DEFINE u == v[Len(q)]
<1>4. w[Len(q)].st = u.st /\ Around(WithStore(store, s, u.st), u.m, w[Len(q)].m)
  <2>1. InStep(w, v, s, Q)
    BY <1>1, <1>2, AroundMidway
  <2> QED
    BY <1>3, <2>1 DEF InStep
<1>5. FlushEnds(V, m, F, Q, W, s, "add", u.m)
  BY <1>0, <1>1, <1>2, <1>4, MidwayEnd
<1>6. SameStores(WithStore(store, s, u.st), store') /\ meta' = w[Len(q)].m
  BY <1>1, <1>4 DEF SameStores, WithStore, FlushMade
<1>7. Around(store', u.m, meta')
  BY <1>4, <1>6, AroundSwap
<1>8. \A t \in Sides : \A x \in DOMAIN store[t].items : x \in DOMAIN store'[t].items
  <2>1. StoreOK(store[s]) /\ q \in Seq(EntryType["add"]) /\ w = ApplyBatch(s, "add", N, q)
        /\ Len(q) \in 0..Feasible(s, "add", q)
    BY <1>1, <1>3 DEF Batched, StoresOK
  <2>2. \A x \in DOMAIN store[s].items : x \in DOMAIN w[Len(q)].st.items
    BY <1>0, <2>1, BatchTypes
  <2> QED
    BY <1>1, <2>2 DEF FlushMade
<1>9. MetaOK(u.m)
  BY <1>0, <1>2, <1>3, BatchFacts
<1> QED
  BY <1>1, <1>5, <1>7, <1>8, <1>9 DEF FlushLeaves, FlushMade
-----------------------------------------------------------------------------
(* An entry is put into a queue.                                           *)

WithEntry(s, kind, e) ==
  [t \in Sides |-> [k \in Kinds |-> IF t = s /\ k = kind THEN Append(queue[s][kind], e) ELSE queue[t][k]]]

Longer(q, p, e) == \A d : d \in Values(p) <=> d \in Values(q) \/ d = e

\* A queue with an entry more.
LEMMA AppendValues ==
  ASSUME NEW A, NEW q \in Seq(A), NEW e \in A, Distinct(q), e \notin Values(q), NEW p, p = Append(q, e)
  PROVE  p \in Seq(A) /\ Longer(q, p, e) /\ Distinct(p)
<1>1. /\ p \in Seq(A) /\ Len(p) = Len(q) + 1 /\ Len(q) \in Nat
      /\ \A k \in 1..Len(q) : p[k] = q[k]
      /\ p[Len(q) + 1] = e
  BY AppendFacts
<1>2. \A k : k \in 1..Len(p) <=> k \in 1..Len(q) \/ k = Len(q) + 1
  BY <1>1
<1>3. \A k \in 1..Len(q) : k # Len(q) + 1
  BY <1>1
<1>4. \A d : d \in Values(p) <=> d \in Values(q) \/ d = e
  BY <1>1, <1>2 DEF Values
<1>5. Distinct(p)
  <2> SUFFICES ASSUME NEW j \in 1..Len(p), NEW k \in 1..Len(p), p[j] = p[k] PROVE j = k
    BY DEF Distinct
  <2>1. \A i \in 1..Len(q) : p[i] # e
    BY <1>1 DEF Values
  <2> QED
    BY <1>1, <1>2, <2>1 DEF Distinct
<1> QED
  BY <1>1, <1>4, <1>5 DEF Longer

\* The queues with an entry more.
LEMMA WithEntryFacts ==
  ASSUME NEW s \in Sides, NEW kind \in Kinds, NEW e \in EntryType[kind], QueuesOK,
         Distinct(queue[s][kind]), e \notin Values(queue[s][kind])
  PROVE  LET Q == WithEntry(s, kind, e) IN
         /\ Q[s][kind] \in Seq(EntryType[kind]) /\ LikeQueue(Q, s, kind)
         /\ Shorter(Q, queue, s, kind, e)
         /\ Distinct(Q[s][kind]) /\ Q[s][kind] = Append(queue[s][kind], e)
<1> DEFINE Q == WithEntry(s, kind, e)
           p == Append(queue[s][kind], e)
<1>1. /\ Q[s][kind] = p
      /\ \A t \in Sides, k \in Kinds : t # s \/ k # kind => Q[t][k] = queue[t][k]
  BY DEF WithEntry
<1>2. queue[s][kind] \in Seq(EntryType[kind])
  BY DEF QueuesOK, QueueOK
<1> HIDE DEF p
<1>3. /\ p \in Seq(EntryType[kind]) /\ Distinct(p)
      /\ Longer(queue[s][kind], p, e)
  <2>1. p = Append(queue[s][kind], e)
    BY DEF p
  <2> HIDE DEF EntryType
  <2> QED
    BY <1>2, <2>1, AppendValues
<1> HIDE DEF Q
<1>4. LikeQueue(Q, s, kind) /\ Shorter(Q, queue, s, kind, e)
  BY <1>1, <1>3 DEF LikeQueue, Shorter, Longer
<1> QED
  BY <1>1, <1>3, <1>4 DEF Q, p

\* What putting an entry into a queue leaves of queues, and what it removes.
EntryLeaves(Q, s, kind) ==
  /\ \A t \in Sides, k \in Kinds :
       queue'[t][k] = Q[t][k] \/ (t = s /\ k = kind /\ queue'[t][k] = <<>>)
  /\ \A t \in Sides : \A x \in DOMAIN store[t].items :
       x \in DOMAIN store'[t].items \/ (t = s /\ kind = "rem" /\ x \in Values(Q[s][kind]))
  /\ UNCHANGED <<dbError, faultVars>>

\* An entry is put into its queue, or the queue with it is flushed.
LEMMA EnqueueKept ==
  ASSUME NEW s \in Sides, NEW kind \in Kinds, NEW e \in EntryType[kind], NEW N, StoresOK, QueuesOK,
         Distinct(queue[s][kind]), e \notin Values(queue[s][kind]),
         Enqueue(s, kind, e, N), NEW Q, Q = WithEntry(s, kind, e)
  PROVE  \/ Flush(s, kind, Q[s][kind], N)
         \/ /\ store' = store /\ meta' = N /\ EntryLeaves(Q, s, kind)
            /\ \A t \in Sides, k \in Kinds : queue'[t][k] = Q[t][k]
<1> DEFINE p == Append(queue[s][kind], e)
<1>1. Q[s][kind] = p /\ p \in Seq(EntryType[kind]) /\ LikeQueue(Q, s, kind)
  BY WithEntryFacts
<1>2. CASE Flush(s, kind, p, N)
  BY <1>1, <1>2
<1>3. CASE /\ queue' = [queue EXCEPT ![s][kind] = p]
           /\ meta' = N /\ UNCHANGED <<store, dbError, faultVars>>
  <2> HIDE DEF p
  <2>1. /\ queue'[s][kind] = p
        /\ \A t \in Sides, k \in Kinds : t # s \/ k # kind => queue'[t][k] = queue[t][k]
    <3>1. queue' = [queue EXCEPT ![s][kind] = p]
      BY <1>3
    <3> QED
      BY <3>1 DEF QueuesOK, QueueOK
  <2>2. \A t \in Sides, k \in Kinds : queue'[t][k] = Q[t][k]
    BY <1>1, <2>1 DEF LikeQueue
  <2> QED
    BY <1>3, <2>2 DEF EntryLeaves
<1> QED
  BY <1>2, <1>3 DEF Enqueue

\* Putting an entry into a queue keeps the account of the items, unless the
\* flush that follows fails.
LEMMA EnqueueSound ==
  ASSUME NEW V, NEW m, NEW F, NEW W, NEW s \in Sides, NEW kind \in Kinds, NEW e \in EntryType[kind],
         StoresOK, QueuesOK, MetaOK(m), Engine(V, store, m, F, WithEntry(s, kind, e), W),
         Distinct(queue[s][kind]), e \notin Values(queue[s][kind]),
         Enqueue(s, kind, e, m), "flush" \notin faulty'
  PROVE  FlushEnds(V, m, F, WithEntry(s, kind, e), W, s, kind, meta') /\ EntryLeaves(WithEntry(s, kind, e), s, kind)
<1> DEFINE Q == WithEntry(s, kind, e)
<1>1. Q[s][kind] \in Seq(EntryType[kind]) /\ LikeQueue(Q, s, kind) /\ Engine(V, store, m, F, Q, W)
  BY WithEntryFacts
<1>2. \/ Flush(s, kind, Q[s][kind], m)
      \/ /\ store' = store /\ meta' = m /\ EntryLeaves(Q, s, kind)
         /\ \A t \in Sides, k \in Kinds : queue'[t][k] = Q[t][k]
  BY EnqueueKept
<1> HIDE DEF Q
<1>3. CASE Flush(s, kind, Q[s][kind], m)
  <2>1. FlushEnds(V, m, F, Q, W, s, kind, meta') /\ FlushLeaves(Q, s, kind)
    BY <1>1, <1>3, FlushSound
  <2> QED
    BY <2>1 DEF FlushLeaves, EntryLeaves, Q
<1>4. CASE /\ store' = store /\ meta' = m /\ EntryLeaves(Q, s, kind)
           /\ \A t \in Sides, k \in Kinds : queue'[t][k] = Q[t][k]
  <2>1. SameQueues(Q, queue')
    BY <1>1, <1>4 DEF SameQueues, Engine
  <2>2. /\ Engine(V, store, m, F, queue', W)
        /\ (Complete(store, m, F, Q) => Complete(store, m, F, queue'))
    BY <1>1, <2>1, RequeueSound
  <2>3. \A t \in Sides : Grown(store[t], store[t])
    BY GrownSame DEF StoresOK
  <2>4. Paired(store, m, m, s, Q[s][kind])
    BY DEF Paired
  <2> QED
    BY <1>4, <2>2, <2>3, <2>4 DEF FlushEnds, Q
<1> QED
  BY <1>2, <1>3, <1>4

\* The same in a first synchronization.
LEMMA EnqueueFirst ==
  ASSUME NEW V, NEW m, NEW N, NEW F, NEW W, NEW s \in Sides, NEW e \in Objects,
         StoresOK, QueuesOK, MetaOK(m), MetaOK(N), Engine(V, store, m, F, WithEntry(s, "add", e),
         W), Around(store, m, N),
         Distinct(queue[s]["add"]), e \notin Values(queue[s]["add"]),
         Enqueue(s, "add", e, N), "flush" \notin faulty'
  PROVE  /\ \E n :
              MetaOK(n) /\ FlushEnds(V, m, F, WithEntry(s, "add", e), W, s, "add", n) /\ Around(store', n, meta')
         /\ EntryLeaves(WithEntry(s, "add", e), s, "add")
<1> DEFINE Q == WithEntry(s, "add", e)
<1>0. "add" \in Kinds /\ e \in EntryType["add"]
  BY DEF Kinds, EntryType
<1>1. /\ Q[s]["add"] \in Seq(EntryType["add"]) /\ LikeQueue(Q, s, "add")
      /\ Engine(V, store, m, F, Q, W)
  BY <1>0, WithEntryFacts
<1>2. \/ Flush(s, "add", Q[s]["add"], N)
      \/ /\ store' = store /\ meta' = N /\ EntryLeaves(Q, s, "add")
         /\ \A t \in Sides, k \in Kinds : queue'[t][k] = Q[t][k]
  BY <1>0, EnqueueKept
<1> HIDE DEF Q
<1>3. CASE Flush(s, "add", Q[s]["add"], N)
  <2>1. /\ \E n : MetaOK(n) /\ FlushEnds(V, m, F, Q, W, s, "add", n) /\ Around(store', n, meta')
        /\ FlushLeaves(Q, s, "add")
    BY <1>1, <1>3, FlushFirst
  <2> QED
    BY <2>1 DEF FlushLeaves, EntryLeaves, Q
<1>4. CASE /\ store' = store /\ meta' = N /\ EntryLeaves(Q, s, "add")
           /\ \A t \in Sides, k \in Kinds : queue'[t][k] = Q[t][k]
  <2>1. SameQueues(Q, queue')
    BY <1>1, <1>4 DEF SameQueues, Engine
  <2>2. /\ Engine(V, store, m, F, queue', W)
        /\ (Complete(store, m, F, Q) => Complete(store, m, F, queue'))
    BY <1>1, <2>1, RequeueSound
  <2>3. \A t \in Sides : Grown(store[t], store[t])
    BY GrownSame DEF StoresOK
  <2>4. Paired(store, m, m, s, Q[s]["add"])
    BY DEF Paired
  <2>5. FlushEnds(V, m, F, Q, W, s, "add", m)
    BY <1>4, <2>2, <2>3, <2>4 DEF FlushEnds
  <2> QED
    BY <1>4, <2>5 DEF Q
<1> QED
  BY <1>2, <1>3, <1>4
(***************************************************************************)
(* What the engine keeps true at every step.                               *)
(***************************************************************************)
\* Nothing failed that the code does not recover from.
Clean == faulty \subseteq {"items", "unread"}
NoneUnread == "unread" \notin faulty

View      == [state |-> state, changed |-> changed]
Resolving == {"resolve", "match", "saveAll"}
Idle      == {"idle"} \cup Detecting \cup FirstPcs

\* Which metadata a run works with.
RunInv ==
  /\ pc \in Detecting \cup Resolving => hasMeta
  /\ pc \in FirstPcs => ~hasMeta
  /\ hasMeta => saved # NoMeta
  /\ hasMeta /\ pc \in Detecting \cup {"idle"} => meta = saved
  /\ hasMeta /\ pc # "idle" => begun.meta = saved
  /\ pc \in Idle => class = 0

\* Which flush of a series it is at.
PlanInv == pc \notin DOMAIN AfterFlush => plan = 0

Quiet == \A s \in Sides, kind \in Kinds : queue[s][kind] = <<>>

\* Where in a run queues are empty.
DrainInv ==
  /\ pc \in Detecting \cup {"index", "tokens"} => Quiet
  /\ ~hasMeta => \A s \in Sides : queue[s]["mod"] = <<>> /\ queue[s]["rem"] = <<>>
  /\ pc \in {"scan", "saveLocal"} => queue["remote"]["add"] = <<>>
  /\ pc \in {"rest", "saveRemote"} => queue["local"]["add"] = <<>>
  /\ pc \in DOMAIN AfterFlush => \A k \in 1..plan :
                                   queue[Flushes[pc][k][1]][Flushes[pc][k][2]] = <<>>

RemsAsked == \A s \in Sides : \A x \in Values(queue[s]["rem"]) : GivesWay(s, x)

-----------------------------------------------------------------------------
(* A following synchronization: detecting changes.                         *)

\* What getRevisions() or getChangedRevisions() reported is exact.
Detected(s) ==
  /\ \A x \in DOMAIN revs[s] : Has(store, s, x) /\ revs[s][x] = store[s].items[x].rev
  /\ DOMAIN meta.rev[s] \subseteq DOMAIN state[s]
  /\ \A x \in DOMAIN state[s] : x <= store[s].clock
  /\ \A x \in DOMAIN state[s] : x \notin DOMAIN revs[s] =>
        \/ state[s][x] = "NotPresent" /\ ~Has(store, s, x)
        \/ state[s][x] = "NotChanged" /\ Knows(store, meta, s, x)
  /\ NoneUnread => \A x \in DOMAIN store[s].items : Tracks(meta, s, x) \/ x \in DOMAIN revs[s]

FetchedInv(s) ==
  /\ \A x \in DOMAIN state[s] : x <= store[s].clock
  /\ \A x \in DOMAIN meta.rev[s] : InState(View, store, meta, s, x)
  /\ \A f \in fresh[s] : Has(store, s, f.id) /\ f = Object(store, s, f.id) /\ ~Tracks(meta, s, f.id)
  /\ NoneUnread => \A x \in DOMAIN store[s].items :
                     Tracks(meta, s, x) \/ \E f \in fresh[s] : f.id = x

DetectInv ==
  /\ \A s \in Sides : store[s].items = begun.store[s]
  /\ pc \in {"detectRemote", "fetchLocal"} => Detected("local")
  /\ pc \in {"fetchLocal", "fetchRemote"} => Detected("remote")
  /\ pc = "fetchRemote" => FetchedInv("local")

-----------------------------------------------------------------------------
(* A following synchronization: bringing the sides together.               *)

PairIs(r, l, c) == StateOf("remote", r) = c.remote /\ StateOf("local", l) = c.local

\* The pairs that a loop will come to, by remote ids.
Awaits(r)  == <<r, saved.map[r]>> \in todo \/ \E c \in class + 1 .. 8 :
                                                PairIs(r, saved.map[r], Classes[c])
Awaiting   == IF pc = "resolve" THEN {r \in DOMAIN saved.map : Awaits(r)} ELSE {}

\* A pair made in this run, of a changed item that was removed on the other side.
Young(r, l) ==
  \/ class >= 4 /\ StateOf("remote", r) = "NotPresent" /\ StateOf("local", l) = "Modified"
  \/ class >= 5 /\ StateOf("remote", r) = "Modified" /\ StateOf("local", l) = "NotPresent"

Inherited(r) == r \in DOMAIN saved.map /\ meta.map[r] = saved.map[r]

Lineage ==
  /\ \A r \in Awaiting : meta.map[r] = saved.map[r]
  /\ \A r \in DOMAIN meta.map : Inherited(r) \/ Young(r, meta.map[r])
  /\ \A p \in todo : p[1] \in DOMAIN saved.map /\ p = <<p[1], saved.map[p[1]]>>
  /\ \A s \in Sides : \A e \in Values(queue[s]["add"]) :
       StateOf(Other(s), e.id) = "Modified" /\ class >= (IF s = "remote" THEN 4 ELSE 5)

\* What was found out, compared with the beginning of the run.
FoundOut ==
  \A s \in Sides :
    /\ \A x \in DOMAIN state[s] : x <= store[s].clock
    /\ \A x \in DOMAIN saved.rev[s] : /\ StateOf(s, x) = "NotChanged" => Unchanged(s, x)
                                      /\ StateOf(s, x) = "NotPresent" => ~Unchanged(s, x)

FullInv ==
  /\ Engine(View, store, meta, fresh, queue, Awaiting)
  /\ NoneUnread => Complete(store, meta, fresh, queue)
  /\ pc = "resolve" => Lineage /\ FoundOut
  /\ pc \in {"saveAll", "tokens"} => \A s \in Sides : fresh[s] = {}

-----------------------------------------------------------------------------
(* A first synchronization.                                                *)

\* The items that no loop has come to yet.
Unseen(s, x) ==
  IF s = "remote" THEN pc = "scan" /\ <<s, x>> \in todo
  ELSE /\ <<s, x>> \in DOMAIN index /\ index[<<s, x>>] = "NOT_FOUND"
       /\ pc \in {"scan", "saveLocal"} \/ (pc = "rest" /\ <<s, x>> \in todo)

FreshAre(F) == \A s \in Sides : \A x : (\E f \in F[s] : f.id = x) <=> Unseen(s, x)

\* m is the part of the metadata that was made in this run.
FirstSound(m, F) ==
  /\ MetaOK(m) /\ Around(store, m, meta)
  /\ Engine(View, store, m, F, queue, {})
  /\ Complete(store, m, F, queue)
  /\ FreshAre(F)

\* A run that was cancelled while the index was built does nothing any more.
Cut ==
  /\ cancelSync /\ Quiet
  /\ pc = "scan" => \A x \in DOMAIN store["remote"].items : <<"remote", x>> \in todo
  /\ pc # "scan" => DOMAIN store["remote"].items = {}
  /\ pc = "rest" => todo = DOMAIN index
  /\ pc \in {"saveRemote", "tokens"} => index = <<>>

IndexOK ==
  /\ index = [e \in DOMAIN index |-> index[e]]
  /\ \A e \in DOMAIN index :
       index[e] \in {"NOT_FOUND", "FOUND", "ADDED"} /\ (e[1] = "remote" => index[e] = "ADDED")
  /\ pc = "scan" => \A e \in todo : e \notin DOMAIN index

FirstInv ==
  /\ Present(store, meta)
  /\ pc # "index" => IndexOK /\ (Cut \/ \E m, F : FirstSound(m, F))

-----------------------------------------------------------------------------
CleanInv ==
  /\ saved # NoMeta => MetaSound(store, saved, NoneUnread)
  /\ ~hasMeta => Memory(store, meta)
  /\ pc # "idle" => DrainInv /\ RemsAsked
  /\ pc \in Detecting => DetectInv
  /\ hasMeta /\ pc \in Resolving \cup {"tokens"} => FullInv
  /\ ~hasMeta /\ pc \in FirstPcs \cup {"tokens"} => FirstInv

\* A run that reported success left both sides mirrored.
MirrorInv == Done /\ faulty = {} => Mirrored

DeepInv == TypeInv /\ RunInv /\ PlanInv /\ (Clean => CleanInv) /\ MirrorInv
-----------------------------------------------------------------------------
(* RunInv is inductive.                                                    *)

\* The places of a run do not overlap.
LEMMA PcFacts ==
  /\ \A p \in Detecting :
       p \notin Resolving /\ p \notin FirstPcs /\ p # "idle" /\ p # "tokens" /\ p \in Idle
  /\ \A p \in FirstPcs : p \notin Resolving /\ p # "idle" /\ p # "tokens" /\ p \in Idle
  /\ \A p \in Resolving : p # "idle" /\ p # "tokens" /\ p \notin Idle
  /\ "idle" \in Idle /\ "tokens" \notin Idle /\ "idle" \notin Detecting /\ "idle" \notin Resolving
  /\ "idle" \notin FirstPcs
  /\ "tokens" \notin Detecting /\ "tokens" \notin Resolving /\ "tokens" \notin FirstPcs
  BY DEF Detecting, Resolving, FirstPcs, Idle

\* The actions of a run that leave its place alone, or move on within it.
LEMMA RunQuiet ==
  ASSUME RunInv, UNCHANGED <<hasMeta, saved, begun, class>>, pc' = pc,
                             pc \notin Detecting \cup {"idle"} \/ meta' = meta
  PROVE  RunInv'
  BY DEF RunInv

\* A run that returns keeps RunInv.
LEMMA RunReturn ==
  ASSUME RunInv, pc' = "idle", class' = 0, UNCHANGED <<hasMeta>>,
                                                       saved' = saved \/ saved' # NoMeta, hasMeta => meta' = saved'
  PROVE  RunInv'
  BY PcFacts DEF RunInv

\* Every step does.
LEMMA RunStep == TypeInv /\ RunInv /\ [Next]_vars => RunInv'
<1> SUFFICES ASSUME TypeInv, RunInv, [Next]_vars PROVE RunInv'
  OBVIOUS
<1> USE PcFacts
<1>1. CASE Synchronize
  <2>1. pc' = "detectLocal" \/ pc' = "index"
    BY <1>1 DEF Synchronize
  <2>2. /\ pc' \in Idle /\ pc' # "idle"
        /\ (pc' \in Detecting <=> hasMeta) /\ (pc' \in FirstPcs <=> ~hasMeta)
    BY <1>1 DEF Synchronize, Detecting, FirstPcs, Idle
  <2>3. UNCHANGED <<hasMeta, saved, meta, class>> /\ pc = "idle" /\ (hasMeta => begun'.meta = meta)
    BY <1>1 DEF Synchronize, fullVars
  <2> QED
    BY <2>2, <2>3 DEF RunInv
<1>2. CASE BuildIndex
  <2>1. pc = "index" /\ pc' = "scan" /\ UNCHANGED <<hasMeta, saved, meta, begun, class>>
    BY <1>2 DEF BuildIndex, fullVars, histVars, engineVars
  <2> QED
    BY <2>1 DEF RunInv, FirstPcs, Idle
<1>3. CASE ScanDone \/ RestDone \/ MatchDone
  <2>1. /\ UNCHANGED <<hasMeta, saved, meta, begun, class>>
        /\ \/ pc = "scan" /\ pc' = "saveLocal"
           \/ pc = "rest" /\ pc' = "saveRemote"
           \/ pc = "match" /\ pc' = "saveAll"
    BY <1>3 DEF ScanDone, RestDone, MatchDone, fullVars, histVars, engineVars
  <2> QED
    BY <2>1 DEF RunInv, FirstPcs, Idle, Resolving
<1>4. CASE NoticeCancel
  <2>1. pc \in FirstPcs /\ pc' = "idle" /\ class' = 0 /\ UNCHANGED <<hasMeta, saved>>
    BY <1>4 DEF NoticeCancel, Return, FirstPcs, engineVars
  <2> QED
    BY <2>1, RunReturn DEF RunInv
<1>5. CASE \E e \in todo : ScanRemote(e) \/ AddRest(e)
  <2>1. pc \in {"scan", "rest"} /\ pc' = pc /\ UNCHANGED <<hasMeta, saved, begun, class>>
    BY <1>5 DEF ScanRemote, AddRest, fullVars, histVars
  <2> QED
    BY <2>1, RunQuiet DEF FirstPcs
<1>6. CASE FlushNext
  <2>0. /\ UNCHANGED <<hasMeta, saved, begun, class>> /\ pc \in DOMAIN AfterFlush
        /\ (pc' = pc \/ pc' = AfterFlush[pc])
    BY <1>6, Zenon DEF FlushNext, fullVars, histVars
  <2>1. /\ UNCHANGED <<hasMeta, saved, begun, class>>
        /\ pc \in {"saveLocal", "saveRemote", "saveAll"}
        /\ pc' = pc \/ (pc = "saveLocal" /\ pc' = "rest") \/ pc' = "tokens"
    BY <2>0 DEF AfterFlush
  <2>2. CASE pc' = pc
    BY <2>1, <2>2, RunQuiet DEF FirstPcs, Resolving
  <2>3. CASE pc = "saveLocal" /\ pc' = "rest"
    BY <2>1, <2>3 DEF RunInv, FirstPcs, Idle
  <2>4. CASE pc' = "tokens"
    BY <2>1, <2>4 DEF RunInv
  <2> QED
    BY <2>1, <2>2, <2>3, <2>4
<1>7. CASE Conclude
  <2>1. pc' = "idle" /\ class' = 0 /\ UNCHANGED <<hasMeta>> /\ saved' = meta'
    BY <1>7 DEF Conclude, Return
  <2>2. saved' # NoMeta
    <3>1. \A S : WithTokens(meta, S) # NoMeta
      <4>1. /\ \A S :
                 WithTokens(meta, S).map = meta.map /\ DOMAIN WithTokens(meta, S) = {"rev", "map", "token"}
        BY DEF WithTokens
      <4>2. DOMAIN NoMeta = {"none"}
        BY DEF NoMeta
      <4>3. "map" \in {"rev", "map", "token"} /\ "map" \notin {"none"}
        OBVIOUS
      <4> QED
        BY <4>1, <4>2, <4>3
    <3> QED
      BY <1>7, <3>1 DEF Conclude
  <2> QED
    BY <2>1, <2>2, RunReturn
<1>8. CASE \E s \in Sides : Detect(s)
  <2>1. /\ UNCHANGED <<hasMeta, saved, meta, begun, class>>
        /\ pc \in {"detectLocal", "detectRemote"} /\ pc' \in {"detectRemote", "fetchLocal"}
    BY <1>8 DEF Detect, histVars, engineVars
  <2>2. pc \in Detecting /\ pc' \in Detecting
    BY <2>1 DEF Detecting
  <2> QED
    BY <2>1, <2>2 DEF RunInv
<1>9. CASE \E s \in Sides : Fetch(s)
  <2>1. /\ UNCHANGED <<hasMeta, saved, meta>>
        /\ pc \in {"fetchLocal", "fetchRemote"}
        /\ \/ pc' \in {"fetchRemote", "resolve"} /\ UNCHANGED <<begun, class>>
           \/ pc' = "idle" /\ class' = 0
    BY <1>9 DEF Fetch, Return
  <2>2. pc \in Detecting /\ hasMeta
    BY <2>1 DEF Detecting, RunInv
  <2>3. CASE pc' = "idle" /\ class' = 0
    BY <2>1, <2>2, <2>3, RunReturn DEF RunInv
  <2>4. CASE pc' \in {"fetchRemote", "resolve"} /\ UNCHANGED <<begun, class>>
    <3>1. pc' \notin FirstPcs /\ pc' # "idle" /\ pc' # "tokens"
      BY <2>4 DEF FirstPcs
    <3> QED
      BY <2>1, <2>2, <2>4, <3>1 DEF RunInv
  <2> QED
    BY <2>1, <2>3, <2>4
<1>10. CASE NextClass
  <2>1. UNCHANGED <<hasMeta, saved, begun>> /\ pc = "resolve" /\ pc' \in {"resolve", "match"}
    BY <1>10 DEF NextClass, engineVars, histVars
  <2>2. pc \in Resolving /\ pc' \in Resolving
    BY <2>1 DEF Resolving
  <2> QED
    BY <2>1, <2>2 DEF RunInv
<1>11. CASE \E pair \in todo : \/ ForgetPair(pair) \/ KeepBoth(pair)
                               \/ \E s \in Sides :
                                    RemoveCounterpart(s, pair) \/ RestoreItem(s, pair) \/ PropagateChange(s, pair)
  <2>1. \E c, pair : Resolve(c, pair)
    BY <1>11 DEF ForgetPair, KeepBoth, RemoveCounterpart, RestoreItem, PropagateChange
  <2>2. UNCHANGED <<hasMeta, saved, begun, class>> /\ pc = "resolve" /\ pc' = pc
    BY <2>1 DEF Resolve, fullVars, histVars
  <2> QED
    BY <2>2, RunQuiet DEF Resolving
<1>12. CASE (\E obj \in fresh.local : MatchFresh(obj)) \/ (\E obj \in fresh.remote : AddFresh(obj))
  <2>1. UNCHANGED <<hasMeta, saved, begun, class>> /\ pc = "match" /\ pc' = pc
    BY <1>12 DEF MatchFresh, AddFresh, histVars
  <2> QED
    BY <2>1, RunQuiet DEF Resolving
<1>13. CASE StorageInitFails
  <2>1. UNCHANGED <<hasMeta, saved, begun, class, pc, meta>>
    BY <1>13 DEF StorageInitFails, fullVars, histVars, engineVars
  <2> QED
    BY <2>1, RunQuiet
<1>14. CASE Cancel
  <2>1. UNCHANGED <<hasMeta, saved, begun, class, pc, meta>>
    BY <1>14 DEF Cancel, fullVars, histVars
  <2> QED
    BY <2>1, RunQuiet
<1>15. CASE Edit
  <2>1. UNCHANGED <<hasMeta, saved, class, pc, meta>> /\ pc = "idle"
    BY <1>15 DEF Edit, fullVars, engineVars
  <2> QED
    BY <2>1 DEF RunInv
<1>16. CASE Restart \/ Crash
  <2>1. PICK m : NewObject(m)
    BY <1>16 DEF Restart, Crash
  <2>2. /\ pc' = "idle" /\ class' = 0 /\ hasMeta' = (m # NoMeta) /\ saved' = m
        /\ (m # NoMeta => meta' = m)
    BY <2>1 DEF NewObject
  <2> QED
    BY <2>2 DEF RunInv
<1>17. CASE UNCHANGED vars
  <2>1. UNCHANGED <<hasMeta, saved, begun, class, pc, meta>>
    BY <1>17 DEF vars, fullVars, histVars, engineVars
  <2> QED
    BY <2>1, RunQuiet
<1>18. CASE Run
  BY <1>18, <1>1, <1>2, <1>3, <1>4, <1>5, <1>6, <1>7, <1>8, <1>9, <1>10, <1>11, <1>12, Zenon DEF Run
<1> QED
  BY <1>13, <1>14, <1>15, <1>16, <1>17, <1>18 DEF Next
-----------------------------------------------------------------------------
(* Between runs, and the beginning of one.                                 *)

\* Where a run goes on after its flushes.
LEMMA AfterFlushFacts ==
  /\ DOMAIN AfterFlush = {"saveLocal", "saveRemote", "saveAll"}
  /\ AfterFlush["saveLocal"] = "rest" /\ AfterFlush["saveRemote"] = "tokens"
  /\ AfterFlush["saveAll"] = "tokens"
  BY DEF AfterFlush

\* A run is at a flush only where it flushes.
LEMMA PlanStep == TypeInv /\ PlanInv /\ [Next]_vars => PlanInv'
<1> SUFFICES ASSUME PlanInv, [Next]_vars PROVE PlanInv'
  OBVIOUS
<1> USE AfterFlushFacts
<1>1. CASE Synchronize \/ BuildIndex \/ MatchDone \/ StorageInitFails \/ Cancel \/ Edit \/ UNCHANGED vars
  <2>1. plan' = plan /\ (pc' = pc \/ pc \in {"idle", "index", "match"})
    BY <1>1 DEF Synchronize, BuildIndex, MatchDone, StorageInitFails, Cancel, Edit, vars, scanVars
  <2> QED
    BY <2>1 DEF PlanInv
<1>2. CASE ScanDone \/ RestDone
  BY <1>2 DEF PlanInv, ScanDone, RestDone
<1>3. CASE NoticeCancel \/ Conclude \/ Restart \/ Crash
  BY <1>3 DEF PlanInv, NoticeCancel, Conclude, Restart, Crash, Return, NewObject
<1>4. CASE \E e \in todo : ScanRemote(e) \/ AddRest(e)
  <2>1. plan' = plan /\ pc' = pc
    BY <1>4 DEF ScanRemote, AddRest
  <2> QED
    BY <2>1 DEF PlanInv
<1>5. CASE FlushNext
  BY <1>5, Zenon DEF PlanInv, FlushNext
<1>6. CASE \E s \in Sides : Detect(s)
  <2>1. plan' = plan /\ pc \notin DOMAIN AfterFlush
    BY <1>6 DEF Detect, scanVars
  <2> QED
    BY <2>1 DEF PlanInv
<1>7. CASE \E s \in Sides : Fetch(s)
  <2>1. (plan' = plan \/ plan' = 0) /\ pc \notin DOMAIN AfterFlush
    BY <1>7 DEF Fetch, Return
  <2> QED
    BY <2>1 DEF PlanInv
<1>8. CASE NextClass
  BY <1>8 DEF PlanInv, NextClass
<1>9. CASE \E pair \in todo : \/ ForgetPair(pair) \/ KeepBoth(pair)
                              \/ \E s \in Sides :
                                   RemoveCounterpart(s, pair) \/ RestoreItem(s, pair) \/ PropagateChange(s, pair)
  <2>1. \E c, pair : Resolve(c, pair)
    BY <1>9 DEF ForgetPair, KeepBoth, RemoveCounterpart, RestoreItem, PropagateChange
  <2>2. plan' = plan /\ pc' = pc
    BY <2>1 DEF Resolve
  <2> QED
    BY <2>2 DEF PlanInv
<1>10. CASE (\E obj \in fresh.local : MatchFresh(obj)) \/ (\E obj \in fresh.remote : AddFresh(obj))
  <2>1. plan' = plan /\ pc' = pc
    BY <1>10 DEF MatchFresh, AddFresh, scanVars
  <2> QED
    BY <2>1 DEF PlanInv
<1>11. CASE Run
  BY <1>11, <1>1, <1>2, <1>3, <1>4, <1>5, <1>6, <1>7, <1>8, <1>9, <1>10, Zenon DEF Run
<1> QED
  BY <1>1, <1>3, <1>11 DEF Next

\* What a step leaves of the metadata saved and of the storages.
Kin == \A t \in Sides : Grown(store[t], store'[t])

SavedOK == saved # NoMeta => MetaSound(store, saved, NoneUnread)

\* Storages that do not change have grown.
LEMMA SameKin == ASSUME StoresOK, store' = store PROVE Kin
  BY GrownSame DEF Kin, StoresOK

\* The saved metadata stays sound while storages grow.
LEMMA SavedKept ==
  ASSUME TypeInv, StoresOK', SavedOK, saved' = saved, Kin, NoneUnread' => NoneUnread
  PROVE  SavedOK'
<1> SUFFICES ASSUME saved # NoMeta PROVE MetaSound(store', saved, NoneUnread')
  BY DEF SavedOK
<1>1. /\ Stores(store) /\ Stores(store') /\ MetaOK(saved)
      /\ \A s \in Sides : Grown(store[s], store'[s])
  BY DEF TypeInv, StoresOK, Stores, PlainOK, Kin
<1>2. MetaSound(store, saved, NoneUnread)
  BY DEF SavedOK
<1> QED
  BY <1>1, <1>2, GrownKeeps

\* So does what an earlier run left in memory.
LEMMA MemoryKept ==
  ASSUME TypeInv, StoresOK', Memory(store, meta), meta' = meta, Kin
  PROVE  Memory(store', meta')
<1>1. /\ Stores(store) /\ Stores(store') /\ MetaOK(meta)
      /\ \A s \in Sides : store[s].clock <= store'[s].clock
  BY DEF TypeInv, StoresOK, Stores, PlainOK, Kin, Grown
<1>2. Known(store', meta)
  BY <1>1, KnownGrown DEF Memory
<1> QED
  BY <1>2 DEF Memory

\* The invariant between runs.
LEMMA IdleClean ==
  ASSUME pc' = "idle", SavedOK', ~hasMeta' => Memory(store', meta')
  PROVE  CleanInv'
  BY PcFacts DEF CleanInv, SavedOK

\* A step that ends between runs and leaves the metadata alone keeps it.
LEMMA IdleKept ==
  ASSUME TypeInv, StoresOK', CleanInv, pc' = "idle", saved' = saved, hasMeta' = hasMeta, meta' = meta, Kin,
         NoneUnread' => NoneUnread
  PROVE  CleanInv'
  BY IdleClean, SavedKept, MemoryKept DEF CleanInv, SavedOK

\* Failures are forgotten by Synchronize only, and only those of getItems().
LEMMA FaultyGrows == [Next]_vars => faulty \subseteq faulty' \cup {"items"} /\ (pc # "idle" => faulty \subseteq faulty')
<1> SUFFICES ASSUME [Next]_vars PROVE faulty \subseteq faulty' \cup {"items"} /\ (pc # "idle" => faulty \subseteq faulty')
  OBVIOUS
<1>1. \A kinds : Fault(kinds) => faulty \subseteq faulty'
  BY DEF Fault
<1>2. \A s, kind, q, m : Flush(s, kind, q, m) => faulty \subseteq faulty'
  BY <1>1 DEF Flush, faultVars
<1>3. \A s, kind, q, m : Enqueue(s, kind, q, m) => faulty \subseteq faulty'
  BY <1>2 DEF Enqueue, faultVars
<1>4. CASE Synchronize
  BY <1>4 DEF Synchronize
<1>5. CASE BuildIndex
  BY <1>5, <1>1 DEF BuildIndex, faultVars
<1>6. CASE ScanDone \/ RestDone \/ NoticeCancel \/ NextClass \/ MatchDone \/ Edit \/ Restart \/ UNCHANGED vars
  BY <1>6 DEF ScanDone, RestDone, NoticeCancel, NextClass, MatchDone, Edit, Restart, vars, faultVars
<1>7. CASE StorageInitFails \/ Cancel \/ Crash
  BY <1>7, <1>1 DEF StorageInitFails, Cancel, Crash
<1>8. CASE \E e \in todo : ScanRemote(e) \/ AddRest(e)
  BY <1>8, <1>3 DEF ScanRemote, AddRest, faultVars
<1>9. CASE FlushNext
  BY <1>9, <1>2, Zenon DEF FlushNext, faultVars
<1>10. CASE Conclude
  BY <1>10, <1>1 DEF Conclude
<1>11. CASE \E s \in Sides : Detect(s)
  BY <1>11, <1>1 DEF Detect, DetectAll, DetectChanges, faultVars
<1>12. CASE \E s \in Sides : Fetch(s)
  BY <1>12, <1>1 DEF Fetch, faultVars
<1>13. CASE \E pair \in todo : \/ ForgetPair(pair) \/ KeepBoth(pair)
                               \/ \E s \in Sides :
                                    RemoveCounterpart(s, pair) \/ RestoreItem(s, pair) \/ PropagateChange(s, pair)
  <2>1. CASE \E pair \in todo : ForgetPair(pair) \/ KeepBoth(pair)
    BY <2>1, <1>1 DEF ForgetPair, KeepBoth, faultVars
  <2>2. CASE \E pair \in todo, s \in Sides :
               RemoveCounterpart(s, pair) \/ RestoreItem(s, pair) \/ PropagateChange(s, pair)
    BY <2>2, <1>3 DEF RemoveCounterpart, RestoreItem, PropagateChange
  <2> QED
    BY <1>13, <2>1, <2>2
<1>14. CASE (\E obj \in fresh.local : MatchFresh(obj)) \/ (\E obj \in fresh.remote : AddFresh(obj))
  BY <1>14, <1>3 DEF MatchFresh, AddFresh, faultVars
<1>15. CASE Run
  BY <1>15, <1>4, <1>5, <1>6, <1>8, <1>9, <1>10, <1>11, <1>12, <1>13, <1>14, Zenon DEF Run
<1> QED
  BY <1>6, <1>7, <1>15 DEF Next
-----------------------------------------------------------------------------
(* The world around the engine keeps the invariant.                        *)

\* An empty queue has no entries.
LEMMA EmptyValues == Values(<<>>) = {} /\ Distinct(<<>>)
  BY DEF Values, Distinct

\* Empty queues ask for nothing.
LEMMA QuietFacts ==
  ASSUME Quiet
  PROVE  /\ \A s \in Sides, kind \in Kinds : Values(queue[s][kind]) = {} /\ Distinct(queue[s][kind])
         /\ RemsAsked
<1>1. \A s \in Sides, kind \in Kinds : queue[s][kind] = <<>>
  BY DEF Quiet
<1>2. \A s \in Sides, kind \in Kinds : Values(queue[s][kind]) = {} /\ Distinct(queue[s][kind])
  BY <1>1, EmptyValues
<1>3. "rem" \in Kinds
  BY DEF Kinds
<1> QED
  BY <1>2, <1>3 DEF RemsAsked

\* A storage that cannot be initialised changes nothing that matters.
LEMMA StorageInitFailsClean == ASSUME TypeInv, TypeInv', CleanInv, StorageInitFails PROVE CleanInv'
<1>1. pc' = "idle" /\ UNCHANGED <<saved, hasMeta, meta, store>> /\ faulty' = faulty
  BY DEF StorageInitFails, Fault, engineVars
<1>2. StoresOK /\ StoresOK'
  BY DEF TypeInv
<1> QED
  BY <1>1, <1>2, SameKin, IdleKept DEF NoneUnread

\* An edit of a user makes storages grow.
LEMMA EditClean == ASSUME TypeInv, TypeInv', CleanInv, Edit PROVE CleanInv'
<1>1. pc' = "idle" /\ UNCHANGED <<saved, hasMeta, meta>> /\ faulty' = faulty
  BY DEF Edit, engineVars, faultVars
<1>2. StoresOK /\ StoresOK'
  BY DEF TypeInv
<1>3. Kin
  <2>0. /\ \A s \in Sides :
             \A st : StoreOK(st) /\ Grown(store[s], st) /\ store' = [store EXCEPT ![s] = st] => Kin
    <3>1. SUFFICES ASSUME NEW s \in Sides, NEW st, StoreOK(st), Grown(store[s], st), store' = [store EXCEPT ![s] = st]
                   PROVE  Kin
      OBVIOUS
    <3>2. \A t \in Sides : store'[t] = IF t = s THEN st ELSE store[t]
      BY <3>1, <1>2 DEF StoresOK
    <3> QED
      BY <3>1, <3>2, <1>2, GrownSame DEF Kin, StoresOK
  <2>1. \A s \in Sides : StoreOK(store[s])
    BY <1>2 DEF StoresOK
  <2>2. PICK s \in Sides :
       \/ \E item \in Contacts : store' = [store EXCEPT ![s] = AddOne(@, item)]
       \/ \E id \in DOMAIN store[s].items, item \in Contacts :
            store' = [store EXCEPT ![s] = ModifyOne(@, id, item)]
       \/ \E id \in DOMAIN store[s].items : store' = [store EXCEPT ![s] = RemoveOne(@, id)]
    BY DEF Edit
  <2>3. ASSUME NEW st, Grown(store[s], st), store' = [store EXCEPT ![s] = st] PROVE Kin
    <3>1. store'[s] = st
      BY <2>3, <1>2 DEF StoresOK
    <3> QED
      BY <2>0, <2>3, <3>1, <1>2 DEF StoresOK
  <2>4. CASE \E item \in Contacts : store' = [store EXCEPT ![s] = AddOne(@, item)]
    <3>1. PICK item \in Contacts : store' = [store EXCEPT ![s] = AddOne(store[s], item)]
      BY <2>4
    <3>2. Grown(store[s], AddOne(store[s], item))
      BY <2>1, AddGrows
    <3> QED
      BY <3>1, <3>2, <2>3
  <2>5. CASE \E id \in DOMAIN store[s].items, item \in Contacts :
               store' = [store EXCEPT ![s] = ModifyOne(@, id, item)]
    <3>1. PICK id \in DOMAIN store[s].items, item \in Contacts : store' = [store EXCEPT ![s] = ModifyOne(store[s], id, item)]
      BY <2>5
    <3>2. Grown(store[s], ModifyOne(store[s], id, item))
      BY <2>1, ModifyGrows
    <3> QED
      BY <3>1, <3>2, <2>3
  <2>6. CASE \E id \in DOMAIN store[s].items : store' = [store EXCEPT ![s] = RemoveOne(@, id)]
    <3>1. PICK id \in DOMAIN store[s].items : store' = [store EXCEPT ![s] = RemoveOne(store[s], id)]
      BY <2>6
    <3>2. Grown(store[s], RemoveOne(store[s], id))
      BY <2>1, RemoveGrows
    <3> QED
      BY <3>1, <3>2, <2>3
  <2> QED
    BY <2>2, <2>4, <2>5, <2>6
<1> QED
  BY <1>1, <1>2, <1>3, IdleKept DEF NoneUnread

\* Empty metadata is below everything.
LEMMA EmptyMemory == ASSUME NEW S PROVE Memory(S, EmptyMeta)
<1>1. DOMAIN EmptyMeta.map = {} /\ \A s \in Sides : DOMAIN EmptyMeta.rev[s] = {}
  BY EmptyTypes DEF EmptyMeta
<1> QED
  BY <1>1, SideFacts DEF Memory, Known

\* A new object with the saved metadata, or with none, keeps the invariant.
LEMMA NewObjectClean ==
  ASSUME TypeInv, TypeInv', CleanInv, faulty' = faulty, NEW m \in {saved, NoMeta}, NewObject(m)
  PROVE  CleanInv'
<1>1. /\ pc' = "idle" /\ store' = store /\ saved' = m /\ hasMeta' = (m # NoMeta)
      /\ m = NoMeta => meta' = EmptyMeta
  BY DEF NewObject
<1>2. StoresOK /\ StoresOK'
  BY DEF TypeInv
<1>3. SavedOK'
  BY <1>1 DEF CleanInv, SavedOK, NoneUnread
<1>4. ~hasMeta' => Memory(store', meta')
  BY <1>1, EmptyMemory
<1> QED
  BY <1>1, <1>3, <1>4, IdleClean

\* A restart keeps it.
LEMMA RestartClean == ASSUME TypeInv, TypeInv', CleanInv, Restart PROVE CleanInv'
  BY NewObjectClean DEF Restart, faultVars

\* A crash at any step keeps it.
LEMMA CrashClean == ASSUME TypeInv, TypeInv', CleanInv, Crash PROVE CleanInv'
<1>1. faulty' = faulty /\ \E m \in {saved, NoMeta} : NewObject(m)
  BY DEF Crash, Fault
<1> QED
  BY <1>1, NewObjectClean

\* The variables that the invariant does not mention may change.
LEMMA CleanStays ==
  ASSUME CleanInv, UNCHANGED <<store, saved, meta, hasMeta, queue, pc, plan, todo, index, fullVars,
                               begun, faulty>>,
         cancelSync => cancelSync'
  PROVE  CleanInv'
<1>1. SavedOK' /\ (~hasMeta' => Memory(store', meta'))
  BY DEF CleanInv, SavedOK, NoneUnread
<1>2. DrainInv => DrainInv'
  BY DEF DrainInv, Quiet
<1>3. RemsAsked => RemsAsked'
  BY DEF RemsAsked, GivesWay, Unchanged, Partners
<1>4. DetectInv => DetectInv'
  BY DEF DetectInv, Detected, FetchedInv, View, NoneUnread, fullVars
<1>5. FullInv => FullInv'
  <2>1. Awaiting' = Awaiting /\ View' = View
    BY DEF Awaiting, Awaits, PairIs, StateOf, View, fullVars
  <2>2. Lineage => Lineage'
    BY <2>1 DEF Lineage, Inherited, Young, StateOf, fullVars
  <2>3. FoundOut => FoundOut'
    BY DEF FoundOut, Unchanged, StateOf, fullVars
  <2> QED
    BY <2>1, <2>2, <2>3 DEF FullInv, NoneUnread, fullVars
<1>6. FirstInv => FirstInv'
  <2>1. View' = View
    BY DEF View, fullVars
  <2>2. \A F : FreshAre(F) => FreshAre(F)'
    BY ZenonT(40) DEF FreshAre, Unseen
  <2>3. \A m, F : FirstSound(m, F) => FirstSound(m, F)'
    BY <2>1, <2>2 DEF FirstSound
  <2>4. Cut => Cut'
    BY DEF Cut, Quiet
  <2>5. IndexOK => IndexOK'
    BY DEF IndexOK
  <2> QED
    BY <2>3, <2>4, <2>5 DEF FirstInv
<1> QED
  BY <1>1, <1>2, <1>3, <1>4, <1>5, <1>6 DEF CleanInv, SavedOK

\* A request to cancel keeps it.
LEMMA CancelClean == ASSUME CleanInv, Cancel PROVE CleanInv'
<1>1. /\ UNCHANGED <<store, saved, meta, hasMeta, queue, pc, plan, todo, index, fullVars, begun>>
      /\ cancelSync' /\ faulty' = faulty
  BY DEF Cancel, Fault, scanVars, histVars
<1> QED
  BY <1>1, CleanStays

\* A step that changes nothing keeps it.
LEMMA StutterClean == ASSUME CleanInv, UNCHANGED vars PROVE CleanInv'
  BY CleanStays DEF vars, engineVars, scanVars, histVars, faultVars

\* The beginning of a run keeps it, with whatever the last one left in memory.
LEMMA SynchronizeClean ==
  ASSUME TypeInv, TypeInv', RunInv, PlanInv, PlanInv', CleanInv, Synchronize, Clean'
  PROVE  CleanInv'
<1>1. /\ pc = "idle" /\ UNCHANGED <<store, saved, meta, hasMeta, queue>>
      /\ begun'.store = [s \in Sides |-> store[s].items]
      /\ pc' = IF hasMeta THEN "detectLocal" ELSE "index"
      /\ faulty' = (faulty \ {"items"}) \cup (IF Stale THEN {"stale"} ELSE {}) \cup (IF Leftover THEN {"leftover"} ELSE {})
  BY DEF Synchronize
<1>2. ~Stale /\ ~Leftover /\ (NoneUnread' => NoneUnread)
  BY <1>1 DEF Clean, NoneUnread
<1>3. Quiet /\ Quiet'
  BY <1>1, <1>2 DEF Leftover, Quiet
<1>4. SavedOK' /\ (~hasMeta' => Memory(store', meta'))
  <2>1. StoresOK /\ StoresOK' /\ SavedOK
    BY DEF TypeInv, CleanInv, SavedOK
  <2> QED
    BY <2>1, <1>1, <1>2, SameKin, SavedKept DEF CleanInv
<1>5. DrainInv' /\ RemsAsked'
  <2>1. pc' \notin DOMAIN AfterFlush /\ pc' \notin {"scan", "saveLocal", "rest", "saveRemote"}
    BY <1>1, AfterFlushFacts
  <2>2. \A s \in Sides : queue'[s]["mod"] = <<>> /\ queue'[s]["rem"] = <<>>
    BY <1>3 DEF Quiet, Kinds
  <2>3. RemsAsked'
    <3>1. \A s \in Sides : Values(queue'[s]["rem"]) = {}
      BY <2>2, EmptyValues
    <3> QED
      BY <3>1 DEF RemsAsked
  <2>4. DrainInv'
    BY <2>1, <2>2, <1>3 DEF DrainInv
  <2> QED
    BY <2>3, <2>4
<1>6. CASE hasMeta
  <2>1. pc' = "detectLocal"
    BY <1>1, <1>6
  <2>2. DetectInv'
    BY <1>1, <2>1 DEF DetectInv
  <2> QED
    BY <1>4, <1>5, <2>1, <2>2 DEF CleanInv, SavedOK, Detecting, Resolving, FirstPcs
<1>7. CASE ~hasMeta
  <2>1. pc' = "index"
    BY <1>1, <1>7
  <2>2. FirstInv'
    BY <1>1, <1>2, <1>7, <2>1 DEF FirstInv, Present, Stale
  <2> QED
    BY <1>4, <1>5, <2>1, <2>2 DEF CleanInv, SavedOK, Detecting, Resolving, FirstPcs
<1> QED
  BY <1>6, <1>7
-----------------------------------------------------------------------------
(* A first synchronization.                                                *)

\* The invariant within a first synchronization.
LEMMA FirstClean ==
  ASSUME SavedOK', Memory(store', meta'), DrainInv', FirstInv', ~hasMeta', pc' \in FirstPcs \cup {"tokens"}
  PROVE  CleanInv'
<1>1. pc' \notin Detecting
  BY PcFacts
<1>2. RemsAsked'
  <2>1. \A s \in Sides : queue'[s]["rem"] = <<>>
    BY DEF DrainInv
  <2>2. \A s \in Sides : Values(queue'[s]["rem"]) = {}
    BY <2>1, EmptyValues
  <2> QED
    BY <2>2 DEF RemsAsked
<1> QED
  BY <1>1, <1>2 DEF CleanInv, SavedOK

\* A step that leaves storages and metadata alone.
LEMMA FirstKept ==
  ASSUME TypeInv, CleanInv, UNCHANGED <<store, saved, meta, hasMeta>>, ~hasMeta,
                                        NoneUnread' => NoneUnread
  PROVE  SavedOK' /\ Memory(store', meta') /\ Kin
<1>1. Kin
  BY SameKin DEF TypeInv
<1>2. StoresOK'
  BY DEF TypeInv, StoresOK
<1>3. SavedOK
  BY DEF CleanInv, SavedOK
<1> QED
  BY <1>1, <1>2, <1>3, SavedKept DEF CleanInv

\* What an iterator delivers is in the storage, and is all of it unless one
\* was left unread.
LEMMA DeliveredFacts ==
  ASSUME NEW s
  PROVE  /\ \A L \in Delivered(s, FALSE) : L = {<<s, id>> : id \in DOMAIN store[s].items}
         /\ \A L \in Delivered(s, TRUE) : L \subseteq {<<s, id>> : id \in DOMAIN store[s].items}
  BY DEF Delivered

\* All items wait.
AllWait(S) == [s \in Sides |-> {Object(S, s, x) : x \in DOMAIN S[s].items}]

\* At the beginning of a first synchronization every item waits.
LEMMA FirstStart ==
  ASSUME StoresOK, Quiet, NEW V
  PROVE  /\ Engine(V, store, EmptyMeta, AllWait(store), queue, {})
         /\ Complete(store, EmptyMeta, AllWait(store), queue)
         /\ \A s \in Sides : \A x : (\E f \in AllWait(store)[s] : f.id = x) <=> Has(store, s, x)
<1> DEFINE F == AllWait(store)
<1>1. DOMAIN EmptyMeta.map = {} /\ \A s \in Sides : DOMAIN EmptyMeta.rev[s] = {}
  BY EmptyTypes DEF EmptyMeta
<1>2. \A s \in Sides, k \in Kinds : Values(queue[s][k]) = {} /\ Distinct(queue[s][k])
  BY QuietFacts
<1>3. Unknown(F, queue) = F
  <2>1. \A s \in Sides : Values(queue[Other(s)]["add"]) = {}
    BY <1>2, SideFacts DEF Kinds
  <2>2. \A s \in Sides : F[s] \cup Values(queue[Other(s)]["add"]) = F[s]
    BY <2>1
  <2>3. F = [s \in Sides |-> F[s]]
    BY DEF AllWait
  <2> HIDE DEF F
  <2> QED
    BY <2>2, <2>3 DEF Unknown
<1>4. \A s \in Sides : Changing(queue)[s] = {} /\ Removing(queue)[s] = {}
  BY <1>2 DEF Changing, Removing, Kinds
<1>5. /\ \A s \in Sides :
           \A x \in DOMAIN store[s].items :
             /\ Object(store, s, x) \in Objects /\ Object(store, s, x).id = x
  <2> SUFFICES ASSUME NEW s \in Sides, NEW x \in DOMAIN store[s].items
               PROVE  Object(store, s, x) \in Objects /\ Object(store, s, x).id = x
    OBVIOUS
  <2>1. Obj(s, x) \in Objects /\ Obj(s, x).id = x
    BY ObjType
  <2> QED
    BY <2>1 DEF Obj, Object
<1>6. /\ \A s \in Sides :
           \A f \in F[s] : Has(store, s, f.id) /\ f = Object(store, s, f.id) /\ f \in Objects
  BY <1>5 DEF AllWait, Has
<1>7. \A s \in Sides : \A x \in DOMAIN store[s].items : \E f \in F[s] : f.id = x
  BY <1>5 DEF AllWait
<1> HIDE DEF F
<1>8. Bijective(EmptyMeta) /\ Known(store, EmptyMeta)
  BY <1>1 DEF Bijective, Known
<1>9. PairsOK(store, EmptyMeta, Changing(queue), {}) /\ WaitsOK(V, store, EmptyMeta, {})
  BY <1>1 DEF PairsOK, WaitsOK
<1>10. ModsOK(store, EmptyMeta, Changing(queue), {})
  BY <1>4 DEF ModsOK
<1>11. ClaimsOK(store, EmptyMeta, F, Removing(queue))
  <2>1. \A s \in Sides : \A f \in F[s] : Waiting(store, EmptyMeta, Removing(queue), s, f)
    BY <1>1, <1>4, <1>6 DEF Waiting, Tracks
  <2> QED
    BY <2>1, <1>4 DEF ClaimsOK
<1>12. Engine(V, store, EmptyMeta, F, queue, {})
  <2>1. \A s \in Sides : \A f \in F[s] : f \notin Values(queue[Other(s)].add)
    BY <1>2, SideFacts DEF Kinds
  <2> QED
    BY <1>2, <1>3, <1>8, <1>9, <1>10, <1>11, <2>1 DEF Engine, Sound
<1>13. Complete(store, EmptyMeta, F, queue)
  BY <1>3, <1>7 DEF Complete, Covered
<1> QED
  BY <1>6, <1>7, <1>12, <1>13 DEF F, Has

\* Building the index begins the account of a first synchronization.
LEMMA BuildIndexClean ==
  ASSUME TypeInv, TypeInv', RunInv, CleanInv, BuildIndex, Clean'
  PROVE  CleanInv'
<1>1. /\ pc = "index" /\ pc' = "scan"
      /\ UNCHANGED <<store, saved, meta, hasMeta, queue, cancelSync, fullVars>> /\ ~hasMeta
  BY PcFacts DEF BuildIndex, engineVars, RunInv, FirstPcs
<1>2. /\ \/ /\ \E L \in Delivered("local", FALSE), R \in Delivered("remote", FALSE) :
                  index' = [e \in L |-> "NOT_FOUND"] /\ todo' = R
            /\ UNCHANGED faultVars
         \/ /\ cancelSync
            /\ \E L \in Delivered("local", TRUE), R \in Delivered("remote", FALSE) :
                 index' = [e \in L |-> "NOT_FOUND"] /\ todo' = R
            /\ UNCHANGED faultVars
  <2>1. Fault({"scan"}) => ~Clean'
    BY DEF Fault, Clean
  <2> QED
    BY <2>1, Zenon DEF BuildIndex
<1>3. /\ NoneUnread' <=> NoneUnread
      /\ \A e \in DOMAIN index' : index'[e] = "NOT_FOUND" /\ \E x : e = <<"local", x>>
      /\ index' = [e \in DOMAIN index' |-> index'[e]]
      /\ todo' = {<<"remote", x>> : x \in DOMAIN store["remote"].items}
      /\ \/ DOMAIN index' = {<<"local", x>> : x \in DOMAIN store["local"].items}
         \/ cancelSync
  <2>1. UNCHANGED faulty
    BY <1>2 DEF faultVars
  <2>2. PICK L, R : /\ index' = [e \in L |-> "NOT_FOUND"] /\ todo' = R
                    /\ L \subseteq {<<"local", x>> : x \in DOMAIN store["local"].items}
                    /\ R = {<<"remote", x>> : x \in DOMAIN store["remote"].items}
                    /\ L = {<<"local", x>> : x \in DOMAIN store["local"].items} \/ cancelSync
    BY <1>2, DeliveredFacts
  <2> QED
    BY <2>1, <2>2 DEF NoneUnread
<1>4. /\ Quiet /\ Quiet'
      /\ (~hasMeta' => \A s \in Sides : queue'[s]["mod"] = <<>> /\ queue'[s]["rem"] = <<>>)
  BY <1>1 DEF CleanInv, DrainInv, Quiet
<1>5. DrainInv'
  <2>1. pc' \notin DOMAIN AfterFlush
    BY <1>1, AfterFlushFacts
  <2>2. queue'["remote"]["add"] = <<>>
    BY <1>4, SideFacts DEF Quiet, Kinds
  <2> QED
    BY <1>1, <1>4, <2>1, <2>2 DEF DrainInv, Detecting
<1>6. IndexOK'
  BY <1>1, <1>3 DEF IndexOK
<1>7. StoresOK /\ Present(store, meta) /\ Memory(store, meta)
  BY <1>1 DEF CleanInv, FirstInv, FirstPcs, TypeInv
<1>8. CASE cancelSync
  <2>1. Cut'
    BY <1>1, <1>3, <1>4, <1>8 DEF Cut
  <2> QED
    BY <1>1, <1>3, <1>5, <1>6, <1>7, <2>1, FirstKept, FirstClean DEF FirstInv, FirstPcs
<1>9. CASE DOMAIN index' = {<<"local", x>> : x \in DOMAIN store["local"].items}
  <2> DEFINE F == AllWait(store)
  <2>1. /\ Engine(View', store, EmptyMeta, F, queue, {}) /\ Complete(store, EmptyMeta, F, queue)
        /\ \A s \in Sides : \A x : (\E f \in F[s] : f.id = x) <=> Has(store, s, x)
    BY <1>4, <1>7, FirstStart
  <2>2. MetaOK(EmptyMeta) /\ Around(store, EmptyMeta, meta)
    <3>1. DOMAIN EmptyMeta.map = {} /\ \A s \in Sides : DOMAIN EmptyMeta.rev[s] = {}
      BY EmptyTypes DEF EmptyMeta
    <3> QED
      BY <3>1, <1>7, EmptyTypes DEF Around, Below
  <2>3. FreshAre(F)'
    <3> HIDE DEF F
    <3>1. \A x : Has(store, "remote", x) <=> <<"remote", x>> \in todo'
      BY <1>3 DEF Has
    <3>2. \A x : Has(store, "local", x) <=> <<"local", x>> \in DOMAIN index'
      BY <1>9 DEF Has
    <3>3. \A s \in Sides : \A x : Has(store, s, x) <=> Unseen(s, x)'
      BY <1>1, <1>3, <3>1, <3>2, SideFacts DEF Unseen
    <3>4. \A s \in Sides : \A x : (\E f \in F[s] : f.id = x) <=> Unseen(s, x)'
      BY <2>1, <3>3
    <3>5. F' = F
      BY <1>1 DEF F, AllWait, Object
    <3> QED
      BY <3>4, <3>5 DEF FreshAre
  <2>4. (\E m, G : FirstSound(m, G))'
    <3> HIDE DEF F
    <3>1. SUFFICES \E m, G : FirstSound(m, G)'
      OBVIOUS
    <3>2. \A s \in Sides : \A x : (\E f \in F[s] : f.id = x) <=> Unseen(s, x)'
      BY <2>3, <1>1 DEF FreshAre, F, AllWait, Object
    <3>3. /\ MetaOK(EmptyMeta) /\ Around(store', EmptyMeta, meta')
          /\ Engine(View', store', EmptyMeta, F, queue', {})
          /\ Complete(store', EmptyMeta, F, queue')
      BY <2>1, <2>2, <1>1
    <3>4. /\ \A m, G :
               (MetaOK(m) /\ Around(store', m, meta') /\ Engine(View', store', m, G, queue', {})
                     /\ Complete(store', m, G, queue')
                     /\ (\A s \in Sides : \A x : (\E f \in G[s] : f.id = x) <=> Unseen(s, x)'))
                    => FirstSound(m, G)'
      BY DEF FirstSound, FreshAre
    <3> QED
      BY <3>2, <3>3, <3>4
  <2> QED
    BY <1>1, <1>3, <1>5, <1>6, <1>7, <2>4, FirstKept, FirstClean DEF FirstInv, FirstPcs
<1> QED
  BY <1>3, <1>8, <1>9

\* The end of the loop over the remote items keeps the invariant.
LEMMA ScanDoneClean ==
  ASSUME TypeInv, TypeInv', RunInv, PlanInv, CleanInv, ScanDone
  PROVE  CleanInv'
<1>1. /\ pc = "scan" /\ pc' = "saveLocal"
      /\ UNCHANGED <<store, saved, meta, hasMeta, queue, cancelSync, index, todo, plan>>
      /\ todo = {} /\ ~hasMeta /\ faulty' = faulty /\ View' = View
  BY DEF ScanDone, engineVars, faultVars, fullVars, View, RunInv, FirstPcs
<1>2. DrainInv /\ FirstInv
  BY <1>1 DEF CleanInv, FirstPcs
<1>3. plan' = 0
  BY <1>1, AfterFlushFacts DEF PlanInv
<1>4. DrainInv'
  BY <1>1, <1>2, <1>3 DEF DrainInv, Detecting
<1>5. IndexOK'
  BY <1>1, <1>2 DEF FirstInv, IndexOK
<1>6. Cut => Cut'
  BY <1>1 DEF Cut, Quiet
<1>7. \A m, F : FirstSound(m, F) => FirstSound(m, F)'
  <2>1. \A s \in Sides : \A x : Unseen(s, x)' <=> Unseen(s, x)
    BY <1>1, SideFacts DEF Unseen
  <2>2. \A F : FreshAre(F) => FreshAre(F)'
    BY <2>1 DEF FreshAre
  <2> QED
    BY <1>1, <2>2 DEF FirstSound
<1>8. FirstInv'
  BY <1>1, <1>2, <1>5, <1>6, <1>7 DEF FirstInv
<1> QED
  BY <1>1, <1>4, <1>8, FirstKept, FirstClean DEF FirstPcs, NoneUnread

\* So does the end of the loop over the index.
LEMMA RestDoneClean ==
  ASSUME TypeInv, TypeInv', RunInv, PlanInv, CleanInv, RestDone
  PROVE  CleanInv'
<1>1. /\ pc = "rest" /\ pc' = "saveRemote"
      /\ UNCHANGED <<store, saved, meta, hasMeta, queue, cancelSync, index, todo, plan>>
      /\ todo = {} /\ ~hasMeta /\ faulty' = faulty /\ View' = View
  BY DEF RestDone, engineVars, faultVars, fullVars, View, RunInv, FirstPcs
<1>2. DrainInv /\ FirstInv
  BY <1>1 DEF CleanInv, FirstPcs
<1>3. plan' = 0
  BY <1>1, AfterFlushFacts DEF PlanInv
<1>4. DrainInv'
  BY <1>1, <1>2, <1>3 DEF DrainInv, Detecting
<1>5. IndexOK'
  BY <1>1, <1>2 DEF FirstInv, IndexOK
<1>6. Cut => Cut'
  <2>1. Cut => index = <<>>
    <3>1. ASSUME DOMAIN index = {} PROVE index = <<>>
      <4>1. index = [e \in {} |-> index[e]]
        BY <1>1, <1>2, <3>1 DEF FirstInv, IndexOK
      <4> QED
        BY <4>1
    <3> QED
      BY <1>1, <3>1 DEF Cut
  <2> QED
    BY <1>1, <2>1 DEF Cut, Quiet
<1>7. \A m, F : FirstSound(m, F) => FirstSound(m, F)'
  <2>1. \A s \in Sides : \A x : Unseen(s, x)' <=> Unseen(s, x)
    BY <1>1, SideFacts DEF Unseen
  <2>2. \A F : FreshAre(F) => FreshAre(F)'
    BY <2>1 DEF FreshAre
  <2> QED
    BY <1>1, <2>2 DEF FirstSound
<1>8. FirstInv'
  BY <1>1, <1>2, <1>5, <1>6, <1>7 DEF FirstInv
<1> QED
  BY <1>1, <1>4, <1>8, FirstKept, FirstClean DEF FirstPcs, NoneUnread

\* A cancelled first synchronization keeps it.
LEMMA NoticeCancelClean == ASSUME TypeInv, TypeInv', CleanInv, NoticeCancel PROVE CleanInv'
<1>1. pc' = "idle" /\ UNCHANGED <<saved, hasMeta, meta, store, faulty>>
  BY DEF NoticeCancel, Return, engineVars, faultVars
<1>2. StoresOK /\ StoresOK'
  BY DEF TypeInv
<1> QED
  BY <1>1, <1>2, SameKin, IdleKept DEF NoneUnread
-----------------------------------------------------------------------------
(* New objects are put into a queue, or make a pair.                       *)

\* What waits is as the storage has it.
LEMMA FreshFacts ==
  ASSUME NEW V, NEW S, NEW m, NEW F, NEW Q, NEW W, Engine(V, S, m, F, Q, W), NEW s \in Sides, NEW f \in F[s]
  PROVE  /\ f \in Objects /\ Has(S, s, f.id) /\ f = Object(S, s, f.id) /\ ~Tracks(m, s, f.id)
         /\ f.id \notin Values(Q[s]["rem"]) /\ f \notin Values(Q[Other(s)]["add"])
         /\ \A g \in F[s] \cup Values(Q[Other(s)]["add"]) : g.id = f.id => g = f
<1>1. \A g \in F[s] \cup Values(Q[Other(s)]["add"]) : Waiting(S, m, Removing(Q), s, g)
  BY DEF Engine, Sound, ClaimsOK, Unknown
<1>2. f \notin Values(Q[Other(s)]["add"])
  BY DEF Engine
<1> QED
  BY <1>1, <1>2 DEF Waiting, Removing

\* A new object may move from those not queued yet to the queue of the other
\* side.
LEMMA MoveSound ==
  ASSUME NEW V, NEW m, NEW F, NEW G, NEW W, NEW s \in Sides, NEW e \in F[Other(s)], QueuesOK,
         Engine(V, store, m, F, queue, W), OneLess(G, F, Other(s), e)
  PROVE  /\ e \in Objects
         /\ Distinct(queue[s]["add"]) /\ e \notin Values(queue[s]["add"])
         /\ Engine(V, store, m, G, WithEntry(s, "add", e), W)
         /\ Complete(store, m, F, queue) => Complete(store, m, G, WithEntry(s, "add", e))
<1> DEFINE Q == WithEntry(s, "add", e)
<1>1. Other(s) \in Sides /\ Other(Other(s)) = s /\ "add" \in Kinds
  BY SideFacts DEF Kinds
<1>2. e \in Objects /\ e \notin Values(queue[s]["add"])
  BY <1>1, FreshFacts
<1>3. Distinct(queue[s]["add"])
  BY <1>1 DEF Engine
<1>4. e \in EntryType["add"]
  BY <1>2 DEF EntryType
<1>5. Shorter(Q, queue, s, "add", e) /\ Distinct(Q[s]["add"])
  BY <1>1, <1>2, <1>3, <1>4, WithEntryFacts
<1> HIDE DEF Q
<1>6. \A d : d \in Values(Q[s]["add"]) <=> d \in Values(queue[s]["add"]) \/ d = e
  BY <1>5 DEF Shorter
<1>7. \A t \in Sides, k \in Kinds : t # s \/ k # "add" => Q[t][k] = queue[t][k]
  BY <1>5 DEF Shorter
<1>8. (\A d : d \in G[Other(s)] <=> d \in F[Other(s)] /\ d # e) /\ G[s] = F[s]
  BY <1>1, SideFacts DEF OneLess
<1>9. Unknown(G, Q) = Unknown(F, queue)
  <2>1. ASSUME NEW t \in Sides PROVE G[t] \cup Values(Q[Other(t)]["add"]) = F[t] \cup Values(queue[Other(t)]["add"])
    <3>1. CASE t = Other(s)
      BY <3>1, <1>1, <1>6, <1>8
    <3>2. CASE t = s
      BY <3>2, <1>1, <1>7, <1>8, SideFacts
    <3> QED
      BY <3>1, <3>2, SideFacts
  <2> QED
    BY <2>1 DEF Unknown
<1>10. Changing(Q) = Changing(queue) /\ Removing(Q) = Removing(queue)
  BY <1>7 DEF Changing, Removing, Kinds
<1>11. \A t \in Sides, k \in Kinds : Distinct(Q[t][k])
  BY <1>5, <1>7 DEF Engine
<1>12. \A t \in Sides : \A f \in G[t] : f \notin Values(Q[Other(t)]["add"])
  <2>1. \A t \in Sides : \A f \in F[t] : f \notin Values(queue[Other(t)]["add"])
    BY DEF Engine
  <2>2. ASSUME NEW t \in Sides, NEW f \in G[t] PROVE f \notin Values(Q[Other(t)]["add"])
    <3>1. CASE t = Other(s)
      BY <3>1, <2>1, <1>1, <1>6, <1>8
    <3>2. CASE t = s
      BY <3>2, <2>1, <1>1, <1>7, <1>8, SideFacts
    <3> QED
      BY <3>1, <3>2, SideFacts
  <2> QED
    BY <2>2
<1>13. Engine(V, store, m, G, Q, W)
  BY <1>9, <1>10, <1>11, <1>12 DEF Engine
<1>14. Complete(store, m, F, queue) => Complete(store, m, G, Q)
  BY <1>9, <1>10 DEF Complete
<1> QED
  BY <1>2, <1>3, <1>13, <1>14 DEF Q

\* n is m with a pair of the remote object a and the local object b.
PairMade(m, n, a, b) == n = AddItem(m, a.id, a.rev, b.id, b.rev) /\ a.item = b.item

\* Two new objects with the same item become a pair.
LEMMA PairFresh ==
  ASSUME NEW V, NEW m, NEW F, NEW G, NEW W, NEW a \in F["remote"], NEW b \in F["local"], NEW n,
         StoresOK, MetaOK(m), Engine(V, store, m, F, queue, W), PairMade(m, n, a, b),
         Minus(G, F, "remote", a.id), Minus(G, F, "local", b.id)
  PROVE  /\ Engine(V, store, n, G, queue, W)
         /\ Complete(store, m, F, queue) => Complete(store, n, G, queue)
<1> USE SideFacts
<1>1. /\ a \in Objects /\ Has(store, "remote", a.id) /\ a = Object(store, "remote", a.id)
      /\ ~Tracks(m, "remote", a.id)
      /\ a.id \notin Values(queue["remote"]["rem"])
      /\ \A g \in F["remote"] \cup Values(queue[Other("remote")]["add"]) : g.id = a.id => g = a
      /\ a \notin Values(queue[Other("remote")]["add"])
  BY FreshFacts
<1>2. /\ b \in Objects /\ Has(store, "local", b.id) /\ b = Object(store, "local", b.id)
      /\ ~Tracks(m, "local", b.id)
      /\ b.id \notin Values(queue["local"]["rem"])
      /\ \A g \in F["local"] \cup Values(queue[Other("local")]["add"]) : g.id = b.id => g = b
      /\ b \notin Values(queue[Other("local")]["add"])
  BY FreshFacts
<1>3. Minus(Unknown(G, queue), Unknown(F, queue), "remote", a.id)
  <2>1. /\ Unknown(G, queue)["remote"] = G["remote"] \cup Values(queue[Other("remote")]["add"])
        /\ Unknown(F, queue)["remote"] = F["remote"] \cup Values(queue[Other("remote")]["add"])
    BY DEF Unknown
  <2> QED
    BY <2>1, <1>1 DEF Minus
<1>4. Minus(Unknown(G, queue), Unknown(F, queue), "local", b.id)
  <2>1. /\ Unknown(G, queue)["local"] = G["local"] \cup Values(queue[Other("local")]["add"])
        /\ Unknown(F, queue)["local"] = F["local"] \cup Values(queue[Other("local")]["add"])
    BY DEF Unknown
  <2> QED
    BY <2>1, <1>2 DEF Minus
<1>5. Stranger(m, Removing(queue), "remote", a.id) /\ Stranger(m, Removing(queue), "local", b.id)
  BY <1>1, <1>2 DEF Stranger, Removing
<1>6. /\ Clocks(store, store) /\ Kept(store, store, "remote", a.id)
      /\ Kept(store, store, "local", b.id)
  BY DEF Clocks, Kept, StoresOK, StoreOK
<1>7. Holds(store, "remote", a.id, a.item, a.rev)
  <2>1. /\ a.id \in 1..store["remote"].clock
        /\ store["remote"].items[a.id].rev \in 1..store["remote"].clock
        /\ store["remote"].clock \in Nat
    BY <1>1 DEF StoresOK, StoreOK, IsMap, Has
  <2> QED
    BY <2>1, <1>1 DEF Holds, Object
<1>8. Holds(store, "local", b.id, a.item, b.rev)
  <2>1. /\ b.id \in 1..store["local"].clock
        /\ store["local"].items[b.id].rev \in 1..store["local"].clock
        /\ store["local"].clock \in Nat
    BY <1>2 DEF StoresOK, StoreOK, IsMap, Has
  <2> QED
    BY <2>1, <1>2 DEF Holds, Object, PairMade
<1>9. /\ Sound(V, store, n, Unknown(G, queue), Changing(queue), Removing(queue), W)
      /\ Covered(store, m, Unknown(F, queue), Removing(queue)) => Covered(store, n, Unknown(G, queue), Removing(queue))
  <2>1. Sound(V, store, m, Unknown(F, queue), Changing(queue), Removing(queue), W)
    BY DEF Engine
  <2> QED
    BY <2>1, <1>3, <1>4, <1>5, <1>6, <1>7, <1>8, PairStep DEF PairMade
<1>10. \A t \in Sides : \A f \in G[t] : f \notin Values(queue[Other(t)]["add"])
  BY DEF Engine, Minus
<1> QED
  BY <1>9, <1>10 DEF Engine, Complete

\* What a first synchronization keeps, of a step that may flush.
LEMMA FirstMoved ==
  ASSUME TypeInv, StoresOK', SavedOK, UNCHANGED <<saved, hasMeta>>, NEW n, Around(store', n,
                                                  meta'), Kin, NoneUnread' => NoneUnread
  PROVE  SavedOK' /\ Memory(store', meta') /\ Present(store', meta')
  BY SavedKept DEF Around

\* An item of an index.
LEMMA IndexEntry ==
  ASSUME NEW e, Stored(e)
  PROVE  e[1] \in Sides /\ e = <<e[1], e[2]>> /\ Has(store, e[1], e[2])
  BY DEF Stored, Has
-----------------------------------------------------------------------------
(* The loops of a first synchronization.                                   *)

\* A witness for the account of a first synchronization after a step.
LEMMA FirstShow ==
  ASSUME NEW m, NEW F, MetaOK(m), Around(store', m, meta'), Engine(View', store', m, F, queue', {}),
         Complete(store', m, F, queue'), \A s \in Sides :
                                           \A x : (\E f \in F[s] : f.id = x) <=> Unseen(s, x)'
  PROVE  (\E n, G : FirstSound(n, G))'
<1>1. FirstSound(m, F)'
  BY DEF FirstSound, FreshAre
<1> QED
  BY <1>1

\* What the loop over the remote items knows.
LEMMA ScanFacts ==
  ASSUME TypeInv, RunInv, CleanInv, NEW e \in todo, ScanRemote(e)
  PROVE  /\ pc = "scan" /\ pc' = pc /\ ~hasMeta /\ UNCHANGED <<saved, hasMeta, plan,
                                                               cancelSync>> /\ View' = View
         /\ e = <<"remote", e[2]>> /\ DrainInv /\ IndexOK /\ todo' = todo \ {e}
         /\ e \notin DOMAIN index
         /\ \E m, F : FirstSound(m, F)
         /\ \A d \in DOMAIN index : Stored(d)
<1>1. /\ pc = "scan" /\ pc' = pc /\ ~hasMeta /\ UNCHANGED <<saved, hasMeta, plan, cancelSync>>
      /\ View' = View /\ ~cancelSync
  BY DEF ScanRemote, RunInv, FirstPcs, fullVars, View
<1>2. e[1] = "remote" /\ Stored(e) /\ \A d \in DOMAIN index : Stored(d)
  BY <1>1 DEF TypeInv, ScanOK
<1>3. DrainInv /\ FirstInv
  BY <1>1 DEF CleanInv, FirstPcs
<1>4. ~Cut
  BY <1>1 DEF Cut
<1> QED
  BY <1>1, <1>2, <1>3, <1>4, IndexEntry DEF FirstInv, IndexOK, ScanRemote

\* A remote item and the object that waits for it.
LEMMA ScanFresh ==
  ASSUME NEW V, NEW m, NEW F, Engine(V, store, m, F, queue, {}), FreshAre(F), NEW s \in Sides, NEW x, Unseen(s, x)
  PROVE  \E f \in F[s] : f.id = x /\ f = Object(store, s, x)
<1>1. PICK f \in F[s] : f.id = x
  BY DEF FreshAre
<1>2. f = Object(store, s, f.id)
  BY FreshFacts
<1> QED
  BY <1>1, <1>2

\* Pairing equal items keeps the invariant.
LEMMA ScanMatch ==
  ASSUME TypeInv, TypeInv', RunInv, CleanInv, NEW e \in todo, ScanRemote(e), NEW d \in Equals(e),
         index' = [index EXCEPT ![d] = "FOUND"],
         meta' = Associate(meta, "local", d[2], store.local.items[d[2]].rev, Obj("remote", e[2])),
         UNCHANGED <<store, queue, touched, dbError, faultVars>>
  PROVE  CleanInv'
<1> USE SideFacts
<1>1. /\ pc = "scan" /\ pc' = pc /\ ~hasMeta /\ UNCHANGED <<saved, hasMeta, plan, cancelSync>>
      /\ View' = View
      /\ e = <<"remote", e[2]>> /\ DrainInv /\ IndexOK /\ todo' = todo \ {e}
      /\ e \notin DOMAIN index
      /\ \E m, F : FirstSound(m, F)
      /\ \A c \in DOMAIN index : Stored(c)
  BY ScanFacts
<1>2. PICK m, F : FirstSound(m, F)
  BY <1>1
<1>3. /\ MetaOK(m) /\ Around(store, m, meta) /\ Engine(View, store, m, F, queue, {})
      /\ Complete(store, m, F, queue) /\ FreshAre(F)
  BY <1>2 DEF FirstSound
<1>4. /\ d \in DOMAIN index /\ d = <<"local", d[2]>> /\ index[d] = "NOT_FOUND"
      /\ store["local"].items[d[2]].item = store["remote"].items[e[2]].item
  <2>1. /\ d \in DOMAIN index /\ d[1] = "local" /\ index[d] = "NOT_FOUND"
        /\ EntryItem(d) = EntryItem(e)
    BY DEF Equals, Candidates
  <2>2. d = <<d[1], d[2]>>
    BY <1>1, <2>1, IndexEntry
  <2>3. e[1] = "remote"
    BY <1>1
  <2> QED
    BY <2>1, <2>2, <2>3 DEF EntryItem
<1>5. Unseen("remote", e[2]) /\ Unseen("local", d[2])
  BY <1>1, <1>4 DEF Unseen
<1>6. PICK a \in F["remote"] : a.id = e[2] /\ a = Object(store, "remote", e[2])
  BY <1>3, <1>5, ScanFresh
<1>7. PICK b \in F["local"] : b.id = d[2] /\ b = Object(store, "local", d[2])
  BY <1>3, <1>5, ScanFresh
<1>8. a.item = b.item /\ meta' = AddItem(meta, a.id, a.rev, b.id, b.rev)
  <2>1. /\ a.item = store["remote"].items[e[2]].item /\ a.rev = store["remote"].items[e[2]].rev
        /\ b.item = store["local"].items[d[2]].item /\ b.rev = store["local"].items[d[2]].rev
        /\ Obj("remote", e[2]) = a
    BY <1>6, <1>7 DEF Object, Obj
  <2>2. meta' = AddItem(meta, a.id, a.rev, d[2], store.local.items[d[2]].rev)
    BY <2>1 DEF Associate
  <2> QED
    BY <1>4, <1>7, <2>1, <2>2
<1> DEFINE G == [s \in Sides |-> {f \in F[s] : f.id # (IF s = "remote" THEN e[2] ELSE d[2])}]
           n == AddItem(m, a.id, a.rev, b.id, b.rev)
<1>9. Minus(G, F, "remote", e[2]) /\ Minus(G, F, "local", d[2])
  BY DEF Minus
<1> HIDE DEF G
<1>10. StoresOK /\ MetaOK(meta)
  BY DEF TypeInv, PlainOK
<1>11. Engine(View, store, n, G, queue, {}) /\ Complete(store, n, G, queue)
  <2>1. Minus(G, F, "remote", a.id) /\ Minus(G, F, "local", b.id)
    BY <1>6, <1>7, <1>9
  <2>2. PairMade(m, n, a, b)
    BY <1>8 DEF PairMade
  <2> HIDE DEF n
  <2>3. /\ StoresOK /\ MetaOK(m) /\ Engine(View, store, m, F, queue, {}) /\ a \in F["remote"]
        /\ b \in F["local"]
    BY <1>3, <1>6, <1>7, <1>10
  <2>4. /\ Engine(View, store, n, G, queue, {})
        /\ (Complete(store, m, F, queue) => Complete(store, n, G, queue))
    BY ONLY <2>1, <2>2, <2>3, PairFresh
  <2> QED
    BY <1>3, <2>4
<1>12. a \in Objects /\ b \in Objects /\ Has(store, "remote", a.id) /\ Has(store, "local", b.id)
  BY <1>3, FreshFacts
<1>13. a.id \in Nat /\ a.rev \in Nat /\ b.id \in Nat /\ b.rev \in Nat
  BY <1>12 DEF Objects
<1>14. MetaOK(n)
  BY <1>3, <1>13, AddItemType
<1>15. Around(store, n, meta')
  <2>1. Clocks(store, store)
    BY <1>10 DEF Clocks, StoresOK, StoreOK
  <2>2. /\ a.id <= store["remote"].clock /\ a.rev <= store["remote"].clock
        /\ b.id <= store["local"].clock /\ b.rev <= store["local"].clock
    <3>1. /\ \A s \in Sides :
               \A x \in DOMAIN store[s].items :
                 x \in 1..store[s].clock /\ store[s].items[x].rev \in 1..store[s].clock
      BY <1>10 DEF StoresOK, StoreOK, IsMap
    <3>2. /\ a.id \in DOMAIN store["remote"].items /\ a.rev = store["remote"].items[a.id].rev
          /\ b.id \in DOMAIN store["local"].items /\ b.rev = store["local"].items[b.id].rev
      BY <1>6, <1>7, <1>12 DEF Has, Object
    <3>3. /\ a.id \in 1..store["remote"].clock /\ a.rev \in 1..store["remote"].clock
          /\ b.id \in 1..store["local"].clock /\ b.rev \in 1..store["local"].clock
      BY <3>1, <3>2
    <3> QED
      BY <3>3, <1>10 DEF StoresOK, StoreOK
  <2>3. \A s \in Sides : DOMAIN store[s].items \subseteq DOMAIN store[s].items
    OBVIOUS
  <2> HIDE DEF n
  <2>4. n = AddItem(m, a.id, a.rev, b.id, b.rev)
    BY DEF n
  <2> QED
    BY <1>3, <1>8, <1>10, <1>12, <2>1, <2>2, <2>3, <2>4, AroundPair
<1> HIDE DEF n
<1>16. \A s \in Sides : \A x : (\E f \in G[s] : f.id = x) <=> Unseen(s, x)'
  <2>1. \A s \in Sides : \A x : (\E f \in F[s] : f.id = x) <=> Unseen(s, x)
    BY <1>3 DEF FreshAre
  <2>2. \A x : (\E f \in G["remote"] : f.id = x) <=> Unseen("remote", x) /\ x # e[2]
    BY <2>1, <1>9 DEF Minus
  <2>3. \A x : (\E f \in G["local"] : f.id = x) <=> Unseen("local", x) /\ x # d[2]
    BY <2>1, <1>9 DEF Minus
  <2>4. \A x : Unseen("remote", x)' <=> Unseen("remote", x) /\ x # e[2]
    BY <1>1 DEF Unseen
  <2>5. \A x : Unseen("local", x)' <=> Unseen("local", x) /\ x # d[2]
    <3>1. /\ DOMAIN index' = DOMAIN index
          /\ \A c \in DOMAIN index : index'[c] = IF c = d THEN "FOUND" ELSE index[c]
      BY <1>4
    <3> QED
      BY <1>1, <1>4, <3>1 DEF Unseen
  <2> QED
    BY <2>2, <2>3, <2>4, <2>5
<1>17. (\E k, H : FirstSound(k, H))'
  <2>1. store' = store /\ queue' = queue
    OBVIOUS
  <2>2. /\ Around(store', n, meta') /\ Engine(View', store', n, G, queue', {})
        /\ Complete(store', n, G, queue')
    BY <1>1, <1>11, <1>15, <2>1
  <2> QED
    BY <1>14, <1>16, <2>2, FirstShow
<1>18. IndexOK'
  <2>1. /\ DOMAIN index' = DOMAIN index
        /\ \A c \in DOMAIN index' : index'[c] = IF c = d THEN "FOUND" ELSE index[c]
        /\ index' = [c \in DOMAIN index' |-> index'[c]]
    BY <1>4
  <2>2. d[1] = "local"
    BY <1>4
  <2> QED
    BY <1>1, <2>1, <2>2 DEF IndexOK
<1>19. DrainInv'
  BY <1>1, AfterFlushFacts DEF DrainInv, Detecting, Quiet
<1>20. SavedOK' /\ Memory(store', meta') /\ Present(store', meta')
  <2>1. StoresOK' /\ Kin /\ SavedOK /\ (NoneUnread' => NoneUnread)
    BY <1>10, SameKin DEF TypeInv, CleanInv, SavedOK, NoneUnread, faultVars
  <2>2. Around(store', n, meta')
    BY <1>15
  <2> QED
    BY <1>1, <2>1, <2>2, FirstMoved
<1> QED
  BY <1>1, <1>17, <1>18, <1>19, <1>20, FirstClean DEF FirstInv, FirstPcs

\* Adding a remote item keeps it.
LEMMA ScanAdd ==
  ASSUME TypeInv, TypeInv', RunInv, CleanInv, Clean', NEW e \in todo, ScanRemote(e),
         index' = Put(index, e, "ADDED"), Enqueue("local", "add", Obj("remote", e[2]), meta)
  PROVE  CleanInv'
<1> USE SideFacts
<1>1. /\ pc = "scan" /\ pc' = pc /\ ~hasMeta /\ UNCHANGED <<saved, hasMeta, plan, cancelSync>>
      /\ View' = View
      /\ e = <<"remote", e[2]>> /\ DrainInv /\ IndexOK /\ todo' = todo \ {e}
      /\ e \notin DOMAIN index
      /\ \E m, F : FirstSound(m, F)
      /\ \A c \in DOMAIN index : Stored(c)
  BY ScanFacts
<1>2. PICK m, F : FirstSound(m, F)
  BY <1>1
<1>3. /\ MetaOK(m) /\ Around(store, m, meta) /\ Engine(View, store, m, F, queue, {})
      /\ Complete(store, m, F, queue) /\ FreshAre(F)
  BY <1>2 DEF FirstSound
<1>4. Unseen("remote", e[2])
  BY <1>1 DEF Unseen
<1>5. PICK a \in F["remote"] : a.id = e[2] /\ a = Object(store, "remote", e[2])
  BY <1>3, <1>4, ScanFresh
<1>6. Enqueue("local", "add", a, meta)
  <2>1. Obj("remote", e[2]) = a
    BY <1>5 DEF Obj, Object
  <2> QED
    BY <2>1
<1> DEFINE G == [s \in Sides |-> IF s = "remote" THEN F[s] \ {a} ELSE F[s]]
           Q == WithEntry("local", "add", a)
<1>7. OneLess(G, F, Other("local"), a)
  BY DEF OneLess, Other
<1>8. /\ \A s \in Sides :
           \A x :
             (\E f \in G[s] : f.id = x) <=> (\E f \in F[s] : f.id = x) /\ (s = "local" \/ x # e[2])
  <2>1. \A f \in F["remote"] : f.id = a.id => f = a
    BY <1>3, FreshFacts
  <2>2. \A x : (\E f \in G["remote"] : f.id = x) <=> (\E f \in F["remote"] : f.id = x) /\ x # e[2]
    BY <1>5, <2>1
  <2>3. G["local"] = F["local"]
    OBVIOUS
  <2> QED
    BY <2>2, <2>3
<1> HIDE DEF G
<1>9. StoresOK /\ QueuesOK /\ MetaOK(meta)
  BY DEF TypeInv, PlainOK
<1>10. /\ a \in Objects /\ Distinct(queue["local"]["add"]) /\ a \notin Values(queue["local"]["add"])
       /\ Engine(View, store, m, G, Q, {}) /\ Complete(store, m, G, Q)
  <2>1. a \in F[Other("local")]
    BY <1>5 DEF Other
  <2> QED
    BY <1>3, <1>7, <1>9, <2>1, MoveSound
<1>11. /\ \E n :
            MetaOK(n) /\ FlushEnds(View, m, G, Q, {}, "local", "add", n) /\ Around(store', n, meta')
       /\ EntryLeaves(Q, "local", "add")
  <2>1. "flush" \notin faulty'
    BY DEF Clean
  <2> QED
    BY <1>3, <1>6, <1>9, <1>10, <2>1, EnqueueFirst
<1>12. PICK n : MetaOK(n) /\ FlushEnds(View, m, G, Q, {}, "local", "add", n) /\ Around(store', n, meta')
  BY <1>11
<1>13. Engine(View', store', n, G, queue', {}) /\ Complete(store', n, G, queue') /\ Kin
  BY <1>1, <1>10, <1>12 DEF FlushEnds, Kin
<1>14. \A s \in Sides : \A x : (\E f \in G[s] : f.id = x) <=> Unseen(s, x)'
  <2>1. \A s \in Sides : \A x : (\E f \in F[s] : f.id = x) <=> Unseen(s, x)
    BY <1>3 DEF FreshAre
  <2>2. \A x : Unseen("remote", x)' <=> Unseen("remote", x) /\ x # e[2]
    BY <1>1 DEF Unseen
  <2>3. \A x : Unseen("local", x)' <=> Unseen("local", x)
    <3>1. /\ DOMAIN index' = DOMAIN index \cup {e}
          /\ \A c \in DOMAIN index' : index'[c] = IF c = e THEN "ADDED" ELSE index[c]
      BY DEF Put
    <3>2. \A x : <<"local", x>> # e
      BY <1>1
    <3> QED
      BY <1>1, <3>1, <3>2 DEF Unseen
  <2> QED
    BY <1>8, <2>1, <2>2, <2>3
<1>15. (\E k, H : FirstSound(k, H))'
  BY <1>12, <1>13, <1>14, FirstShow
<1>16. IndexOK'
  <2>1. /\ index' = [c \in DOMAIN index' |-> index'[c]]
        /\ DOMAIN index' = DOMAIN index \cup {e}
        /\ \A c \in DOMAIN index' : index'[c] = IF c = e THEN "ADDED" ELSE index[c]
    BY DEF Put
  <2> QED
    BY <1>1, <2>1 DEF IndexOK
<1>17. DrainInv'
  <2>1. \A t \in Sides, k \in Kinds : t # "local" \/ k # "add" => queue'[t][k] = queue[t][k]
    <3>1. \A t \in Sides, k \in Kinds : t # "local" \/ k # "add" => Q[t][k] = queue[t][k]
      BY DEF WithEntry
    <3> QED
      BY <1>11, <3>1 DEF EntryLeaves
  <2>2. {"add", "mod", "rem"} \subseteq Kinds
    BY DEF Kinds
  <2> QED
    BY <1>1, <2>1, <2>2, AfterFlushFacts DEF DrainInv, Detecting, Quiet
<1>18. SavedOK' /\ Memory(store', meta') /\ Present(store', meta')
  <2>1. StoresOK' /\ SavedOK /\ (NoneUnread' => NoneUnread)
    BY <1>11 DEF TypeInv, CleanInv, SavedOK, NoneUnread, faultVars, EntryLeaves
  <2> QED
    BY <1>1, <1>12, <1>13, <2>1, FirstMoved
<1> QED
  BY <1>1, <1>15, <1>16, <1>17, <1>18, FirstClean DEF FirstInv, FirstPcs

\* A turn of the loop over the remote items keeps it.
LEMMA ScanRemoteClean ==
  ASSUME TypeInv, TypeInv', RunInv, CleanInv, Clean', NEW e \in todo, ScanRemote(e)
  PROVE  CleanInv'
<1>1. CASE \E d \in Equals(e) :
             /\ index' = [index EXCEPT ![d] = "FOUND"]
             /\ meta' = Associate(meta, "local", d[2], store.local.items[d[2]].rev, Obj("remote", e[2]))
             /\ UNCHANGED <<store, queue, touched, dbError, faultVars>>
  BY <1>1, ScanMatch
<1>2. CASE faulty' = faulty \cup {"unmerged"}
  BY <1>2 DEF Clean
<1>3. CASE index' = Put(index, e, "ADDED") /\ Enqueue("local", "add", Obj("remote", e[2]), meta)
  BY <1>3, ScanAdd
<1> QED
  BY <1>1, <1>2, <1>3, Zenon DEF ScanRemote

\* A turn of the loop over the index keeps it.
LEMMA AddRestClean ==
  ASSUME TypeInv, TypeInv', RunInv, CleanInv, Clean', NEW e \in todo, AddRest(e)
  PROVE  CleanInv'
<1> USE SideFacts
<1>1. /\ pc = "rest" /\ pc' = pc /\ ~hasMeta
      /\ UNCHANGED <<saved, hasMeta, plan, cancelSync, index>> /\ View' = View
      /\ todo' = todo \ {e} /\ (OpenKey # {} \/ ~cancelSync)
  BY DEF AddRest, RunInv, FirstPcs, fullVars, View
<1>2. DrainInv /\ FirstInv /\ IndexOK /\ Present(store, meta)
  BY <1>1 DEF CleanInv, FirstInv, FirstPcs
<1>3. ~Cut
  <2>1. ASSUME Cut PROVE FALSE
    <3>1. cancelSync /\ todo = DOMAIN index
      BY <1>1, <2>1 DEF Cut
    <3>2. OpenKey = {}
      BY <3>1 DEF OpenKey
    <3> QED
      BY <1>1, <3>1, <3>2
  <2> QED
    BY <2>1
<1>4. PICK m, F : FirstSound(m, F)
  BY <1>1, <1>2, <1>3 DEF FirstInv
<1>5. /\ MetaOK(m) /\ Around(store, m, meta) /\ Engine(View, store, m, F, queue, {})
      /\ Complete(store, m, F, queue) /\ FreshAre(F)
  BY <1>4 DEF FirstSound
<1>6. e \in DOMAIN index /\ Stored(e) /\ (index[e] = "NOT_FOUND" => e = <<"local", e[2]>>)
  <2>1. e \in DOMAIN index /\ Stored(e) /\ (index[e] = "NOT_FOUND" => e[1] = "local")
    BY <1>1 DEF TypeInv, ScanOK
  <2> QED
    BY <2>1, IndexEntry
<1>7. IndexOK'
  BY <1>1, <1>2 DEF IndexOK
<1>8. \A x : Unseen("local", x)' <=> Unseen("local", x) /\ <<"local", x>> # e
  BY <1>1 DEF Unseen
<1>9. \A x : Unseen("remote", x)' <=> Unseen("remote", x)
  BY <1>1 DEF Unseen
<1>10. StoresOK /\ QueuesOK /\ MetaOK(meta) /\ StoresOK' /\ SavedOK
  BY DEF TypeInv, PlainOK, CleanInv, SavedOK
<1>11. CASE index[e] # "NOT_FOUND"
  <2>1. UNCHANGED <<store, meta, queue, faulty>>
    BY <1>11 DEF AddRest, faultVars
  <2>2. \A s \in Sides : \A x : (\E f \in F[s] : f.id = x) <=> Unseen(s, x)'
    <3>1. \A x : Unseen("local", x) => <<"local", x>> # e
      BY <1>11 DEF Unseen
    <3> QED
      BY <1>5, <1>8, <1>9, <3>1 DEF FreshAre
  <2>3. (\E k, H : FirstSound(k, H))'
    <3>1. /\ Around(store', m, meta') /\ Engine(View', store', m, F, queue', {})
          /\ Complete(store', m, F, queue')
      BY <1>1, <1>5, <2>1
    <3> QED
      BY <1>5, <2>2, <3>1, FirstShow
  <2>4. DrainInv'
    BY <1>1, <1>2, <2>1, AfterFlushFacts DEF DrainInv, Detecting, Quiet
  <2>5. SavedOK' /\ Memory(store', meta') /\ Present(store', meta')
    BY <1>1, <1>2, <2>1, FirstKept DEF NoneUnread
  <2> QED
    BY <1>1, <1>7, <2>3, <2>4, <2>5, FirstClean DEF FirstInv, FirstPcs
<1>12. CASE index[e] = "NOT_FOUND"
  <2>1. Enqueue("remote", "add", Obj("local", e[2]), meta) /\ e = <<"local", e[2]>>
    BY <1>6, <1>12 DEF AddRest
  <2>2. Unseen("local", e[2])
    BY <1>1, <1>6, <1>12 DEF Unseen
  <2>3. PICK a \in F["local"] : a.id = e[2] /\ a = Object(store, "local", e[2])
    BY <1>5, <2>2, ScanFresh
  <2>4. Enqueue("remote", "add", a, meta)
    <3>1. Obj("local", e[2]) = a
      BY <2>3 DEF Obj, Object
    <3> QED
      BY <2>1, <3>1
  <2> DEFINE G == [s \in Sides |-> IF s = "local" THEN F[s] \ {a} ELSE F[s]]
             Q == WithEntry("remote", "add", a)
  <2>5. OneLess(G, F, Other("remote"), a)
    BY DEF OneLess, Other
  <2>6. /\ \A s \in Sides :
             \A x :
               (\E f \in G[s] :
                  f.id = x) <=> (\E f \in F[s] : f.id = x) /\ (s = "remote" \/ x # e[2])
    <3>1. \A f \in F["local"] : f.id = a.id => f = a
      BY <1>5, FreshFacts
    <3>2. \A x : (\E f \in G["local"] : f.id = x) <=> (\E f \in F["local"] : f.id = x) /\ x # e[2]
      BY <2>3, <3>1
    <3>3. G["remote"] = F["remote"]
      OBVIOUS
    <3> QED
      BY <3>2, <3>3
  <2> HIDE DEF G
  <2>7. /\ a \in Objects /\ Distinct(queue["remote"]["add"])
        /\ a \notin Values(queue["remote"]["add"])
        /\ Engine(View, store, m, G, Q, {}) /\ Complete(store, m, G, Q)
    <3>1. a \in F[Other("remote")]
      BY <2>3 DEF Other
    <3> QED
      BY <1>5, <1>10, <2>5, <3>1, MoveSound
  <2>8. /\ \E n :
             MetaOK(n) /\ FlushEnds(View, m, G, Q, {}, "remote", "add", n) /\ Around(store', n, meta')
        /\ EntryLeaves(Q, "remote", "add")
    <3>1. "flush" \notin faulty'
      BY DEF Clean
    <3> QED
      BY <1>5, <1>10, <2>4, <2>7, <3>1, EnqueueFirst
  <2>9. PICK n : MetaOK(n) /\ FlushEnds(View, m, G, Q, {}, "remote", "add", n) /\ Around(store', n, meta')
    BY <2>8
  <2>10. Engine(View', store', n, G, queue', {}) /\ Complete(store', n, G, queue') /\ Kin
    BY <1>1, <2>7, <2>9 DEF FlushEnds, Kin
  <2>11. \A s \in Sides : \A x : (\E f \in G[s] : f.id = x) <=> Unseen(s, x)'
    <3>1. \A s \in Sides : \A x : (\E f \in F[s] : f.id = x) <=> Unseen(s, x)
      BY <1>5 DEF FreshAre
    <3>2. \A x : <<"local", x>> = e <=> x = e[2]
      BY <2>1
    <3> QED
      BY <1>8, <1>9, <2>6, <3>1, <3>2
  <2>12. (\E k, H : FirstSound(k, H))'
    BY <2>9, <2>10, <2>11, FirstShow
  <2>13. DrainInv'
    <3>1. \A t \in Sides, k \in Kinds : t # "remote" \/ k # "add" => queue'[t][k] = queue[t][k]
      <4>1. \A t \in Sides, k \in Kinds : t # "remote" \/ k # "add" => Q[t][k] = queue[t][k]
        BY DEF WithEntry
      <4> QED
        BY <2>8, <4>1 DEF EntryLeaves
    <3>2. {"add", "mod", "rem"} \subseteq Kinds
      BY DEF Kinds
    <3> QED
      BY <1>1, <1>2, <3>1, <3>2, AfterFlushFacts DEF DrainInv, Detecting, Quiet
  <2>14. SavedOK' /\ Memory(store', meta') /\ Present(store', meta')
    <3>1. NoneUnread' => NoneUnread
      BY <2>8 DEF NoneUnread, faultVars, EntryLeaves
    <3> QED
      BY <1>1, <1>10, <2>9, <2>10, <3>1, FirstMoved
  <2> QED
    BY <1>1, <1>7, <2>12, <2>13, <2>14, FirstClean DEF FirstInv, FirstPcs
<1> QED
  BY <1>11, <1>12
-----------------------------------------------------------------------------
(* The flushes at the end of a loop.                                       *)

\* The flushes of each series, in their order.
LEMMA FlushesFacts ==
  /\ Len(Flushes["saveLocal"]) = 2 /\ Flushes["saveLocal"][1] = <<"local", "add">>
  /\ Flushes["saveLocal"][2] = <<"local", "mod">>
  /\ Len(Flushes["saveRemote"]) = 2 /\ Flushes["saveRemote"][1] = <<"remote", "add">>
  /\ Flushes["saveRemote"][2] = <<"remote", "mod">>
  /\ Len(Flushes["saveAll"]) = 6
  /\ Flushes["saveAll"][1] = <<"local", "add">> /\ Flushes["saveAll"][2] = <<"local", "mod">>
  /\ Flushes["saveAll"][3] = <<"local", "rem">> /\ Flushes["saveAll"][4] = <<"remote", "add">>
  /\ Flushes["saveAll"][5] = <<"remote", "mod">> /\ Flushes["saveAll"][6] = <<"remote", "rem">>
  BY DEF Flushes

\* The queue of a flush.
FlushQueue(Q, k) == Q[Flushes[pc][k][1]][Flushes[pc][k][2]]

\* A flush is of a side and a kind.
LEMMA FlushNames ==
  ASSUME pc \in DOMAIN AfterFlush
  PROVE  /\ Len(Flushes[pc]) \in Nat
         /\ \A k \in 1..Len(Flushes[pc]) :
              Flushes[pc][k][1] \in Sides /\ Flushes[pc][k][2] \in Kinds
<1>1. CASE pc = "saveLocal"
  <2>1. \A k \in 1..2 : k = 1 \/ k = 2
    OBVIOUS
  <2> QED
    BY <1>1, <2>1, FlushesFacts DEF Sides, Kinds
<1>2. CASE pc = "saveRemote"
  <2>1. \A k \in 1..2 : k = 1 \/ k = 2
    OBVIOUS
  <2> QED
    BY <1>2, <2>1, FlushesFacts DEF Sides, Kinds
<1>3. CASE pc = "saveAll"
  <2>1. \A k \in 1..6 : k \in {1, 2, 3, 4, 5, 6}
    OBVIOUS
  <2> QED
    BY <1>3, <2>1, FlushesFacts DEF Sides, Kinds
<1> QED
  BY <1>1, <1>2, <1>3, AfterFlushFacts

FlushesOver ==
  /\ pc' = AfterFlush[pc] /\ plan' = 0 /\ todo' = (IF pc = "saveLocal" THEN DOMAIN index ELSE {})
  /\ UNCHANGED <<store, meta, queue, dbError, faultVars>>
  /\ \A j \in 1..Len(Flushes[pc]) : FlushQueue(queue, j) = <<>>

FlushAt(k, s, kind) ==
  /\ k \in 1..Len(Flushes[pc]) /\ s = Flushes[pc][k][1] /\ kind = Flushes[pc][k][2]
  /\ plan' = k /\ UNCHANGED <<pc, todo>> /\ queue[s][kind] # <<>>
  /\ \A j \in 1..k-1 : FlushQueue(queue, j) = <<>>
  /\ Flush(s, kind, queue[s][kind], meta)

\* A run does its next flush, or all are done.
LEMMA FlushPlan ==
  ASSUME TypeInv, DrainInv, FlushNext
  PROVE  FlushesOver \/ \E k, s, kind : s \in Sides /\ kind \in Kinds /\ FlushAt(k, s, kind)
<1> DEFINE N    == Len(Flushes[pc])
           left == {k \in plan + 1 .. N : FlushQueue(queue, k) # <<>>}
<1>1. /\ pc \in DOMAIN AfterFlush /\ plan \in Nat /\ N \in Nat
      /\ \A k \in 1..N : Flushes[pc][k][1] \in Sides /\ Flushes[pc][k][2] \in Kinds
  BY FlushNames, Zenon DEF FlushNext, TypeInv, PlaceOK
<1>2. \A k \in 1..plan : FlushQueue(queue, k) = <<>>
  BY <1>1 DEF DrainInv, FlushQueue
<1>3. IF left = {}
      THEN /\ pc' = AfterFlush[pc] /\ plan' = 0
           /\ todo' = IF pc = "saveLocal" THEN DOMAIN index ELSE {}
           /\ UNCHANGED <<store, meta, queue, dbError, faultVars>>
      ELSE /\ plan' = Least(left)
           /\ Flush(Flushes[pc][Least(left)][1], Flushes[pc][Least(left)][2],
                    queue[Flushes[pc][Least(left)][1]][Flushes[pc][Least(left)][2]], meta)
           /\ UNCHANGED <<pc, todo>>
  BY Zenon DEF FlushNext, FlushQueue
<1>4. CASE left = {}
  <2>1. \A j \in 1..N : FlushQueue(queue, j) = <<>>
    <3>1. ASSUME NEW j \in 1..N PROVE j \in 1..plan \/ j \in plan + 1 .. N
      BY <1>1
    <3>2. \A j \in plan + 1 .. N : FlushQueue(queue, j) = <<>>
      BY <1>4
    <3> QED
      BY <1>2, <3>1, <3>2
  <2> QED
    BY <1>3, <1>4, <2>1 DEF FlushesOver
<1>5. CASE left # {}
  <2>1. Least(left) \in left /\ \A j \in left : Least(left) <= j
    <3>1. left \subseteq Nat
      BY <1>1
    <3> HIDE DEF left
    <3> QED
      BY <1>5, <3>1, LeastFacts
  <2> DEFINE k == Least(left)
  <2>2. k \in plan + 1 .. N /\ FlushQueue(queue, k) # <<>> /\ k \in 1..N
    BY <1>1, <2>1
  <2>3. \A j \in 1..k-1 : FlushQueue(queue, j) = <<>>
    <3>1. ASSUME NEW j \in 1..k-1, FlushQueue(queue, j) # <<>> PROVE FALSE
      <4>1. j \notin 1..plan
        BY <1>2, <3>1
      <4>2. j \in plan + 1 .. N
        BY <1>1, <2>2, <4>1
      <4>3. j \in left
        BY <3>1, <4>2
      <4>4. k <= j
        BY <2>1, <4>3
      <4> HIDE DEF k
      <4> QED
        BY <1>1, <2>2, <4>2, <4>4
    <3> QED
      BY <3>1
  <2>4. FlushAt(k, Flushes[pc][k][1], Flushes[pc][k][2])
    <3>1. plan' = k /\ UNCHANGED <<pc, todo>>
          /\ Flush(Flushes[pc][k][1], Flushes[pc][k][2], queue[Flushes[pc][k][1]][Flushes[pc][k][2]], meta)
      BY <1>3, <1>5
    <3> HIDE DEF k
    <3> QED
      BY <2>2, <2>3, <3>1 DEF FlushAt, FlushQueue
  <2> HIDE DEF k
  <2> QED
    BY <1>1, <2>2, <2>4
<1> QED
  BY <1>4, <1>5

\* After a flush that did not fail, it and all before it have nothing to do.
LEMMA FlushDrains ==
  ASSUME NEW k, NEW s \in Sides, NEW kind \in Kinds, pc \in DOMAIN AfterFlush, FlushAt(k, s, kind), FlushLeaves(queue, s, kind)
  PROVE  \A j \in 1..plan' : queue'[Flushes[pc'][j][1]][Flushes[pc'][j][2]] = <<>>
<1>1. /\ plan' = k /\ pc' = pc /\ k \in 1..Len(Flushes[pc]) /\ s = Flushes[pc][k][1]
      /\ kind = Flushes[pc][k][2]
      /\ \A j \in 1..k-1 : queue[Flushes[pc][j][1]][Flushes[pc][j][2]] = <<>>
  BY DEF FlushAt, FlushQueue
<1>2. /\ Len(Flushes[pc]) \in Nat
      /\ \A j \in 1..Len(Flushes[pc]) : Flushes[pc][j][1] \in Sides /\ Flushes[pc][j][2] \in Kinds
  BY FlushNames
<1>3. /\ queue'[s][kind] = <<>>
      /\ \A t \in Sides, n \in Kinds : t # s \/ n # kind => queue'[t][n] = queue[t][n]
  BY DEF FlushLeaves
<1>4. ASSUME NEW j \in 1..k PROVE queue'[Flushes[pc][j][1]][Flushes[pc][j][2]] = <<>>
  <2>1. j \in 1..Len(Flushes[pc]) /\ (j = k \/ j \in 1..k-1)
    BY <1>1, <1>2
  <2> QED
    BY <1>1, <1>2, <1>3, <2>1
<1> QED
  BY <1>1, <1>4

\* The flushes of a first synchronization keep the invariant.
LEMMA FlushFirstClean ==
  ASSUME TypeInv, TypeInv', RunInv, PlanInv, CleanInv, Clean', FlushNext, ~hasMeta
  PROVE  CleanInv'
<1> USE SideFacts
<1>1. /\ pc \in {"saveLocal", "saveRemote"} /\ UNCHANGED <<saved, hasMeta, cancelSync, index>>
      /\ View' = View
      /\ pc \in DOMAIN AfterFlush
  <2>1. pc \in DOMAIN AfterFlush /\ pc # "saveAll"
    BY Zenon DEF FlushNext, RunInv, Resolving
  <2> QED
    BY <2>1, AfterFlushFacts, Zenon DEF FlushNext, fullVars, View
<1>2. DrainInv /\ FirstInv /\ IndexOK /\ Present(store, meta) /\ pc \in FirstPcs
  BY <1>1 DEF CleanInv, FirstInv, FirstPcs
<1>3. CASE FlushesOver
  <2>1. UNCHANGED <<store, meta, queue, dbError, faulty>> /\ plan' = 0 /\ pc' = AfterFlush[pc]
        /\ todo' = (IF pc = "saveLocal" THEN DOMAIN index ELSE {})
    BY <1>3 DEF FlushesOver, faultVars
  <2>2. (pc = "saveLocal" /\ pc' = "rest") \/ (pc = "saveRemote" /\ pc' = "tokens")
    BY <1>1, <2>1, AfterFlushFacts
  <2>3. /\ pc = "saveLocal" => queue["local"]["add"] = <<>>
        /\ pc = "saveRemote" => queue["remote"]["add"] = <<>>
    <3>1. \A j \in 1..Len(Flushes[pc]) : queue[Flushes[pc][j][1]][Flushes[pc][j][2]] = <<>>
      BY <1>3 DEF FlushesOver, FlushQueue
    <3> QED
      BY <3>1, FlushesFacts
  <2>4. DrainInv'
    <3>1. pc = "saveRemote" => Quiet
      <4>1. ASSUME pc = "saveRemote", NEW s \in Sides, NEW kind \in Kinds PROVE queue[s][kind] = <<>>
        BY <1>2, <2>3, <4>1 DEF DrainInv, Kinds
      <4> QED
        BY <4>1 DEF Quiet
    <3>2. Quiet => Quiet'
      BY <2>1 DEF Quiet
    <3> QED
      BY <1>1, <1>2, <2>1, <2>2, <2>3, <3>1, <3>2, AfterFlushFacts DEF DrainInv, Detecting
  <2>5. Cut => Cut'
    BY <1>1, <2>1, <2>2 DEF Cut, Quiet
  <2>6. \A m, F : FirstSound(m, F) => FirstSound(m, F)'
    <3>1. \A s \in Sides : \A x : Unseen(s, x)' <=> Unseen(s, x)
      BY <1>1, <2>1, <2>2 DEF Unseen
    <3>2. \A F : FreshAre(F) => FreshAre(F)'
      BY <3>1 DEF FreshAre
    <3> QED
      BY <1>1, <2>1, <3>2 DEF FirstSound
  <2>7. IndexOK'
    BY <1>1, <1>2, <2>2 DEF IndexOK
  <2>8. FirstInv'
    BY <1>2, <2>1, <2>2, <2>5, <2>6, <2>7 DEF FirstInv
  <2>9. pc' \in FirstPcs \cup {"tokens"}
    BY <2>2 DEF FirstPcs
  <2> QED
    BY <1>1, <2>1, <2>4, <2>8, <2>9, FirstKept, FirstClean DEF NoneUnread
<1>4. CASE \E k, s, kind : s \in Sides /\ kind \in Kinds /\ FlushAt(k, s, kind)
  <2>1. PICK k, s, kind : s \in Sides /\ kind \in Kinds /\ FlushAt(k, s, kind)
    BY <1>4
  <2>2. queue[s][kind] # <<>> /\ Flush(s, kind, queue[s][kind], meta) /\ UNCHANGED <<pc, todo>>
        /\ k \in 1..Len(Flushes[pc]) /\ s = Flushes[pc][k][1] /\ kind = Flushes[pc][k][2]
    BY <2>1 DEF FlushAt
  <2>3. kind = "add" /\ (pc = "saveLocal" => s = "local") /\ (pc = "saveRemote" => s = "remote")
    <3>1. kind \notin {"mod", "rem"}
      BY <1>2, <2>1, <2>2 DEF DrainInv
    <3>2. kind = "add"
      BY <2>1, <3>1 DEF Kinds
    <3>3. k = 1 \/ k = 2
      BY <1>1, <2>2, FlushesFacts
    <3> QED
      BY <1>1, <2>2, <3>2, <3>3, FlushesFacts
  <2>4. ~Cut
    BY <2>1, <2>2 DEF Cut, Quiet
  <2>5. PICK m, F : FirstSound(m, F)
    BY <1>1, <1>2, <2>4 DEF FirstInv, FirstPcs
  <2>6. /\ MetaOK(m) /\ Around(store, m, meta) /\ Engine(View, store, m, F, queue, {})
        /\ Complete(store, m, F, queue) /\ FreshAre(F)
    BY <2>5 DEF FirstSound
  <2>7. /\ \E n :
             MetaOK(n) /\ FlushEnds(View, m, F, queue, {}, s, "add", n) /\ Around(store', n, meta')
        /\ FlushLeaves(queue, s, "add")
    <3>1. StoresOK /\ QueuesOK /\ MetaOK(meta) /\ "flush" \notin faulty'
      BY DEF TypeInv, PlainOK, Clean
    <3>2. queue[s]["add"] \in Seq(EntryType["add"]) /\ LikeQueue(queue, s, "add")
      BY <2>1, <3>1 DEF QueuesOK, QueueOK, LikeQueue, Kinds
    <3>3. Flush(s, "add", queue[s]["add"], meta) /\ s \in Sides
      BY <2>1, <2>2, <2>3
    <3> QED
      BY ONLY <2>6, <3>1, <3>2, <3>3, FlushFirst
  <2>8. PICK n : MetaOK(n) /\ FlushEnds(View, m, F, queue, {}, s, "add", n) /\ Around(store', n, meta')
    BY <2>7
  <2>9. Engine(View', store', n, F, queue', {}) /\ Complete(store', n, F, queue') /\ Kin
    BY <1>1, <2>6, <2>8 DEF FlushEnds, Kin
  <2>10. \A t \in Sides : \A x : (\E f \in F[t] : f.id = x) <=> Unseen(t, x)'
    <3>1. \A t \in Sides : \A x : Unseen(t, x)' <=> Unseen(t, x)
      BY <1>1, <2>2 DEF Unseen
    <3> QED
      BY <2>6, <3>1 DEF FreshAre
  <2>11. (\E a, G : FirstSound(a, G))'
    BY <2>8, <2>9, <2>10, FirstShow
  <2>12. DrainInv'
    <3>1. \A j \in 1..plan' : queue'[Flushes[pc'][j][1]][Flushes[pc'][j][2]] = <<>>
      BY <1>1, <2>1, <2>3, <2>7, FlushDrains
    <3>2. /\ queue'[s]["add"] = <<>>
          /\ \A t \in Sides, n1 \in Kinds : t # s \/ n1 # "add" => queue'[t][n1] = queue[t][n1]
      BY <2>7 DEF FlushLeaves
    <3>3. \A t \in Sides : queue'[t]["mod"] = <<>> /\ queue'[t]["rem"] = <<>>
      BY <1>2, <3>2 DEF DrainInv, Kinds
    <3>4. pc \in {"scan", "saveLocal"} => queue'["remote"]["add"] = <<>>
      BY <1>1, <1>2, <2>3, <3>2 DEF DrainInv, Kinds
    <3>5. pc \in {"rest", "saveRemote"} => queue'["local"]["add"] = <<>>
      BY <1>1, <1>2, <2>3, <3>2 DEF DrainInv, Kinds
    <3>6. pc' = pc /\ pc' \notin Detecting /\ pc' \notin {"index", "tokens"}
      BY <1>1, <2>2 DEF Detecting
    <3> QED
      BY <3>1, <3>3, <3>4, <3>5, <3>6 DEF DrainInv
  <2>13. IndexOK'
    BY <1>1, <1>2, <2>2 DEF IndexOK
  <2>14. SavedOK' /\ Memory(store', meta') /\ Present(store', meta')
    <3>1. StoresOK' /\ SavedOK /\ (NoneUnread' => NoneUnread)
      BY <2>7 DEF TypeInv, CleanInv, SavedOK, NoneUnread, faultVars, FlushLeaves
    <3> QED
      BY <1>1, <2>8, <2>9, <3>1, FirstMoved
  <2> QED
    BY <1>1, <1>2, <2>2, <2>11, <2>12, <2>13, <2>14, FirstClean DEF FirstInv
<1> QED
  BY <1>2, <1>3, <1>4, FlushPlan
-----------------------------------------------------------------------------
(* The end of a run.                                                       *)

\* The metadata describes what the storages hold.
Describes(S, m) ==
  /\ Bijective(m) /\ Known(S, m)
  /\ \A r \in DOMAIN m.map : Settled(S, m, r)

AllTracked(S, m) == \A s \in Sides : \A x \in DOMAIN S[s].items : Tracks(m, s, x)

\* A description knows all it tracks.
LEMMA DescribesKnows ==
  ASSUME NEW S, NEW m, Describes(S, m), NEW s \in Sides, NEW x \in DOMAIN m.rev[s]
  PROVE  Knows(S, m, s, x)
<1>1. PICK r \in DOMAIN m.map : Mate(m, r, s) = x
  BY DEF Describes, Bijective
<1>2. Settled(S, m, r)
  BY DEF Describes
<1> QED
  BY <1>1, <1>2 DEF Settled

\* When nothing waits any more, the engine's account is a description.
LEMMA AllSettled ==
  ASSUME NEW V, NEW S, NEW m, NEW F, NEW Q, Engine(V, S, m, F, Q, {}),
         \A s \in Sides, kind \in Kinds : Values(Q[s][kind]) = {}, \A s \in Sides : F[s] = {}
  PROVE  /\ Describes(S, m)
         /\ Complete(S, m, F, Q) => AllTracked(S, m)
<1>1. \A s \in Sides : Unknown(F, Q)[s] = {} /\ Changing(Q)[s] = {} /\ Removing(Q)[s] = {}
  BY SideFacts DEF Unknown, Changing, Removing, Kinds
<1>2. Sound(V, S, m, Unknown(F, Q), Changing(Q), Removing(Q), {})
  BY DEF Engine
<1> QED
  BY <1>1, <1>2 DEF Sound, PairsOK, Scheduled, Describes, Complete, Covered, AllTracked

\* Metadata that goes with such a description, with pairs of earlier runs.
LEMMA AroundDescribes ==
  ASSUME NEW S, NEW m, NEW N, Describes(S, m), AllTracked(S, m), Around(S, m, N)
  PROVE  Describes(S, N) /\ AllTracked(S, N)
<1> USE SideFacts
<1>1. \A s \in Sides : \A x : Tracks(N, s, x) <=> Tracks(m, s, x)
  <2>1. \A s \in Sides : \A x : Tracks(N, s, x) => Has(S, s, x)
    BY DEF Around, Present, Tracks, Has
  <2>2. \A s \in Sides : \A x : Has(S, s, x) => Tracks(m, s, x)
    BY DEF AllTracked, Has
  <2>3. \A s \in Sides : \A x : Tracks(m, s, x) => Tracks(N, s, x)
    BY DEF Around, Below, Tracks
  <2> QED
    BY <2>1, <2>2, <2>3
<1>2. \A s \in Sides : \A x : Tracks(m, s, x) => N.rev[s][x] = m.rev[s][x]
  BY DEF Around, Below, Tracks
<1>3. \A r : r \in DOMAIN N.map <=> r \in DOMAIN m.map
  <2>1. \A r : r \in DOMAIN N.map <=> Tracks(N, "remote", r)
    BY DEF Around, Memory, Tracks
  <2>2. \A r : r \in DOMAIN m.map <=> Tracks(m, "remote", r)
    BY DEF Describes, Bijective, Mate, Tracks
  <2> QED
    BY <1>1, <2>1, <2>2
<1>4. \A r \in DOMAIN m.map, s \in Sides : Mate(N, r, s) = Mate(m, r, s)
  BY DEF Around, Below, Mate
<1>5. Bijective(N)
  <2>1. \A r \in DOMAIN N.map, s \in Sides : Tracks(N, s, Mate(N, r, s))
    BY <1>1, <1>3, <1>4 DEF Describes, Bijective
  <2>2. \A r, t \in DOMAIN N.map, s \in Sides : Mate(N, r, s) = Mate(N, t, s) => r = t
    BY <1>3, <1>4 DEF Describes, Bijective
  <2>3. \A s \in Sides : \A x \in DOMAIN N.rev[s] : \E r \in DOMAIN N.map : Mate(N, r, s) = x
    <3> SUFFICES ASSUME NEW s \in Sides, NEW x \in DOMAIN N.rev[s] PROVE \E r \in DOMAIN N.map :
                                                                           Mate(N, r, s) = x
      OBVIOUS
    <3>1. x \in DOMAIN m.rev[s]
      BY <1>1 DEF Tracks
    <3>2. PICK r \in DOMAIN m.map : Mate(m, r, s) = x
      BY <3>1 DEF Describes, Bijective
    <3> QED
      BY <1>3, <1>4, <3>2
  <2> QED
    BY <2>1, <2>2, <2>3 DEF Bijective
<1>6. \A s \in Sides : \A x : Knows(S, m, s, x) => Knows(S, N, s, x)
  BY <1>1, <1>2 DEF Knows
<1>7. \A r \in DOMAIN N.map : Settled(S, N, r)
  <2> SUFFICES ASSUME NEW r \in DOMAIN N.map PROVE Settled(S, N, r)
    OBVIOUS
  <2>1. Settled(S, m, r)
    BY <1>3 DEF Describes
  <2>2. r \in DOMAIN m.map /\ N.map[r] = m.map[r]
    BY <1>3, <1>4 DEF Mate
  <2> QED
    BY <1>4, <1>6, <2>1, <2>2 DEF Settled, SameItem
<1> QED
  BY <1>1, <1>5, <1>7 DEF Describes, AllTracked, Around, Memory

\* Nothing tracked of no remote items is a description too.
LEMMA NothingDescribed ==
  ASSUME NEW S, NEW N, Present(S, N), Memory(S, N), DOMAIN S["remote"].items = {}
  PROVE  Describes(S, N) /\ \A s \in Sides : DOMAIN N.rev[s] = {}
<1>1. DOMAIN N.map = {} /\ \A s \in Sides : DOMAIN N.rev[s] = {}
  BY SideFacts DEF Present, Memory
<1> QED
  BY <1>1 DEF Describes, Bijective, Memory

\* At the end of a run the metadata describes what the storages hold.
LEMMA EndFacts ==
  ASSUME TypeInv, RunInv, CleanInv, pc = "tokens"
  PROVE  Describes(store, meta) /\ (NoneUnread /\ ~Unread => AllTracked(store, meta))
<1>1. Quiet
  BY DEF CleanInv, DrainInv
<1>2. \A s \in Sides, kind \in Kinds : Values(queue[s][kind]) = {}
  BY <1>1, QuietFacts
<1>3. CASE hasMeta
  <2>1. FullInv
    BY <1>3 DEF CleanInv
  <2>2. Awaiting = {} /\ \A s \in Sides : fresh[s] = {}
    BY <2>1 DEF FullInv, Awaiting
  <2>3. /\ Engine(View, store, meta, fresh, queue, {})
        /\ (NoneUnread => Complete(store, meta, fresh, queue))
    BY <2>1, <2>2 DEF FullInv
  <2> QED
    BY <1>2, <2>2, <2>3, AllSettled
<1>4. CASE ~hasMeta
  <2>1. FirstInv /\ Memory(store, meta)
    BY <1>4 DEF CleanInv
  <2>2. CASE Cut
    <3>1. DOMAIN store["remote"].items = {} /\ index = <<>> /\ cancelSync
      BY <2>2 DEF Cut
    <3>2. ~Unread => DOMAIN store["local"].items = {}
      BY <1>4, <3>1 DEF Unread
    <3>3. ~Unread => AllTracked(store, meta)
      BY <3>1, <3>2, SideFacts DEF AllTracked
    <3> QED
      BY <2>1, <3>1, <3>3, NothingDescribed DEF FirstInv
  <2>3. CASE \E m, F : FirstSound(m, F)
    <3>1. PICK m, F : FirstSound(m, F)
      BY <2>3
    <3>2. /\ Around(store, m, meta) /\ Engine(View, store, m, F, queue, {})
          /\ Complete(store, m, F, queue) /\ FreshAre(F)
      BY <3>1 DEF FirstSound
    <3>3. \A s \in Sides : F[s] = {}
      <4>1. \A s \in Sides : \A x : ~Unseen(s, x)
        BY DEF Unseen
      <4>2. \A s \in Sides : \A f \in F[s] : Unseen(s, f.id)
        BY <3>2 DEF FreshAre
      <4> QED
        BY <4>1, <4>2
    <3>4. Describes(store, m) /\ AllTracked(store, m)
      BY <1>2, <3>2, <3>3, AllSettled
    <3> QED
      BY <3>2, <3>4, AroundDescribes
  <2> QED
    BY <2>1, <2>2, <2>3 DEF FirstInv
<1> QED
  BY <1>3, <1>4

\* With tokens, it is what the next run needs.
LEMMA TokensSound ==
  ASSUME NEW m, NEW A, NEW all, StoresOK, Describes(store, m), all => AllTracked(store, m)
  PROVE  MetaSound(store, WithTokens(m, A), all)
<1> DEFINE n == WithTokens(m, A)
<1>1. /\ n.rev = m.rev /\ n.map = m.map
      /\ \A s \in Sides : n.token[s] = IF s \in A THEN store[s].clock ELSE 0
  BY DEF WithTokens
<1> HIDE DEF n
<1>2. \A s \in Sides : \A x : Knows(store, n, s, x) <=> Knows(store, m, s, x)
  BY <1>1 DEF Knows, Tracks
<1>3. \A s \in Sides, r \in DOMAIN m.map : Mate(n, r, s) = Mate(m, r, s)
  BY <1>1 DEF Mate
<1>4. Bijective(n) /\ Known(store, n)
  BY <1>1 DEF Describes, Bijective, Known, Tracks, Mate
<1>5. \A s \in Sides : n.token[s] <= store[s].clock
  BY <1>1 DEF StoresOK, StoreOK
<1>6. \A s \in Sides : Seen(store, n, s, all)
  <2> SUFFICES ASSUME NEW s \in Sides PROVE Seen(store, n, s, all)
    OBVIOUS
  <2>1. \A x \in DOMAIN n.rev[s] : Has(store, s, x) /\ store[s].items[x].rev = n.rev[s][x]
    BY <1>1, DescribesKnows DEF Knows
  <2>2. all => \A x \in DOMAIN store[s].items : Tracks(n, s, x)
    BY <1>1 DEF AllTracked, Tracks
  <2> QED
    BY <2>1, <2>2 DEF Seen
<1>7. \A r \in DOMAIN n.map : SameItem(store, n, r)
  BY <1>1 DEF Describes, Settled, SameItem
<1> QED
  BY <1>4, <1>5, <1>6, <1>7 DEF MetaSound, n

ConcludeEnds ==
  /\ pc = "tokens" /\ pc' = "idle" /\ saved' = meta' /\ UNCHANGED <<store, hasMeta, queue>>
  /\ faulty \subseteq faulty' /\ (Unread => "unread" \in faulty')

\* What the end of a run changes.
LEMMA ConcludeFacts ==
  ASSUME Conclude
  PROVE  ConcludeEnds /\ \E A : meta' = WithTokens(meta, A)
<1>1. \A k : Fault(k) => faulty' = faulty \cup k
  BY DEF Fault
<1>2. /\ faulty' = faulty \cup (IF Unread THEN {"unread"} ELSE {})
      /\ \E A : meta' = WithTokens(meta, A)
  <2>1. CASE meta' = WithTokens(meta, Incremental) /\ faulty' = faulty \cup (IF Unread THEN {"unread"} ELSE {})
    BY <2>1
  <2>2. CASE (\E s \in Incremental :
                meta' = WithTokens(meta, Incremental \ {s})) /\ Fault(IF Unread THEN {"unread"} ELSE {})
    BY <2>2, <1>1
  <2> QED
    BY <2>1, <2>2, Zenon DEF Conclude
<1> QED
  BY <1>2 DEF Conclude, Return, ConcludeEnds

\* The end of a run leaves what the next one needs.
LEMMA ConcludeClean == ASSUME TypeInv, TypeInv', RunInv, CleanInv, Conclude PROVE CleanInv'
<1>1. ConcludeEnds
  BY ConcludeFacts
<1>2. PICK A : meta' = WithTokens(meta, A)
  BY ConcludeFacts
<1>3. Describes(store, meta) /\ (NoneUnread /\ ~Unread => AllTracked(store, meta))
  BY <1>1, EndFacts DEF ConcludeEnds
<1>4. NoneUnread' => AllTracked(store, meta)
  BY <1>1, <1>3 DEF ConcludeEnds, NoneUnread
<1>5. MetaSound(store, WithTokens(meta, A), NoneUnread')
  BY <1>3, <1>4, TokensSound DEF TypeInv
<1>6. SavedOK'
  BY <1>1, <1>2, <1>5 DEF SavedOK, ConcludeEnds
<1>7. ~hasMeta' => Memory(store', meta')
  <2>1. ASSUME ~hasMeta PROVE Memory(store', meta')
    <3>1. Memory(store, meta)
      BY <2>1 DEF CleanInv
    <3>2. meta'.rev = meta.rev /\ meta'.map = meta.map /\ store' = store
      BY <1>1, <1>2 DEF WithTokens, ConcludeEnds
    <3> QED
      BY <3>1, <3>2 DEF Memory, Known
  <2> QED
    BY <1>1, <2>1 DEF ConcludeEnds
<1> QED
  BY <1>1, <1>6, <1>7, IdleClean DEF ConcludeEnds

\* What the metadata describes, if it has all, it mirrors.
LEMMA MirrorFacts ==
  ASSUME StoresOK, MetaOK(meta), Describes(store, meta), AllTracked(store, meta)
  PROVE  Mirrored
<1> USE SideFacts
<1>1. \A s \in Sides : \A x \in DOMAIN meta.rev[s] : Knows(store, meta, s, x)
  BY DescribesKnows
<1>2. \A s \in Sides : meta.rev[s] = [id \in DOMAIN store[s].items |-> store[s].items[id].rev]
  <2> SUFFICES ASSUME NEW s \in Sides PROVE meta.rev[s] = [id \in DOMAIN store[s].items |-> store[s].items[id].rev]
    OBVIOUS
  <2>1. DOMAIN meta.rev[s] = DOMAIN store[s].items
    BY <1>1 DEF AllTracked, Tracks, Knows, Has
  <2>2. \A x \in DOMAIN meta.rev[s] : meta.rev[s][x] = store[s].items[x].rev
    BY <1>1 DEF Knows
  <2>3. meta.rev[s] \in [DOMAIN meta.rev[s] -> Nat]
    BY DEF MetaOK, IsMap
  <2> QED
    BY <2>1, <2>2, <2>3
<1>3. /\ \A r \in DOMAIN meta.map :
           r \in DOMAIN meta.rev.remote /\ meta.map[r] \in DOMAIN meta.rev.local
      /\ \A r, t \in DOMAIN meta.map : meta.map[r] = meta.map[t] => r = t
      /\ \A r \in DOMAIN meta.rev.remote : r \in DOMAIN meta.map
      /\ \A l \in DOMAIN meta.rev.local : \E r \in DOMAIN meta.map : meta.map[r] = l
  <2>1. \A r : Mate(meta, r, "remote") = r /\ Mate(meta, r, "local") = meta.map[r]
    BY DEF Mate
  <2>2. \A r \in DOMAIN meta.map : Tracks(meta, "remote", r) /\ Tracks(meta, "local", meta.map[r])
    BY <2>1 DEF Describes, Bijective
  <2>3. \A r, t \in DOMAIN meta.map : meta.map[r] = meta.map[t] => r = t
    <3>1. \A r, t \in DOMAIN meta.map : Mate(meta, r, "local") = Mate(meta, t, "local") => r = t
      BY DEF Describes, Bijective
    <3> QED
      BY <2>1, <3>1
  <2>4. /\ \A x \in DOMAIN meta.rev["remote"] :
             \E r \in DOMAIN meta.map : Mate(meta, r, "remote") = x
        /\ \A x \in DOMAIN meta.rev["local"] : \E r \in DOMAIN meta.map : Mate(meta, r, "local") = x
    BY DEF Describes, Bijective
  <2> QED
    BY <2>1, <2>2, <2>3, <2>4 DEF Tracks
<1>4. DOMAIN meta.map = DOMAIN meta.rev.remote
  BY <1>3
<1>5. {meta.map[r] : r \in DOMAIN meta.map} = DOMAIN meta.rev.local
  BY <1>3
<1>6. Cardinality(DOMAIN meta.map) = Cardinality(DOMAIN meta.rev.local)
  <2>1. IsFiniteSet(DOMAIN meta.map)
    <3>1. DOMAIN meta.map \subseteq 1..store["remote"].clock /\ store["remote"].clock \in Nat
      BY <1>1, <1>4 DEF Knows, Has, StoresOK, StoreOK, IsMap
    <3>a. 1 \in Int /\ store["remote"].clock \in Int
      BY <3>1
    <3>2. IsFiniteSet(1..store["remote"].clock)
      BY ONLY <3>a, FS_Interval
    <3> QED
      BY <3>1, <3>2, FS_Subset
  <2>2. ExistsBijection(DOMAIN meta.map, DOMAIN meta.rev.local)
    <3>1. meta.map \in [DOMAIN meta.map -> DOMAIN meta.rev.local]
      BY <1>3 DEF MetaOK, IsMap
    <3>2. meta.map \in Bijection(DOMAIN meta.map, DOMAIN meta.rev.local)
      BY <1>3, <3>1 DEF Bijection, Injection, Surjection, IsInjective
    <3> QED
      BY <3>2 DEF ExistsBijection
  <2> QED
    BY <2>1, <2>2, FS_Bijection
<1>7. \A r \in DOMAIN meta.map : store.remote.items[r].item = store.local.items[meta.map[r]].item
  BY DEF Describes, Settled, SameItem
<1> QED
  BY <1>2, <1>4, <1>5, <1>6, <1>7 DEF Mirrored

\* A run that ends with success has mirrored both sides.
LEMMA ConcludeMirrors ==
  ASSUME TypeInv, TypeInv', RunInv, Clean => CleanInv, Conclude
  PROVE  MirrorInv'
<1> SUFFICES ASSUME faulty' = {} PROVE Mirrored'
  BY DEF MirrorInv
<1>1. ConcludeEnds
  BY ConcludeFacts
<1>2. PICK A : meta' = WithTokens(meta, A)
  BY ConcludeFacts
<1>3. CleanInv /\ NoneUnread /\ ~Unread
  BY <1>1 DEF ConcludeEnds, Clean, NoneUnread
<1>4. Describes(store, meta) /\ AllTracked(store, meta)
  BY <1>1, <1>3, EndFacts DEF ConcludeEnds
<1>5. StoresOK /\ MetaOK(meta)
  BY DEF TypeInv, PlainOK
<1>6. Mirrored
  BY <1>4, <1>5, MirrorFacts
<1>7. meta'.rev = meta.rev /\ meta'.map = meta.map /\ store' = store
  BY <1>1, <1>2 DEF WithTokens, ConcludeEnds
<1> QED
  BY <1>6, <1>7 DEF Mirrored

\* No other step ends a run with success, or changes what one left.
LEMMA MirrorStep ==
  ASSUME TypeInv, TypeInv', RunInv, Clean => CleanInv, MirrorInv, [Next]_vars
  PROVE  MirrorInv'
<1>1. CASE Conclude
  BY <1>1, ConcludeMirrors
<1>2. CASE UNCHANGED vars
  <2>1. UNCHANGED <<pc, result, faulty, store, meta>>
    BY <1>2 DEF vars, engineVars, faultVars
  <2> QED
    BY <2>1 DEF MirrorInv, Done, Mirrored
<1>3. CASE StorageInitFails \/ Edit \/ Restart \/ Crash
  <2>1. result' \notin Ok
    BY <1>3 DEF StorageInitFails, Edit, Restart, Crash, Forget, Ok
  <2> QED
    BY <2>1 DEF MirrorInv, Done
<1>4. CASE Cancel
  BY <1>4 DEF Cancel, MirrorInv, Done
<1>5. CASE NoticeCancel
  <2>1. result' = Outcome /\ Outcome \in {"Fail", "Cancelled"}
    BY <1>5 DEF NoticeCancel, Return, Outcome
  <2> QED
    BY <2>1 DEF MirrorInv, Done, Ok
<1>6. CASE \E s \in Sides : Fetch(s)
  <2>1. PICK s \in Sides : Fetch(s)
    BY <1>6
  <2>2. \/ pc' \in {"fetchRemote", "resolve"}
        \/ Fault({"items"})
        \/ Return("Fail")
    BY <2>1 DEF Fetch
  <2>3. Return("Fail") => result' \notin Ok
    BY DEF Return, Ok
  <2>4. Fault({"items"}) => faulty' # {}
    BY DEF Fault
  <2> QED
    BY <2>2, <2>3, <2>4 DEF MirrorInv, Done
<1>7. ASSUME pc' # "idle" PROVE MirrorInv'
  BY <1>7 DEF MirrorInv, Done
<1>8. CASE Synchronize \/ BuildIndex \/ ScanDone \/ RestDone \/ NextClass \/ MatchDone
  <2>1. pc' # "idle"
    BY <1>8 DEF Synchronize, BuildIndex, ScanDone, RestDone, NextClass, MatchDone
  <2> QED
    BY <1>7, <2>1
<1>9. CASE \E e \in todo : ScanRemote(e) \/ AddRest(e)
  <2>1. pc' # "idle"
    BY <1>9 DEF ScanRemote, AddRest
  <2> QED
    BY <1>7, <2>1
<1>10. CASE FlushNext
  <2>1. pc \in DOMAIN AfterFlush /\ (pc' = pc \/ pc' = AfterFlush[pc])
    BY <1>10, Zenon DEF FlushNext
  <2>2. pc' # "idle"
    BY <2>1, AfterFlushFacts
  <2> QED
    BY <1>7, <2>2
<1>11. CASE \E s \in Sides : Detect(s)
  <2>1. pc' # "idle"
    BY <1>11 DEF Detect
  <2> QED
    BY <1>7, <2>1
<1>12. CASE \E pair \in todo : \/ ForgetPair(pair) \/ KeepBoth(pair)
                               \/ \E s \in Sides :
                                    RemoveCounterpart(s, pair) \/ RestoreItem(s, pair) \/ PropagateChange(s, pair)
  <2>1. \E c, pair : Resolve(c, pair)
    BY <1>12 DEF ForgetPair, KeepBoth, RemoveCounterpart, RestoreItem, PropagateChange
  <2>2. pc' # "idle"
    BY <2>1 DEF Resolve
  <2> QED
    BY <1>7, <2>2
<1>13. CASE (\E obj \in fresh.local : MatchFresh(obj)) \/ (\E obj \in fresh.remote : AddFresh(obj))
  <2>1. pc' # "idle"
    BY <1>13 DEF MatchFresh, AddFresh
  <2> QED
    BY <1>7, <2>1
<1>14. CASE Run
  BY <1>14, <1>1, <1>5, <1>6, <1>8, <1>9, <1>10, <1>11, <1>12, <1>13, Zenon DEF Run
<1> QED
  BY <1>2, <1>3, <1>4, <1>14 DEF Next
-----------------------------------------------------------------------------
(* A following synchronization.                                            *)

\* The invariant within a following synchronization, once it resolves.
LEMMA FullClean ==
  ASSUME SavedOK', DrainInv', RemsAsked', FullInv', hasMeta', pc' \in Resolving \cup {"tokens"}
  PROVE  CleanInv'
<1>1. pc' \notin Detecting
  BY PcFacts
<1> QED
  BY <1>1 DEF CleanInv, SavedOK

\* And while it detects changes.
LEMMA DetectingClean ==
  ASSUME SavedOK', DrainInv', RemsAsked', DetectInv', hasMeta', pc' \in Detecting
  PROVE  CleanInv'
<1>1. pc' \notin Resolving \cup {"tokens"}
  BY PcFacts
<1> QED
  BY <1>1 DEF CleanInv, SavedOK

\* What a queue of removals loses does not matter.
LEMMA RemsKept ==
  ASSUME RemsAsked, begun' = begun, \A s \in Sides :
                                      Values(queue'[s]["rem"]) \subseteq Values(queue[s]["rem"])
  PROVE  RemsAsked'
<1>1. \A s, x : GivesWay(s, x)' <=> GivesWay(s, x)
  BY DEF GivesWay, Unchanged, Partners
<1> QED
  BY <1>1 DEF RemsAsked

\* What such a run keeps of the metadata saved.
LEMMA FullSaved ==
  ASSUME TypeInv, TypeInv', CleanInv, saved' = saved, Kin, NoneUnread' => NoneUnread
  PROVE  SavedOK'
<1>1. StoresOK' /\ SavedOK
  BY DEF TypeInv, CleanInv, SavedOK
<1> QED
  BY <1>1, SavedKept

\* Its invariant, in a state before the end.
LEMMA FullFacts ==
  ASSUME TypeInv, RunInv, CleanInv, pc \in Resolving
  PROVE  /\ hasMeta /\ DrainInv /\ RemsAsked
         /\ Engine(View, store, meta, fresh, queue, Awaiting)
         /\ (NoneUnread => Complete(store, meta, fresh, queue))
         /\ pc = "resolve" => Lineage /\ FoundOut
         /\ pc = "saveAll" => \A s \in Sides : fresh[s] = {}
         /\ pc # "resolve" => Awaiting = {}
  BY PcFacts DEF RunInv, CleanInv, FullInv, Awaiting

\* The end of the matching keeps it.
LEMMA MatchDoneClean ==
  ASSUME TypeInv, TypeInv', RunInv, PlanInv, CleanInv, MatchDone
  PROVE  CleanInv'
<1>1. /\ pc = "match" /\ pc' = "saveAll" /\ fresh.local = {} /\ fresh.remote = {}
      /\ UNCHANGED <<store, saved, meta, hasMeta, queue, plan, todo, state, fresh, changed, class,
                     begun, faulty>>
  BY DEF MatchDone, engineVars, scanVars, fullVars, faultVars, histVars
<1>2. pc \in Resolving /\ pc' \in Resolving
  BY <1>1 DEF Resolving
<1>3. /\ hasMeta /\ DrainInv /\ RemsAsked
      /\ Engine(View, store, meta, fresh, queue, {})
      /\ (NoneUnread => Complete(store, meta, fresh, queue))
  BY <1>1, <1>2, FullFacts
<1>4. DrainInv'
  <2>1. plan' = 0
    BY <1>1, AfterFlushFacts DEF PlanInv
  <2>2. pc' \notin Detecting
    BY <1>2, PcFacts
  <2> QED
    BY <1>1, <1>3, <2>1, <2>2 DEF DrainInv
<1>5. FullInv'
  <2>1. Awaiting' = {} /\ View' = View /\ (NoneUnread' => NoneUnread)
    BY <1>1 DEF Awaiting, View, NoneUnread
  <2>2. \A s \in Sides : fresh'[s] = {}
    BY <1>1 DEF Sides
  <2> QED
    BY <1>1, <1>3, <2>1, <2>2 DEF FullInv
<1>6. SavedOK'
  <2>1. Kin /\ (NoneUnread' => NoneUnread)
    BY <1>1, SameKin DEF TypeInv, NoneUnread
  <2> QED
    BY <1>1, <2>1, FullSaved
<1>7. RemsAsked'
  BY <1>1, <1>3, RemsKept
<1> QED
  BY <1>1, <1>2, <1>3, <1>4, <1>5, <1>6, <1>7, FullClean

-----------------------------------------------------------------------------
(* Its flushes.                                                            *)

\* So do the flushes at the end.
LEMMA FlushAllClean ==
  ASSUME TypeInv, TypeInv', RunInv, PlanInv, CleanInv, Clean', FlushNext, hasMeta
  PROVE  CleanInv'
<1>1. pc = "saveAll" /\ UNCHANGED <<saved, hasMeta, state, fresh, changed, begun>>
  <2>1. pc \in DOMAIN AfterFlush /\ UNCHANGED <<saved, hasMeta, state, fresh, changed, begun>>
    BY Zenon DEF FlushNext, fullVars, histVars
  <2>2. pc \notin FirstPcs
    BY DEF RunInv
  <2> QED
    BY <2>1, <2>2, AfterFlushFacts DEF FirstPcs
<1>2. pc \in Resolving
  BY <1>1 DEF Resolving
<1>3. /\ DrainInv /\ RemsAsked /\ \A s \in Sides : fresh[s] = {}
      /\ Engine(View, store, meta, fresh, queue, {})
      /\ (NoneUnread => Complete(store, meta, fresh, queue))
  BY <1>1, <1>2, FullFacts
<1>4. View' = View /\ \A s \in Sides : fresh'[s] = {}
  BY <1>1, <1>3 DEF View
<1>5. CASE FlushesOver
  <2>1. /\ pc' = "tokens" /\ UNCHANGED <<store, meta, queue, faultVars>>
        /\ \A j \in 1..6 : queue[Flushes["saveAll"][j][1]][Flushes["saveAll"][j][2]] = <<>>
    BY <1>1, <1>5, AfterFlushFacts, FlushesFacts DEF FlushesOver, FlushQueue
  <2>2. Quiet
    <3>1. /\ queue["local"]["add"] = <<>> /\ queue["local"]["mod"] = <<>>
          /\ queue["local"]["rem"] = <<>>
          /\ queue["remote"]["add"] = <<>> /\ queue["remote"]["mod"] = <<>>
          /\ queue["remote"]["rem"] = <<>>
      BY <2>1, FlushesFacts
    <3> QED
      BY <3>1 DEF Quiet, Sides, Kinds
  <2>3. Quiet'
    BY <2>1, <2>2 DEF Quiet
  <2>4. DrainInv'
    BY <1>1, <2>1, <2>3, AfterFlushFacts DEF DrainInv
  <2>5. FullInv'
    <3>1. Awaiting' = {} /\ (NoneUnread' => NoneUnread)
      BY <2>1 DEF Awaiting, NoneUnread, faultVars
    <3> QED
      BY <1>1, <1>3, <1>4, <2>1, <3>1 DEF FullInv
  <2>6. SavedOK'
    <3>1. Kin /\ (NoneUnread' => NoneUnread)
      BY <2>1, SameKin DEF TypeInv, NoneUnread, faultVars
    <3> QED
      BY <1>1, <3>1, FullSaved
  <2>7. RemsAsked'
    BY <1>1, <1>3, <2>1, RemsKept
  <2> QED
    BY <1>1, <2>1, <2>4, <2>5, <2>6, <2>7, FullClean
<1>6. CASE \E k, s, kind : s \in Sides /\ kind \in Kinds /\ FlushAt(k, s, kind)
  <2>1. PICK k, s, kind : s \in Sides /\ kind \in Kinds /\ FlushAt(k, s, kind)
    BY <1>6
  <2>2. Flush(s, kind, queue[s][kind], meta) /\ UNCHANGED <<pc, todo>>
    BY <2>1 DEF FlushAt
  <2>3. FlushEnds(View, meta, fresh, queue, {}, s, kind, meta') /\ FlushLeaves(queue, s, kind)
    <3>1. StoresOK /\ QueuesOK /\ MetaOK(meta) /\ "flush" \notin faulty'
      BY DEF TypeInv, PlainOK, Clean
    <3>2. queue[s][kind] \in Seq(EntryType[kind]) /\ LikeQueue(queue, s, kind)
      BY <2>1, <3>1 DEF QueuesOK, QueueOK, LikeQueue
    <3> QED
      BY ONLY <1>3, <2>1, <2>2, <3>1, <3>2, FlushSound
  <2>4. /\ Engine(View', store', meta', fresh', queue', {}) /\ Kin
        /\ Complete(store, meta, fresh, queue) => Complete(store', meta', fresh', queue')
    BY <1>1, <1>4, <2>3 DEF FlushEnds, Kin
  <2>5. /\ queue'[s][kind] = <<>> /\ UNCHANGED <<faultVars>>
        /\ \A t \in Sides, k1 \in Kinds : t # s \/ k1 # kind => queue'[t][k1] = queue[t][k1]
    BY <2>3 DEF FlushLeaves
  <2>6. DrainInv'
    <3>1. \A j \in 1..plan' : queue'[Flushes[pc'][j][1]][Flushes[pc'][j][2]] = <<>>
      <4>1. pc \in DOMAIN AfterFlush
        BY <1>1, AfterFlushFacts
      <4> QED
        BY <2>1, <2>3, <4>1, FlushDrains
    <3>2. pc' = "saveAll" /\ pc' \notin Detecting
      BY <1>1, <2>2 DEF Detecting
    <3> QED
      BY <1>1, <3>1, <3>2 DEF DrainInv
  <2>7. FullInv'
    <3>1. Awaiting' = {} /\ pc' = "saveAll" /\ (NoneUnread' => NoneUnread)
      BY <1>1, <2>2, <2>5 DEF Awaiting, NoneUnread, faultVars
    <3> QED
      BY <1>3, <1>4, <2>4, <3>1 DEF FullInv
  <2>8. SavedOK'
    <3>1. NoneUnread' => NoneUnread
      BY <2>5 DEF NoneUnread, faultVars
    <3> QED
      BY <1>1, <2>4, <3>1, FullSaved
  <2>9. RemsAsked'
    <3>1. \A t \in Sides : queue'[t]["rem"] = <<>> \/ queue'[t]["rem"] = queue[t]["rem"]
      BY <2>5 DEF Kinds
    <3>2. \A t \in Sides : Values(queue'[t]["rem"]) \subseteq Values(queue[t]["rem"])
      BY <3>1, EmptyValues
    <3> QED
      BY <1>1, <1>3, <3>2, RemsKept
  <2>10. pc' \in Resolving
    BY <1>1, <2>2 DEF Resolving
  <2> QED
    BY <1>1, <2>6, <2>7, <2>8, <2>9, <2>10, FullClean
<1> QED
  BY <1>3, <1>5, <1>6, FlushPlan
-----------------------------------------------------------------------------
(* Loop after loop over the pairs.                                         *)

\* The loops, one for each pair of states that asks for something.
LEMMA ClassesFacts ==
  /\ Len(Classes) = 8 /\ DOMAIN Classes = 1..8
  /\ Classes[1].remote = "NotPresent" /\ Classes[1].local = "NotPresent"
  /\ Classes[2].remote = "NotPresent" /\ Classes[2].local = "NotChanged"
  /\ Classes[3].remote = "NotChanged" /\ Classes[3].local = "NotPresent"
  /\ Classes[4].remote = "NotPresent" /\ Classes[4].local = "Modified"
  /\ Classes[5].remote = "Modified" /\ Classes[5].local = "NotPresent"
  /\ Classes[6].remote = "NotChanged" /\ Classes[6].local = "Modified"
  /\ Classes[7].remote = "Modified" /\ Classes[7].local = "NotChanged"
  /\ Classes[8].remote = "Modified" /\ Classes[8].local = "Modified"
  BY DEF Classes

\* What a loop runs over.
LEMMA ItemsFacts ==
  ASSUME NEW c, NEW p
  PROVE  p \in ItemsWithState(c) <=> \E r \in DOMAIN meta.map :
                                       p = <<r, meta.map[r]>> /\ PairIs(r, meta.map[r], c)
  BY DEF ItemsWithState, PairIs

\* What the last loop left is the next one's.
NextLoop(c) ==
  /\ c \in class + 1 .. 8 /\ \A d \in class + 1 .. c - 1 : ItemsWithState(Classes[d]) = {}
  /\ class' = c /\ todo' = ItemsWithState(Classes[c]) /\ pc' = pc

\* What the beginning of a loop changes.
LEMMA NextClassFacts ==
  ASSUME TypeInv, NextClass
  PROVE  /\ pc = "resolve" /\ todo = {}
         /\ UNCHANGED <<store, saved, meta, hasMeta, queue, plan, state, fresh, changed, begun,
                        faultVars>>
         /\ \/ /\ pc' = "match" /\ UNCHANGED <<todo, class>>
               /\ \A c \in class + 1 .. 8 : ItemsWithState(Classes[c]) = {}
            \/ \E c : NextLoop(c)
<1> DEFINE left == {c \in class + 1 .. Len(Classes) : ItemsWithState(Classes[c]) # {}}
<1>1. /\ pc = "resolve" /\ todo = {}
      /\ UNCHANGED <<store, saved, meta, hasMeta, queue, plan, state, fresh, changed, begun,
                     faultVars>>
  BY DEF NextClass, engineVars, fullVars, histVars
<1>2. Len(Classes) = 8 /\ class \in 0..8
  BY ClassesFacts DEF TypeInv, PlaceOK
<1>3. CASE left = {}
  <2>1. pc' = "match" /\ UNCHANGED <<todo, class>>
    BY <1>3 DEF NextClass
  <2> QED
    BY <1>1, <1>2, <1>3, <2>1
<1>4. CASE left # {}
  <2>1. class' = Least(left) /\ todo' = ItemsWithState(Classes[class']) /\ pc' = pc
    BY <1>4 DEF NextClass
  <2>2. left \subseteq Nat
    BY <1>2
  <2>3. Least(left) \in left /\ \A n \in left : Least(left) <= n
    BY <1>4, <2>2, LeastFacts
  <2>4. \A d \in class + 1 .. Least(left) - 1 : d \in class + 1 .. 8 /\ d \notin left
    BY <1>2, <2>3
  <2>5. NextLoop(Least(left))
    BY <1>2, <2>1, <2>3, <2>4 DEF NextLoop
  <2> QED
    BY <1>1, <2>5
<1> QED
  BY <1>3, <1>4

\* The beginning of a loop, and the end of the last one, keep the invariant.
LEMMA NextClassClean ==
  ASSUME TypeInv, TypeInv', RunInv, PlanInv, CleanInv, NextClass
  PROVE  CleanInv'
<1>1. /\ pc = "resolve" /\ todo = {}
      /\ UNCHANGED <<store, saved, meta, hasMeta, queue, plan, state, fresh, changed, begun,
                     faultVars>>
  BY NextClassFacts
<1>2. pc \in Resolving /\ class \in 0..8
  BY <1>1 DEF Resolving, TypeInv, PlaceOK
<1>3. /\ hasMeta /\ DrainInv /\ RemsAsked /\ Lineage /\ FoundOut
      /\ Engine(View, store, meta, fresh, queue, Awaiting)
      /\ (NoneUnread => Complete(store, meta, fresh, queue))
  BY <1>1, <1>2, FullFacts
<1>4. /\ \A r \in Awaiting :
           r \in DOMAIN meta.map /\ r \in DOMAIN saved.map /\ meta.map[r] = saved.map[r] /\ Awaits(r)
  <2>1. \A r \in Awaiting : r \in DOMAIN meta.map
    BY <1>3 DEF Engine, Sound, WaitsOK
  <2> QED
    BY <1>1, <1>3, <2>1 DEF Lineage, Awaiting
<1>5. /\ \A r \in Awaiting :
           \E c \in class + 1 .. 8 :
             PairIs(r, meta.map[r], Classes[c]) /\ <<r, meta.map[r]>> \in ItemsWithState(Classes[c])
  <2> SUFFICES ASSUME NEW r \in Awaiting
               PROVE  \E c \in class + 1 .. 8 :
                        PairIs(r, meta.map[r], Classes[c]) /\ <<r, meta.map[r]>> \in ItemsWithState(Classes[c])
    OBVIOUS
  <2>1. PICK c \in class + 1 .. 8 : PairIs(r, saved.map[r], Classes[c])
    BY <1>1, <1>4 DEF Awaits
  <2>2. <<r, meta.map[r]>> \in ItemsWithState(Classes[c])
    BY <1>4, <2>1, ItemsFacts
  <2> QED
    BY <1>4, <2>1, <2>2
<1>6. View' = View /\ Kin /\ (NoneUnread' => NoneUnread)
  BY <1>1, SameKin DEF View, TypeInv, NoneUnread, faultVars
<1>7. \A s, x : StateOf(s, x)' = StateOf(s, x)
  BY <1>1 DEF StateOf
<1>8. SavedOK'
  BY <1>1, <1>6, FullSaved
<1>9. RemsAsked'
  BY <1>1, <1>3, RemsKept
<1>10. CASE pc' = "match" /\ UNCHANGED <<todo,
                                         class>> /\ \A c \in class + 1 .. 8 :
                                                      ItemsWithState(Classes[c]) = {}
  <2>1. Awaiting = {} /\ Awaiting' = {}
    BY <1>5, <1>10 DEF Awaiting
  <2>2. FullInv'
    BY <1>1, <1>3, <1>6, <1>10, <2>1 DEF FullInv
  <2>3. DrainInv'
    BY <1>1, <1>3, <1>10, AfterFlushFacts DEF DrainInv, Detecting
  <2>4. pc' \in Resolving
    BY <1>10 DEF Resolving
  <2> QED
    BY <1>1, <1>3, <1>8, <1>9, <2>2, <2>3, <2>4, FullClean
<1>11. CASE \E c : NextLoop(c)
  <2>1. PICK c : NextLoop(c)
    BY <1>11
  <2>2. /\ c \in 1..8 /\ class < c /\ class' = c /\ pc' = "resolve"
        /\ todo' = ItemsWithState(Classes[c])
        /\ \A d \in class + 1 .. 8 : d < c => ItemsWithState(Classes[d]) = {}
    BY <1>1, <1>2, <2>1 DEF NextLoop
  <2>3. \A r \in Awaiting' : r \in Awaiting
    <3> SUFFICES ASSUME NEW r \in Awaiting' PROVE r \in Awaiting
      OBVIOUS
    <3>1. /\ r \in DOMAIN saved.map
          /\ (<<r, saved.map[r]>> \in todo' \/ \E d \in class' + 1 .. 8 :
                                                 PairIs(r, saved.map[r], Classes[d])')
      BY <1>1, <2>2 DEF Awaiting, Awaits
    <3>2. \A d : PairIs(r, saved.map[r], d)' <=> PairIs(r, saved.map[r], d)
      BY <1>1, <1>7 DEF PairIs
    <3>3. <<r, saved.map[r]>> \in todo' => PairIs(r, saved.map[r], Classes[c])
      <4>1. ASSUME <<r, saved.map[r]>> \in todo' PROVE PairIs(r, saved.map[r], Classes[c])
        <5>1. PICK q \in DOMAIN meta.map : <<r, saved.map[r]>> = <<q, meta.map[q]>> /\ PairIs(q, meta.map[q], Classes[c])
          BY <2>2, <4>1, ItemsFacts
        <5> QED
          BY <5>1
      <4> QED
        BY <4>1
    <3>4. \E d \in class + 1 .. 8 : PairIs(r, saved.map[r], Classes[d])
      <4>1. CASE <<r, saved.map[r]>> \in todo'
        <5>1. c \in class + 1 .. 8
          BY <1>2, <2>2
        <5> QED
          BY <3>3, <4>1, <5>1
      <4>2. CASE \E d \in class' + 1 .. 8 : PairIs(r, saved.map[r], Classes[d])'
        <5>1. PICK d \in class' + 1 .. 8 : PairIs(r, saved.map[r], Classes[d])'
          BY <4>2
        <5>2. d \in class + 1 .. 8
          BY <1>2, <2>2
        <5>3. Classes[d]' = Classes[d]
          BY DEF Classes
        <5> QED
          BY <3>2, <5>1, <5>2, <5>3
      <4> QED
        BY <3>1, <4>1, <4>2
    <3> QED
      BY <1>1, <3>1, <3>4 DEF Awaiting, Awaits
  <2>4. \A r \in Awaiting : r \in Awaiting'
    <3> SUFFICES ASSUME NEW r \in Awaiting PROVE r \in Awaiting'
      OBVIOUS
    <3>1. PICK d \in class + 1 .. 8 : PairIs(r, meta.map[r], Classes[d]) /\ <<r, meta.map[r]>> \in ItemsWithState(Classes[d])
      BY <1>5
    <3>2. d = c \/ d \in class' + 1 .. 8
      <4>1. ~(d < c)
        BY <2>2, <3>1
      <4> QED
        BY <1>2, <2>2, <4>1
    <3>3. PairIs(r, saved.map[r], Classes[d])'
      BY <1>1, <1>4, <1>7, <3>1 DEF PairIs, Classes
    <3>4. /\ <<r, saved'.map[r]>> \in todo' \/ \E k \in class' + 1 .. 8 :
                                                 PairIs(r, saved.map[r], Classes[k])'
      BY <1>1, <1>4, <2>2, <3>1, <3>2, <3>3
    <3>5. r \in DOMAIN saved'.map
      BY <1>1, <1>4
    <3> QED
      BY <2>2, <3>4, <3>5 DEF Awaiting, Awaits
  <2>5. Awaiting' = Awaiting
    BY <2>3, <2>4
  <2>6. Lineage'
    <3>1. \A r \in Awaiting' : meta'.map[r] = saved'.map[r]
      BY <1>1, <1>4, <2>5
    <3>2. \A r, l : Young(r, l) => Young(r, l)'
      BY <1>2, <1>7, <2>2 DEF Young
    <3>3. \A r \in DOMAIN meta'.map : Inherited(r)' \/ Young(r, meta.map[r])'
      <4>1. \A r : Inherited(r)' <=> Inherited(r)
        BY <1>1 DEF Inherited
      <4>2. \A r \in DOMAIN meta.map : Inherited(r) \/ Young(r, meta.map[r])
        BY <1>3 DEF Lineage
      <4> QED
        BY <1>1, <3>2, <4>1, <4>2
    <3>4. \A p \in todo' : p[1] \in DOMAIN saved'.map /\ p = <<p[1], saved'.map[p[1]]>>
      <4> SUFFICES ASSUME NEW p \in todo' PROVE p[1] \in DOMAIN saved'.map /\ p = <<p[1], saved'.map[p[1]]>>
        OBVIOUS
      <4>1. PICK r \in DOMAIN meta.map : p = <<r, meta.map[r]>> /\ PairIs(r, meta.map[r], Classes[c])
        BY <2>2, ItemsFacts
      <4>2. ~Young(r, meta.map[r])
        <5>1. /\ Classes[c].remote = StateOf("remote", r)
              /\ Classes[c].local = StateOf("local", meta.map[r])
          BY <4>1 DEF PairIs
        <5>2. ASSUME class >= 4, Classes[c].remote = "NotPresent", Classes[c].local = "Modified" PROVE FALSE
          <6>1. c = 5 \/ c = 6 \/ c = 7 \/ c = 8
            BY <1>2, <2>2, <5>2
          <6> QED
            BY <5>2, <6>1, ClassesFacts
        <5>3. ASSUME class >= 5, Classes[c].remote = "Modified", Classes[c].local = "NotPresent" PROVE FALSE
          <6>1. c = 6 \/ c = 7 \/ c = 8
            BY <1>2, <2>2, <5>3
          <6> QED
            BY <5>3, <6>1, ClassesFacts
        <5> QED
          BY <5>1, <5>2, <5>3 DEF Young
      <4>3. Inherited(r)
        BY <1>3, <4>1, <4>2 DEF Lineage
      <4> QED
        BY <1>1, <4>1, <4>3 DEF Inherited
    <3>5. \A s \in Sides : \A e \in Values(queue'[s]["add"]) :
            StateOf(Other(s), e.id)' = "Modified" /\ class' >= (IF s = "remote" THEN 4 ELSE 5)
      <4>1. \A s \in Sides : \A e \in Values(queue[s]["add"]) :
              StateOf(Other(s), e.id) = "Modified" /\ class >= (IF s = "remote" THEN 4 ELSE 5)
        BY <1>3 DEF Lineage
      <4> SUFFICES ASSUME NEW s \in Sides, NEW e \in Values(queue'[s]["add"])
                   PROVE  StateOf(Other(s), e.id)' = "Modified" /\ class' >= (IF s = "remote" THEN 4 ELSE 5)
        OBVIOUS
      <4>2. StateOf(Other(s), e.id) = "Modified" /\ class >= (IF s = "remote" THEN 4 ELSE 5)
        BY <1>1, <4>1
      <4> QED
        BY <1>2, <1>7, <2>2, <4>2
    <3> QED
      BY <3>1, <3>3, <3>4, <3>5 DEF Lineage
  <2>7. FoundOut'
    BY <1>1, <1>3, <1>7 DEF FoundOut, Unchanged
  <2>8. FullInv'
    BY <1>1, <1>3, <1>6, <2>2, <2>5, <2>6, <2>7 DEF FullInv
  <2>9. DrainInv'
    BY <1>1, <1>3, <2>2, AfterFlushFacts DEF DrainInv, Detecting
  <2>10. pc' \in Resolving
    BY <2>2 DEF Resolving
  <2> QED
    BY <1>1, <1>3, <1>8, <1>9, <2>8, <2>9, <2>10, FullClean
<1> QED
  BY <1>10, <1>11, NextClassFacts
-----------------------------------------------------------------------------
(* Detecting changes.                                                      *)

\* What is known when it begins.
LEMMA DetectingFacts ==
  ASSUME TypeInv, RunInv, CleanInv, pc \in Detecting
  PROVE  /\ hasMeta /\ meta = saved /\ begun.meta = saved /\ class = 0 /\ todo = {}
         /\ DrainInv /\ Quiet /\ RemsAsked /\ DetectInv /\ SavedOK
         /\ MetaSound(store, meta, NoneUnread)
<1>1. hasMeta /\ meta = saved /\ begun.meta = saved /\ class = 0 /\ saved # NoMeta /\ todo = {}
  BY PcFacts DEF RunInv, TypeInv, PlaceOK
<1> QED
  BY <1>1, PcFacts DEF CleanInv, DrainInv, SavedOK

\* What asking a storage for all revisions finds out.
LEMMA RevisionsFacts ==
  ASSUME NEW s, NEW n
  PROVE  /\ \A x : x \in DOMAIN Revisions(s, n) <=> Has(store, s, x) /\ store[s].items[x].rev > n
         /\ \A x \in DOMAIN Revisions(s, n) : Revisions(s, n)[x] = store[s].items[x].rev
  BY DEF Revisions, Has

\* getChangedRevisions() reports what changed after the token was given out,
\* getRevisions() all items; both are exact.
Exact(s, r, st) ==
  /\ \A x \in DOMAIN r : Has(store, s, x) /\ r[x] = store[s].items[x].rev
  /\ DOMAIN meta.rev[s] \subseteq DOMAIN st
  /\ \A x \in DOMAIN st : x <= store[s].clock
  /\ \A x \in DOMAIN st : x \notin DOMAIN r =>
        \/ st[x] = "NotPresent" /\ ~Has(store, s, x)
        \/ st[x] = "NotChanged" /\ Knows(store, meta, s, x)
  /\ NoneUnread => \A x \in DOMAIN store[s].items : Tracks(meta, s, x) \/ x \in DOMAIN r

DetectMade(s, r, st) == revs' = [revs EXCEPT ![s] = r] /\ state' = [state EXCEPT ![s] = st] /\ Exact(s, r, st)

\* What asking for the changes since a token finds out is exact.
LEMMA ChangesExact ==
  ASSUME StoresOK, PlainOK, NEW s \in Sides, MetaSound(store, meta, NoneUnread), DetectChanges(s)
  PROVE  \E r, st : DetectMade(s, r, st)
<1> DEFINE removed == {id \in DOMAIN store[s].gone : store[s].gone[id] > meta.token[s]}
           st == [id \in DOMAIN meta.rev[s] \cup removed |-> IF id \in removed THEN "NotPresent" ELSE "NotChanged"]
           r == Revisions(s, meta.token[s])
<1>1. /\ s \in Incremental /\ meta.token[s] # 0 /\ revs' = [revs EXCEPT ![s] = r]
      /\ state' = [state EXCEPT ![s] = st]
  BY DEF DetectChanges
<1>2. /\ \A x \in DOMAIN meta.rev[s] :
           \/ x \in DOMAIN store[s].gone /\ meta.token[s] < store[s].gone[x]
           \/ Has(store, s, x) /\ (meta.token[s] < store[s].items[x].rev \/ store[s].items[x].rev = meta.rev[s][x])
      /\ NoneUnread => \A x \in DOMAIN store[s].items :
                         Tracks(meta, s, x) \/ meta.token[s] < store[s].items[x].rev
      /\ \A x \in DOMAIN meta.rev[s] : x <= store[s].clock
  BY <1>1 DEF MetaSound, Seen, Known
<1>3. /\ meta.token[s] \in Nat /\ store[s].clock \in Nat
      /\ \A x \in DOMAIN store[s].gone :
           x \in 1..store[s].clock /\ store[s].gone[x] \in Nat /\ ~Has(store, s, x)
      /\ \A x \in DOMAIN store[s].items : store[s].items[x].rev \in Nat
  BY DEF PlainOK, MetaOK, StoresOK, StoreOK, IsMap, Has
<1>4. /\ \A x : x \in DOMAIN r <=> Has(store, s, x) /\ store[s].items[x].rev > meta.token[s]
      /\ \A x \in DOMAIN r : r[x] = store[s].items[x].rev
  BY RevisionsFacts
<1>5. /\ \A x : x \in DOMAIN st <=> x \in DOMAIN meta.rev[s] \/ x \in removed
      /\ \A x \in removed : st[x] = "NotPresent"
      /\ \A x \in DOMAIN meta.rev[s] : x \notin removed => st[x] = "NotChanged"
  OBVIOUS
<1>6. \A x : x \in removed <=> x \in DOMAIN store[s].gone /\ meta.token[s] < store[s].gone[x]
  BY <1>3
<1> HIDE DEF removed, st, r
<1>7. \A x \in DOMAIN r : Has(store, s, x) /\ r[x] = store[s].items[x].rev
  BY <1>4
<1>8. DOMAIN meta.rev[s] \subseteq DOMAIN st
  BY <1>5
<1>9. \A x \in DOMAIN st : x <= store[s].clock
  <2>1. \A x \in DOMAIN store[s].gone : x <= store[s].clock
    BY <1>3
  <2> QED
    BY <1>2, <1>5, <1>6, <2>1
<1>10. ASSUME NEW x \in DOMAIN st, x \notin DOMAIN r
       PROVE  \/ st[x] = "NotPresent" /\ ~Has(store, s, x)
              \/ st[x] = "NotChanged" /\ Knows(store, meta, s, x)
  <2>1. CASE x \in removed
    BY <1>3, <1>5, <1>6, <2>1
  <2>2. CASE x \notin removed
    <3>1. x \in DOMAIN meta.rev[s] /\ st[x] = "NotChanged"
      BY <1>5, <2>2
    <3>2. /\ Has(store, s, x)
          /\ (meta.token[s] < store[s].items[x].rev \/ store[s].items[x].rev = meta.rev[s][x])
      BY <1>2, <1>6, <2>2, <3>1
    <3>3. ~(meta.token[s] < store[s].items[x].rev)
      BY <1>3, <1>4, <1>10, <3>2 DEF Has
    <3> QED
      BY <3>1, <3>2, <3>3 DEF Knows, Tracks
  <2> QED
    BY <2>1, <2>2
<1>11. NoneUnread => \A x \in DOMAIN store[s].items : Tracks(meta, s, x) \/ x \in DOMAIN r
  BY <1>2, <1>3, <1>4 DEF Has
<1>12. Exact(s, r, st)
  BY <1>7, <1>8, <1>9, <1>10, <1>11 DEF Exact
<1>13. revs' = [revs EXCEPT ![s] = r] /\ state' = [state EXCEPT ![s] = st]
  BY <1>1 DEF r, st, removed
<1> QED
  BY <1>12, <1>13 DEF DetectMade

\* So is what asking for all revisions finds out.
LEMMA AllExact ==
  ASSUME StoresOK, PlainOK, NEW s \in Sides, MetaSound(store, meta, NoneUnread), DetectAll(s), Clean'
  PROVE  \E r, st : DetectMade(s, r, st)
<1> DEFINE st == ResetStates(s, "NotPresent")
           r == Revisions(s, -1)
<1>1. revs' = [revs EXCEPT ![s] = r] /\ state' = [state EXCEPT ![s] = st]
  BY DEF DetectAll, Fault, Clean
<1>2. \A x \in DOMAIN store[s].items : store[s].items[x].rev > -1
  BY DEF StoresOK, StoreOK, IsMap
<1>3. /\ \A x : x \in DOMAIN r <=> Has(store, s, x)
      /\ \A x \in DOMAIN r : r[x] = store[s].items[x].rev
  BY <1>2, RevisionsFacts DEF Has
<1>4. DOMAIN st = DOMAIN meta.rev[s] /\ \A x \in DOMAIN meta.rev[s] : st[x] = "NotPresent"
  BY DEF ResetStates
<1>5. \A x \in DOMAIN meta.rev[s] : x <= store[s].clock
  BY DEF MetaSound, Known
<1> HIDE DEF st, r
<1>6. Exact(s, r, st)
  BY <1>3, <1>4, <1>5 DEF Exact, Has
<1> QED
  BY <1>1, <1>6 DEF DetectMade

\* Detecting the changes of a side keeps the invariant.
LEMMA DetectClean ==
  ASSUME TypeInv, TypeInv', RunInv, PlanInv, CleanInv, Clean', NEW s \in Sides, Detect(s)
  PROVE  CleanInv'
<1>1. /\ pc = (IF s = "local" THEN "detectLocal" ELSE "detectRemote")
      /\ pc' = (IF s = "local" THEN "detectRemote" ELSE "fetchLocal")
      /\ UNCHANGED <<store, saved, meta, hasMeta, queue, plan, begun>>
      /\ DetectChanges(s) \/ DetectAll(s)
  BY DEF Detect, engineVars, scanVars, histVars
<1>2. pc \in Detecting /\ pc' \in Detecting
  BY <1>1 DEF Detecting
<1>3. /\ hasMeta /\ meta = saved /\ DrainInv /\ Quiet /\ RemsAsked /\ DetectInv
      /\ MetaSound(store, meta, NoneUnread)
  BY <1>2, DetectingFacts
<1>4. \E r, st : DetectMade(s, r, st)
  <2>1. StoresOK /\ PlainOK
    BY DEF TypeInv
  <2> QED
    BY <1>1, <1>3, <2>1, ChangesExact, AllExact
<1>5. PICK r, st : DetectMade(s, r, st)
  BY <1>4
<1>6. /\ revs'[s] = r /\ (\A t \in Sides : t # s => revs'[t] = revs[t])
      /\ state'[s] = st /\ (\A t \in Sides : t # s => state'[t] = state[t])
  BY <1>5, SideUpdate DEF TypeInv, FoundOK, DetectMade
<1>7. NoneUnread' => NoneUnread
  BY DEF Detect, DetectChanges, DetectAll, Fault, faultVars, NoneUnread
<1>8. Detected(s)'
  BY <1>1, <1>5, <1>6, <1>7 DEF DetectMade, Exact, Detected, Has, Tracks, Knows
<1>9. s = "remote" => Detected("local")'
  <2>1. ASSUME s = "remote" PROVE Detected("local")'
    <3>1. Detected("local")
      BY <1>1, <1>3, <2>1 DEF DetectInv
    <3>2. revs'["local"] = revs["local"] /\ state'["local"] = state["local"]
      BY <1>6, <2>1, SideFacts
    <3> QED
      BY <1>1, <1>7, <3>1, <3>2 DEF Detected, Has, Tracks, Knows
  <2> QED
    BY <2>1
<1>10. DetectInv'
  <2>1. \A t \in Sides : store'[t].items = begun'.store[t]
    BY <1>1, <1>3 DEF DetectInv
  <2> QED
    BY <1>1, <1>8, <1>9, <2>1, SideFacts DEF DetectInv
<1>11. DrainInv'
  BY <1>1, <1>2, <1>3, AfterFlushFacts DEF DrainInv, Quiet, Detecting
<1>12. SavedOK'
  <2>1. Kin
    BY <1>1, SameKin DEF TypeInv
  <2> QED
    BY <1>1, <1>7, <2>1, FullSaved
<1>13. RemsAsked'
  BY <1>1, <1>3, RemsKept
<1> QED
  BY <1>1, <1>2, <1>3, <1>10, <1>11, <1>12, <1>13, DetectingClean
-----------------------------------------------------------------------------
(* Fetching what changed.                                                  *)

\* The states, new and changed objects of a side.
Fetches(s, st, new, ch) ==
  /\ state' = [state EXCEPT ![s] = st] /\ fresh' = [fresh EXCEPT ![s] = new]
  /\ changed' = [changed EXCEPT ![s] = ch]
  /\ \A x \in DOMAIN st : x \in DOMAIN state[s] \/ (x \in DOMAIN revs[s] /\ Tracks(meta, s, x))
  /\ \A x \in DOMAIN state[s] : x \in DOMAIN st /\ (x \notin DOMAIN revs[s] => st[x] = state[s][x])
  /\ \A x \in DOMAIN revs[s] : Tracks(meta, s, x) =>
       \/ x \in DOMAIN st /\ st[x] = "Modified" /\ ch[x] = Object(store, s, x)
       \/ x \in DOMAIN st /\ st[x] = "NotChanged" /\ meta.rev[s][x] = revs[s][x]
  /\ \A f \in new : f.id \in DOMAIN revs[s] /\ ~Tracks(meta, s, f.id) /\ f = Object(store, s, f.id)
  /\ \A x \in DOMAIN revs[s] : Tracks(meta, s, x) \/ \E f \in new : f.id = x

\* How fetching the changed items of a side ends.
LEMMA FetchCases ==
  ASSUME NEW s \in Sides, Fetch(s)
  PROVE  /\ pc = (IF s = "local" THEN "fetchLocal" ELSE "fetchRemote")
         /\ UNCHANGED <<store, saved, meta, hasMeta, queue>> /\ (NoneUnread' => NoneUnread)
         /\ \/ pc' = "idle"
            \/ /\ pc' = (IF s = "local" THEN "fetchRemote" ELSE "resolve")
               /\ UNCHANGED <<plan, todo, revs, class, begun>>
               /\ \E st, new, ch : Fetches(s, st, new, ch)
<1> DEFINE tracked  == {id \in DOMAIN revs[s] : Tracked(meta, s, id)}
           modified == {id \in tracked : meta.rev[s][id] # revs[s][id]}
           added    == DOMAIN revs[s] \ tracked
           st == [id \in DOMAIN state[s] \cup tracked |->
                    IF id \in modified THEN "Modified" ELSE IF id \in tracked THEN "NotChanged" ELSE state[s][id]]
           new == {Obj(s, id) : id \in added}
           ch == [id \in modified |-> Obj(s, id)]
<1>1. /\ pc = (IF s = "local" THEN "fetchLocal" ELSE "fetchRemote") /\ UNCHANGED <<store, saved,
                                                                                   meta, hasMeta, queue>>
  BY DEF Fetch
<1>2. NoneUnread' => NoneUnread
  BY DEF Fetch, Fault, faultVars, NoneUnread
<1>3. \/ pc' = "idle"
      \/ /\ pc' = (IF s = "local" THEN "fetchRemote" ELSE "resolve")
         /\ UNCHANGED <<plan, todo, revs, class, begun>>
         /\ state' = [state EXCEPT ![s] = st] /\ fresh' = [fresh EXCEPT ![s] = new]
         /\ changed' = [changed EXCEPT ![s] = ch]
  BY DEF Fetch, Return
<1>4. \A x : Obj(s, x) = Object(store, s, x) /\ Obj(s, x).id = x
  BY DEF Obj, Object
<1>5. \A x : x \in tracked <=> x \in DOMAIN revs[s] /\ Tracks(meta, s, x)
  BY DEF Tracked, Tracks
<1>6. \A x : x \in modified <=> x \in tracked /\ meta.rev[s][x] # revs[s][x]
  OBVIOUS
<1>7. \A x : x \in added <=> x \in DOMAIN revs[s] /\ x \notin tracked
  OBVIOUS
<1> HIDE DEF tracked, modified, added
<1>8. /\ \A x : x \in DOMAIN st <=> x \in DOMAIN state[s] \/ x \in tracked
      /\ \A x \in modified : x \in DOMAIN st => st[x] = "Modified"
      /\ \A x \in tracked : x \notin modified => st[x] = "NotChanged"
      /\ \A x \in DOMAIN state[s] : x \notin tracked /\ x \notin modified => st[x] = state[s][x]
      /\ \A x \in modified : ch[x] = Obj(s, x)
  OBVIOUS
<1>9. (\A f \in new : \E x \in added : f = Obj(s, x)) /\ \A x \in added : Obj(s, x) \in new
  OBVIOUS
<1> HIDE DEF st, new, ch
<1>10. ASSUME state' = [state EXCEPT ![s] = st], fresh' = [fresh EXCEPT ![s] = new], changed' = [changed EXCEPT ![s] = ch]
       PROVE  Fetches(s, st, new, ch)
  <2>1. \A x \in DOMAIN st : x \in DOMAIN state[s] \/ (x \in DOMAIN revs[s] /\ Tracks(meta, s, x))
    BY <1>5, <1>8
  <2>2. /\ \A x \in DOMAIN state[s] :
             x \in DOMAIN st /\ (x \notin DOMAIN revs[s] => st[x] = state[s][x])
    BY <1>5, <1>6, <1>8
  <2>3. \A x \in DOMAIN revs[s] : Tracks(meta, s, x) =>
          \/ x \in DOMAIN st /\ st[x] = "Modified" /\ ch[x] = Object(store, s, x)
          \/ x \in DOMAIN st /\ st[x] = "NotChanged" /\ meta.rev[s][x] = revs[s][x]
    BY <1>4, <1>5, <1>6, <1>8
  <2>4. /\ \A f \in new :
             f.id \in DOMAIN revs[s] /\ ~Tracks(meta, s, f.id) /\ f = Object(store, s, f.id)
    BY <1>4, <1>5, <1>7, <1>9
  <2>5. \A x \in DOMAIN revs[s] : Tracks(meta, s, x) \/ \E f \in new : f.id = x
    BY <1>4, <1>5, <1>7, <1>9
  <2> QED
    BY <1>10, <2>1, <2>2, <2>3, <2>4, <2>5 DEF Fetches
<1> QED
  BY <1>1, <1>2, <1>3, <1>10

\* What it leaves of a side whose changes were detected.
LEMMA FetchedSide ==
  ASSUME StoresOK, FoundOK, NEW s \in Sides, NEW st, NEW new, NEW ch, Fetches(s, st, new, ch),
  Detected(s),
         UNCHANGED <<store, meta>>, NoneUnread' => NoneUnread
  PROVE  FetchedInv(s)'
<1>1. state'[s] = st /\ fresh'[s] = new /\ changed'[s] = ch
  BY SideUpdate DEF FoundOK, Fetches
<1>2. \A x \in DOMAIN revs[s] : Has(store, s, x) /\ revs[s][x] = store[s].items[x].rev
  BY DEF Detected
<1>3. \A x \in DOMAIN st : x <= store[s].clock
  <2>1. \A x \in DOMAIN store[s].items : x <= store[s].clock
    BY DEF StoresOK, StoreOK, IsMap
  <2>2. \A x \in DOMAIN state[s] : x <= store[s].clock
    BY DEF Detected
  <2>3. \A x \in DOMAIN st : x \in DOMAIN state[s] \/ x \in DOMAIN store[s].items
    BY <1>2 DEF Fetches, Has
  <2> QED
    BY <2>1, <2>2, <2>3
<1>4. ASSUME NEW x \in DOMAIN meta.rev[s] PROVE InState(View, store, meta, s, x)'
  <2>1. x \in DOMAIN state[s] /\ x \in DOMAIN st /\ Tracks(meta, s, x)
    BY DEF Detected, Fetches, Tracks
  <2>2. FoundState(View', s, x) = st[x] /\ View'.changed[s] = ch
    BY <1>1, <2>1 DEF FoundState, View
  <2>3. CASE x \in DOMAIN revs[s]
    <3>1. Has(store, s, x) /\ revs[s][x] = store[s].items[x].rev
      BY <1>2, <2>3
    <3>2. \/ st[x] = "Modified" /\ ch[x] = Object(store, s, x)
          \/ st[x] = "NotChanged" /\ meta.rev[s][x] = revs[s][x]
      BY <2>1, <2>3 DEF Fetches
    <3>3. InState(View', store, meta, s, x)
      BY <2>1, <2>2, <3>1, <3>2 DEF InState, Knows
    <3> QED
      BY <3>3
  <2>4. CASE x \notin DOMAIN revs[s]
    <3>1. st[x] = state[s][x]
      BY <2>1, <2>4 DEF Fetches
    <3>2. \/ st[x] = "NotPresent" /\ ~Has(store, s, x)
          \/ st[x] = "NotChanged" /\ Knows(store, meta, s, x)
      BY <2>1, <2>4, <3>1 DEF Detected
    <3>3. InState(View', store, meta, s, x)
      BY <2>2, <3>2 DEF InState
    <3> QED
      BY <3>3
  <2> QED
    BY <2>3, <2>4
<1>5. /\ \A f \in fresh'[s] :
           Has(store, s, f.id) /\ f = Object(store, s, f.id) /\ ~Tracks(meta, s, f.id)
  BY <1>1, <1>2 DEF Fetches
<1>6. /\ NoneUnread' => \A x \in DOMAIN store[s].items :
                          Tracks(meta, s, x) \/ \E f \in fresh'[s] : f.id = x
  BY <1>1 DEF Detected, Fetches
<1> QED
  BY <1>1, <1>3, <1>4, <1>5, <1>6 DEF FetchedInv, Has, Tracks

\* Of two states that no loop is about.
LEMMA NoLoop ==
  ASSUME NEW a \in States, NEW b \in States, \A c \in 1..8 :
                                               ~(a = Classes[c].remote /\ b = Classes[c].local)
  PROVE  a = "NotChanged" /\ b = "NotChanged"
<1>1. /\ ~(a = "NotPresent" /\ b = "NotPresent") /\ ~(a = "NotPresent" /\ b = "NotChanged")
      /\ ~(a = "NotChanged" /\ b = "NotPresent") /\ ~(a = "NotPresent" /\ b = "Modified")
      /\ ~(a = "Modified" /\ b = "NotPresent") /\ ~(a = "NotChanged" /\ b = "Modified")
      /\ ~(a = "Modified" /\ b = "NotChanged") /\ ~(a = "Modified" /\ b = "Modified")
  BY ClassesFacts
<1> QED
  BY <1>1 DEF States

\* Both sides are known; the loops begin.
ResolveBegins ==
  /\ hasMeta /\ meta = saved /\ begun.meta = saved /\ class = 0 /\ todo = {} /\ pc = "resolve"
  /\ Quiet /\ MetaSound(store, meta, NoneUnread)
  /\ \A s \in Sides : store[s].items = begun.store[s] /\ FetchedInv(s)

\* What was found out is right of the beginning of the run.
LEMMA BeginsFound == FoundOK /\ ResolveBegins => FoundOut
<1> SUFFICES ASSUME FoundOK, ResolveBegins PROVE FoundOut
  OBVIOUS
<1> SUFFICES ASSUME NEW s \in Sides
             PROVE  /\ \A x \in DOMAIN state[s] : x <= store[s].clock
                    /\ \A x \in DOMAIN saved.rev[s] :
                         /\ StateOf(s, x) = "NotChanged" => Unchanged(s, x)
                         /\ StateOf(s, x) = "NotPresent" => ~Unchanged(s, x)
  BY DEF FoundOut
<1>1. \A x \in DOMAIN state[s] : x <= store[s].clock
  BY DEF ResolveBegins, FetchedInv
<1>2. ASSUME NEW x \in DOMAIN saved.rev[s]
      PROVE  (StateOf(s, x) = "NotChanged" => Unchanged(s, x)) /\ (StateOf(s, x) = "NotPresent" => ~Unchanged(s, x))
  <2>1. FoundState(View, s, x) = StateOf(s, x)
    BY DEF FoundState, StateOf, View
  <2>2. InState(View, store, meta, s, x)
    BY DEF ResolveBegins, FetchedInv
  <2>3. StateOf(s, x) = "NotChanged" => Knows(store, meta, s, x)
    BY <2>1, <2>2 DEF InState
  <2>4. StateOf(s, x) = "NotPresent" => ~Has(store, s, x)
    BY <2>1, <2>2 DEF InState
  <2>5. store[s].items = begun.store[s] /\ begun.meta = saved /\ meta = saved
    BY DEF ResolveBegins
  <2> QED
    BY <2>3, <2>4, <2>5 DEF Unchanged, Knows, Has
<1> QED
  BY <1>1, <1>2

\* No pair has been made or forgotten when the loops begin.
LEMMA BeginsLineage == ResolveBegins => Lineage
<1> SUFFICES ASSUME ResolveBegins PROVE Lineage
  OBVIOUS
<1>1. \A s \in Sides : Values(queue[s]["add"]) = {}
  BY QuietFacts DEF ResolveBegins, Kinds
<1>2. meta = saved /\ todo = {} /\ pc = "resolve"
  BY DEF ResolveBegins
<1> QED
  BY <1>1, <1>2 DEF Lineage, Inherited, Awaiting

BeginsSound == Engine(View, store, meta, fresh, queue, Awaiting) /\ (NoneUnread => Complete(store, meta, fresh, queue))

\* When the loops begin, every pair is settled or a loop will come to it.
LEMMA BeginsEngine == FoundOK /\ ResolveBegins => BeginsSound
<1> SUFFICES ASSUME FoundOK, ResolveBegins
             PROVE  Engine(View, store, meta, fresh, queue, Awaiting) /\ (NoneUnread => Complete(store, meta, fresh, queue))
  BY DEF BeginsSound
<1> DEFINE W == Awaiting
<1>1. /\ \A s \in Sides, kind \in Kinds : Values(queue[s][kind]) = {} /\ Distinct(queue[s][kind])
      /\ Bijective(meta) /\ Known(store, meta)
      /\ \A r \in DOMAIN meta.map :
           (\A s \in Sides : Knows(store, meta, s, Mate(meta, r, s))) => SameItem(store, meta, r)
  BY QuietFacts DEF ResolveBegins, MetaSound
<1>2. /\ \A s \in Sides :
           Unknown(fresh, queue)[s] = fresh[s] /\ Changing(queue)[s] = {} /\ Removing(queue)[s] = {}
  <2>1. \A s \in Sides : Values(queue[Other(s)]["add"]) = {}
    BY <1>1, SideFacts DEF Kinds
  <2>2. \A s \in Sides : fresh[s] \cup Values(queue[Other(s)]["add"]) = fresh[s]
    BY <2>1
  <2>3. \A s \in Sides : Unknown(fresh, queue)[s] = fresh[s]
    BY <2>2 DEF Unknown
  <2>4. \A s \in Sides : Values(queue[s]["mod"]) = {} /\ Values(queue[s]["rem"]) = {}
    BY <1>1 DEF Kinds
  <2> QED
    BY <2>3, <2>4 DEF Changing, Removing
<1>3. ASSUME NEW r \in DOMAIN meta.map, NEW s \in Sides
      PROVE  /\ InState(View, store, meta, s, Mate(meta, r, s))
             /\ FoundState(View, s, Mate(meta, r, s)) = StateOf(s, Mate(meta, r, s))
             /\ StateOf(s, Mate(meta, r, s)) \in States
  <2>1. Mate(meta, r, s) \in DOMAIN meta.rev[s]
    BY <1>1 DEF Bijective, Tracks
  <2>2. InState(View, store, meta, s, Mate(meta, r, s))
    BY <2>1 DEF ResolveBegins, FetchedInv
  <2>3. FoundState(View, s, Mate(meta, r, s)) = StateOf(s, Mate(meta, r, s))
    BY DEF FoundState, StateOf, View
  <2>4. StateOf(s, Mate(meta, r, s)) \in States
    BY DEF StateOf, FoundOK, IsMap, States
  <2> QED
    BY <2>2, <2>3, <2>4
<1>4. \A r : Mate(meta, r, "remote") = r /\ Mate(meta, r, "local") = meta.map[r]
  BY DEF Mate
<1>5. \A r : r \in W <=> r \in DOMAIN meta.map /\ \E c \in 1..8 : PairIs(r, meta.map[r], Classes[c])
  <2>1. pc = "resolve" /\ todo = {} /\ class = 0 /\ meta = saved
    BY DEF ResolveBegins
  <2>2. class + 1 = 1
    BY <2>1
  <2> QED
    BY <2>1, <2>2 DEF Awaiting, Awaits
<1>6. PairsOK(store, meta, Changing(queue), W)
  <2> SUFFICES ASSUME NEW r \in DOMAIN meta.map, r \notin W PROVE Settled(store, meta, r)
    BY DEF PairsOK
  <2>1. \A c \in 1..8 : ~PairIs(r, meta.map[r], Classes[c])
    BY <1>5
  <2>2. StateOf("remote", r) \in States /\ StateOf("local", meta.map[r]) \in States
    BY <1>3, <1>4, SideFacts
  <2>3. StateOf("remote", r) = "NotChanged" /\ StateOf("local", meta.map[r]) = "NotChanged"
    BY <2>1, <2>2, NoLoop DEF PairIs
  <2>4. \A s \in Sides : StateOf(s, Mate(meta, r, s)) = "NotChanged"
    BY <1>4, <2>3 DEF Sides
  <2>5. \A s \in Sides : Knows(store, meta, s, Mate(meta, r, s))
    BY <1>3, <2>4 DEF InState
  <2> QED
    BY <1>1, <2>5 DEF Settled
<1>7. WaitsOK(View, store, meta, W)
  BY <1>3, <1>5 DEF WaitsOK
<1>8. ModsOK(store, meta, Changing(queue), W)
  BY <1>2 DEF ModsOK
<1>9. ClaimsOK(store, meta, Unknown(fresh, queue), Removing(queue))
  <2>1. ASSUME NEW s \in Sides, NEW f \in fresh[s] PROVE Waiting(store, meta, Removing(queue), s, f)
    <3>1. Has(store, s, f.id) /\ f = Object(store, s, f.id) /\ ~Tracks(meta, s, f.id)
      BY DEF ResolveBegins, FetchedInv
    <3>2. f \in Objects
      BY DEF FoundOK
    <3> QED
      BY <1>2, <3>1, <3>2 DEF Waiting
  <2> QED
    BY <1>2, <2>1 DEF ClaimsOK
<1>10. Engine(View, store, meta, fresh, queue, W)
  <2>1. \A s \in Sides : \A f \in fresh[s] : f \notin Values(queue[Other(s)]["add"])
    BY <1>1, SideFacts DEF Kinds
  <2> QED
    BY <1>1, <1>2, <1>6, <1>7, <1>8, <1>9, <2>1 DEF Engine, Sound
<1>11. NoneUnread => Complete(store, meta, fresh, queue)
  BY <1>2 DEF Complete, Covered, ResolveBegins, FetchedInv
<1> QED
  BY <1>10, <1>11

\* Fetching the changed items of a side keeps the invariant.
LEMMA FetchClean ==
  ASSUME TypeInv, TypeInv', RunInv, RunInv', PlanInv, CleanInv, NEW s \in Sides, Fetch(s)
  PROVE  CleanInv'
<1>1. /\ pc = (IF s = "local" THEN "fetchLocal" ELSE "fetchRemote")
      /\ UNCHANGED <<store, saved, meta, hasMeta, queue>> /\ (NoneUnread' => NoneUnread)
      /\ \/ pc' = "idle"
         \/ /\ pc' = (IF s = "local" THEN "fetchRemote" ELSE "resolve")
            /\ UNCHANGED <<plan, todo, revs, class, begun>>
            /\ \E st, new, ch : Fetches(s, st, new, ch)
  BY FetchCases
<1>2. pc \in Detecting
  BY <1>1 DEF Detecting
<1>3. /\ hasMeta /\ meta = saved /\ begun.meta = saved /\ class = 0 /\ todo = {}
      /\ DrainInv /\ Quiet /\ RemsAsked /\ DetectInv /\ SavedOK
      /\ MetaSound(store, meta, NoneUnread)
  BY <1>2, DetectingFacts
<1>4. Kin /\ StoresOK'
  BY <1>1, SameKin DEF TypeInv
<1>5. CASE pc' = "idle"
  BY <1>1, <1>4, <1>5, IdleKept
<1>6. CASE /\ pc' = (IF s = "local" THEN "fetchRemote" ELSE "resolve")
           /\ UNCHANGED <<plan, todo, revs, class, begun>>
           /\ \E st, new, ch : Fetches(s, st, new, ch)
  <2>1. PICK st, new, ch : Fetches(s, st, new, ch)
    BY <1>6
  <2>2. Detected(s) /\ (s = "local" => Detected("remote")) /\ (s = "remote" => FetchedInv("local"))
    BY <1>1, <1>3, SideFacts DEF DetectInv
  <2>3. FetchedInv(s)'
    BY <1>1, <2>1, <2>2, FetchedSide DEF TypeInv
  <2>4. /\ \A t \in Sides :
             t # s => state'[t] = state[t] /\ fresh'[t] = fresh[t] /\ changed'[t] = changed[t]
    BY <2>1, SideUpdate DEF TypeInv, FoundOK, Fetches
  <2>5. SavedOK'
    BY <1>1, <1>4, FullSaved
  <2>6. RemsAsked'
    BY <1>1, <1>3, <1>6, RemsKept
  <2>7. Quiet'
    BY <1>1, <1>3 DEF Quiet
  <2>8. \A t \in Sides : store'[t].items = begun'.store[t]
    BY <1>1, <1>3, <1>6 DEF DetectInv
  <2>9. CASE s = "local"
    <3>1. pc' = "fetchRemote" /\ pc' \in Detecting
      BY <1>6, <2>9 DEF Detecting
    <3>2. Detected("remote")'
      <4>1. state'["remote"] = state["remote"] /\ revs' = revs
        BY <1>6, <2>4, <2>9, SideFacts
      <4> QED
        BY <1>1, <2>2, <2>9, <4>1 DEF Detected, Has, Tracks, Knows
    <3>3. DetectInv'
      BY <2>3, <2>8, <2>9, <3>1, <3>2 DEF DetectInv
    <3>4. DrainInv'
      BY <1>1, <1>3, <2>7, <3>1, AfterFlushFacts DEF DrainInv
    <3> QED
      BY <1>1, <1>3, <2>5, <2>6, <3>1, <3>3, <3>4, DetectingClean
  <2>10. CASE s = "remote"
    <3>1. pc' = "resolve" /\ pc' \in Resolving /\ pc' \notin Detecting
      BY <1>6, <2>10 DEF Resolving, Detecting
    <3>2. FetchedInv("local")'
      <4>1. /\ state'["local"] = state["local"] /\ fresh'["local"] = fresh["local"]
            /\ changed'["local"] = changed["local"]
            /\ FetchedInv("local") /\ store' = store /\ meta' = meta
        BY <1>1, <2>2, <2>4, <2>10, SideFacts
      <4>2. /\ \A x :
                 InState(View', store', meta', "local", x) <=> InState(View, store, meta, "local", x)
        BY <4>1 DEF InState, FoundState, View
      <4> QED
        BY <1>1, <4>1, <4>2 DEF FetchedInv, Has, Tracks
    <3>3. \A t \in Sides : FetchedInv(t)'
      BY <2>3, <2>10, <3>2 DEF Sides
    <3>4. MetaSound(store', meta', NoneUnread')
      BY <1>1, <1>3, <2>5 DEF SavedOK, RunInv
    <3>5. ResolveBegins'
      BY <1>1, <1>3, <1>6, <2>7, <2>8, <3>1, <3>3, <3>4 DEF ResolveBegins
    <3>6. FoundOK'
      BY DEF TypeInv
    <3>7. Lineage'
      BY <3>5, BeginsLineage, PTL
    <3>8. FoundOut'
      BY <3>5, <3>6, BeginsFound, PTL
    <3>9. BeginsSound'
      BY <3>5, <3>6, BeginsEngine, PTL
    <3>10. FullInv'
      BY <3>1, <3>7, <3>8, <3>9 DEF FullInv, BeginsSound
    <3>11. DrainInv'
      BY <1>1, <1>3, <3>1, AfterFlushFacts DEF DrainInv
    <3> QED
      BY <1>1, <1>3, <2>5, <2>6, <3>1, <3>10, <3>11, FullClean
  <2> QED
    BY <2>9, <2>10 DEF Sides
<1> QED
  BY <1>1, <1>5, <1>6
-----------------------------------------------------------------------------
(* One turn of a loop over pairs.                                          *)

\* What the turn of a pair knows.
LEMMA ResolveFacts ==
  ASSUME TypeInv, RunInv, CleanInv, NEW c, NEW pair \in todo, Resolve(c, pair)
  PROVE  /\ pc = "resolve" /\ pc' = pc /\ todo' = todo \ {pair} /\ class \in 1..8 /\ c = Classes[class]
         /\ UNCHANGED <<saved, hasMeta, plan, state, fresh, changed, class, begun>>
         /\ hasMeta /\ RemsAsked /\ Lineage /\ FoundOut
         /\ Engine(View, store, meta, fresh, queue, Awaiting)
         /\ (NoneUnread => Complete(store, meta, fresh, queue))
         /\ pair[1] \in Awaiting /\ pair[1] \in DOMAIN meta.map /\ pair[2] = meta.map[pair[1]]
         /\ Awaiting' = Awaiting \ {pair[1]}
<1>1. /\ pc = "resolve" /\ pc' = pc /\ todo' = todo \ {pair} /\ class \in DOMAIN Classes
      /\ c = Classes[class]
      /\ UNCHANGED <<saved, hasMeta, plan, state, fresh, changed, class, begun>>
  BY DEF Resolve, fullVars, histVars
<1>2. class \in 1..8
  BY <1>1, ClassesFacts
<1>3. /\ hasMeta /\ RemsAsked /\ Lineage /\ FoundOut
      /\ Engine(View, store, meta, fresh, queue, Awaiting)
      /\ (NoneUnread => Complete(store, meta, fresh, queue))
  BY <1>1, FullFacts DEF Resolving
<1>4. pair[1] \in DOMAIN saved.map /\ pair = <<pair[1], saved.map[pair[1]]>>
  BY <1>3 DEF Lineage
<1>5. pair[1] \in Awaiting
  BY <1>1, <1>4 DEF Awaiting, Awaits
<1>6. pair[1] \in DOMAIN meta.map
  BY <1>3, <1>5 DEF Engine, Sound, WaitsOK
<1>7. meta.map[pair[1]] = saved.map[pair[1]] /\ pair[2] = saved.map[pair[1]]
  BY <1>3, <1>4, <1>5 DEF Lineage
<1>8. \A s, x : StateOf(s, x)' = StateOf(s, x)
  BY <1>1 DEF StateOf
<1>9. /\ StateOf("remote", pair[1]) = Classes[class].remote
      /\ StateOf("local", saved.map[pair[1]]) = Classes[class].local
  BY <1>1, <1>7 DEF TypeInv, StatesOK
<1>10. /\ \A d \in class + 1 .. 8 :
            ~(Classes[d].remote = Classes[class].remote /\ Classes[d].local = Classes[class].local)
  <2> SUFFICES ASSUME NEW d \in class + 1 .. 8
               PROVE  ~(Classes[d].remote = Classes[class].remote /\ Classes[d].local = Classes[class].local)
    OBVIOUS
  <2>1. d \in 2..8 /\ class < d
    BY <1>2
  <2>2. \/ class = 1 \/ class = 2 \/ class = 3 \/ class = 4 \/ class = 5 \/ class = 6 \/ class = 7 \/ class = 8
    BY <1>2
  <2>3. \/ d = 2 \/ d = 3 \/ d = 4 \/ d = 5 \/ d = 6 \/ d = 7 \/ d = 8
    BY <2>1
  <2> QED
    BY <2>1, <2>2, <2>3, ClassesFacts
<1>11. \A r : r \in Awaiting' <=> r \in DOMAIN saved.map
          /\ (<<r, saved.map[r]>> \in todo' \/ \E d \in class + 1 .. 8 :
                                                 PairIs(r, saved.map[r], Classes[d]))
  <2>1. \A r, d : PairIs(r, saved.map[r], Classes[d])' <=> PairIs(r, saved.map[r], Classes[d])
    BY <1>1, <1>8 DEF PairIs, Classes
  <2> QED
    BY <1>1, <2>1 DEF Awaiting, Awaits
<1>12. \A r : r \in Awaiting <=> r \in DOMAIN saved.map
          /\ (<<r, saved.map[r]>> \in todo \/ \E d \in class + 1 .. 8 :
                                                PairIs(r, saved.map[r], Classes[d]))
  BY <1>1 DEF Awaiting, Awaits
<1>13. pair[1] \notin Awaiting'
  <2>1. <<pair[1], saved.map[pair[1]]>> \notin todo'
    BY <1>1, <1>4
  <2>2. \A d \in class + 1 .. 8 : ~PairIs(pair[1], saved.map[pair[1]], Classes[d])
    BY <1>9, <1>10 DEF PairIs
  <2> QED
    BY <1>11, <2>1, <2>2
<1>14. \A r : r # pair[1] => (r \in Awaiting' <=> r \in Awaiting)
  <2>1. \A r : r # pair[1] => (<<r, saved.map[r]>> \in todo' <=> <<r, saved.map[r]>> \in todo)
    BY <1>1, <1>4
  <2> QED
    BY <1>11, <1>12, <2>1
<1>15. Awaiting' = Awaiting \ {pair[1]}
  BY <1>13, <1>14
<1> QED
  BY <1>1, <1>2, <1>3, <1>5, <1>6, <1>7, <1>15

\* The two halves of the pair.
LEMMA HalfFacts ==
  ASSUME TypeInv, RunInv, CleanInv, NEW c, NEW pair \in todo, Resolve(c, pair), NEW s \in Sides
  PROVE  /\ Id(pair, s) = Mate(meta, pair[1], s) /\ Tracks(meta, s, Id(pair, s)) /\ Id(pair, s) \in DOMAIN saved.rev[s]
         /\ Id(pair, s) \in Nat
         /\ StateOf(s, Id(pair, s)) = c[s]
         /\ c[s] = "NotPresent" => ~Has(store, s, Id(pair, s)) /\ ~Unchanged(s, Id(pair, s))
         /\ c[s] = "NotChanged" => Knows(store, meta, s, Id(pair, s)) /\ Unchanged(s, Id(pair, s))
         /\ c[s] = "Modified" => /\ Has(store, s, Id(pair, s))
                                 /\ changed[s][Id(pair, s)] = Object(store, s, Id(pair, s))
<1>1. /\ pc = "resolve" /\ class \in 1..8 /\ c = Classes[class] /\ hasMeta /\ Lineage /\ FoundOut
      /\ Engine(View, store, meta, fresh, queue, Awaiting)
      /\ pair[1] \in Awaiting /\ pair[1] \in DOMAIN meta.map /\ pair[2] = meta.map[pair[1]]
  BY ResolveFacts
<1>2. Id(pair, s) = Mate(meta, pair[1], s)
  BY <1>1 DEF Id, Mate
<1>3. Tracks(meta, s, Id(pair, s)) /\ InState(View, store, meta, s, Id(pair, s))
  BY <1>1, <1>2 DEF Engine, Sound, Bijective, WaitsOK
<1>4. StateOf(s, Id(pair, s)) = c[s]
  <2>1. StateOf("remote", pair[1]) = c.remote /\ StateOf("local", pair[2]) = c.local
    BY <1>1 DEF TypeInv, StatesOK
  <2> QED
    BY <2>1 DEF Id, Sides
<1>5. FoundState(View, s, Id(pair, s)) = c[s]
  BY <1>4 DEF FoundState, StateOf, View
<1>6. Id(pair, s) \in DOMAIN saved.rev[s]
  <2>1. pair[1] \in DOMAIN saved.map /\ Id(pair, s) = Mate(saved, pair[1], s)
    BY <1>1, <1>2 DEF Lineage, Awaiting, Mate
  <2>2. Bijective(saved)
    BY <1>1 DEF CleanInv, MetaSound, RunInv
  <2> QED
    BY <2>1, <2>2 DEF Bijective, Tracks
<1>7. /\ StateOf(s, Id(pair, s)) = "NotChanged" => Unchanged(s, Id(pair, s))
      /\ StateOf(s, Id(pair, s)) = "NotPresent" => ~Unchanged(s, Id(pair, s))
  BY <1>1, <1>6 DEF FoundOut
<1>8. Id(pair, s) \in Nat
  BY <1>3 DEF Tracks, TypeInv, PlainOK, MetaOK, IsMap
<1> QED
  BY <1>2, <1>3, <1>4, <1>5, <1>6, <1>7, <1>8 DEF InState, View

\* What a turn has to leave.
Turned(pair) ==
  /\ Engine(View, store', meta', fresh, queue', Awaiting \ {pair[1]})
  /\ Complete(store, meta, fresh, queue) => Complete(store', meta', fresh, queue')
  /\ Kin
  /\ \A r \in Awaiting : r # pair[1] => meta'.map[r] = meta.map[r]
  /\ \A r \in DOMAIN meta'.map :
       (r \in DOMAIN meta.map /\ meta'.map[r] = meta.map[r]) \/ Young(r, meta'.map[r])
  /\ \A s \in Sides : \A e \in Values(queue'[s]["add"]) : e \in Values(queue[s]["add"])
        \/ (StateOf(Other(s), e.id) = "Modified" /\ class >= (IF s = "remote" THEN 4 ELSE 5))
  /\ \A s \in Sides :
       \A x \in Values(queue'[s]["rem"]) : x \in Values(queue[s]["rem"]) \/ GivesWay(s, x)

\* A turn that keeps the account keeps the invariant.
LEMMA TurnClean ==
  ASSUME TypeInv, TypeInv', RunInv, PlanInv, CleanInv, NEW c, NEW pair \in todo, Resolve(c, pair),
  Turned(pair),
         NoneUnread' => NoneUnread
  PROVE  CleanInv'
<1>1. /\ pc = "resolve" /\ pc' = pc /\ todo' = todo \ {pair} /\ class \in 1..8
      /\ UNCHANGED <<saved, hasMeta, plan, state, fresh, changed, class, begun>>
      /\ hasMeta /\ RemsAsked /\ Lineage /\ FoundOut
      /\ NoneUnread => Complete(store, meta, fresh, queue)
      /\ Awaiting' = Awaiting \ {pair[1]}
  BY ResolveFacts
<1>2. View' = View
  BY <1>1 DEF View
<1>3. \A s, x : StateOf(s, x)' = StateOf(s, x)
  BY <1>1 DEF StateOf
<1>4. /\ Engine(View', store', meta', fresh', queue', Awaiting')
      /\ NoneUnread' => Complete(store', meta', fresh', queue')
  BY <1>1, <1>2 DEF Turned
<1>5. Lineage'
  <2>1. \A r \in Awaiting' : meta'.map[r] = saved'.map[r]
    BY <1>1 DEF Turned, Lineage
  <2>2. \A r, l : Young(r, l)' <=> Young(r, l)
    BY <1>1, <1>3 DEF Young
  <2>3. \A r \in DOMAIN meta'.map : Inherited(r)' \/ Young(r, meta.map[r])'
    <3> SUFFICES ASSUME NEW r \in DOMAIN meta'.map PROVE Inherited(r)' \/ Young(r, meta'.map[r])
      BY <1>1, <1>3 DEF Young
    <3>1. CASE r \in DOMAIN meta.map /\ meta'.map[r] = meta.map[r]
      <4>1. Inherited(r) \/ Young(r, meta.map[r])
        BY <1>1, <3>1 DEF Lineage
      <4> QED
        BY <1>1, <3>1, <4>1 DEF Inherited
    <3>2. CASE Young(r, meta'.map[r])
      BY <3>2
    <3> QED
      BY <3>1, <3>2 DEF Turned
  <2>4. \A p \in todo' : p[1] \in DOMAIN saved'.map /\ p = <<p[1], saved'.map[p[1]]>>
    BY <1>1 DEF Lineage
  <2>5. \A s \in Sides : \A e \in Values(queue'[s]["add"]) :
          StateOf(Other(s), e.id) = "Modified" /\ class >= (IF s = "remote" THEN 4 ELSE 5)
    BY <1>1 DEF Lineage, Turned
  <2>6. \A s \in Sides : \A e \in Values(queue'[s]["add"]) :
          StateOf(Other(s), e.id)' = "Modified" /\ class' >= (IF s = "remote" THEN 4 ELSE 5)
    BY <1>1, <1>3, <2>5
  <2> QED
    BY <2>1, <2>3, <2>4, <2>6 DEF Lineage
<1>6. FoundOut'
  <2>1. /\ \A s \in Sides :
             store[s].clock <= store'[s].clock /\ store[s].clock \in Nat /\ store'[s].clock \in Nat
    BY DEF Turned, Kin, Grown, TypeInv, StoresOK, StoreOK
  <2>2. \A s \in Sides : \A x \in DOMAIN state[s] : x \in Nat /\ x <= store[s].clock
    BY <1>1 DEF FoundOut, TypeInv, FoundOK, IsMap
  <2>3. \A s \in Sides : \A x \in DOMAIN state'[s] : x <= store'[s].clock
    BY <1>1, <2>1, <2>2
  <2>4. \A s, x : Unchanged(s, x)' <=> Unchanged(s, x)
    BY <1>1 DEF Unchanged
  <2> QED
    BY <1>1, <1>3, <2>3, <2>4 DEF FoundOut
<1>7. FullInv'
  BY <1>1, <1>4, <1>5, <1>6 DEF FullInv
<1>8. RemsAsked'
  <2>1. \A s, x : GivesWay(s, x)' <=> GivesWay(s, x)
    BY <1>1 DEF GivesWay, Unchanged, Partners
  <2>2. \A s \in Sides : \A x \in Values(queue'[s]["rem"]) : GivesWay(s, x)
    BY <1>1 DEF RemsAsked, Turned
  <2> QED
    BY <2>1, <2>2 DEF RemsAsked
<1>9. DrainInv'
  <2>1. /\ pc' \notin Detecting /\ pc' \notin DOMAIN AfterFlush
        /\ pc' \notin {"index", "tokens", "scan", "saveLocal", "rest", "saveRemote"}
    BY <1>1, AfterFlushFacts DEF Detecting
  <2> QED
    BY <1>1, <2>1 DEF DrainInv
<1>10. SavedOK'
  BY <1>1, FullSaved DEF Turned
<1>11. pc' \in Resolving
  BY <1>1 DEF Resolving
<1> QED
  BY <1>1, <1>7, <1>8, <1>9, <1>10, <1>11, FullClean
-----------------------------------------------------------------------------
(* Turns that put an entry into a queue, and the flush that may follow.    *)

\* The entry is asked for by what was found out.
Asked(s, kind, e) ==
  /\ kind = "add" => StateOf(Other(s), e.id) = "Modified" /\ class >= (IF s = "remote" THEN 4 ELSE 5)
  /\ kind = "rem" => GivesWay(s, e)

Narrowed(m) == \A q \in DOMAIN m.map : q \in DOMAIN meta.map /\ m.map[q] = meta.map[q]

\* So does one that puts an entry into a queue that was asked for.
LEMMA EnqueueTurn ==
  ASSUME TypeInv, TypeInv', RunInv, CleanInv, Clean', NEW c, NEW pair \in todo, Resolve(c, pair),
         NEW s \in Sides, NEW kind \in Kinds, NEW e \in EntryType[kind], NEW m, MetaOK(m),
         Narrowed(m),
         Engine(View, store, m, fresh, WithEntry(s, kind, e), Awaiting \ {pair[1]}),
         Complete(store, meta, fresh, queue) => Complete(store, m, fresh, WithEntry(s, kind, e)),
         Distinct(queue[s][kind]), e \notin Values(queue[s][kind]), Enqueue(s, kind, e, m), Asked(s, kind, e)
  PROVE  Turned(pair) /\ (NoneUnread' => NoneUnread)
<1> USE SideFacts
<1> DEFINE Q == WithEntry(s, kind, e)
           W == Awaiting \ {pair[1]}
<1>1. Lineage /\ FoundOut
  BY ResolveFacts
<1>2. StoresOK /\ QueuesOK /\ "flush" \notin faulty'
  BY DEF TypeInv, Clean
<1>3. Shorter(Q, queue, s, kind, e)
  BY <1>2, WithEntryFacts
<1> HIDE DEF Q
<1>4. FlushEnds(View, m, fresh, Q, W, s, kind, meta') /\ EntryLeaves(Q, s, kind)
  BY ONLY <1>2, MetaOK(m), Engine(View, store, m, fresh, WithEntry(s, kind, e),
     Awaiting \ {pair[1]}), s \in Sides, kind \in Kinds,
     e \in EntryType[kind], Distinct(queue[s][kind]), e \notin Values(queue[s][kind]), Enqueue(s, kind, e, m), EnqueueSound DEF Q
<1>5. /\ Engine(View, store', meta', fresh, queue', W) /\ Kin
      /\ Complete(store, meta, fresh, queue) => Complete(store', meta', fresh, queue')
      /\ Paired(store, m, meta', s, Q[s][kind]) /\ (kind # "add" => meta'.map = m.map)
  BY <1>4 DEF FlushEnds, Kin, Q
<1>6. \A d : d \in Values(Q[s][kind]) => d \in Values(queue[s][kind]) \/ d = e
  BY <1>3 DEF Shorter
<1>7. /\ \A t \in Sides, k \in Kinds :
           \A d \in Values(Q[t][k]) : d \in Values(queue[t][k]) \/ (t = s /\ k = kind /\ d = e)
  BY <1>3, <1>6 DEF Shorter
<1>8. /\ \A t \in Sides, k \in Kinds :
           \A d \in Values(queue'[t][k]) : d \in Values(queue[t][k]) \/ (t = s /\ k = kind /\ d = e)
  <2>1. \A t \in Sides, k \in Kinds : queue'[t][k] = Q[t][k] \/ queue'[t][k] = <<>>
    BY <1>4 DEF EntryLeaves
  <2> QED
    BY <1>7, <2>1, EmptyValues
<1>9. \A t \in Sides : \A d \in Values(queue'[t]["add"]) : d \in Values(queue[t]["add"])
        \/ (StateOf(Other(t), d.id) = "Modified" /\ class >= (IF t = "remote" THEN 4 ELSE 5))
  BY <1>8 DEF Asked, Kinds
<1>10. /\ \A t \in Sides :
            \A x \in Values(queue'[t]["rem"]) : x \in Values(queue[t]["rem"]) \/ GivesWay(t, x)
  BY <1>8 DEF Asked, Kinds
<1>11. \A r \in Awaiting : r # pair[1] => meta'.map[r] = meta.map[r]
  <2>1. \A r \in W : r \in DOMAIN m.map
    BY DEF Engine, Sound, WaitsOK
  <2> QED
    BY <1>5, <2>1 DEF Paired, Narrowed
<1>12. ASSUME NEW r \in DOMAIN meta'.map
       PROVE  (r \in DOMAIN meta.map /\ meta'.map[r] = meta.map[r]) \/ Young(r, meta'.map[r])
  <2>1. CASE r \in DOMAIN m.map
    BY <1>5, <2>1 DEF Paired, Narrowed
  <2>2. CASE r \notin DOMAIN m.map
    <3>1. kind = "add"
      BY <1>5, <2>2
    <3>2. /\ (\E d \in Values(Q[s][kind]) :
                d.id = Mate(meta', r, Other(s))) /\ store[s].clock < Mate(meta', r, s)
      BY <1>5, <2>2 DEF Paired
    <3>3. /\ StateOf(Other(s), Mate(meta', r, Other(s))) = "Modified"
          /\ class >= (IF s = "remote" THEN 4 ELSE 5)
      <4>1. PICK d \in Values(Q[s][kind]) : d.id = Mate(meta', r, Other(s))
        BY <3>2
      <4>2. StateOf(Other(s), d.id) = "Modified" /\ class >= (IF s = "remote" THEN 4 ELSE 5)
        BY <1>1, <1>6, <3>1, <4>1 DEF Lineage, Asked
      <4> QED
        BY <4>1, <4>2
    <3>4. Mate(meta', r, s) \notin DOMAIN state[s]
      <4>1. \A x \in DOMAIN state[s] : x \in Nat /\ x <= store[s].clock
        BY <1>1 DEF FoundOut, TypeInv, FoundOK, IsMap
      <4>2. store[s].clock \in Nat
        BY <1>2 DEF StoresOK, StoreOK
      <4> QED
        BY <3>2, <4>1, <4>2
    <3>5. StateOf(s, Mate(meta', r, s)) = "NotPresent"
      BY <3>4 DEF StateOf
    <3> QED
      BY <3>3, <3>5 DEF Young, Mate, Sides, Other
  <2> QED
    BY <2>1, <2>2
<1>13. Turned(pair)
  BY <1>5, <1>9, <1>10, <1>11, <1>12 DEF Turned
<1>14. NoneUnread' => NoneUnread
  BY <1>4 DEF EntryLeaves, NoneUnread, faultVars
<1> QED
  BY <1>13, <1>14

\* removeItem() of a pair.
LEMMA RemoveParts ==
  ASSUME NEW m, NEW r \in DOMAIN m.map, NEW l, l = m.map[r], NEW n, n = RemoveItem(m, r, l)
  PROVE  Parted(m, n, r)
<1>1. /\ \A q : q \in DOMAIN n.map <=> q \in DOMAIN m.map /\ q # r
      /\ \A q \in DOMAIN n.map : n.map[q] = m.map[q]
  BY DEF RemoveItem, Without
<1>2. \A s \in Sides : n.rev[s] = Without(m.rev[s], {Mate(m, r, s)})
  BY DEF RemoveItem, Mate, Sides
<1>3. ASSUME NEW s \in Sides PROVE \A x : Tracks(n, s, x) <=> Tracks(m, s, x) /\ x # Mate(m, r, s)
  <2>1. n.rev[s] = Without(m.rev[s], {Mate(m, r, s)})
    BY <1>2
  <2> QED
    BY <2>1 DEF Tracks, Without
<1>4. \A s \in Sides : \A x \in DOMAIN n.rev[s] : n.rev[s][x] = m.rev[s][x]
  BY <1>2 DEF Without
<1> QED
  BY <1>1, <1>3, <1>4 DEF Parted

\* What a turn knows of the metadata without its pair.
LEMMA TurnParts ==
  ASSUME TypeInv, RunInv, CleanInv, NEW c, NEW pair \in todo, Resolve(c, pair)
  PROVE  LET m == RemoveItem(meta, pair[1], pair[2]) IN
         /\ MetaOK(m) /\ Narrowed(m) /\ Parted(meta, m, pair[1])
         /\ \A r \in DOMAIN meta.map : r # pair[1] => r \in DOMAIN m.map
<1>1. pair[1] \in DOMAIN meta.map /\ pair[2] = meta.map[pair[1]]
  BY ResolveFacts
<1>2. MetaOK(RemoveItem(meta, pair[1], pair[2]))
  BY PairTypes
<1>3. Parted(meta, RemoveItem(meta, pair[1], pair[2]), pair[1])
  BY <1>1, RemoveParts
<1> QED
  BY <1>2, <1>3 DEF Narrowed, Parted
-----------------------------------------------------------------------------
(* The loops, one after the other.                                         *)

WhereFacts(s, a, b) == Where(s, a, b)[s] = a /\ Where(s, a, b)[Other(s)] = b

\* The two states of a pair.
LEMMA WhereSides == \A s \in Sides : \A a, b : WhereFacts(s, a, b)
  BY SideFacts DEF WhereFacts, Where

\* Forgetting a pair that was removed on both sides keeps the invariant.
LEMMA ForgetPairClean ==
  ASSUME TypeInv, TypeInv', RunInv, PlanInv, CleanInv, NEW pair \in todo, ForgetPair(pair)
  PROVE  CleanInv'
<1> USE SideFacts
<1> DEFINE c == Where("local", "NotPresent", "NotPresent")
           m == RemoveItem(meta, pair[1], pair[2])
<1>1. Resolve(c, pair) /\ meta' = m /\ UNCHANGED <<store, queue, faultVars>>
  BY DEF ForgetPair
<1>2. \A s \in Sides : c[s] = "NotPresent"
  BY DEF Where
<1> HIDE DEF c
<1>3. /\ Engine(View, store, meta, fresh, queue, Awaiting) /\ pair[1] \in Awaiting
  BY <1>1, ResolveFacts
<1>4. \A s \in Sides : ~Has(store, s, Mate(meta, pair[1], s))
  BY <1>1, <1>2, HalfFacts
<1>5. /\ Parted(meta, m, pair[1]) /\ Narrowed(m)
      /\ \A r \in DOMAIN meta.map : r # pair[1] => r \in DOMAIN m.map
  BY <1>1, TurnParts
<1> HIDE DEF m
<1>6. Engine(View, store, m, fresh, queue, Awaiting \ {pair[1]})
  <2>1. Sound(View, store, meta, Unknown(fresh, queue), Changing(queue), Removing(queue), Awaiting)
    BY <1>3 DEF Engine
  <2>2. Sound(View, store, m, Unknown(fresh, queue), Changing(queue), Removing(queue), Awaiting \ {pair[1]})
    BY <1>3, <1>5, <2>1, PartSound
  <2> QED
    BY <1>3, <2>2 DEF Engine
<1>7. Complete(store, meta, fresh, queue) => Complete(store, m, fresh, queue)
  <2>1. ASSUME Covered(store, meta, Unknown(fresh, queue), Removing(queue))
        PROVE  Covered(store, m, Unknown(fresh, queue), Removing(queue))
    BY <1>4, <1>5, <2>1, PartCovered
  <2> QED
    BY <2>1 DEF Complete
<1>8. Kin
  BY <1>1, SameKin DEF TypeInv
<1>9. \A r \in Awaiting : r # pair[1] => meta'.map[r] = meta.map[r]
  <2>1. \A r \in Awaiting : r \in DOMAIN meta.map
    BY <1>3 DEF Engine, Sound, WaitsOK
  <2> QED
    BY <1>1, <1>5, <2>1 DEF Narrowed
<1>10. Turned(pair)
  <2>1. store' = store /\ queue' = queue /\ meta' = m
    BY <1>1 DEF m
  <2>2. \A r \in DOMAIN m.map : r \in DOMAIN meta.map /\ m.map[r] = meta.map[r]
    BY <1>5 DEF Narrowed
  <2> QED
    BY <1>6, <1>7, <1>8, <1>9, <2>1, <2>2 DEF Turned
<1>11. NoneUnread' => NoneUnread
  BY <1>1 DEF NoneUnread, faultVars
<1> QED
  BY <1>1, <1>10, <1>11, TurnClean

\* A removal is asked for: the item was not changed, its counterpart was.
LEMMA RemovalWanted ==
  ASSUME TypeInv, RunInv, CleanInv, NEW pair \in todo, NEW s \in Sides, RemoveCounterpart(s, pair)
  PROVE  GivesWay(s, Id(pair, s)) /\ Id(pair, s) \in Nat
<1> USE SideFacts
<1> DEFINE c == Where(s, "NotChanged", "NotPresent")
<1>1. Resolve(c, pair)
  BY DEF RemoveCounterpart
<1>2. c[s] = "NotChanged" /\ c[Other(s)] = "NotPresent"
  BY WhereSides DEF WhereFacts
<1> HIDE DEF c
<1>3. hasMeta /\ pc = "resolve" /\ Lineage /\ pair[1] \in Awaiting
  BY <1>1, ResolveFacts
<1>4. Id(pair, s) = Mate(meta, pair[1], s) /\ Unchanged(s, Id(pair, s)) /\ Id(pair, s) \in Nat
  BY <1>1, <1>2, HalfFacts
<1>5. Id(pair, Other(s)) = Mate(meta, pair[1], Other(s)) /\ ~Unchanged(Other(s), Id(pair, Other(s)))
  BY <1>1, <1>2, HalfFacts
<1>6. begun.meta = saved /\ pair[1] \in DOMAIN saved.map /\ meta.map[pair[1]] = saved.map[pair[1]]
  BY <1>3 DEF RunInv, Lineage, Awaiting
<1>7. Id(pair, Other(s)) \in Partners(s, Id(pair, s))
  BY <1>4, <1>5, <1>6 DEF Partners, Mate, Sides, Other
<1> QED
  BY <1>4, <1>5, <1>7 DEF GivesWay

\* Passing a removal on keeps it.
LEMMA RemoveCounterpartClean ==
  ASSUME TypeInv, TypeInv', RunInv, PlanInv, CleanInv, Clean', NEW pair \in todo, NEW s \in Sides, RemoveCounterpart(s, pair)
  PROVE  CleanInv'
<1> USE SideFacts
<1> DEFINE c == Where(s, "NotChanged", "NotPresent")
           m == RemoveItem(meta, pair[1], pair[2])
           e == Id(pair, s)
           Q == WithEntry(s, "rem", e)
<1>1. Resolve(c, pair) /\ Enqueue(s, "rem", e, m)
  BY DEF RemoveCounterpart
<1>2. c[s] = "NotChanged" /\ c[Other(s)] = "NotPresent"
  BY WhereSides DEF WhereFacts
<1> HIDE DEF c
<1>3. /\ Engine(View, store, meta, fresh, queue, Awaiting) /\ pair[1] \in Awaiting
      /\ pair[1] \in DOMAIN meta.map /\ hasMeta /\ Lineage
      /\ pc = "resolve"
  BY <1>1, ResolveFacts
<1>4. /\ e = Mate(meta, pair[1], s) /\ Tracks(meta, s, e) /\ Knows(store, meta, s, e)
      /\ Unchanged(s, e) /\ e \in Nat
      /\ e \in DOMAIN saved.rev[s]
  BY <1>1, <1>2, HalfFacts
<1>5. /\ Id(pair, Other(s)) = Mate(meta, pair[1], Other(s))
      /\ ~Has(store, Other(s), Mate(meta, pair[1], Other(s)))
      /\ ~Unchanged(Other(s), Id(pair, Other(s)))
  BY <1>1, <1>2, HalfFacts
<1>6. /\ MetaOK(m) /\ Narrowed(m) /\ Parted(meta, m, pair[1])
  BY <1>1, TurnParts
<1>7. Sound(View, store, meta, Unknown(fresh, queue), Changing(queue), Removing(queue), Awaiting)
  BY <1>3 DEF Engine
<1>8. Distinct(queue[s]["rem"]) /\ e \notin Values(queue[s]["rem"])
  <2>1. \A x \in Values(queue[s]["rem"]) : ~Tracks(meta, s, x)
    BY <1>7 DEF Sound, ClaimsOK, Removing
  <2> QED
    BY <1>3, <1>4, <2>1 DEF Engine, Kinds
<1>9. "rem" \in Kinds /\ e \in EntryType["rem"] /\ QueuesOK
  BY <1>4 DEF Kinds, EntryType, TypeInv
<1>10. Shorter(Q, queue, s, "rem", e) /\ Distinct(Q[s]["rem"])
  BY <1>8, <1>9, WithEntryFacts
<1> HIDE DEF m, e, Q
<1>11. /\ \A t \in Sides :
            Unknown(fresh, Q)[t] = Unknown(fresh, queue)[t] /\ Changing(Q)[t] = Changing(queue)[t]
       /\ \A t \in Sides :
            \A x : x \in Removing(Q)[t] <=> x \in Removing(queue)[t] \/ (t = s /\ x = e)
  <2>1. /\ \A t \in Sides :
             Q[t]["add"] = queue[t]["add"] /\ Q[t]["mod"] = queue[t]["mod"] /\ (t # s => Q[t]["rem"] = queue[t]["rem"])
    BY <1>10 DEF Shorter, Kinds
  <2>2. \A x : x \in Values(Q[s]["rem"]) <=> x \in Values(queue[s]["rem"]) \/ x = e
    BY <1>10 DEF Shorter
  <2> QED
    BY <2>1, <2>2 DEF Unknown, Changing, Removing
<1>12. Unknown(fresh, Q) = Unknown(fresh, queue) /\ Changing(Q) = Changing(queue)
  BY <1>11 DEF Unknown, Changing
<1>13. Engine(View, store, m, fresh, Q, Awaiting \ {pair[1]})
  <2>1. /\ \A t \in Sides :
             \A x \in Removing(Q)[t] :
               x \in Removing(queue)[t] \/ (x = Mate(meta, pair[1], t) /\ Has(store, t, x))
    BY <1>4, <1>11 DEF Knows
  <2>2. Sound(View, store, m, Unknown(fresh, queue), Changing(queue), Removing(Q), Awaiting \ {pair[1]})
    BY <1>3, <1>6, <1>7, <2>1, PartSound
  <2>3. \A t \in Sides, k \in Kinds : Distinct(Q[t][k])
    BY <1>3, <1>10 DEF Shorter, Engine
  <2>4. \A t \in Sides : Values(Q[Other(t)]["add"]) = Values(queue[Other(t)]["add"])
    BY <1>10 DEF Shorter, Kinds
  <2> QED
    BY <1>3, <1>12, <2>2, <2>3, <2>4 DEF Engine
<1>14. Complete(store, meta, fresh, queue) => Complete(store, m, fresh, Q)
  <2>1. \A t \in Sides : Removing(queue)[t] \subseteq Removing(Q)[t]
    BY <1>11
  <2>2. \A t \in Sides : Has(store, t, Mate(meta, pair[1], t)) =>
          Mate(meta, pair[1], t) \in Removing(Q)[t] \/ \E f \in Unknown(fresh, queue)[t] :
                                                         f.id = Mate(meta, pair[1], t)
    BY <1>4, <1>5, <1>11
  <2>3. ASSUME Covered(store, meta, Unknown(fresh, queue), Removing(queue))
        PROVE  Covered(store, m, Unknown(fresh, queue), Removing(Q))
    BY <1>6, <2>1, <2>2, <2>3, PartCovered
  <2> QED
    BY <1>12, <2>3 DEF Complete
<1>15. Asked(s, "rem", e)
  BY RemovalWanted DEF Asked, e
<1>16. Turned(pair) /\ (NoneUnread' => NoneUnread)
  BY <1>1, <1>6, <1>8, <1>9, <1>13, <1>14, <1>15, EnqueueTurn DEF m, e, Q
<1> QED
  BY <1>1, <1>16, TurnClean
\* The changed object that a turn passes on is the item's.
LEMMA PassedOn ==
  ASSUME TypeInv, RunInv, CleanInv, NEW c, NEW pair \in todo, Resolve(c, pair), NEW s \in Sides, c[s] = "Modified"
  PROVE  LET obj == changed[s][Id(pair, s)] IN
         /\ obj \in Objects /\ obj.id = Id(pair, s) /\ obj = Object(store, s, obj.id)
         /\ Has(store, s, obj.id)
         /\ obj.id = Mate(meta, pair[1], s) /\ Tracks(meta, s, obj.id)
         /\ StateOf(s, obj.id) = "Modified"
<1>1. /\ Id(pair, s) = Mate(meta, pair[1], s) /\ Tracks(meta, s, Id(pair, s))
      /\ StateOf(s, Id(pair, s)) = "Modified"
      /\ Has(store, s, Id(pair, s)) /\ changed[s][Id(pair, s)] = Object(store, s, Id(pair, s))
  BY HalfFacts
<1>2. changed[s][Id(pair, s)] \in Objects
  BY PairTypes
<1>3. Object(store, s, Id(pair, s)).id = Id(pair, s)
  BY DEF Object
<1> QED
  BY <1>1, <1>2, <1>3

\* Adding a changed item again that was removed on the other side keeps it.
LEMMA RestoreItemClean ==
  ASSUME TypeInv, TypeInv', RunInv, PlanInv, CleanInv, Clean', NEW pair \in todo, NEW s \in Sides, RestoreItem(s, pair)
  PROVE  CleanInv'
<1> USE SideFacts
<1> DEFINE c == Where(s, "NotPresent", "Modified")
           m == RemoveItem(meta, pair[1], pair[2])
           e == changed[Other(s)][Id(pair, Other(s))]
           Q == WithEntry(s, "add", e)
           N == Unknown(fresh, Q)
<1>1. Resolve(c, pair) /\ Enqueue(s, "add", e, m)
  BY DEF RestoreItem
<1>2. c[s] = "NotPresent" /\ c[Other(s)] = "Modified"
  BY WhereSides DEF WhereFacts
<1>3. s = "remote" => c = Classes[4]
  BY DEF Where, Classes, Other, Sides
<1>4. s = "local" => c = Classes[5]
  BY DEF Where, Classes, Other, Sides
<1> HIDE DEF c
<1>5. /\ Engine(View, store, meta, fresh, queue, Awaiting) /\ pair[1] \in Awaiting /\ class \in 1..8
      /\ c = Classes[class]
  BY <1>1, ResolveFacts
<1>6. ~Has(store, s, Mate(meta, pair[1], s))
  BY <1>1, <1>2, HalfFacts
<1>7. /\ e \in Objects /\ e = Object(store, Other(s), e.id) /\ Has(store, Other(s), e.id)
      /\ e.id = Mate(meta, pair[1], Other(s)) /\ Tracks(meta, Other(s), e.id)
      /\ StateOf(Other(s), e.id) = "Modified"
  BY <1>1, <1>2, PassedOn
<1>8. /\ MetaOK(m) /\ Narrowed(m) /\ Parted(meta, m, pair[1])
  BY <1>1, TurnParts
<1>9. Sound(View, store, meta, Unknown(fresh, queue), Changing(queue), Removing(queue), Awaiting)
  BY <1>5 DEF Engine
<1>10. /\ \A f \in Unknown(fresh, queue)[Other(s)] : f.id # e.id
       /\ e.id \notin Removing(queue)[Other(s)]
  BY <1>7, <1>9 DEF Sound, ClaimsOK, Waiting
<1>11. /\ Distinct(queue[s]["add"]) /\ e \notin Values(queue[s]["add"])
       /\ \A f \in fresh[Other(s)] : f # e
  <2>1. /\ \A f \in fresh[Other(s)] \cup Values(queue[s]["add"]) :
             f \in Unknown(fresh, queue)[Other(s)]
    BY DEF Unknown
  <2> QED
    BY <1>5, <1>10, <2>1 DEF Engine, Kinds
<1>12. "add" \in Kinds /\ e \in EntryType["add"] /\ QueuesOK
  BY <1>7 DEF Kinds, EntryType, TypeInv
<1>13. Shorter(Q, queue, s, "add", e) /\ Distinct(Q[s]["add"])
  BY <1>11, <1>12, WithEntryFacts
<1> HIDE DEF m, e, Q
<1>14. /\ \A t \in Sides :
            Changing(Q)[t] = Changing(queue)[t] /\ Removing(Q)[t] = Removing(queue)[t]
       /\ \A t \in Sides :
            \A f : f \in N[t] <=> f \in Unknown(fresh, queue)[t] \/ (t = Other(s) /\ f = e)
  <2>1. /\ \A t \in Sides :
             Q[t]["mod"] = queue[t]["mod"] /\ Q[t]["rem"] = queue[t]["rem"] /\ (t # s => Q[t]["add"] = queue[t]["add"])
    BY <1>13 DEF Shorter, Kinds
  <2>2. \A f : f \in Values(Q[s]["add"]) <=> f \in Values(queue[s]["add"]) \/ f = e
    BY <1>13 DEF Shorter
  <2>3. /\ \A t \in Sides :
             N[t] = fresh[t] \cup Values(Q[Other(t)]["add"]) /\ Unknown(fresh, queue)[t] = fresh[t] \cup Values(queue[Other(t)]["add"])
    BY DEF Unknown
  <2>4. /\ \A t \in Sides :
             \A f : f \in N[t] <=> f \in Unknown(fresh, queue)[t] \/ (t = Other(s) /\ f = e)
    BY <2>1, <2>2, <2>3
  <2> QED
    BY <2>1, <2>4 DEF Changing, Removing
<1> HIDE DEF N
<1>15. Changing(Q) = Changing(queue) /\ Removing(Q) = Removing(queue)
  BY <1>14 DEF Changing, Removing
<1>16. Engine(View, store, m, fresh, Q, Awaiting \ {pair[1]})
  <2>1. \A t \in Sides : \A f \in N[t] :
          f \in Unknown(fresh, queue)[t] \/ (f \in Objects /\ f.id = Mate(meta, pair[1], t) /\ Has(store, t, f.id) /\ f = Object(store, t, f.id)
                                             /\ f.id \notin Removing(queue)[t])
    BY <1>7, <1>10, <1>14
  <2>2. Sound(View, store, m, N, Changing(queue), Removing(queue), Awaiting \ {pair[1]})
    BY <1>5, <1>8, <1>9, <2>1, PartSound
  <2>3. \A t \in Sides, k \in Kinds : Distinct(Q[t][k])
    BY <1>5, <1>13 DEF Shorter, Engine
  <2>4. \A t \in Sides : \A f \in fresh[t] : f \notin Values(Q[Other(t)]["add"])
    <3>1. \A t \in Sides : \A f \in fresh[t] : f \notin Values(queue[Other(t)]["add"])
      BY <1>5 DEF Engine
    <3>2. /\ \A t \in Sides :
               \A f \in Values(Q[t]["add"]) : f \in Values(queue[t]["add"]) \/ (t = s /\ f = e)
      BY <1>13 DEF Shorter, Kinds
    <3> QED
      BY <1>11, <3>1, <3>2
  <2> QED
    BY <1>15, <2>2, <2>3, <2>4 DEF Engine, N
<1>17. Complete(store, meta, fresh, queue) => Complete(store, m, fresh, Q)
  <2>1. \A t \in Sides : Unknown(fresh, queue)[t] \subseteq N[t]
    BY <1>14
  <2>2. \A t \in Sides : Has(store, t, Mate(meta, pair[1], t)) =>
          Mate(meta, pair[1], t) \in Removing(queue)[t] \/ \E f \in N[t] :
                                                             f.id = Mate(meta, pair[1], t)
    BY <1>6, <1>7, <1>14
  <2>3. ASSUME Covered(store, meta, Unknown(fresh, queue), Removing(queue))
        PROVE  Covered(store, m, N, Removing(queue))
    BY <1>8, <2>1, <2>2, <2>3, PartCovered
  <2> QED
    BY <1>15, <2>3 DEF Complete, N
<1>18. Asked(s, "add", e)
  <2>1. class >= (IF s = "remote" THEN 4 ELSE 5)
    <3>1. CASE s = "remote"
      <4>1. c.remote = "NotPresent" /\ c.local = "Modified"
        BY <1>3, <3>1, ClassesFacts
      <4>2. class # 1 /\ class # 2 /\ class # 3
        BY <1>5, <4>1, ClassesFacts
      <4> QED
        BY <1>5, <3>1, <4>2
    <3>2. CASE s = "local"
      <4>1. c.remote = "Modified" /\ c.local = "NotPresent"
        BY <1>4, <3>2, ClassesFacts
      <4>2. class # 1 /\ class # 2 /\ class # 3 /\ class # 4
        BY <1>5, <4>1, ClassesFacts
      <4> QED
        BY <1>5, <3>2, <4>2
    <3> QED
      BY <3>1, <3>2
  <2> QED
    BY <1>7, <2>1 DEF Asked
<1>19. Turned(pair) /\ (NoneUnread' => NoneUnread)
  BY <1>1, <1>8, <1>11, <1>12, <1>16, <1>17, <1>18, EnqueueTurn DEF m, e, Q
<1> QED
  BY <1>1, <1>19, TurnClean

\* Passing a change on keeps it.
LEMMA PropagateChangeClean ==
  ASSUME TypeInv, TypeInv', RunInv, PlanInv, CleanInv, Clean', NEW pair \in todo, NEW s \in Sides, PropagateChange(s, pair)
  PROVE  CleanInv'
<1> USE SideFacts
<1> DEFINE c == Where(s, "NotChanged", "Modified")
           o == changed[Other(s)][Id(pair, Other(s))]
           n == UpdateRevision(meta, Other(s), o.id, o.rev)
           e == [id |-> Id(pair, s), obj |-> o]
           Q == WithEntry(s, "mod", e)
           L == Changing(Q)
           M == Changing(queue)
<1>1. Resolve(c, pair) /\ Enqueue(s, "mod", e, n)
  BY DEF PropagateChange
<1>2. c[s] = "NotChanged" /\ c[Other(s)] = "Modified"
  BY WhereSides DEF WhereFacts
<1> HIDE DEF c
<1>3. /\ Engine(View, store, meta, fresh, queue, Awaiting) /\ pair[1] \in Awaiting
      /\ pair[1] \in DOMAIN meta.map
  BY <1>1, ResolveFacts
<1>4. /\ e.id = Mate(meta, pair[1], s) /\ Tracks(meta, s, e.id) /\ Has(store, s, e.id)
      /\ e.id \in Nat
  BY <1>1, <1>2, HalfFacts DEF Knows
<1>5. /\ o \in Objects /\ o = Object(store, Other(s), o.id) /\ Has(store, Other(s), o.id)
      /\ o.id = Mate(meta, pair[1], Other(s)) /\ Tracks(meta, Other(s), o.id)
  BY <1>1, <1>2, PassedOn
<1>6. e.obj = o /\ e \in Changes
  BY <1>4, <1>5 DEF Changes
<1>7. o.id \in Nat /\ o.rev \in Nat /\ o.rev = store[Other(s)].items[o.id].rev
  <2>1. o.id \in Nat /\ o.rev \in Nat
    BY <1>5 DEF Objects
  <2>2. Object(store, Other(s), o.id).rev = store[Other(s)].items[o.id].rev
    BY DEF Object
  <2> QED
    BY <1>5, <2>1, <2>2
<1> HIDE DEF e, o
<1>8. /\ MetaOK(n) /\ n.map = meta.map
      /\ n.rev[Other(s)] = Put(meta.rev[Other(s)], o.id, o.rev) /\ n.rev[s] = meta.rev[s]
  <2>1. MetaOK(meta)
    BY DEF TypeInv, PlainOK
  <2> QED
    BY <1>7, <2>1, UpdateFacts
<1> HIDE DEF n
<1>9. Narrowed(n)
  BY <1>8 DEF Narrowed
<1>10. Sound(View, store, meta, Unknown(fresh, queue), M, Removing(queue), Awaiting)
  BY <1>3 DEF Engine
<1>11. Distinct(queue[s]["mod"]) /\ e \notin Values(queue[s]["mod"])
  <2>1. ASSUME e \in M[s] PROVE FALSE
    <3>1. PICK r \in DOMAIN meta.map : r \notin Awaiting /\ Mate(meta, r, s) = e.id
      BY <1>10, <2>1 DEF Sound, ModsOK, Change
    <3>2. r = pair[1]
      BY <1>3, <1>4, <1>10, <3>1 DEF Sound, Bijective
    <3> QED
      BY <1>3, <3>1, <3>2
  <2>2. M[s] = Values(queue[s]["mod"])
    BY DEF Changing
  <2> QED
    BY <1>3, <2>1, <2>2 DEF Engine, Kinds
<1>12. "mod" \in Kinds /\ e \in EntryType["mod"] /\ QueuesOK
  BY <1>6 DEF Kinds, EntryType, TypeInv
<1>13. Shorter(Q, queue, s, "mod", e) /\ Distinct(Q[s]["mod"])
  BY <1>11, <1>12, WithEntryFacts
<1> HIDE DEF Q
<1>14. /\ \A t \in Sides :
            Unknown(fresh, Q)[t] = Unknown(fresh, queue)[t] /\ Removing(Q)[t] = Removing(queue)[t]
       /\ (\A d : d \in L[s] <=> d \in M[s] \/ d = e) /\ L[Other(s)] = M[Other(s)]
  <2>1. /\ \A t \in Sides :
             Q[t]["add"] = queue[t]["add"] /\ Q[t]["rem"] = queue[t]["rem"] /\ (t # s => Q[t]["mod"] = queue[t]["mod"])
    BY <1>13 DEF Shorter, Kinds
  <2>2. \A x : x \in Values(Q[s]["mod"]) <=> x \in Values(queue[s]["mod"]) \/ x = e
    BY <1>13 DEF Shorter
  <2> QED
    BY <2>1, <2>2 DEF Unknown, Changing, Removing
<1>15. Unknown(fresh, Q) = Unknown(fresh, queue) /\ Removing(Q) = Removing(queue)
  BY <1>14 DEF Unknown, Removing
<1> HIDE DEF L, M
<1>16. Known(store, n)
  <2>1. Known(store, meta)
    BY <1>10 DEF Sound
  <2>2. \A x \in DOMAIN n.rev[s] : x <= store[s].clock /\ n.rev[s][x] <= store[s].clock
    BY <1>8, <2>1 DEF Known
  <2>3. /\ \A x \in DOMAIN n.rev[Other(s)] :
             x <= store[Other(s)].clock /\ n.rev[Other(s)][x] <= store[Other(s)].clock
    <3>1. o.id <= store[Other(s)].clock /\ o.rev <= store[Other(s)].clock
      BY <1>5, <1>7 DEF TypeInv, StoresOK, StoreOK, IsMap, Has
    <3>2. /\ \A x \in DOMAIN meta.rev[Other(s)] :
               x <= store[Other(s)].clock /\ meta.rev[Other(s)][x] <= store[Other(s)].clock
      BY <2>1 DEF Known
    <3> QED
      BY <1>8, <3>1, <3>2 DEF Put
  <2> QED
    BY <2>2, <2>3 DEF Known
<1>17. \A t \in Sides : \A x : t = s \/ x # o.id => SameAt(store, meta, store, n, t, x)
  <2>1. \A x : SameAt(store, meta, store, n, s, x)
    BY <1>8 DEF SameAt, Tracks
  <2>2. \A x : x # o.id => SameAt(store, meta, store, n, Other(s), x)
    BY <1>8 DEF SameAt, Tracks, Put
  <2> QED
    BY <2>1, <2>2
<1>18. Knows(store, n, Other(s), o.id)
  BY <1>5, <1>7, <1>8 DEF Knows, Tracks, Put
<1>19. Engine(View, store, n, fresh, Q, Awaiting \ {pair[1]})
  <2>1. Sound(View, store, n, Unknown(fresh, queue), L, Removing(queue), Awaiting \ {pair[1]})
    BY ONLY <1>3, <1>4, <1>5, <1>6, <1>8, <1>10, <1>14, <1>16, <1>17, <1>18, s \in Sides,
       ScheduleSound
  <2>2. \A t \in Sides, k \in Kinds : Distinct(Q[t][k])
    BY <1>3, <1>13 DEF Shorter, Engine
  <2>3. \A t \in Sides : Values(Q[Other(t)]["add"]) = Values(queue[Other(t)]["add"])
    BY <1>13 DEF Shorter, Kinds
  <2> QED
    BY <1>3, <1>15, <2>1, <2>2, <2>3 DEF Engine, L
<1>20. Complete(store, meta, fresh, queue) => Complete(store, n, fresh, Q)
  <2>1. \A t \in Sides : \A x : Tracks(meta, t, x) => Tracks(n, t, x)
    BY <1>8 DEF Tracks, Put
  <2> QED
    BY <1>15, <2>1, SameCovered DEF Complete
<1>21. Asked(s, "mod", e)
  BY DEF Asked
<1>22. Turned(pair) /\ (NoneUnread' => NoneUnread)
  BY <1>1, <1>8, <1>9, <1>11, <1>12, <1>19, <1>20, <1>21, EnqueueTurn DEF n, e, Q, o
<1> QED
  BY <1>1, <1>22, TurnClean
-----------------------------------------------------------------------------
(* Both versions of a conflict are kept.                                   *)

\* Both calls of addItem() succeeded.
BothAdded(pair, mine, theirs, m) ==
  /\ m = AddItem(RemoveItem(meta, pair[1], pair[2]), pair[1], theirs.rev, store["local"].clock + 1, store["local"].clock + 1)
  /\ meta' = AddItem(m, store["remote"].clock + 1, store["remote"].clock + 1, pair[2], mine.rev)
  /\ store'["local"] = AddOne(store["local"], theirs.item)
  /\ store'["remote"] = AddOne(store["remote"], mine.item)
  /\ UNCHANGED <<queue, faultVars>>

\* What keeping both versions of a conflict does, if no addition failed.
LEMMA KeepBothParts ==
  ASSUME NEW pair, KeepBoth(pair), Clean'
  PROVE  \E m : BothAdded(pair, changed["local"][pair[2]], changed["remote"][pair[1]], m)
<1> DEFINE mine   == changed["local"][pair[2]]
           theirs == changed["remote"][pair[1]]
           First(l) == AddItem(RemoveItem(meta, pair[1], pair[2]), pair[1], theirs.rev, l.id, l.id)
<1>1. PICK l \in AddConflicting("local", theirs), r \in AddConflicting("remote", mine) :
        /\ store' = [local |-> l.st, remote |-> r.st]
        /\ meta' = AddItem(First(l), r.id, r.id, pair[2], mine.rev)
        /\ IF l.ok /\ r.ok THEN UNCHANGED faultVars ELSE Fault({"addItem"})
  BY DEF KeepBoth
<1>2. l.ok /\ r.ok /\ UNCHANGED faultVars
  BY <1>1 DEF Fault, Clean
<1>3. l = [st |-> AddOne(store["local"], theirs.item), id |-> store["local"].clock + 1, ok |-> TRUE]
  BY <1>2 DEF AddConflicting
<1>4. r = [st |-> AddOne(store["remote"], mine.item), id |-> store["remote"].clock + 1, ok |-> TRUE]
  BY <1>2 DEF AddConflicting
<1>5. queue' = queue
  BY DEF KeepBoth
<1>6. store'["local"] = l.st /\ store'["remote"] = r.st
  BY <1>1
<1>7. /\ l.st = AddOne(store["local"], theirs.item) /\ l.id = store["local"].clock + 1
      /\ r.st = AddOne(store["remote"], mine.item) /\ r.id = store["remote"].clock + 1
  BY <1>3, <1>4
<1> HIDE DEF mine, theirs
<1>8. meta' = AddItem(First(l), store["remote"].clock + 1, store["remote"].clock + 1, pair[2], mine.rev)
  BY <1>1, <1>7
<1>9. First(l) = AddItem(RemoveItem(meta, pair[1], pair[2]), pair[1], theirs.rev, store["local"].clock + 1, store["local"].clock + 1)
  BY <1>7
<1>10. BothAdded(pair, mine, theirs, First(l))
  BY <1>2, <1>5, <1>6, <1>7, <1>8, <1>9 DEF BothAdded
<1> QED
  BY <1>10 DEF mine, theirs

\* U with one more object on each side.
TwoMore(U, mine, theirs) == [s \in Sides |-> U[s] \cup {IF s = "local" THEN mine ELSE theirs}]
TwoMoreLess(U, mine) == [s \in Sides |-> IF s = "local" THEN U[s] \cup {mine} ELSE U[s]]

\* The objects that wait, with two more.
LEMMA TwoMoreFacts ==
  ASSUME NEW U, NEW mine, NEW theirs, mine \notin U["local"], theirs \notin U["remote"]
  PROVE  /\ \A s \in Sides : \A f : f \in TwoMore(U, mine, theirs)[s]
                                    <=> f \in U[s] \/ (s = "local" /\ f = mine) \/ (s = "remote" /\ f = theirs)
         /\ OneLess(TwoMoreLess(U, mine), TwoMore(U, mine, theirs), "remote", theirs)
         /\ theirs \in TwoMore(U, mine, theirs)["remote"]
         /\ OneLess(U, TwoMoreLess(U, mine), "local", mine)
         /\ mine \in TwoMoreLess(U, mine)["local"]
<1> USE SideFacts
<1>1. \A s \in Sides : \A f : f \in TwoMore(U, mine, theirs)[s]
                              <=> f \in U[s] \/ (s = "local" /\ f = mine) \/ (s = "remote" /\ f = theirs)
  BY DEF TwoMore, Sides
<1>2. /\ TwoMore(U, mine, theirs)["local"] = U["local"] \cup {mine}
      /\ TwoMore(U, mine, theirs)["remote"] = U["remote"] \cup {theirs}
      /\ TwoMoreLess(U, mine)["local"] = U["local"] \cup {mine}
      /\ TwoMoreLess(U, mine)["remote"] = U["remote"]
  BY DEF TwoMore, TwoMoreLess
<1>3. \A s \in Sides : s = "local" \/ s = "remote"
  OBVIOUS
<1>4. OneLess(TwoMoreLess(U, mine), TwoMore(U, mine, theirs), "remote", theirs)
  BY <1>2, <1>3 DEF OneLess
<1>5. OneLess(U, TwoMoreLess(U, mine), "local", mine)
  BY <1>2, <1>3 DEF OneLess
<1> QED
  BY <1>1, <1>2, <1>4, <1>5

\* Keeping both versions of a conflict keeps the invariant.
LEMMA KeepBothClean ==
  ASSUME TypeInv, TypeInv', RunInv, PlanInv, CleanInv, Clean', NEW pair \in todo, KeepBoth(pair)
  PROVE  CleanInv'
<1> USE SideFacts
<1> DEFINE c == Where("local", "Modified", "Modified")
           m0 == RemoveItem(meta, pair[1], pair[2])
           mine   == changed["local"][pair[2]]
           theirs == changed["remote"][pair[1]]
           U == Unknown(fresh, queue)
           M == Changing(queue)
           R == Removing(queue)
           W == Awaiting \ {pair[1]}
           N == TwoMore(U, mine, theirs)
           N1 == TwoMoreLess(U, mine)
           l == store["local"].clock + 1
           r == store["remote"].clock + 1
           T1 == WithStore(store, "local", AddOne(store["local"], theirs.item))
           T2 == WithStore(T1, "remote", AddOne(T1["remote"], mine.item))
<1>1. Resolve(c, pair)
  BY DEF KeepBoth
<1>2. c["local"] = "Modified" /\ c["remote"] = "Modified" /\ c = Classes[8]
  BY DEF Where, Classes, Sides
<1> HIDE DEF c
<1>3. /\ Engine(View, store, meta, fresh, queue, Awaiting) /\ pair[1] \in Awaiting
      /\ pair[1] \in DOMAIN meta.map
      /\ pair[2] = meta.map[pair[1]] /\ class \in 1..8 /\ c = Classes[class] /\ FoundOut
  BY <1>1, ResolveFacts
<1>4. PICK m1 : BothAdded(pair, mine, theirs, m1)
  BY KeepBothParts
<1>5. Id(pair, "local") = pair[2] /\ Id(pair, "remote") = pair[1]
  BY DEF Id
<1>6. /\ mine \in Objects /\ mine.id = pair[2] /\ mine = Object(store, "local", mine.id)
      /\ Has(store, "local", mine.id)
      /\ mine.id = Mate(meta, pair[1], "local") /\ Tracks(meta, "local", mine.id)
      /\ StateOf("local", mine.id) = "Modified"
  BY <1>1, <1>2, <1>5, PassedOn
<1>7. /\ theirs \in Objects /\ theirs.id = pair[1] /\ theirs = Object(store, "remote", theirs.id)
      /\ Has(store, "remote", theirs.id)
      /\ theirs.id = Mate(meta, pair[1], "remote") /\ Tracks(meta, "remote", theirs.id)
      /\ StateOf("remote", theirs.id) = "Modified"
  BY <1>1, <1>2, <1>5, PassedOn
<1>8. /\ MetaOK(m0) /\ Narrowed(m0) /\ Parted(meta, m0, pair[1])
      /\ \A q \in DOMAIN meta.map : q # pair[1] => q \in DOMAIN m0.map
  BY <1>1, TurnParts
<1>9. /\ m1 = AddItem(m0, pair[1], theirs.rev, l, l) /\ meta' = AddItem(m1, r, r, pair[2], mine.rev)
      /\ store'["local"] = AddOne(store["local"], theirs.item)
      /\ store'["remote"] = AddOne(store["remote"], mine.item)
      /\ UNCHANGED <<queue, faultVars>>
  BY <1>4 DEF BothAdded
<1>10. /\ m1 = Associate(m0, "local", l, l, theirs)
       /\ meta' = Associate(m1, "remote", r, r, mine)
  BY <1>6, <1>7, <1>9 DEF Associate
<1>11. Sound(View, store, meta, U, M, R, Awaiting)
  BY <1>3 DEF Engine
<1>12. /\ \A f \in U["local"] : f.id # mine.id
       /\ \A f \in U["remote"] : f.id # theirs.id
       /\ mine.id \notin R["local"] /\ theirs.id \notin R["remote"]
  BY <1>6, <1>7, <1>11 DEF Sound, ClaimsOK, Waiting
<1>13. mine.item \in Contacts /\ theirs.item \in Contacts
  BY <1>6, <1>7 DEF Objects
<1>14. Stores(store)
  BY DEF TypeInv, StoresOK, Stores
<1>15. l \in Nat /\ StoreOK(store["local"]) /\ StoreOK(store["remote"])
  BY <1>14 DEF Stores, StoreOK
<1>16. /\ StoreOK(AddOne(store["local"], theirs.item))
       /\ Grown(store["local"], AddOne(store["local"], theirs.item))
       /\ StoreOK(AddOne(store["remote"], mine.item))
       /\ Grown(store["remote"], AddOne(store["remote"], mine.item))
  <2>1. /\ \A item \in Contacts :
             StoreOK(AddOne(store["local"], item)) /\ StoreOK(AddOne(store["remote"], item))
    BY <1>15, AddOneFacts
  <2>2. /\ \A item \in Contacts :
             Grown(store["local"], AddOne(store["local"], item)) /\ Grown(store["remote"], AddOne(store["remote"], item))
    BY <1>15, AddGrows
  <2> QED
    BY <1>13, <2>1, <2>2
<1> HIDE DEF m0, mine, theirs, U, M, R, l, r
<1>17. /\ Stores(T1) /\ Exchanged(store, T1, "local", AddOne(store["local"], theirs.item))
       /\ T1["local"] = AddOne(store["local"], theirs.item) /\ T1["remote"] = store["remote"]
  <2>1. Other("local") = "remote"
    BY DEF Other
  <2> QED
    BY <1>14, <1>16, <2>1, WithStoreFacts
<1> HIDE DEF T1
<1>18. /\ Stores(T2) /\ Exchanged(T1, T2, "remote", AddOne(T1["remote"], mine.item))
       /\ T2["remote"] = AddOne(store["remote"], mine.item)
       /\ T2["local"] = AddOne(store["local"], theirs.item)
  <2>1. Other("remote") = "local"
    BY DEF Other
  <2>2. StoreOK(AddOne(T1["remote"], mine.item))
    BY <1>16, <1>17
  <2> QED
    BY <1>17, <2>1, <2>2, WithStoreFacts
<1> HIDE DEF T2
<1>19. SameStores(T2, store')
  BY <1>9, <1>18 DEF SameStores, Sides
<1>20. /\ \A s \in Sides :
            \A f :
              f \in N[s] <=> f \in U[s] \/ (s = "local" /\ f = mine) \/ (s = "remote" /\ f = theirs)
       /\ OneLess(N1, N, "remote", theirs) /\ theirs \in N["remote"]
       /\ OneLess(U, N1, "local", mine) /\ mine \in N1["local"]
  <2>1. mine \notin U["local"] /\ theirs \notin U["remote"]
    BY <1>12
  <2> QED
    BY <2>1, TwoMoreFacts
<1> HIDE DEF N, N1
<1>21. Sound(View, store, m0, N, M, R, W)
  <2>1. \A s \in Sides : \A f \in N[s] :
          f \in U[s] \/ (f \in Objects /\ f.id = Mate(meta, pair[1], s) /\ Has(store, s, f.id) /\ f = Object(store, s, f.id)
                         /\ f.id \notin R[s])
    BY <1>6, <1>7, <1>12, <1>20
  <2> QED
    BY <1>3, <1>8, <1>11, <2>1, PartSound
<1>22. Covered(store, meta, U, R) => Covered(store, m0, N, R)
  <2>1. \A s \in Sides : U[s] \subseteq N[s]
    BY <1>20
  <2>2. \A s \in Sides : Has(store, s, Mate(meta, pair[1], s)) =>
          Mate(meta, pair[1], s) \in R[s] \/ \E f \in N[s] : f.id = Mate(meta, pair[1], s)
    BY <1>6, <1>7, <1>20 DEF Sides
  <2> QED
    BY <1>8, <2>1, <2>2, PartCovered
<1>23. MetaOK(m1)
  <2>1. pair[1] \in Nat /\ theirs.rev \in Nat
    BY <1>7 DEF Objects
  <2> QED
    BY <1>8, <1>9, <1>15, <2>1, AddItemType
<1>24. /\ Sound(View, T1, m1, N1, M, R, W)
       /\ Covered(store, m0, N, R) => Covered(T1, m1, N1, R)
  <2>1. Other("local") = "remote"
    BY DEF Other
  <2>2. m1 = Associate(m0, "local", store["local"].clock + 1, store["local"].clock + 1, theirs)
    BY <1>10 DEF l
  <2>3. OneLess(N1, N, Other("local"), theirs) /\ theirs \in N[Other("local")] /\ "local" \in Sides
    BY <1>20, <2>1
  <2>4. AddMade(store, m0, "local", theirs, T1, m1)
    BY <1>17, <2>2 DEF AddMade, Copied
  <2> HIDE DEF W
  <2> QED
    BY ONLY <1>8, <1>14, <1>21, <2>3, <2>4, AddStep
<1>25. /\ Sound(View, T2, meta', U, M, R, W)
       /\ Covered(T1, m1, N1, R) => Covered(T2, meta', U, R)
  <2>1. Other("remote") = "local"
    BY DEF Other
  <2>2. meta' = Associate(m1, "remote", T1["remote"].clock + 1, T1["remote"].clock + 1, mine)
    BY <1>10, <1>17 DEF r
  <2>3. OneLess(U, N1, Other("remote"), mine) /\ mine \in N1[Other("remote")] /\ "remote" \in Sides
    BY <1>20, <2>1
  <2>4. AddMade(T1, m1, "remote", mine, T2, meta')
    BY <1>18, <2>2 DEF AddMade, Copied
  <2> HIDE DEF W
  <2> QED
    BY ONLY <1>17, <1>23, <1>24, <2>3, <2>4, AddStep
<1>26. /\ Sound(View, store', meta', U, M, R, W)
       /\ (Covered(T2, meta', U, R) => Covered(store', meta', U, R))
  BY <1>19, <1>25, SwapSound
<1>27. Engine(View, store', meta', fresh, queue', W)
  BY <1>3, <1>9, <1>26 DEF Engine, U, M, R
<1>28. Complete(store, meta, fresh, queue) => Complete(store', meta', fresh, queue')
  BY <1>9, <1>22, <1>24, <1>25, <1>26 DEF Complete, U, R
<1>29. Kin
  BY <1>9, <1>16 DEF Kin, Sides
<1>30. /\ PairAdded(m0, m1, "local", theirs, l) /\ PairAdded(m1, meta', "remote", mine, r)
  <2>1. Copied(store, m0, "local", theirs, m1)
    BY <1>10 DEF Copied, l
  <2>2. Copied(T1, m1, "remote", mine, meta')
    BY <1>10, <1>17 DEF Copied, r
  <2>3. Other("local") = "remote" /\ Other("remote") = "local"
    BY DEF Other
  <2>4. PairAdded(m0, m1, "local", theirs, l)
    BY <1>14, <1>20, <1>21, <2>1, <2>3, EntryPairs DEF l
  <2>5. PairAdded(m1, meta', "remote", mine, T1["remote"].clock + 1)
    BY <1>17, <1>20, <1>24, <2>2, <2>3, EntryPairs
  <2> QED
    BY <1>17, <2>4, <2>5 DEF r
<1>31. \A q \in Awaiting : q # pair[1] => meta'.map[q] = meta.map[q]
  <2>1. \A q \in Awaiting : q \in DOMAIN meta.map
    BY <1>11 DEF Sound, WaitsOK
  <2>2. \A q \in DOMAIN m0.map : q \in DOMAIN m1.map /\ m1.map[q] = m0.map[q]
    BY <1>30 DEF PairAdded
  <2>3. \A q \in DOMAIN m1.map : meta'.map[q] = m1.map[q]
    BY <1>30 DEF PairAdded
  <2> QED
    BY <1>8, <2>1, <2>2, <2>3 DEF Narrowed
<1>32. class = 8
  <2>1. Classes[class].remote = "Modified" /\ Classes[class].local = "Modified"
    BY <1>2, <1>3
  <2> QED
    BY <1>3, <2>1, ClassesFacts
<1>33. StateOf("local", l) = "NotPresent" /\ StateOf("remote", r) = "NotPresent"
  <2>1. \A s \in Sides : \A x \in DOMAIN state[s] : x \in Nat /\ x <= store[s].clock
    BY <1>3 DEF FoundOut, TypeInv, FoundOK, IsMap
  <2>2. store["local"].clock \in Nat /\ store["remote"].clock \in Nat
    BY <1>15 DEF StoreOK
  <2>3. l \notin DOMAIN state["local"]
    BY <2>1, <2>2 DEF l
  <2>4. r \notin DOMAIN state["remote"]
    BY <2>1, <2>2 DEF r
  <2> QED
    BY <2>3, <2>4 DEF StateOf
<1>34. ASSUME NEW q \in DOMAIN meta'.map
       PROVE  (q \in DOMAIN meta.map /\ meta'.map[q] = meta.map[q]) \/ Young(q, meta'.map[q])
  <2>1. CASE q \in DOMAIN m0.map
    <3>1. q \in DOMAIN m1.map /\ m1.map[q] = m0.map[q]
      BY <1>30, <2>1 DEF PairAdded
    <3>2. meta'.map[q] = m1.map[q]
      BY <1>30, <3>1 DEF PairAdded
    <3> QED
      BY <1>8, <2>1, <3>1, <3>2 DEF Narrowed
  <2>2. CASE q \in DOMAIN m1.map /\ q \notin DOMAIN m0.map
    <3>1. theirs.id = Mate(m1, q, "remote") /\ l = Mate(m1, q, "local")
      BY <1>30, <2>2 DEF PairAdded, Other
    <3>2. q = theirs.id /\ m1.map[q] = l
      BY <3>1 DEF Mate
    <3>3. meta'.map[q] = l
      BY <1>30, <2>2, <3>2 DEF PairAdded
    <3> QED
      BY <1>7, <1>32, <1>33, <3>2, <3>3 DEF Young
  <2>3. CASE q \notin DOMAIN m1.map
    <3>1. mine.id = Mate(meta', q, "local") /\ r = Mate(meta', q, "remote")
      BY <1>30, <2>3 DEF PairAdded, Other
    <3>2. q = r /\ meta'.map[q] = mine.id
      BY <3>1 DEF Mate
    <3> QED
      BY <1>6, <1>32, <1>33, <3>2 DEF Young
  <2> QED
    BY <2>1, <2>2, <2>3
<1>35. Turned(pair)
  BY <1>9, <1>27, <1>28, <1>29, <1>31, <1>34 DEF Turned
<1>36. NoneUnread' => NoneUnread
  BY <1>9 DEF NoneUnread, faultVars
<1> QED
  BY <1>1, <1>35, <1>36, TurnClean
-----------------------------------------------------------------------------
(* New objects, matched or added.                                          *)

\* What the turn of a new object leaves alone.
Matching == pc = "match" /\ UNCHANGED <<saved, pc, hasMeta, plan, todo, state, changed, class,
                                        begun>>

\* The turn of a new object that keeps the account keeps the invariant.
LEMMA MatchingClean ==
  ASSUME TypeInv, TypeInv', RunInv, CleanInv, Matching, Kin, NoneUnread' => NoneUnread,
         Engine(View, store', meta', fresh', queue', {}),
         Complete(store, meta, fresh, queue) => Complete(store', meta', fresh', queue'),
         \A s \in Sides : Values(queue'[s]["rem"]) \subseteq Values(queue[s]["rem"])
  PROVE  CleanInv'
<1>1. /\ pc = "match" /\ pc' = "match" /\ View' = View /\ Awaiting' = {}
      /\ UNCHANGED <<saved, hasMeta, plan, begun>>
  BY DEF Matching, View, Awaiting
<1>2. pc \in Resolving /\ pc' \in Resolving /\ pc' \notin Detecting
  BY <1>1 DEF Resolving, Detecting
<1>3. /\ hasMeta /\ RemsAsked
      /\ Engine(View, store, meta, fresh, queue, {})
      /\ (NoneUnread => Complete(store, meta, fresh, queue))
  BY <1>1, <1>2, FullFacts
<1>4. DrainInv'
  BY <1>1, <1>2, <1>3, AfterFlushFacts DEF DrainInv
<1>5. FullInv'
  BY <1>1, <1>3 DEF FullInv
<1>6. SavedOK'
  BY <1>1, FullSaved
<1>7. RemsAsked'
  BY <1>1, <1>3, RemsKept
<1> QED
  BY <1>1, <1>2, <1>3, <1>4, <1>5, <1>6, <1>7, FullClean

\* One is put into the queue of the other side.
LEMMA MatchMoved ==
  ASSUME TypeInv, TypeInv', RunInv, CleanInv, Clean', Matching,
         NEW s \in Sides, NEW obj \in fresh[Other(s)], Enqueue(s, "add", obj, meta), OneLess(fresh', fresh, Other(s), obj)
  PROVE  CleanInv'
<1> DEFINE Q == WithEntry(s, "add", obj)
<1>1. pc = "match" /\ pc \in Resolving
  BY DEF Matching, Resolving
<1>2. Engine(View, store, meta, fresh, queue, {})
  BY <1>1, FullFacts
<1>3. StoresOK /\ QueuesOK /\ MetaOK(meta) /\ "flush" \notin faulty'
  BY DEF TypeInv, PlainOK, Clean
<1> HIDE DEF Q
<1>4. /\ obj \in Objects /\ Distinct(queue[s]["add"]) /\ obj \notin Values(queue[s]["add"])
      /\ Engine(View, store, meta, fresh', Q, {})
      /\ Complete(store, meta, fresh, queue) => Complete(store, meta, fresh', Q)
  BY <1>2, <1>3, MoveSound DEF Q
<1>5. "add" \in Kinds /\ obj \in EntryType["add"]
  BY <1>4 DEF Kinds, EntryType
<1>6. FlushEnds(View, meta, fresh', Q, {}, s, "add", meta') /\ EntryLeaves(Q, s, "add")
  BY <1>3, <1>4, <1>5, EnqueueSound DEF Q
<1>7. /\ Engine(View, store', meta', fresh', queue', {}) /\ Kin
      /\ Complete(store, meta, fresh, queue) => Complete(store', meta', fresh', queue')
  BY <1>4, <1>6 DEF FlushEnds, Kin
<1>8. \A t \in Sides : queue'[t]["rem"] = queue[t]["rem"]
  <2>1. \A t \in Sides : Q[t]["rem"] = queue[t]["rem"]
    BY DEF Q, WithEntry, Kinds
  <2> QED
    BY <1>6, <2>1 DEF EntryLeaves, Kinds
<1>9. NoneUnread' => NoneUnread
  BY <1>6 DEF EntryLeaves, NoneUnread, faultVars
<1> QED
  BY <1>7, <1>8, <1>9, MatchingClean

\* Adding a new remote item keeps it.
LEMMA AddFreshClean ==
  ASSUME TypeInv, TypeInv', RunInv, CleanInv, Clean', NEW obj \in fresh.remote, AddFresh(obj)
  PROVE  CleanInv'
<1> USE SideFacts
<1>1. Matching /\ Enqueue("local", "add", obj, meta) /\ fresh' = [fresh EXCEPT !.remote = @ \ {obj}]
  BY DEF AddFresh, Matching, scanVars, histVars
<1>2. OneLess(fresh', fresh, Other("local"), obj) /\ obj \in fresh[Other("local")]
  <2>1. DOMAIN fresh = Sides
    BY DEF TypeInv, FoundOK
  <2>2. /\ fresh'["remote"] = fresh["remote"] \ {obj}
        /\ \A t \in Sides : t # "remote" => fresh'[t] = fresh[t]
    BY <1>1, <2>1
  <2> QED
    BY <2>2 DEF OneLess, Other
<1> QED
  BY <1>1, <1>2, MatchMoved

\* Pairing a new local item with an equal one, or adding it, keeps it.
LEMMA MatchFreshClean ==
  ASSUME TypeInv, TypeInv', RunInv, CleanInv, Clean', NEW obj \in fresh.local, MatchFresh(obj)
  PROVE  CleanInv'
<1> USE SideFacts
<1> DEFINE equal == {x \in fresh.remote : x.item = obj.item}
           twin  == CHOOSE x \in equal : \A y \in equal : x.id <= y.id
<1>1. Matching
  BY DEF MatchFresh, Matching, scanVars, histVars
<1>2. pc \in Resolving
  BY <1>1 DEF Matching, Resolving
<1>3. Engine(View, store, meta, fresh, queue, {})
  BY <1>1, <1>2, FullFacts DEF Matching
<1>4. StoresOK /\ MetaOK(meta) /\ DOMAIN fresh = Sides
  BY DEF TypeInv, PlainOK, FoundOK
<1>5. CASE equal # {}
  <2>1. /\ meta' = AddItem(meta, twin.id, twin.rev, obj.id, obj.rev)
        /\ fresh' = [local |-> fresh.local \ {obj}, remote |-> fresh.remote \ {twin}]
        /\ UNCHANGED <<store, queue, faultVars>>
    BY <1>5 DEF MatchFresh
  <2>2. twin \in equal
    <3> DEFINE I == {x.id : x \in equal}
    <3>1. I \subseteq Nat /\ I # {}
      BY <1>3, <1>5, FreshFacts DEF Objects
    <3>2. PICK n \in I : \A k \in I : n <= k
      <4> HIDE DEF I
      <4> QED
        BY <3>1, LeastNatural
    <3>3. \E x \in equal : \A y \in equal : x.id <= y.id
      BY <3>2
    <3> HIDE DEF equal
    <3> QED
      BY <3>3
  <2> HIDE DEF twin
  <2>3. twin \in fresh["remote"] /\ twin.item = obj.item
    BY <2>2
  <2>4. PairMade(meta, meta', twin, obj)
    BY <2>1, <2>3 DEF PairMade
  <2>5. Minus(fresh', fresh, "remote", twin.id) /\ Minus(fresh', fresh, "local", obj.id)
    <3>1. \A f \in fresh["remote"] : f.id = twin.id => f = twin
      BY <1>3, <2>3, FreshFacts
    <3>2. \A f \in fresh["local"] : f.id = obj.id => f = obj
      BY <1>3, FreshFacts
    <3>3. fresh'["remote"] = fresh["remote"] \ {twin} /\ fresh'["local"] = fresh["local"] \ {obj}
      BY <2>1
    <3> QED
      BY <3>1, <3>2, <3>3 DEF Minus
  <2>6. /\ Engine(View, store, meta', fresh', queue, {})
        /\ Complete(store, meta, fresh, queue) => Complete(store, meta', fresh', queue)
    BY <1>3, <1>4, <2>3, <2>4, <2>5, PairFresh
  <2>7. Kin /\ (NoneUnread' => NoneUnread)
    BY <1>4, <2>1, SameKin DEF NoneUnread, faultVars
  <2>8. store' = store /\ queue' = queue
    BY <2>1
  <2>9. /\ Engine(View, store', meta', fresh', queue', {})
        /\ Complete(store, meta, fresh, queue) => Complete(store', meta', fresh', queue')
        /\ \A s \in Sides : Values(queue'[s]["rem"]) \subseteq Values(queue[s]["rem"])
    BY <2>6, <2>8
  <2> QED
    BY <1>1, <2>7, <2>9, MatchingClean
<1>6. CASE equal = {}
  <2>1. Enqueue("remote", "add", obj, meta) /\ fresh' = [fresh EXCEPT !.local = @ \ {obj}]
    BY <1>6 DEF MatchFresh
  <2>2. OneLess(fresh', fresh, Other("remote"), obj) /\ obj \in fresh[Other("remote")]
    <3>1. /\ fresh'["local"] = fresh["local"] \ {obj}
          /\ \A t \in Sides : t # "local" => fresh'[t] = fresh[t]
      BY <1>4, <2>1
    <3> QED
      BY <3>1 DEF OneLess, Other
  <2> QED
    BY <1>1, <2>1, <2>2, MatchMoved
<1> QED
  BY <1>5, <1>6

-----------------------------------------------------------------------------
(* The invariant is inductive.                                             *)

\* Every step keeps what holds while nothing failed that the code does not
\* recover from.
LEMMA CleanStep ==
  ASSUME TypeInv, TypeInv', RunInv, RunInv', PlanInv, PlanInv', CleanInv, Clean', [Next]_vars
  PROVE  CleanInv'
<1>1. CASE Synchronize
  BY <1>1, SynchronizeClean
<1>2. CASE BuildIndex
  BY <1>2, BuildIndexClean
<1>3. CASE ScanDone
  BY <1>3, ScanDoneClean
<1>4. CASE RestDone
  BY <1>4, RestDoneClean
<1>5. CASE NoticeCancel
  BY <1>5, NoticeCancelClean
<1>6. CASE \E e \in todo : ScanRemote(e)
  BY <1>6, ScanRemoteClean
<1>7. CASE \E e \in todo : AddRest(e)
  BY <1>7, AddRestClean
<1>8. CASE FlushNext
  BY <1>8, FlushFirstClean, FlushAllClean
<1>9. CASE Conclude
  BY <1>9, ConcludeClean
<1>10. CASE \E s \in Sides : Detect(s)
  BY <1>10, DetectClean
<1>11. CASE \E s \in Sides : Fetch(s)
  BY <1>11, FetchClean
<1>12. CASE NextClass
  BY <1>12, NextClassClean
<1>13. CASE MatchDone
  BY <1>13, MatchDoneClean
<1>14. CASE \E pair \in todo : ForgetPair(pair)
  BY <1>14, ForgetPairClean
<1>15. CASE \E pair \in todo : KeepBoth(pair)
  BY <1>15, KeepBothClean
<1>16. CASE \E pair \in todo, s \in Sides : RemoveCounterpart(s, pair)
  BY <1>16, RemoveCounterpartClean
<1>17. CASE \E pair \in todo, s \in Sides : RestoreItem(s, pair)
  BY <1>17, RestoreItemClean
<1>18. CASE \E pair \in todo, s \in Sides : PropagateChange(s, pair)
  BY <1>18, PropagateChangeClean
<1>19. CASE \E obj \in fresh.local : MatchFresh(obj)
  BY <1>19, MatchFreshClean
<1>20. CASE \E obj \in fresh.remote : AddFresh(obj)
  BY <1>20, AddFreshClean
<1>21. CASE StorageInitFails
  BY <1>21, StorageInitFailsClean
<1>22. CASE Cancel
  BY <1>22, CancelClean
<1>23. CASE Edit
  BY <1>23, EditClean
<1>24. CASE Restart
  BY <1>24, RestartClean
<1>25. CASE Crash
  BY <1>25, CrashClean
<1>26. CASE UNCHANGED vars
  BY <1>26, StutterClean
<1>27. CASE Run
  BY <1>27, <1>1, <1>2, <1>3, <1>4, <1>5, <1>6, <1>7, <1>8, <1>9, <1>10, <1>11, <1>12, <1>13,
     <1>14, <1>15, <1>16,
     <1>17, <1>18, <1>19, <1>20, Zenon DEF Run
<1> QED
  BY <1>21, <1>22, <1>23, <1>24, <1>25, <1>26, <1>27 DEF Next

\* The invariant holds at the beginning.
LEMMA InitDeep == Init => DeepInv
<1> SUFFICES ASSUME Init PROVE DeepInv
  OBVIOUS
<1>1. /\ pc = "idle" /\ hasMeta = FALSE /\ saved = NoMeta /\ meta = EmptyMeta /\ plan = 0
      /\ class = 0 /\ result = "None"
  BY DEF Init
<1>2. TypeInv
  BY InitTypes
<1>3. RunInv /\ PlanInv
  BY <1>1, PcFacts DEF RunInv, PlanInv
<1>4. CleanInv
  BY <1>1, PcFacts, EmptyMemory DEF CleanInv
<1>5. MirrorInv
  BY <1>1 DEF MirrorInv, Done, Ok
<1> QED
  BY <1>2, <1>3, <1>4, <1>5 DEF DeepInv

\* Every step keeps it.
LEMMA DeepStep == DeepInv /\ [Next]_vars => DeepInv'
<1> SUFFICES ASSUME DeepInv, [Next]_vars PROVE DeepInv'
  OBVIOUS
<1>1. TypeInv /\ RunInv /\ PlanInv /\ (Clean => CleanInv) /\ MirrorInv
  BY DEF DeepInv
<1>2. TypeInv' /\ RunInv' /\ PlanInv'
  BY <1>1, TypeStep, RunStep, PlanStep
<1>3. Clean' => Clean
  BY FaultyGrows DEF Clean
<1>4. Clean' => CleanInv'
  BY <1>1, <1>2, <1>3, CleanStep
<1>5. MirrorInv'
  BY <1>1, <1>2, MirrorStep
<1> QED
  BY <1>2, <1>4, <1>5 DEF DeepInv

\* It holds in every behaviour of the specification.
LEMMA DeepCorrect == Spec => []DeepInv
  BY InitDeep, DeepStep, PTL DEF Spec

\* A run that reports success leaves both sides mirrored, also after a crash
\* at any step and whatever was retried before, unless one of the failures
\* happened that the code does not handle.
THEOREM MirrorCorrect == Spec => []SuccessMirrors
<1>1. DeepInv => SuccessMirrors
  BY DEF DeepInv, MirrorInv, SuccessMirrors
<1> QED
  BY <1>1, DeepCorrect, PTL
=============================================================================
