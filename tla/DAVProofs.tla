------------------------------ MODULE DAVProofs ------------------------------
(***************************************************************************)
(* The CardDAV and CalDAV storages and their iterators keep their promises,*)
(* for any items, any number of writes by any clients, any servers and     *)
(* parameters that DAVStorageAssumption allows, and any QUERY_SIZE.        *)
(*                                                                         *)
(* The storages: first, what the helpers read of an answer is what the     *)
(* server put in, through the tree of the body, its list of responses and  *)
(* their properties.  Then the invariant, DAVInv: the server's history     *)
(* numbers the writes, so that an item's version says when it was written; *)
(* what the helper knows of an item is never newer than the item, so that  *)
(* a stale revision costs another download and not a lost change; the      *)
(* steps of init() keep the best calendar; and a batch is the items done,  *)
(* each with a report of its own write, and those to do, of which only the *)
(* first was ever written.                                                 *)
(*                                                                         *)
(* The iterators: what was handed out and what is cached is one sequence,  *)
(* to which a batch appends the items between two values of offset; next() *)
(* moves the border within it.  The status ties the end of the thread to   *)
(* the last value of offset.                                               *)
(***************************************************************************)
EXTENDS DAVStorage, DAVIterator, SharedFacts, SequenceTheorems, TLAPS

-----------------------------------------------------------------------------
(* Sequences: what a filter leaves.                                        *)

(* t has the elements of s at the indices I, each once and in their order. *)
Picks(t, s, I) ==
  \E c \in Nat : \E e \in [1..c -> I] :
    /\ \A j, k \in 1..c : j < k => e[j] < e[k]
    /\ \A i \in I : \E k \in 1..c : e[k] = i
    /\ t = [k \in 1..c |-> s[e[k]]]

(* That is what Those picks.                                               *)
LEMMA ThoseFacts ==
  ASSUME NEW s, NEW n \in Nat, NEW I \in SUBSET (1..n)
  PROVE  Picks(Those(s, I), s, I)
<1> DEFINE c == Cardinality(I)
           Upto(i) == {j \in I : j <= i}
<1>0. n + 1 \in Nat /\ I \in SUBSET (0..(n + 1) - 1) /\ \A i \in I : i \in Int
  OBVIOUS
<1>1. /\ c \in Nat
      /\ \E e \in [1..c -> I] : \A j, k \in DOMAIN e : j < k => e[j] < e[k]
      /\ \A e \in [1..c -> I] :
           (\A j, k \in DOMAIN e : j < k => e[j] < e[k]) => \A i \in I : \E k \in DOMAIN e : e[k] = i
  BY <1>0, IncreasingEnumeration
<1> HIDE DEF c
<1>2. PICK e \in [1..c -> I] : \A j, k \in DOMAIN e : j < k => e[j] < e[k]
  BY <1>1
<1>3. \A i \in I : \E k \in 1..c : e[k] = i
  BY <1>1, <1>2
<1>4. \A j, k \in 1..c : (j < k => e[j] < e[k]) /\ e[j] \in Int /\ e[j] \in I
  BY <1>2, <1>0
<1>5. \A k \in 1..c : Cardinality(Upto(e[k])) = k
  <2> TAKE k \in 1..c
  <2>1. k \in Nat /\ IsFiniteSet(1..k) /\ Cardinality(1..k) = k
    BY <1>1, FS_Interval
  <2> DEFINE f == [j \in 1..k |-> e[j]]
  <2>2. \A j \in 1..k : j \in 1..c
    BY <1>1, <2>1
  <2>3. \A j \in 1..k : e[j] \in Upto(e[k])
    <3> TAKE j \in 1..k
    <3>1. j < k \/ j = k
      BY <2>1
    <3> QED
      BY <1>4, <2>2, <3>1
  <2>4. \A i \in Upto(e[k]) : \E j \in 1..k : e[j] = i
    <3> TAKE i \in Upto(e[k])
    <3>1. PICK j \in 1..c : e[j] = i
      BY <1>3
    <3>2. ~(k < j)
      BY <1>4, <3>1
    <3> QED
      BY <1>1, <2>1, <3>1, <3>2
  <2>5. \A i, j \in 1..k : e[i] = e[j] => i = j
    <3> TAKE i, j \in 1..k
    <3>1. i < j \/ j < i \/ i = j
      BY <2>1
    <3> QED
      BY <1>4, <2>2, <3>1
  <2>6. f \in Bijection(1..k, Upto(e[k]))
    <3>1. f \in [1..k -> Upto(e[k])]
      BY <2>3
    <3> HIDE DEF Upto
    <3> QED
      BY <2>4, <2>5, <3>1 DEF Bijection, Injection, Surjection, IsInjective
  <2> HIDE DEF f, Upto
  <2> QED
    BY <2>1, <2>6, FS_Bijection DEF ExistsBijection
<1>6. \A k \in 1..c : (CHOOSE i \in I : Cardinality(Upto(i)) = k) = e[k]
  <2> TAKE k \in 1..c
  <2> DEFINE i == CHOOSE i \in I : Cardinality(Upto(i)) = k
  <2> HIDE DEF Upto
  <2>1. i \in I /\ Cardinality(Upto(i)) = k
    BY <1>4, <1>5
  <2> HIDE DEF i
  <2>2. PICK j \in 1..c : e[j] = i
    BY <1>3, <2>1
  <2>3. j = k
    BY <1>5, <2>1, <2>2
  <2> QED
    BY <2>2, <2>3 DEF i
<1>7. Those(s, I) = [k \in 1..c |-> s[CHOOSE i \in I : Cardinality(Upto(i)) = k]]
  BY DEF Those, c
<1> HIDE DEF Upto
<1>8. Those(s, I) = [k \in 1..c |-> s[e[k]]]
  BY <1>6, <1>7
<1> QED
  BY <1>1, <1>3, <1>4, <1>8 DEF Picks

(* t has just the elements of s at the indices I.                          *)
Members(t, s, I) ==
  /\ \E c \in Nat : DOMAIN t = 1..c
  /\ \A k \in DOMAIN t : \E i \in I : t[k] = s[i]
  /\ \A i \in I : \E k \in DOMAIN t : t[k] = s[i]
  /\ I = {} => t = <<>>
  /\ I # {} => 1 \in DOMAIN t /\ t # <<>>

(* A picked sequence has the elements at the indices and no others.        *)
LEMMA PicksMembers ==
  ASSUME NEW s, NEW n \in Nat, NEW I \in SUBSET (1..n), NEW t, Picks(t, s, I)
  PROVE  Members(t, s, I)
<1>1. PICK c \in Nat : \E e \in [1..c -> I] :
        /\ \A i \in I : \E k \in 1..c : e[k] = i
        /\ t = [k \in 1..c |-> s[e[k]]]
  BY DEF Picks
<1>2. PICK e \in [1..c -> I] :
        /\ \A i \in I : \E k \in 1..c : e[k] = i
        /\ t = [k \in 1..c |-> s[e[k]]]
  BY <1>1
<1>4. t = [k \in 1..c |-> s[e[k]]] /\ DOMAIN t = 1..c /\ \A k \in 1..c : t[k] = s[e[k]] /\ e[k] \in I
  BY <1>2
<1>5. I = {} => t = <<>>
  <2> SUFFICES ASSUME I = {} PROVE t = <<>>
    OBVIOUS
  <2>1. 1..c = {}
    BY <1>4
  <2> QED
    BY <1>4, <2>1
<1>6. I # {} => 1 \in 1..c
  <2> SUFFICES ASSUME NEW i \in I PROVE 1 \in 1..c
    OBVIOUS
  <2>1. PICK k \in 1..c : e[k] = i
    BY <1>2
  <2> QED
    BY <2>1
<1>7. I # {} => t # <<>>
  BY <1>4, <1>6
<1>8. \A i \in I : \E k \in DOMAIN t : t[k] = s[i]
  BY <1>2, <1>4
<1>9. \A k \in DOMAIN t : \E i \in I : t[k] = s[i]
  BY <1>4
<1> QED
  BY <1>4, <1>5, <1>6, <1>7, <1>8, <1>9 DEF Members

(* So has Those: what the helpers' loops over a list leave of it.          *)
LEMMA ThoseMembers ==
  ASSUME NEW s, NEW n \in Nat, NEW I \in SUBSET (1..n)
  PROVE  Members(Those(s, I), s, I)
  BY ThoseFacts, PicksMembers

(* The last elements of a sequence, from a on.                             *)
From(s, a, n) == [k \in 1..n - a + 1 |-> s[k + a - 1]]

(* Those of all indices is the sequence, those from 2 on are its tail.     *)
LEMMA ThoseFrom ==
  ASSUME NEW s, NEW n \in Nat, NEW a \in {1, 2}, a <= n + 1
  PROVE  Those(s, a..n) = From(s, a, n)
<1> DEFINE I == a..n
           Upto(i) == {j \in I : j <= i}
<1>1. Cardinality(I) = n - a + 1
  <2>1. Cardinality(a..n) = IF a > n THEN 0 ELSE n - a + 1
    BY FS_Interval
  <2> QED
    BY <2>1
<1>2. \A i \in I : Cardinality(Upto(i)) = i - a + 1
  <2> TAKE i \in I
  <2>1. Upto(i) = a..i
    OBVIOUS
  <2>2. Cardinality(a..i) = IF a > i THEN 0 ELSE i - a + 1
    BY FS_Interval
  <2>3. ~(a > i)
    OBVIOUS
  <2> HIDE DEF Upto, I
  <2> QED
    BY <2>1, <2>2, <2>3
<1> DEFINE At(k) == CHOOSE i \in I : Cardinality(Upto(i)) = k
<1>3. \A k \in 1..n - a + 1 : At(k) = k + a - 1
  <2> TAKE k \in 1..n - a + 1
  <2>1. k + a - 1 \in I /\ (k + a - 1) - a + 1 = k
    OBVIOUS
  <2>i. \A i \in I : i \in Int
    OBVIOUS
  <2> HIDE DEF I, Upto
  <2>2. Cardinality(Upto(k + a - 1)) = k
    BY <1>2, <2>1
  <2>3. At(k) \in I /\ Cardinality(Upto(At(k))) = k
    BY <2>1, <2>2
  <2> HIDE DEF At
  <2>4. At(k) - a + 1 = k /\ At(k) \in Int
    BY <1>2, <2>3, <2>i
  <2> QED
    BY <2>4
<1>4. Those(s, I) = [k \in 1..Cardinality(I) |-> s[At(k)]]
  BY DEF Those
<1> HIDE DEF At, I
<1>5. Those(s, I) = [k \in 1..n - a + 1 |-> s[k + a - 1]]
  BY <1>1, <1>3, <1>4
<1> QED
  BY <1>5 DEF I, From

-----------------------------------------------------------------------------
(* Bodies: nodes, their properties and responses.                          *)

(* The elements of short sequences.                                        *)
LEMMA ToSetFacts ==
  /\ ToSet(<<>>) = {}
  /\ \A a : ToSet(<<a>>) = {a}
  /\ \A a, b : ToSet(<<a, b>>) = {a, b}
  /\ \A a, b, c : ToSet(<<a, b, c>>) = {a, b, c}
<1>1. ToSet(<<>>) = {}
  BY DEF ToSet
<1>2. ASSUME NEW a PROVE ToSet(<<a>>) = {a}
  BY DEF ToSet
<1>3. ASSUME NEW a, NEW b PROVE ToSet(<<a, b>>) = {a, b}
  <2>1. DOMAIN <<a, b>> = {1, 2}
    OBVIOUS
  <2> QED
    BY <2>1 DEF ToSet
<1>4. ASSUME NEW a, NEW b, NEW c PROVE ToSet(<<a, b, c>>) = {a, b, c}
  <2>1. DOMAIN <<a, b, c>> = {1, 2, 3}
    OBVIOUS
  <2> QED
    BY <2>1 DEF ToSet
<1> QED
  BY <1>1, <1>2, <1>3, <1>4

(* Appending to the short paths of properties.                             *)
LEMMA AppendSmall == \A x, y : Append(<<x>>, y) = <<x, y>> /\ Append(<<>>, x) = <<x>>
<1> SUFFICES ASSUME NEW x, NEW y PROVE Append(<<x>>, y) = <<x, y>> /\ Append(<<>>, x) = <<x>>
  OBVIOUS
<1> DEFINE S == {x, y}
<1>1. x \in S /\ y \in S
  OBVIOUS
<1> HIDE DEF S
<1>2. <<x>> \in Seq(S) /\ <<x, y>> \in Seq(S) /\ <<>> \in Seq(S)
  BY <1>1
<1>3. Append(<<x>>, y) \in Seq(S) /\ Len(Append(<<x>>, y)) = 2
      /\ Append(<<x>>, y)[1] = x /\ Append(<<x>>, y)[2] = y
  BY <1>1, <1>2
<1>4. Append(<<x>>, y) = <<x, y>>
  <2>1. Len(<<x, y>>) = 2 /\ <<x, y>>[1] = x /\ <<x, y>>[2] = y
    OBVIOUS
  <2>2. \A i \in 1..2 : i = 1 \/ i = 2
    OBVIOUS
  <2> QED
    BY <1>2, <1>3, <2>1, <2>2, SeqEqual
<1> QED
  BY <1>4

Flat(prop) == \A k \in ToSet(prop.kids) : k.name # Text /\ \A l \in ToSet(k.kids) : l.kids = <<>>

(* Of a list of properties with nothing but elements and texts in them, the*)
(* paths.                                                                  *)
LEMMA SubFacts ==
  ASSUME NEW prop, Flat(prop)
  PROVE  \A p : p \in SubProperties(prop) <=>
           \E k \in ToSet(prop.kids) :
             \/ k.kids = <<>> /\ p = <<<<k.name>>, <<>>>>
             \/ \E l \in ToSet(k.kids) : l.name # Text /\ p = <<<<k.name, l.name>>, <<>>>>
             \/ \E l \in ToSet(k.kids) : l.name = Text /\ l.text # <<>> /\ p = <<<<k.name>>, l.text>>
<1> DEFINE K == ToSet(prop.kids)
           B == {[path |-> <<>>, node |-> k] : k \in K}
           Branch(b) == IF b.node.kids = <<>> THEN {b}
                      ELSE {[path |-> Append(b.path, b.node.name), node |-> l] : l \in ToSet(b.node.kids)}
           b0(k) == [path |-> <<>>, node |-> k]
           b1(k, l) == [path |-> <<k.name>>, node |-> l]
<1>1. \A k \in K : k.name # Text /\ \A l \in ToSet(k.kids) : l.kids = <<>>
  BY Zenon DEF Flat
<1>d. \A X : Down(X) = UNION {Branch(b) : b \in X}
  BY Zenon DEF Down
<1>2. \A k : Branch(b0(k)) = IF k.kids = <<>> THEN {b0(k)} ELSE {b1(k, l) : l \in ToSet(k.kids)}
  <2> TAKE k
  <2>1. b0(k).node = k /\ b0(k).path = <<>> /\ Append(<<>>, k.name) = <<k.name>>
    OBVIOUS
  <2> HIDE DEF b0
  <2> QED
    BY <2>1
<1>r. \A k, l : b0(k).node = k /\ b0(k).path = <<>> /\ b1(k, l).node = l /\ b1(k, l).path = <<k.name>>
  OBVIOUS
<1> HIDE DEF Branch, b0, b1
<1>3. \A x : x \in Down(B) <=> \E k \in K : (k.kids = <<>> /\ x = b0(k)) \/ (k.kids # <<>> /\ \E l \in ToSet(k.kids) : x = b1(k, l))
  <2>1. \A x : x \in Down(B) <=> \E k \in K : x \in Branch(b0(k))
    BY <1>d, Zenon DEF b0
  <2> HIDE DEF B
  <2> QED
    BY <1>2, <2>1
<1>4. \A x \in Down(B) : Branch(x) = {x}
  <2> HIDE DEF B
  <2> TAKE x \in Down(B)
  <2>1. x.node.kids = <<>>
    BY <1>1, <1>3, <1>r
  <2> QED
    BY <2>1 DEF Branch
<1>5. Down(Down(B)) = Down(B)
  <2> HIDE DEF B
  <2>1. Down(Down(B)) = UNION {Branch(b) : b \in Down(B)}
    BY <1>d
  <2> QED
    BY <1>4, <2>1
<1>6. Leaves(prop) = Down(B)
  BY <1>5 DEF Leaves
<1> HIDE DEF B
<1>e. \A k \in K : k.kids = <<>> => ToSet(k.kids) = {}
  BY ToSetFacts
<1> SUFFICES ASSUME NEW p
             PROVE  p \in SubProperties(prop) <=>
               \E k \in K :
                 \/ k.kids = <<>> /\ p = <<<<k.name>>, <<>>>>
                 \/ \E l \in ToSet(k.kids) : l.name # Text /\ p = <<<<k.name, l.name>>, <<>>>>
                 \/ \E l \in ToSet(k.kids) : l.name = Text /\ l.text # <<>> /\ p = <<<<k.name>>, l.text>>
  OBVIOUS
<1>7. p \in SubProperties(prop) <=>
        \/ \E x \in Down(B) : x.node.name # Text /\ p = <<Append(x.path, x.node.name), <<>>>>
        \/ \E x \in Down(B) : x.node.name = Text /\ x.node.text # <<>> /\ p = <<x.path, x.node.text>>
  BY <1>6 DEF SubProperties
<1>a. \A x, y : Append(<<x>>, y) = <<x, y>> /\ Append(<<>>, x) = <<x>>
  BY AppendSmall
<1>8. \A k, l : Append(b1(k, l).path, b1(k, l).node.name) = <<k.name, l.name>>
  <2> TAKE k, l
  <2>1. b1(k, l).node = l /\ b1(k, l).path = <<k.name>> /\ Append(<<k.name>>, l.name) = <<k.name, l.name>>
    BY <1>r, <1>a, Zenon
  <2> QED
    BY <2>1
<1>9. \A k : Append(b0(k).path, b0(k).node.name) = <<k.name>>
  BY <1>r, <1>a, Zenon
<1>10. p \in SubProperties(prop) <=>
        \/ \E k \in K : k.kids = <<>> /\ p = <<<<k.name>>, <<>>>>
        \/ \E k \in K : k.kids # <<>> /\ \E l \in ToSet(k.kids) : l.name # Text /\ p = <<<<k.name, l.name>>, <<>>>>
        \/ \E k \in K : k.kids # <<>> /\ \E l \in ToSet(k.kids) : l.name = Text /\ l.text # <<>> /\ p = <<<<k.name>>, l.text>>
  <2>1. \A x \in Down(B) : \E k \in K :
          \/ k.kids = <<>> /\ x = b0(k)
          \/ k.kids # <<>> /\ \E l \in ToSet(k.kids) : x = b1(k, l)
    BY <1>3
  <2>2. \A k \in K : /\ k.kids = <<>> => b0(k) \in Down(B)
                     /\ k.kids # <<>> => \A l \in ToSet(k.kids) : b1(k, l) \in Down(B)
    BY <1>3
  <2>3. ASSUME p \in SubProperties(prop)
        PROVE  \/ \E k \in K : k.kids = <<>> /\ p = <<<<k.name>>, <<>>>>
               \/ \E k \in K : k.kids # <<>> /\ \E l \in ToSet(k.kids) : l.name # Text /\ p = <<<<k.name, l.name>>, <<>>>>
               \/ \E k \in K : k.kids # <<>> /\ \E l \in ToSet(k.kids) : l.name = Text /\ l.text # <<>> /\ p = <<<<k.name>>, l.text>>
    <3>1. PICK x \in Down(B) :
            \/ x.node.name # Text /\ p = <<Append(x.path, x.node.name), <<>>>>
            \/ x.node.name = Text /\ x.node.text # <<>> /\ p = <<x.path, x.node.text>>
      BY <1>7, <2>3
    <3>2. PICK k \in K :
            \/ k.kids = <<>> /\ x = b0(k)
            \/ k.kids # <<>> /\ \E l \in ToSet(k.kids) : x = b1(k, l)
      BY <2>1
    <3>3. CASE k.kids = <<>> /\ x = b0(k)
      <4>1. x.node = k /\ Append(x.path, x.node.name) = <<k.name>> /\ k.name # Text
        BY <1>1, <1>9, <1>r, <3>3
      <4> QED
        BY <3>1, <3>3, <4>1
    <3>4. ASSUME k.kids # <<>>, NEW l \in ToSet(k.kids), x = b1(k, l)
          PROVE  \/ l.name # Text /\ p = <<<<k.name, l.name>>, <<>>>>
                 \/ l.name = Text /\ l.text # <<>> /\ p = <<<<k.name>>, l.text>>
      <4>1. x.node = l /\ x.path = <<k.name>> /\ Append(x.path, x.node.name) = <<k.name, l.name>>
        BY <1>8, <1>r, <3>4
      <4> QED
        BY <3>1, <4>1
    <3> QED
      BY <3>2, <3>3, <3>4, Zenon
  <2>4. ASSUME NEW k \in K, k.kids = <<>>, p = <<<<k.name>>, <<>>>> PROVE p \in SubProperties(prop)
    <3>1. b0(k) \in Down(B) /\ b0(k).node.name # Text /\ p = <<Append(b0(k).path, b0(k).node.name), <<>>>>
      BY <1>1, <1>9, <1>r, <2>2, <2>4
    <3> QED
      BY <1>7, <3>1
  <2>5. ASSUME NEW k \in K, k.kids # <<>>, NEW l \in ToSet(k.kids), l.name # Text, p = <<<<k.name, l.name>>, <<>>>>
        PROVE  p \in SubProperties(prop)
    <3>1. b1(k, l) \in Down(B) /\ b1(k, l).node.name # Text /\ p = <<Append(b1(k, l).path, b1(k, l).node.name), <<>>>>
      BY <1>8, <1>r, <2>2, <2>5
    <3> QED
      BY <1>7, <3>1
  <2>6. ASSUME NEW k \in K, k.kids # <<>>, NEW l \in ToSet(k.kids), l.name = Text, l.text # <<>>, p = <<<<k.name>>, l.text>>
        PROVE  p \in SubProperties(prop)
    <3>1. b1(k, l) \in Down(B) /\ b1(k, l).node.name = Text /\ b1(k, l).node.text # <<>>
          /\ p = <<b1(k, l).path, b1(k, l).node.text>>
      BY <1>r, <2>2, <2>6
    <3> QED
      BY <1>7, <3>1
  <2> QED
    BY <2>3, <2>4, <2>5, <2>6, Zenon
<1> HIDE DEF K
<1> QED
  BY <1>10, <1>e

(* A response with what was found has these properties, and one without    *)
(* has none.                                                               *)
LEMMA FoundFacts ==
  ASSUME NEW u, NEW props
  PROVE  LET r == ParseResponse(Found(u, props))
             sub == SubProperties(Elem("prop", props))
         IN  /\ r.href = u
             /\ \A name : HasProperty(r, name) <=> \E p \in sub : p[1] = name
             /\ \A name : HasProperty(r, name) => \E p \in sub : p[1] = name /\ GetProperty(r, name) = p[2]
<1> DEFINE node == Found(u, props)
           list == Elem("prop", props)
           stat == Elem("propstat", <<list, StatusLine(200)>>)
           sub == SubProperties(list)
           r == ParseResponse(node)
<1>1. node.kids = <<Href(u), stat>> /\ node.name = "response"
  BY DEF Found, Elem
<1>2. Href(u).name = "href" /\ Href(u).text = u /\ stat.name = "propstat" /\ stat.kids = <<list, StatusLine(200)>>
  BY DEF Href, Elem
<1>3. StatusLine(200).name = "status" /\ StatusLine(200).text = <<"HTTP/1.1", 200, "reason">> /\ list.name = "prop"
  BY DEF StatusLine, Elem
<1>4. StatusCode(StatusLine(200).text) = 200
  <2>1. PICK x, y, z : x = "HTTP/1.1" /\ y = 200 /\ z = "reason"
    OBVIOUS
  <2>2. PICK t : t = StatusLine(200).text
    OBVIOUS
  <2>3. t = <<x, y, z>>
    BY <1>3, <2>1, <2>2, Zenon
  <2>4. Len(t) = 3 /\ t[2] = y
    BY <2>3
  <2> QED
    BY <2>1, <2>2, <2>4 DEF StatusCode
<1> HIDE DEF node, list, stat
<1>5. PropStat(stat) = [status |-> 200, properties |-> Properties(list)]
  <2>1. ToSet(stat.kids) = {list, StatusLine(200)}
    BY <1>2, ToSetFacts
  <2>2. (CHOOSE k \in ToSet(stat.kids) : k.name = "status") = StatusLine(200)
    BY <1>3, <2>1
  <2>3. (CHOOSE k \in ToSet(stat.kids) : k.name = "prop") = list
    BY <1>3, <2>1
  <2> QED
    BY <1>4, <2>2, <2>3 DEF PropStat
<1>6. r = [href |-> u, properties |-> <<[status |-> 200, properties |-> Properties(list)]>>, error |-> {}]
  <2>1. ToSet(node.kids) = {Href(u), stat}
    BY <1>1, ToSetFacts
  <2>2. (CHOOSE k \in ToSet(node.kids) : k.name = "href") = Href(u)
    BY <1>2, <2>1
  <2>3. DOMAIN node.kids = 1..2 /\ node.kids[1] = Href(u) /\ node.kids[2] = stat
    BY <1>1
  <2>4. {i \in DOMAIN node.kids : node.kids[i].name = "propstat"} = 2..2
    BY <1>2, <2>3
  <2>5. Those(node.kids, 2..2) = From(node.kids, 2, 2)
    <3>1. \A n \in Nat, a \in {1, 2} : a <= n + 1 => Those(node.kids, a..n) = From(node.kids, a, n)
      BY ThoseFrom
    <3>2. 2 \in Nat /\ 2 \in {1, 2} /\ 2 <= 2 + 1
      OBVIOUS
    <3> QED
      BY <3>1, <3>2, Zenon
  <2>6. Those(node.kids, 2..2) = <<stat>>
    <3>1. From(node.kids, 2, 2) = [k \in {1} |-> stat]
      BY <2>3 DEF From
    <3> QED
      BY <2>5, <3>1
  <2> DEFINE stats == Those(node.kids, {i \in DOMAIN node.kids : node.kids[i].name = "propstat"})
  <2>7. stats = <<stat>>
    BY <2>4, <2>6
  <2> HIDE DEF stats
  <2>8. [i \in DOMAIN stats |-> PropStat(stats[i])] = <<PropStat(stat)>>
    BY <2>7
  <2>9. {e \in ToSet(node.kids) : e.name = "error"} = {}
    BY <1>2, <2>1
  <2>10. UNION {DOMAIN Properties(k) : k \in {e \in ToSet(node.kids) : e.name = "error"}} = {}
    BY <2>9
  <2> QED
    BY <1>2, <1>5, <2>2, <2>8, <2>10 DEF ParseResponse, stats
<1> HIDE DEF r
<1>7. r.href = u /\ DOMAIN r.properties = {1} /\ r.properties[1].status = 200 /\ r.properties[1].properties = Properties(list)
  BY <1>6
<1>8. Properties(list) = [name \in {p[1] : p \in sub} |-> (CHOOSE p \in sub : p[1] = name)[2]]
  BY DEF Properties
<1> HIDE DEF sub
<1>9. \A name : HasProperty(r, name) <=> \E p \in sub : p[1] = name
  BY <1>7, <1>8 DEF HasProperty
<1>10. ASSUME NEW name, HasProperty(r, name)
       PROVE  \E p \in sub : p[1] = name /\ GetProperty(r, name) = p[2]
  <2>1. PICK p \in sub : p[1] = name
    BY <1>9, <1>10
  <2>2. GetProperty(r, name) = Properties(list)[name]
    BY <1>7, <1>10 DEF GetProperty, HasProperty
  <2>3. Properties(list)[name] = (CHOOSE q \in sub : q[1] = name)[2]
    BY <1>8, <2>1
  <2> QED
    BY <2>1, <2>2, <2>3
<1> QED
  BY <1>7, <1>9, <1>10 DEF r, sub, node, list

(* A response without properties has none (DAVResponse of a 404).          *)
LEMMA MissingFacts ==
  ASSUME NEW u
  PROVE  LET r == ParseResponse(Missing(u)) IN r.href = u /\ \A name : ~HasProperty(r, name)
<1> DEFINE node == Missing(u)
           r == ParseResponse(node)
<1>1. node.kids = <<Href(u), StatusLine(404)>>
  BY DEF Missing, Elem
<1>2. Href(u).name = "href" /\ Href(u).text = u /\ StatusLine(404).name = "status"
  BY DEF Href, StatusLine, Elem
<1> HIDE DEF node
<1>3. ToSet(node.kids) = {Href(u), StatusLine(404)}
  BY <1>1, ToSetFacts
<1>4. (CHOOSE k \in ToSet(node.kids) : k.name = "href") = Href(u)
  BY <1>2, <1>3
<1>5. {i \in DOMAIN node.kids : node.kids[i].name = "propstat"} = {}
  <2>1. DOMAIN node.kids = 1..2 /\ node.kids[1] = Href(u) /\ node.kids[2] = StatusLine(404)
    BY <1>1
  <2> QED
    BY <1>2, <2>1
<1>6. Those(node.kids, {i \in DOMAIN node.kids : node.kids[i].name = "propstat"}) = <<>>
  <2>1. {} \in SUBSET (1..0) /\ 0 \in Nat
    OBVIOUS
  <2>2. Those(node.kids, {}) = <<>>
    BY <2>1, ThoseMembers DEF Members
  <2> QED
    BY <1>5, <2>2
<1>7. r.href = u /\ r.properties = <<>>
  <2>1. [i \in DOMAIN <<>> |-> PropStat(<<>>[i])] = <<>>
    OBVIOUS
  <2> QED
    BY <1>2, <1>4, <1>6, <2>1, ZenonT(40) DEF ParseResponse
<1> HIDE DEF r
<1> QED
  BY <1>7 DEF HasProperty, r, node

(* Paths of properties are one or two tags long, and differ if a tag does. *)
LEMMA Paths ==
  /\ \A a, b : <<a>> = <<b>> <=> a = b
  /\ \A a, b, c, d : <<a, b>> = <<c, d>> <=> a = c /\ b = d
  /\ \A a, b, c : <<a>> # <<b, c>>
  /\ \A a : <<a>> # <<>>
<1>1. \A a, b : <<a>> = <<b>> <=> a = b
  OBVIOUS
<1>2. \A a, b, c, d : <<a, b>> = <<c, d>> <=> a = c /\ b = d
  OBVIOUS
<1>3. \A a, b, c : <<a>> # <<b, c>>
  <2> TAKE a, b, c
  <2>1. DOMAIN <<a>> = 1..1 /\ DOMAIN <<b, c>> = 1..2
    OBVIOUS
  <2>2. 1..1 # 1..2
    OBVIOUS
  <2> QED
    BY <2>1, <2>2
<1>4. \A a : <<a>> # <<>>
  OBVIOUS
<1> QED
  BY <1>1, <1>2, <1>3, <1>4

(* The fields of the nodes of a body.                                      *)
LEMMA ElemFacts ==
  /\ \A n, k : Elem(n, k).name = n /\ Elem(n, k).kids = k /\ Elem(n, k).text = <<>>
  /\ \A t : TextNode(t).name = Text /\ TextNode(t).kids = <<>> /\ TextNode(t).text = t
  BY DEF Elem, TextNode

(* The paths of one property, and those of a list.                         *)
Shallow(k) == k.name # Text /\ \A l \in ToSet(k.kids) : l.kids = <<>>

PathsOf(k) ==
  {p \in {<<<<k.name>>, <<>>>>} : k.kids = <<>>} \cup
  {<<<<k.name, l.name>>, <<>>>> : l \in {l \in ToSet(k.kids) : l.name # Text}} \cup
  {<<<<k.name>>, l.text>> : l \in {l \in ToSet(k.kids) : l.name = Text /\ l.text # <<>>}}

(* The properties of a list are those of its members.                      *)
LEMMA ListPaths ==
  ASSUME NEW props, \A k \in ToSet(props) : Shallow(k)
  PROVE  \A p : p \in SubProperties(Elem("prop", props)) <=> \E k \in ToSet(props) : p \in PathsOf(k)
<1> DEFINE prop == Elem("prop", props)
<1>1. prop.kids = props
  BY ElemFacts
<1> HIDE DEF prop
<1>2. Flat(prop)
  BY <1>1 DEF Flat, Shallow
<1>3. \A p : p \in SubProperties(prop) <=>
        \E k \in ToSet(props) :
          \/ k.kids = <<>> /\ p = <<<<k.name>>, <<>>>>
          \/ \E l \in ToSet(k.kids) : l.name # Text /\ p = <<<<k.name, l.name>>, <<>>>>
          \/ \E l \in ToSet(k.kids) : l.name = Text /\ l.text # <<>> /\ p = <<<<k.name>>, l.text>>
  BY <1>1, <1>2, SubFacts
<1>4. \A k, p : p \in PathsOf(k) <=>
        \/ k.kids = <<>> /\ p = <<<<k.name>>, <<>>>>
        \/ \E l \in ToSet(k.kids) : l.name # Text /\ p = <<<<k.name, l.name>>, <<>>>>
        \/ \E l \in ToSet(k.kids) : l.name = Text /\ l.text # <<>> /\ p = <<<<k.name>>, l.text>>
  BY DEF PathsOf
<1>5. \A p : p \in SubProperties(prop) <=> \E k \in ToSet(props) : p \in PathsOf(k)
  BY <1>3, <1>4
<1> QED
  BY <1>5 DEF prop

(* The kinds of properties there are.                                      *)
LEMMA EmptyPaths ==
  ASSUME NEW n, n # Text
  PROVE  Shallow(Elem(n, <<>>)) /\ PathsOf(Elem(n, <<>>)) = {<<<<n>>, <<>>>>}
<1>1. PICK k : k = Elem(n, <<>>)
  OBVIOUS
<1>2. k.name = n /\ k.kids = <<>> /\ ToSet(k.kids) = {}
  BY <1>1, ElemFacts, ToSetFacts
<1>3. Shallow(k) /\ PathsOf(k) = {<<<<n>>, <<>>>>}
  BY <1>2 DEF Shallow, PathsOf
<1> QED
  BY <1>1, <1>3

(* An element with a text: one property, and the text is its value.        *)
LEMMA TextPaths ==
  ASSUME NEW n, n # Text, NEW t, t # <<>>
  PROVE  Shallow(Elem(n, <<TextNode(t)>>)) /\ PathsOf(Elem(n, <<TextNode(t)>>)) = {<<<<n>>, t>>}
<1>1. PICK k : k = Elem(n, <<TextNode(t)>>)
  OBVIOUS
<1>x. PICK x : x = TextNode(t)
  OBVIOUS
<1>2. x.name = Text /\ x.kids = <<>> /\ x.text = t
  BY <1>x, ElemFacts
<1>3. k.name = n /\ k.kids = <<x>> /\ ToSet(k.kids) = {x} /\ k.kids # <<>>
  BY <1>1, <1>x, ElemFacts, ToSetFacts, Paths
<1>4. Shallow(k) /\ PathsOf(k) = {<<<<n>>, t>>}
  BY <1>2, <1>3 DEF Shallow, PathsOf
<1> QED
  BY <1>1, <1>4

(* An element with empty elements: a property without a value for each.    *)
LEMMA NestedPaths ==
  ASSUME NEW n, n # Text, NEW kids, kids # <<>>, NEW T,
         \A l \in ToSet(kids) : \E t \in T : t # Text /\ l = Elem(t, <<>>),
         \A t \in T : Elem(t, <<>>) \in ToSet(kids)
  PROVE  Shallow(Elem(n, kids)) /\ PathsOf(Elem(n, kids)) = {<<<<n, t>>, <<>>>> : t \in T}
<1>1. PICK k : k = Elem(n, kids)
  OBVIOUS
<1>2. k.name = n /\ k.kids = kids
  BY <1>1, ElemFacts
<1>3. \A l \in ToSet(kids) : l.name \in T /\ l.name # Text /\ l.kids = <<>>
  BY ElemFacts
<1>4. Shallow(k)
  BY <1>2, <1>3 DEF Shallow
<1>5. PathsOf(k) = {<<<<n, l.name>>, <<>>>> : l \in ToSet(kids)}
  BY <1>2, <1>3 DEF PathsOf
<1>6. {<<<<n, l.name>>, <<>>>> : l \in ToSet(kids)} = {<<<<n, t>>, <<>>>> : t \in T}
  <2>1. \A l \in ToSet(kids) : \E t \in T : <<<<n, l.name>>, <<>>>> = <<<<n, t>>, <<>>>>
    BY <1>3
  <2>2. \A t \in T : \E l \in ToSet(kids) : <<<<n, l.name>>, <<>>>> = <<<<n, t>>, <<>>>>
    BY ElemFacts
  <2> QED
    BY <2>1, <2>2
<1> QED
  BY <1>1, <1>4, <1>5, <1>6

(* A response with one such list.                                          *)
LEMMA ResponsePaths ==
  ASSUME NEW u, NEW props, \A k \in ToSet(props) : Shallow(k)
  PROVE  LET r == ParseResponse(Found(u, props)) IN
         /\ r.href = u
         /\ \A name : HasProperty(r, name) <=> \E k \in ToSet(props) : \E p \in PathsOf(k) : p[1] = name
         /\ \A name : HasProperty(r, name) =>
              \E k \in ToSet(props) : \E p \in PathsOf(k) : p[1] = name /\ GetProperty(r, name) = p[2]
<1> DEFINE sub == SubProperties(Elem("prop", props))
           r == ParseResponse(Found(u, props))
<1>1. /\ r.href = u
      /\ \A name : HasProperty(r, name) <=> \E p \in sub : p[1] = name
      /\ \A name : HasProperty(r, name) => \E p \in sub : p[1] = name /\ GetProperty(r, name) = p[2]
  BY FoundFacts
<1>2. \A p : p \in sub <=> \E k \in ToSet(props) : p \in PathsOf(k)
  BY ListPaths
<1> HIDE DEF r, sub
<1>3. /\ r.href = u
      /\ \A name : HasProperty(r, name) <=> \E k \in ToSet(props) : \E p \in PathsOf(k) : p[1] = name
      /\ \A name : HasProperty(r, name) =>
           \E k \in ToSet(props) : \E p \in PathsOf(k) : p[1] = name /\ GetProperty(r, name) = p[2]
  BY <1>1, <1>2
<1> QED
  BY <1>3 DEF r

(* The property of an item's etag is its version.                          *)
LEMMA ETagPaths ==
  \A v : /\ Shallow(ETag(v)) /\ <<<<"getetag">>, <<v>>>> \in PathsOf(ETag(v))
         /\ \A p \in PathsOf(ETag(v)) : p[1] = <<"getetag">> /\ p[2] = <<v>>
<1> TAKE v
<1>1. "getetag" # Text /\ <<v>> # <<>>
  BY Paths DEF Text
<1>2. Shallow(ETag(v)) /\ PathsOf(ETag(v)) = {<<<<"getetag">>, <<v>>>>}
  BY <1>1, TextPaths DEF ETag
<1> QED
  BY <1>2

(* An etag.                                                                *)
LEMMA EtagResponse ==
  ASSUME NEW u, NEW v
  PROVE  LET r == ParseResponse(Found(u, <<ETag(v)>>))
         IN  r.href = u /\ HasProperty(r, <<"getetag">>) /\ GetProperty(r, <<"getetag">>) = <<v>>
<1> DEFINE props == <<ETag(v)>>
           r == ParseResponse(Found(u, props))
<1>1. ToSet(props) = {ETag(v)}
  BY ToSetFacts
<1>2. /\ Shallow(ETag(v)) /\ <<<<"getetag">>, <<v>>>> \in PathsOf(ETag(v))
      /\ \A p \in PathsOf(ETag(v)) : p[1] = <<"getetag">> /\ p[2] = <<v>>
  BY ETagPaths
<1> HIDE DEF props
<1>3. /\ r.href = u
      /\ \A name : HasProperty(r, name) <=> \E k \in ToSet(props) : \E p \in PathsOf(k) : p[1] = name
      /\ \A name : HasProperty(r, name) =>
           \E k \in ToSet(props) : \E p \in PathsOf(k) : p[1] = name /\ GetProperty(r, name) = p[2]
  BY <1>1, <1>2, ResponsePaths
<1> HIDE DEF r
<1>4. HasProperty(r, <<"getetag">>) /\ GetProperty(r, <<"getetag">>) = <<v>>
  BY <1>1, <1>2, <1>3
<1> QED
  BY <1>3, <1>4 DEF r, props

(* An item in an answer to a PROPFIND.                                     *)
LEMMA ItemResponse ==
  ASSUME NEW u, NEW v
  PROVE  LET r == ParseResponse(Found(u, <<ETag(v), Elem("resourcetype", <<>>)>>))
         IN  /\ r.href = u
             /\ HasProperty(r, <<"getetag">>) /\ GetProperty(r, <<"getetag">>) = <<v>>
             /\ HasProperty(r, <<"resourcetype">>) /\ GetProperty(r, <<"resourcetype">>) = <<>>
<1> DEFINE e == ETag(v)
           t == Elem("resourcetype", <<>>)
           props == <<e, t>>
           r == ParseResponse(Found(u, props))
<1>1. ToSet(props) = {e, t}
  BY ToSetFacts
<1>2. /\ Shallow(e) /\ <<<<"getetag">>, <<v>>>> \in PathsOf(e)
      /\ \A p \in PathsOf(e) : p[1] = <<"getetag">> /\ p[2] = <<v>>
  BY ETagPaths
<1>3. Shallow(t) /\ PathsOf(t) = {<<<<"resourcetype">>, <<>>>>}
  <2>1. "resourcetype" # Text
    BY DEF Text
  <2> QED
    BY <2>1, EmptyPaths
<1>4. <<<<"resourcetype">>, <<>>>> \in PathsOf(t) /\ \A p \in PathsOf(t) : p[1] = <<"resourcetype">> /\ p[2] = <<>>
  BY <1>3
<1> HIDE DEF props, e, t
<1>5. /\ r.href = u
      /\ \A name : HasProperty(r, name) <=> \E k \in ToSet(props) : \E p \in PathsOf(k) : p[1] = name
      /\ \A name : HasProperty(r, name) =>
           \E k \in ToSet(props) : \E p \in PathsOf(k) : p[1] = name /\ GetProperty(r, name) = p[2]
  BY <1>1, <1>2, <1>3, ResponsePaths
<1> HIDE DEF r
<1>6. <<"getetag">> # <<"resourcetype">>
  BY Paths
<1>7. HasProperty(r, <<"getetag">>) /\ GetProperty(r, <<"getetag">>) = <<v>>
  BY <1>1, <1>2, <1>4, <1>5, <1>6
<1>8. HasProperty(r, <<"resourcetype">>) /\ GetProperty(r, <<"resourcetype">>) = <<>>
  BY <1>1, <1>2, <1>4, <1>5, <1>6
<1> QED
  BY <1>5, <1>7, <1>8 DEF r, props, e, t

(* The collection in it.                                                   *)
LEMMA CollectionPaths ==
  LET k == Elem("resourcetype", <<Elem("collection", <<>>)>>) IN
  Shallow(k) /\ \A p \in PathsOf(k) : p[1] = <<"resourcetype", "collection">>
<1> DEFINE kids == <<Elem("collection", <<>>)>>
           k == Elem("resourcetype", kids)
<1>1. ToSet(kids) = {Elem("collection", <<>>)} /\ kids # <<>> /\ "collection" # Text /\ "resourcetype" # Text
  BY ToSetFacts, Paths DEF Text
<1> HIDE DEF kids
<1>2. Shallow(k) /\ PathsOf(k) = {<<<<"resourcetype", t>>, <<>>>> : t \in {"collection"}}
  BY <1>1, NestedPaths
<1> HIDE DEF k
<1>3. \A p \in PathsOf(k) : p[1] = <<"resourcetype", "collection">>
  BY <1>2
<1> QED
  BY <1>2, <1>3 DEF k, kids

(* A collection's response has no property of an item: getRevisions()      *)
(* leaves it out.                                                          *)
LEMMA CollectionResponse ==
  ASSUME NEW u
  PROVE  LET r == ParseResponse(Found(u, <<Elem("resourcetype", <<Elem("collection", <<>>)>>)>>))
         IN  r.href = u /\ \A name : HasProperty(r, name) => name = <<"resourcetype", "collection">>
<1> DEFINE k == Elem("resourcetype", <<Elem("collection", <<>>)>>)
           props == <<k>>
           r == ParseResponse(Found(u, props))
<1>1. ToSet(props) = {k}
  BY ToSetFacts
<1>2. Shallow(k) /\ \A p \in PathsOf(k) : p[1] = <<"resourcetype", "collection">>
  BY CollectionPaths
<1> HIDE DEF props, k
<1>3. /\ r.href = u
      /\ \A name : HasProperty(r, name) <=> \E l \in ToSet(props) : \E p \in PathsOf(l) : p[1] = name
  BY <1>1, <1>2, ResponsePaths
<1> HIDE DEF r
<1>4. \A name : HasProperty(r, name) => name = <<"resourcetype", "collection">>
  BY <1>1, <1>2, <1>3
<1> QED
  BY <1>3, <1>4 DEF r, props, k

(* An item in an answer to a multiget.                                     *)
LEMMA DataResponse ==
  ASSUME NEW u, NEW data, data # Text, NEW text, text # <<>>
  PROVE  LET r == ParseResponse(Found(u, <<Elem(data, <<TextNode(text)>>)>>))
         IN  r.href = u /\ HasProperty(r, <<data>>) /\ GetProperty(r, <<data>>) = text
<1> DEFINE k == Elem(data, <<TextNode(text)>>)
           props == <<k>>
           r == ParseResponse(Found(u, props))
<1>1. ToSet(props) = {k}
  BY ToSetFacts
<1>2. Shallow(k) /\ PathsOf(k) = {<<<<data>>, text>>}
  BY TextPaths
<1>3. <<<<data>>, text>> \in PathsOf(k) /\ \A p \in PathsOf(k) : p[1] = <<data>> /\ p[2] = text
  BY <1>2
<1> HIDE DEF props, k
<1>4. /\ r.href = u
      /\ \A name : HasProperty(r, name) <=> \E l \in ToSet(props) : \E p \in PathsOf(l) : p[1] = name
      /\ \A name : HasProperty(r, name) =>
           \E l \in ToSet(props) : \E p \in PathsOf(l) : p[1] = name /\ GetProperty(r, name) = p[2]
  BY <1>1, <1>2, ResponsePaths
<1> HIDE DEF r
<1>5. HasProperty(r, <<data>>) /\ GetProperty(r, <<data>>) = text
  BY <1>1, <1>3, <1>4
<1> QED
  BY <1>4, <1>5 DEF r, props, k

-----------------------------------------------------------------------------
(* Lists without repetitions, and the collections of a home set.           *)

(* A finite set's elements, in a sequence without repetitions.             *)
LEMMA OrdersFacts ==
  ASSUME NEW S, IsFiniteSet(S)
  PROVE  /\ Cardinality(S) \in Nat
         /\ \A s \in Orders(S) : DOMAIN s = 1..Cardinality(S) /\ ToSet(s) = S
                                 /\ \A i, j \in DOMAIN s : s[i] = s[j] => i = j
         /\ SetToSeq(S) \in Orders(S)
<1> DEFINE c == Cardinality(S)
<1>1. c \in Nat /\ ExistsBijection(1..c, S)
  BY FS_CardinalityType
<1>2. IsFiniteSet(1..c) /\ Cardinality(1..c) = c
  BY <1>1, FS_Interval
<1> HIDE DEF c
<1>3. ASSUME NEW s \in Orders(S)
      PROVE  DOMAIN s = 1..c /\ ToSet(s) = S /\ \A i, j \in DOMAIN s : s[i] = s[j] => i = j
  <2>1. s \in [1..c -> S] /\ \A i, j \in 1..c : s[i] = s[j] => i = j
    BY DEF Orders, c
  <2>2. s \in Injection(1..c, S)
    BY <2>1 DEF Injection, IsInjective
  <2>3. s \in Surjection(1..c, S)
    BY <1>2, <2>2, FS_Injection DEF c
  <2>4. \A x \in S : \E i \in 1..c : s[i] = x
    BY <2>3 DEF Surjection
  <2>5. ToSet(s) = S
    BY <2>1, <2>4 DEF ToSet
  <2> QED
    BY <2>1, <2>5
<1>4. \E f \in [1..c -> S] : IsInjective(f)
  BY <1>1 DEF ExistsBijection, Bijection, Injection
<1>5. SetToSeq(S) \in [1..c -> S] /\ IsInjective(SetToSeq(S))
  BY <1>4 DEF SetToSeq, c
<1>6. SetToSeq(S) \in Orders(S)
  BY <1>5 DEF Orders, IsInjective, c
<1> QED
  BY <1>1, <1>3, <1>6 DEF c

(* The component types of a calendar, as elements.                         *)
LEMMA TypesFacts ==
  ASSUME NEW T, T \subseteq Types
  PROVE  LET kids == SetToSeq({Elem(t, <<>>) : t \in T})
         IN  /\ ToSet(kids) = {Elem(t, <<>>) : t \in T}
             /\ T = {} <=> kids = <<>>
<1> DEFINE S == {Elem(t, <<>>) : t \in T}
           kids == SetToSeq(S)
<1>1. IsFiniteSet(T)
  <2>1. IsFiniteSet({"VEVENT"}) /\ {"VEVENT"} \cup {"VTODO"} = {"VEVENT", "VTODO"}
    BY FS_Singleton
  <2>2. IsFiniteSet({"VEVENT", "VTODO"}) /\ {"VEVENT", "VTODO"} \cup {"VJOURNAL"} = Types
    BY <2>1, FS_AddElement DEF Types
  <2>3. IsFiniteSet(Types)
    BY <2>2, FS_AddElement
  <2> QED
    BY <2>3, FS_Subset
<1>2. IsFiniteSet(S)
  <2> DEFINE f == [t \in T |-> Elem(t, <<>>)]
  <2>1. f \in Surjection(T, S)
    BY DEF Surjection
  <2> HIDE DEF f, S
  <2> QED
    BY <1>1, <2>1, FS_Surjection
<1>3. T = {} <=> S = {}
  OBVIOUS
<1> HIDE DEF S
<1>4. DOMAIN kids = 1..Cardinality(S) /\ ToSet(kids) = S /\ Cardinality(S) \in Nat /\ kids \in [1..Cardinality(S) -> S]
  BY <1>2, OrdersFacts DEF Orders
<1>5. S = {} => kids = <<>>
  <2> SUFFICES ASSUME S = {} PROVE kids = <<>>
    OBVIOUS
  <2>1. kids \in [1..0 -> {}]
    BY <1>4, FS_EmptySet
  <2>2. kids = [i \in 1..0 |-> kids[i]]
    BY <2>1
  <2> HIDE DEF kids
  <2> QED
    BY <2>2
<1> HIDE DEF kids
<1>6. kids = <<>> => S = {}
  BY <1>4, ToSetFacts
<1> QED
  BY <1>3, <1>4, <1>5, <1>6 DEF S, kids

(* A collection of a home set: what Listing says of it.                    *)
CollectionNode(i, c) ==
  Found(<<i>>,
        <<Elem("resourcetype", <<Elem("collection", <<>>), Elem(c.resource, <<>>)>>),
          Elem("displayname", <<TextNode(<<c.name>>)>>),
          Elem("supported-calendar-component-set", SetToSeq({Elem(t, <<>>) : t \in c.types}))>>)

(* So the answer to a PROPFIND on the home set tells kind, name and types  *)
(* of a collection.                                                        *)
LEMMA CollectionNodeResponse ==
  ASSUME NEW i, NEW c, c.resource \in {"calendar", "addressbook"}, c.types \subseteq Types
  PROVE  LET r == ParseResponse(CollectionNode(i, c))
         IN  /\ r.href = <<i>>
             /\ HasProperty(r, <<"resourcetype", "addressbook">>) <=> c.resource = "addressbook"
             /\ HasProperty(r, <<"resourcetype", "calendar">>) <=> c.resource = "calendar"
             /\ GetProperty(r, <<"displayname">>) = <<c.name>>
             /\ \A t : HasProperty(r, <<"supported-calendar-component-set", t>>) <=> t \in c.types
<1> DEFINE kids1 == <<Elem("collection", <<>>), Elem(c.resource, <<>>)>>
           k1 == Elem("resourcetype", kids1)
           k2 == Elem("displayname", <<TextNode(<<c.name>>)>>)
           kids3 == SetToSeq({Elem(t, <<>>) : t \in c.types})
           k3 == Elem("supported-calendar-component-set", kids3)
           props == <<k1, k2, k3>>
           r == ParseResponse(Found(<<i>>, props))
<1>n. /\ "resourcetype" # Text /\ "displayname" # Text /\ "supported-calendar-component-set" # Text
      /\ "collection" # Text /\ c.resource # Text
      /\ \A t \in c.types : t # Text
  BY DEF Text, Types
<1>1. ToSet(props) = {k1, k2, k3}
  BY ToSetFacts, ZenonT(40)
<1>2. Shallow(k1) /\ PathsOf(k1) = {<<<<"resourcetype", t>>, <<>>>> : t \in {"collection", c.resource}}
  <2>1. ToSet(kids1) = {Elem("collection", <<>>), Elem(c.resource, <<>>)}
    BY ToSetFacts
  <2>2. kids1 # <<>>
    OBVIOUS
  <2> HIDE DEF kids1
  <2> DEFINE T == {"collection", c.resource}
  <2>3. /\ \A l \in ToSet(kids1) : \E t \in T : t # Text /\ l = Elem(t, <<>>)
        /\ \A t \in T : Elem(t, <<>>) \in ToSet(kids1)
    BY <1>n, <2>1
  <2> HIDE DEF T
  <2>4. Shallow(k1) /\ PathsOf(k1) = {<<<<"resourcetype", t>>, <<>>>> : t \in T}
    BY <1>n, <2>2, <2>3, NestedPaths
  <2> QED
    BY <2>4 DEF T
<1>3. Shallow(k2) /\ PathsOf(k2) = {<<<<"displayname">>, <<c.name>>>>}
  <2>1. <<c.name>> # <<>>
    BY Paths
  <2> QED
    BY <1>n, <2>1, TextPaths
<1>4. Shallow(k3) /\ \A p \in PathsOf(k3) : p[1] = <<"supported-calendar-component-set">>
                                      \/ \E t \in c.types : p[1] = <<"supported-calendar-component-set", t>>
  <2>0. ToSet(kids3) = {Elem(t, <<>>) : t \in c.types} /\ (c.types = {} <=> kids3 = <<>>)
    BY TypesFacts
  <2> HIDE DEF kids3
  <2>1. CASE c.types = {}
    <3>1. k3 = Elem("supported-calendar-component-set", <<>>)
      BY <2>0, <2>1
    <3>2. Shallow(k3) /\ PathsOf(k3) = {<<<<"supported-calendar-component-set">>, <<>>>>}
      BY <1>n, <3>1, EmptyPaths
    <3> HIDE DEF k3
    <3> QED
      BY <3>2
  <2>2. CASE c.types # {}
    <3>1. /\ \A l \in ToSet(kids3) : \E t \in c.types : t # Text /\ l = Elem(t, <<>>)
          /\ \A t \in c.types : Elem(t, <<>>) \in ToSet(kids3)
      BY <1>n, <2>0
    <3>2. kids3 # <<>>
      BY <2>0, <2>2
    <3>3. Shallow(k3) /\ PathsOf(k3) = {<<<<"supported-calendar-component-set", t>>, <<>>>> : t \in c.types}
      BY <1>n, <3>1, <3>2, NestedPaths
    <3> HIDE DEF k3
    <3> QED
      BY <3>3
  <2> QED
    BY <2>1, <2>2
<1>5. \A t \in c.types : \E p \in PathsOf(k3) : p[1] = <<"supported-calendar-component-set", t>>
  <2> TAKE t \in c.types
  <2>0. ToSet(kids3) = {Elem(s, <<>>) : s \in c.types} /\ (c.types = {} <=> kids3 = <<>>)
    BY TypesFacts
  <2> HIDE DEF kids3
  <2>1. /\ \A l \in ToSet(kids3) : \E s \in c.types : s # Text /\ l = Elem(s, <<>>)
        /\ \A s \in c.types : Elem(s, <<>>) \in ToSet(kids3)
    BY <1>n, <2>0
  <2>2. kids3 # <<>>
    BY <2>0
  <2>3. PathsOf(k3) = {<<<<"supported-calendar-component-set", s>>, <<>>>> : s \in c.types}
    BY <1>n, <2>1, <2>2, NestedPaths
  <2> HIDE DEF k3
  <2>4. <<<<"supported-calendar-component-set", t>>, <<>>>> \in PathsOf(k3)
    BY <2>3
  <2> QED
    BY <2>4
<1>6. /\ \A p \in PathsOf(k1) : \E t \in {"collection", c.resource} : p[1] = <<"resourcetype", t>>
      /\ \A t \in {"collection", c.resource} : \E p \in PathsOf(k1) : p[1] = <<"resourcetype", t>>
  <2> HIDE DEF k1
  <2>1. \A p \in PathsOf(k1) : \E t \in {"collection", c.resource} : p[1] = <<"resourcetype", t>>
    BY <1>2
  <2>2. \A t \in {"collection", c.resource} : <<<<"resourcetype", t>>, <<>>>> \in PathsOf(k1)
    BY <1>2
  <2> QED
    BY <2>1, <2>2
<1>7. /\ \A p \in PathsOf(k2) : p[1] = <<"displayname">> /\ p[2] = <<c.name>>
      /\ <<<<"displayname">>, <<c.name>>>> \in PathsOf(k2)
  BY <1>3
<1>8. Shallow(k1) /\ Shallow(k2) /\ Shallow(k3)
  BY <1>2, <1>3, <1>4
<1> HIDE DEF props, k1, k2, k3
<1>9. /\ r.href = <<i>>
      /\ \A name : HasProperty(r, name) <=> \E l \in ToSet(props) : \E p \in PathsOf(l) : p[1] = name
      /\ \A name : HasProperty(r, name) =>
           \E l \in ToSet(props) : \E p \in PathsOf(l) : p[1] = name /\ GetProperty(r, name) = p[2]
  BY <1>1, <1>8, ResponsePaths
<1> HIDE DEF r
<1>10. \A name : HasProperty(r, name) <=>
         \/ \E p \in PathsOf(k1) : p[1] = name
         \/ \E p \in PathsOf(k2) : p[1] = name
         \/ \E p \in PathsOf(k3) : p[1] = name
  BY <1>1, <1>9
<1>11. \A name : HasProperty(r, name) <=>
         \/ \E t \in {"collection", c.resource} : name = <<"resourcetype", t>>
         \/ name = <<"displayname">>
         \/ \E p \in PathsOf(k3) : p[1] = name
  <2>1. \A name : (\E p \in PathsOf(k1) : p[1] = name) <=> \E t \in {"collection", c.resource} : name = <<"resourcetype", t>>
    BY <1>6
  <2>2. \A name : (\E p \in PathsOf(k2) : p[1] = name) <=> name = <<"displayname">>
    BY <1>7
  <2> QED
    BY <1>10, <2>1, <2>2
<1>12. \A a : \A p \in PathsOf(k3) : p[1] # <<"resourcetype", a>> /\ p[1] # <<"displayname">>
  <2> TAKE a
  <2> TAKE p \in PathsOf(k3)
  <2>1. CASE p[1] = <<"supported-calendar-component-set">>
    BY <2>1, Paths
  <2>2. ASSUME NEW t \in c.types, p[1] = <<"supported-calendar-component-set", t>>
        PROVE  p[1] # <<"resourcetype", a>> /\ p[1] # <<"displayname">>
    BY <2>2, Paths
  <2> QED
    BY <1>4, <2>1, <2>2
<1>13. \A a : HasProperty(r, <<"resourcetype", a>>) <=> a \in {"collection", c.resource}
  BY <1>11, <1>12, Paths
<1>14. \A a : HasProperty(r, <<"supported-calendar-component-set", a>>) <=> a \in c.types
  <2> TAKE a
  <2>1. (\E p \in PathsOf(k3) : p[1] = <<"supported-calendar-component-set", a>>) <=> a \in c.types
    BY <1>4, <1>5, Paths
  <2> QED
    BY <1>11, <2>1, Paths
<1>15. GetProperty(r, <<"displayname">>) = <<c.name>>
  <2>1. HasProperty(r, <<"displayname">>)
    BY <1>11
  <2>2. PICK l \in {k1, k2, k3} : \E p \in PathsOf(l) : p[1] = <<"displayname">> /\ GetProperty(r, <<"displayname">>) = p[2]
    BY <1>1, <1>9, <2>1
  <2>3. l # k3 \/ l = k2 \/ l = k1
    BY <1>12, <2>2
  <2>4. \A p \in PathsOf(k1) : p[1] # <<"displayname">>
    BY <1>6, Paths
  <2> QED
    BY <1>7, <2>2, <2>3, <2>4
<1> QED
  BY <1>9, <1>13, <1>14, <1>15 DEF r, props, k1, k2, k3, CollectionNode

-----------------------------------------------------------------------------
(* Multistatus answers.                                                    *)

(* A list of responses is read as it is, and an answer without one is none.*)
LEMMA ResponsesFacts ==
  ASSUME NEW S, NEW rs \in Seq(S), \A i \in 1..Len(rs) : rs[i].name = "response", NEW token
  PROVE  LET x == Multistatus(rs, token)
         IN  /\ Understood(x)
             /\ DOMAIN Responses(x.body) = 1..Len(rs)
             /\ \A i \in 1..Len(rs) : Responses(x.body)[i] = ParseResponse(rs[i])
<1> DEFINE x == Multistatus(rs, token)
           extra == IF token = 0 THEN <<>> ELSE <<[Elem("sync-token", <<>>) EXCEPT !.text = <<token>>]>>
           kids == rs \o extra
           n == Len(rs)
<1>1. x.ok /\ x.code = 207 /\ x.body.root = "multistatus" /\ x.body.kids = kids
  BY DEF Multistatus, Reply
<1> HIDE DEF x
<1>2. Understood(x)
  BY <1>1 DEF Understood, IsMultistatus
<1>3. /\ n \in Nat /\ n <= Len(kids) /\ Len(kids) \in Nat /\ DOMAIN kids = 1..Len(kids)
      /\ \A i \in 1..n : kids[i] = rs[i]
      /\ \A i \in DOMAIN kids : i \notin 1..n => kids[i].name # "response"
  <2>1. PICK e : e = [Elem("sync-token", <<>>) EXCEPT !.text = <<token>>]
    OBVIOUS
  <2>2. e.name = "sync-token"
    BY <2>1 DEF Elem
  <2> DEFINE E == S \cup {e}
  <2>3. rs \in Seq(E)
    BY SeqMonotonic
  <2>4. <<e>> \in Seq(E) /\ <<>> \in Seq(E)
    <3>1. e \in E
      OBVIOUS
    <3> HIDE DEF E
    <3> QED
      BY <3>1
  <2>5. extra \in Seq(E) /\ \A i \in 1..Len(extra) : extra[i].name = "sync-token"
    <3>1. CASE token = 0
      <4>1. extra = <<>>
        BY <3>1
      <4> HIDE DEF extra
      <4> QED
        BY <2>4, <4>1
    <3>2. CASE token # 0
      <4>1. extra = <<e>>
        BY <2>1, <3>2
      <4>2. Len(<<e>>) = 1 /\ <<e>>[1] = e
        OBVIOUS
      <4> HIDE DEF extra
      <4> QED
        BY <2>2, <2>4, <4>1, <4>2
    <3> QED
      BY <3>1, <3>2
  <2> HIDE DEF E, extra
  <2>6. /\ kids \in Seq(E) /\ Len(kids) = n + Len(extra)
        /\ \A i \in 1..n + Len(extra) : kids[i] = IF i <= n THEN rs[i] ELSE extra[i - n]
    BY <2>3, <2>5, ConcatProperties
  <2>7. n \in Nat /\ Len(extra) \in Nat
    BY <2>3, <2>5
  <2> HIDE DEF kids, n
  <2>8. DOMAIN kids = 1..Len(kids)
    BY <2>6
  <2>9. \A i \in 1..n : kids[i] = rs[i]
    BY <2>6, <2>7
  <2>10. \A i \in DOMAIN kids : i \notin 1..n => kids[i].name # "response"
    <3> TAKE i \in DOMAIN kids
    <3> SUFFICES ASSUME i \notin 1..n PROVE kids[i].name # "response"
      OBVIOUS
    <3>1. i \in Int /\ ~(i <= n) /\ i - n \in 1..Len(extra) /\ i \in 1..n + Len(extra)
      BY <2>6, <2>7, <2>8
    <3>2. kids[i] = extra[i - n]
      BY <2>6, <3>1
    <3> QED
      BY <2>5, <3>1, <3>2
  <2> QED
    BY <2>6, <2>7, <2>8, <2>9, <2>10
<1>r. \A i \in 1..n : rs[i].name = "response"
  OBVIOUS
<1> HIDE DEF kids, n
<1>4. {i \in DOMAIN kids : kids[i].name = "response"} = 1..n
  <2>1. \A i \in 1..n : i \in DOMAIN kids /\ kids[i].name = "response"
    BY <1>3, <1>r
  <2> QED
    BY <1>3, <2>1
<1>5. Those(kids, 1..n) = From(kids, 1, n)
  <2>1. 1 \in {1, 2} /\ 1 <= n + 1
    BY <1>3
  <2> QED
    BY <1>3, <2>1, ThoseFrom
<1> DEFINE nodes == Those(kids, {i \in DOMAIN kids : kids[i].name = "response"})
<1>6. DOMAIN nodes = 1..n /\ \A i \in 1..n : nodes[i] = rs[i]
  <2>1. nodes = From(kids, 1, n)
    BY <1>4, <1>5
  <2>2. From(kids, 1, n) = [k \in 1..n |-> kids[k]]
    <3>1. n - 1 + 1 = n /\ \A k \in 1..n : k + 1 - 1 = k
      BY <1>3
    <3> QED
      BY <3>1 DEF From
  <2> HIDE DEF nodes
  <2> QED
    BY <1>3, <2>1, <2>2
<1> HIDE DEF nodes
<1>7. Responses(x.body) = [i \in DOMAIN nodes |-> ParseResponse(nodes[i])]
  BY <1>1 DEF Responses, nodes
<1>8. DOMAIN Responses(x.body) = 1..n /\ \A i \in 1..n : Responses(x.body)[i] = ParseResponse(rs[i])
  BY <1>6, <1>7
<1> QED
  BY <1>2, <1>8 DEF x, n

(* Errors, garbled answers and answers of another code are not taken for a *)
(* multistatus.                                                            *)
LEMMA NotUnderstood ==
  /\ \A x \in Exchanges({}) : ~Understood(x)
  /\ \A x \in {Broken, Refused, Garbled} : ~Understood(x)
  /\ \A n : n # 207 => ~Understood(Code(n))
<1>1. ~Understood(Broken) /\ ~Understood(Refused) /\ ~Understood(Garbled)
  BY DEF Understood, Broken, Refused, Garbled, Reply, IsMultistatus
<1>2. \A n : n # 207 => ~Understood(Code(n))
  BY DEF Understood, Code, Reply
<1> QED
  BY <1>1, <1>2 DEF Exchanges

(* Everything the server lists is a response.                              *)
LEMMA NodeNames ==
  /\ \A u, props : Found(u, props).name = "response"
  /\ \A u : Missing(u).name = "response"
  BY DEF Found, Missing, Elem

(* A node and more of them, given one by one.                              *)
LEMMA ConsFacts ==
  ASSUME NEW a, NEW n \in Nat, NEW T, NEW f \in [1..n -> T]
  PROVE  /\ <<a>> \o f \in Seq(T \cup {a}) /\ Len(<<a>> \o f) = n + 1
         /\ (<<a>> \o f)[1] = a /\ \A i \in 1..n : (<<a>> \o f)[i + 1] = f[i]
<1> DEFINE S == T \cup {a}
<1>1. f \in [1..n -> S] /\ a \in S
  OBVIOUS
<1> HIDE DEF S
<1>2. f \in Seq(S) /\ <<a>> \in Seq(S) /\ Len(f) = n /\ Len(<<a>>) = 1 /\ <<a>>[1] = a
  BY <1>1
<1>3. /\ <<a>> \o f \in Seq(S) /\ Len(<<a>> \o f) = 1 + n
      /\ \A i \in 1..1 + n : (<<a>> \o f)[i] = IF i <= 1 THEN <<a>>[i] ELSE f[i - 1]
  BY <1>2, ConcatProperties
<1>4. (<<a>> \o f)[1] = a
  BY <1>2, <1>3
<1>5. \A i \in 1..n : (<<a>> \o f)[i + 1] = f[i]
  <2> TAKE i \in 1..n
  <2>1. i + 1 \in 1..1 + n /\ ~(i + 1 <= 1) /\ (i + 1) - 1 = i
    OBVIOUS
  <2> QED
    BY <1>3, <2>1
<1> QED
  BY <1>3, <1>4, <1>5 DEF S

-----------------------------------------------------------------------------
(* Reading: metadata.                                                      *)

(* What is left of a sequence when the elements without some property are  *)
(* left out.                                                               *)
LEMMA HavingFacts ==
  ASSUME NEW rs, NEW n \in Nat, DOMAIN rs = 1..n, NEW name
  PROVE  Members(Having(rs, name), rs, {i \in 1..n : HasProperty(rs[i], name)})
  BY ThoseMembers DEF Having

(* The list metadata has one entry for each of the items us, with the      *)
(* revision it has now.                                                    *)
Reported(metadata, us) ==
  /\ \E n \in Nat : DOMAIN metadata = 1..n
  /\ \A i \in DOMAIN metadata : metadata[i].uri \in us /\ metadata[i].etag = <<Now[metadata[i].uri]>>
  /\ \A u \in us : \E i \in DOMAIN metadata : metadata[i].uri = u

(* An answer to queryContactsMetadata() and queryEventsMetadata() tells of *)
(* each item, and of nothing else, the revision it has.                    *)
LEMMA MetadataFacts ==
  ASSUME NEW us, IsFiniteSet(us), NEW x \in MetadataAnswers(us)
  PROVE  Understood(x) /\ Reported(MetadataOf(x), us)
<1>1. PICK s \in Orders(us) :
        x = Multistatus(<<Found("collection", <<Elem("resourcetype", <<Elem("collection", <<>>)>>)>>)>> \o
                        [i \in DOMAIN s |-> Found(s[i], <<ETag(Now[s[i]]), Elem("resourcetype", <<>>)>>)], 0)
  BY DEF MetadataAnswers
<1> DEFINE n == Cardinality(us)
           first == Found("collection", <<Elem("resourcetype", <<Elem("collection", <<>>)>>)>>)
           node(u) == Found(u, <<ETag(Now[u]), Elem("resourcetype", <<>>)>>)
           f == [i \in DOMAIN s |-> node(s[i])]
           rs == <<first>> \o f
           R == Responses(x.body)
           T == {node(u) : u \in us}
<1>2. n \in Nat /\ DOMAIN s = 1..n /\ ToSet(s) = us
  BY OrdersFacts
<1>3. /\ \A i \in 1..n : s[i] \in us
      /\ \A u \in us : \E i \in 1..n : s[i] = u
  BY <1>2 DEF ToSet
<1>f. ParseResponse(first).href = "collection"
      /\ \A name : HasProperty(ParseResponse(first), name) => name = <<"resourcetype", "collection">>
  BY CollectionResponse
<1>g. \A u : LET r == ParseResponse(node(u)) IN
        /\ r.href = u
        /\ HasProperty(r, <<"getetag">>) /\ GetProperty(r, <<"getetag">>) = <<Now[u]>>
        /\ HasProperty(r, <<"resourcetype">>) /\ GetProperty(r, <<"resourcetype">>) = <<>>
  BY ItemResponse
<1>x. x = Multistatus(rs, 0)
  BY <1>1
<1>m. first.name = "response" /\ \A u : node(u).name = "response"
  BY NodeNames
<1> HIDE DEF n, first, node
<1>4. DOMAIN f = 1..n /\ f = [i \in 1..n |-> f[i]] /\ \A i \in 1..n : f[i] = node(s[i])
  BY <1>2
<1> HIDE DEF f
<1>5. /\ rs \in Seq(T \cup {first}) /\ Len(rs) = n + 1 /\ rs[1] = first
      /\ \A i \in 1..n : rs[i + 1] = f[i]
  <2>1. f \in [1..n -> T]
    BY <1>3, <1>4
  <2> HIDE DEF T
  <2> QED
    BY <1>2, <2>1, ConsFacts
<1> HIDE DEF rs
<1>6. \A i \in 1..n + 1 : i = 1 \/ (i - 1 \in 1..n /\ i = (i - 1) + 1)
  BY <1>2
<1>7. \A i \in 1..n + 1 : i = 1 \/ rs[i] = node(s[i - 1])
  BY <1>4, <1>5, <1>6
<1>8. \A i \in 1..Len(rs) : rs[i].name = "response"
  BY <1>5, <1>7, <1>m
<1>9. /\ Understood(x) /\ DOMAIN R = 1..n + 1
      /\ \A i \in 1..n + 1 : R[i] = ParseResponse(rs[i])
  BY <1>5, <1>8, <1>x, ResponsesFacts
<1> HIDE DEF R
<1>10. ~HasProperty(R[1], <<"resourcetype">>)
  <2>1. R[1] = ParseResponse(first)
    BY <1>2, <1>5, <1>9
  <2> QED
    BY <1>f, <2>1, Paths
<1>11. ASSUME NEW i \in 1..n
       PROVE  /\ R[i + 1].href = s[i]
              /\ GetProperty(R[i + 1], <<"getetag">>) = <<Now[s[i]]>>
              /\ HasProperty(R[i + 1], <<"resourcetype">>) /\ GetProperty(R[i + 1], <<"resourcetype">>) = <<>>
  <2>1. i + 1 \in 1..n + 1
    BY <1>2
  <2>2. R[i + 1] = ParseResponse(node(s[i]))
    BY <1>4, <1>5, <1>9, <2>1
  <2> QED
    BY <1>g, <2>2
<1> DEFINE typed == Having(R, <<"resourcetype">>)
           I == {i \in DOMAIN typed : GetProperty(typed[i], <<"resourcetype">>) = <<>>}
           items == Those(typed, I)
           M == MetadataOf(x)
<1>12. /\ \E c \in Nat : DOMAIN typed = 1..c
       /\ \A k \in DOMAIN typed : \E i \in 1..n + 1 : typed[k] = R[i] /\ HasProperty(R[i], <<"resourcetype">>)
       /\ \A i \in 1..n + 1 : HasProperty(R[i], <<"resourcetype">>) => \E k \in DOMAIN typed : typed[k] = R[i]
  <2>1. n + 1 \in Nat
    BY <1>2
  <2>2. Members(typed, R, {i \in 1..n + 1 : HasProperty(R[i], <<"resourcetype">>)})
    BY <1>9, <2>1, HavingFacts
  <2> HIDE DEF typed
  <2> QED
    BY <2>2 DEF Members
<1>13. M = [i \in DOMAIN items |-> [uri |-> items[i].href, etag |-> GetProperty(items[i], <<"getetag">>)]]
  BY DEF MetadataOf, R
<1> HIDE DEF typed
<1>14. \A k \in DOMAIN typed : \E i \in 1..n : typed[k] = R[i + 1]
  <2> TAKE k \in DOMAIN typed
  <2>1. PICK i \in 1..n + 1 : typed[k] = R[i] /\ HasProperty(R[i], <<"resourcetype">>)
    BY <1>12
  <2>2. i # 1
    BY <1>10, <2>1
  <2>3. i - 1 \in 1..n /\ i = (i - 1) + 1
    BY <1>6, <2>2
  <2> QED
    BY <2>1, <2>3
<1>15. /\ \E c \in Nat : DOMAIN items = 1..c
       /\ \A k \in DOMAIN items : \E i \in DOMAIN typed : items[k] = typed[i]
       /\ \A i \in DOMAIN typed : \E k \in DOMAIN items : items[k] = typed[i]
  <2>1. \A i \in DOMAIN typed : GetProperty(typed[i], <<"resourcetype">>) = <<>>
    BY <1>11, <1>14
  <2>2. I = DOMAIN typed
    BY <2>1
  <2>3. PICK c \in Nat : DOMAIN typed = 1..c
    BY <1>12
  <2> HIDE DEF I
  <2>4. I \in SUBSET (1..c)
    BY <2>2, <2>3
  <2>5. Members(items, typed, I)
    BY <2>4, ThoseMembers
  <2> HIDE DEF items
  <2> QED
    BY <2>2, <2>5 DEF Members
<1> HIDE DEF items, M
<1>16. \A k \in DOMAIN items : \E i \in 1..n : items[k] = R[i + 1]
  BY <1>14, <1>15
<1>17. \A i \in 1..n : \E k \in DOMAIN items : items[k] = R[i + 1]
  <2> TAKE i \in 1..n
  <2>1. i + 1 \in 1..n + 1
    BY <1>2
  <2>2. PICK k \in DOMAIN typed : typed[k] = R[i + 1]
    BY <1>11, <1>12, <2>1
  <2> QED
    BY <1>15, <2>2
<1>18. DOMAIN M = DOMAIN items /\ \A k \in DOMAIN M : M[k].uri = items[k].href /\ M[k].etag = GetProperty(items[k], <<"getetag">>)
  BY <1>13
<1>19. Reported(M, us)
  <2>1. \A k \in DOMAIN M : M[k].uri \in us /\ M[k].etag = <<Now[M[k].uri]>>
    <3> TAKE k \in DOMAIN M
    <3>1. PICK i \in 1..n : items[k] = R[i + 1]
      BY <1>16, <1>18
    <3>2. M[k].uri = s[i] /\ M[k].etag = <<Now[s[i]]>>
      BY <1>11, <1>18, <3>1
    <3> QED
      BY <1>3, <3>2
  <2>2. \A u \in us : \E k \in DOMAIN M : M[k].uri = u
    <3> TAKE u \in us
    <3>1. PICK i \in 1..n : s[i] = u
      BY <1>3
    <3>2. PICK k \in DOMAIN items : items[k] = R[i + 1]
      BY <1>17
    <3> QED
      BY <1>11, <1>18, <3>1, <3>2
  <2> QED
    BY <1>15, <1>18, <2>1, <2>2 DEF Reported
<1> QED
  BY <1>9, <1>19 DEF M

-----------------------------------------------------------------------------
(* Reading: what changed since a token.                                    *)

(* What is read of a list of answers with and without an etag.             *)
LEMMA ChangedFacts ==
  ASSUME IsFiniteSet(Items), "collection" \notin Items, DOMAIN Now \subseteq Items,
         NEW t, NEW x \in ChangeAnswers(t)
  PROVE  Understood(x) /\ Reported(ChangedOf(x), ChangedSince(t)) /\ RemovedOf(x) = GoneSince(t)
<1> DEFINE us == GoneSince(t) \cup ChangedSince(t)
           first == Found("collection", <<ETag(Clock)>>)
<1>1. PICK s \in Orders(us) :
        x = Multistatus((IF Card THEN <<>> ELSE <<first>>) \o
                        [i \in DOMAIN s |-> IF s[i] \in DOMAIN Now THEN Found(s[i], <<ETag(Now[s[i]])>>)
                                                                   ELSE Missing(s[i])], Clock)
  BY DEF ChangeAnswers
<1> DEFINE n == Cardinality(us)
           node(u) == IF u \in DOMAIN Now THEN Found(u, <<ETag(Now[u])>>) ELSE Missing(u)
           T == {node(u) : u \in us}
           f == [i \in DOMAIN s |-> node(s[i])]
           rs == (IF Card THEN <<>> ELSE <<first>>) \o f
           R == Responses(x.body)
           S == T \cup {first}
<1>u. us \subseteq Items /\ IsFiniteSet(us)
  <2>1. us \subseteq Items
    BY DEF GoneSince, ChangedSince
  <2> HIDE DEF us
  <2> QED
    BY <2>1, FS_Subset
<1>c. /\ \A u \in us : u \in DOMAIN Now <=> u \in ChangedSince(t)
      /\ \A u \in us : u \notin DOMAIN Now <=> u \in GoneSince(t)
      /\ ChangedSince(t) \subseteq us /\ GoneSince(t) \subseteq us
  BY DEF GoneSince, ChangedSince
<1> HIDE DEF us
<1>2. n \in Nat /\ DOMAIN s = 1..n /\ ToSet(s) = us
  BY <1>u, OrdersFacts
<1>3. /\ \A i \in 1..n : s[i] \in us
      /\ \A u \in us : \E i \in 1..n : s[i] = u
  BY <1>2 DEF ToSet
<1>f. LET r == ParseResponse(first) IN r.href = "collection" /\ HasProperty(r, <<"getetag">>)
  BY EtagResponse
<1>g. \A u \in DOMAIN Now : LET r == ParseResponse(node(u)) IN
        r.href = u /\ HasProperty(r, <<"getetag">>) /\ GetProperty(r, <<"getetag">>) = <<Now[u]>>
  BY EtagResponse
<1>h. \A u : u \notin DOMAIN Now => LET r == ParseResponse(node(u)) IN r.href = u /\ ~HasProperty(r, <<"getetag">>)
  BY MissingFacts
<1>x. x = Multistatus(rs, Clock)
  BY <1>1
<1>m. first.name = "response" /\ \A u : node(u).name = "response"
  BY NodeNames
<1> HIDE DEF n, first, node
<1>4. f \in [1..n -> T] /\ \A i \in 1..n : f[i] = node(s[i])
  BY <1>2, <1>3
<1> HIDE DEF f, T
<1> DEFINE k0 == IF Card THEN 0 ELSE 1
<1>5. /\ rs \in Seq(S) /\ Len(rs) = n + k0
      /\ \A i \in 1..n : rs[i + k0] = node(s[i])
      /\ ~Card => rs[1] = first
  <2>1. CASE Card
    <3>1. f \in Seq(S) /\ Len(f) = n
      BY <1>2, <1>4
    <3> HIDE DEF S
    <3>2. <<>> \o f = f
      BY <3>1, ConcatEmptySeq
    <3>3. rs = f
      BY <2>1, <3>2
    <3>4. \A i \in 1..n : i + 0 = i
      OBVIOUS
    <3> QED
      BY <1>2, <1>4, <2>1, <3>1, <3>3, <3>4
  <2>2. CASE ~Card
    <3>1. /\ <<first>> \o f \in Seq(S) /\ Len(<<first>> \o f) = n + 1
          /\ (<<first>> \o f)[1] = first /\ \A i \in 1..n : (<<first>> \o f)[i + 1] = f[i]
      BY <1>2, <1>4, ConsFacts
    <3> HIDE DEF S
    <3> QED
      BY <1>4, <2>2, <3>1
  <2> QED
    BY <2>1, <2>2
<1> HIDE DEF S, rs
<1>6. k0 \in {0, 1} /\ \A i \in 1..n + k0 : (i = 1 /\ ~Card) \/ (i - k0 \in 1..n /\ i = (i - k0) + k0)
  BY <1>2
<1>k. \A i \in 1..n : i + k0 \in 1..n + k0
  BY <1>2
<1>e. ~Card => 1 \in 1..n + k0
  BY <1>2
<1> HIDE DEF k0
<1>7. \A i \in 1..Len(rs) : rs[i].name = "response"
  BY <1>5, <1>6, <1>m
<1>8. /\ Understood(x) /\ DOMAIN R = 1..n + k0
      /\ \A i \in 1..n + k0 : R[i] = ParseResponse(rs[i])
  BY <1>5, <1>7, <1>x, ResponsesFacts
<1> HIDE DEF R
<1>9. ASSUME NEW i \in 1..n
      PROVE  /\ R[i + k0].href = s[i] /\ s[i] \in Items
             /\ s[i] \in DOMAIN Now => HasProperty(R[i + k0], <<"getetag">>)
                                       /\ GetProperty(R[i + k0], <<"getetag">>) = <<Now[s[i]]>>
             /\ s[i] \notin DOMAIN Now => ~HasProperty(R[i + k0], <<"getetag">>)
  <2>1. R[i + k0] = ParseResponse(node(s[i]))
    BY <1>5, <1>8, <1>k
  <2> QED
    BY <1>3, <1>g, <1>h, <1>u, <2>1
<1>10. ~Card => ~IsItem(R[1]) /\ HasProperty(R[1], <<"getetag">>)
  <2> SUFFICES ASSUME ~Card PROVE ~IsItem(R[1]) /\ HasProperty(R[1], <<"getetag">>)
    OBVIOUS
  <2>1. R[1] = ParseResponse(first)
    BY <1>5, <1>8, <1>e
  <2> QED
    BY <1>f, <2>1 DEF IsItem
<1>11. \A i \in 1..n : IsItem(R[i + k0])
  BY <1>9 DEF IsItem
<1> DEFINE written == Having(R, <<"getetag">>)
           I == {i \in DOMAIN written : IsItem(written[i])}
           M0 == Those(written, I)
           M == ChangedOf(x)
<1>12. M = [i \in DOMAIN M0 |-> [uri |-> M0[i].href, etag |-> GetProperty(M0[i], <<"getetag">>)]]
  BY DEF ChangedOf, R
<1>13. Members(written, R, {i \in 1..n + k0 : HasProperty(R[i], <<"getetag">>)})
  <2>1. n + k0 \in Nat
    BY <1>2, <1>6
  <2> QED
    BY <1>8, <2>1, HavingFacts
<1> HIDE DEF written
<1>14. Members(M0, written, I)
  <2>1. PICK c \in Nat : DOMAIN written = 1..c
    BY <1>13 DEF Members
  <2>2. I \in SUBSET (1..c)
    BY <2>1
  <2> HIDE DEF I
  <2> QED
    BY <2>2, ThoseMembers
<1> HIDE DEF M0, M
<1>15. \A k \in DOMAIN M0 : \E i \in 1..n : s[i] \in DOMAIN Now /\ M0[k] = R[i + k0]
  <2> TAKE k \in DOMAIN M0
  <2>1. PICK j \in I : M0[k] = written[j]
    BY <1>14 DEF Members
  <2>2. IsItem(written[j]) /\ j \in DOMAIN written
    OBVIOUS
  <2>3. PICK i \in 1..n + k0 : written[j] = R[i] /\ HasProperty(R[i], <<"getetag">>)
    BY <1>13, <2>2 DEF Members
  <2>4. i - k0 \in 1..n /\ i = (i - k0) + k0
    BY <1>6, <1>10, <2>2, <2>3
  <2> QED
    BY <1>9, <2>1, <2>3, <2>4
<1>16. \A i \in 1..n : s[i] \in DOMAIN Now => \E k \in DOMAIN M0 : M0[k] = R[i + k0]
  <2> SUFFICES ASSUME NEW i \in 1..n, s[i] \in DOMAIN Now PROVE \E k \in DOMAIN M0 : M0[k] = R[i + k0]
    OBVIOUS
  <2>1. i + k0 \in {j \in 1..n + k0 : HasProperty(R[j], <<"getetag">>)}
    BY <1>9, <1>k
  <2>2. PICK j \in DOMAIN written : written[j] = R[i + k0]
    BY <1>13, <2>1 DEF Members
  <2>3. j \in I
    BY <1>11, <2>2
  <2> HIDE DEF I
  <2>4. PICK k \in DOMAIN M0 : M0[k] = written[j]
    BY <1>14, <2>3 DEF Members
  <2> QED
    BY <2>2, <2>4
<1>17. DOMAIN M = DOMAIN M0 /\ \A k \in DOMAIN M : M[k].uri = M0[k].href /\ M[k].etag = GetProperty(M0[k], <<"getetag">>)
  BY <1>12
<1>18. Reported(M, ChangedSince(t))
  <2>0. \E c \in Nat : DOMAIN M = 1..c
    BY <1>14, <1>17 DEF Members
  <2>1. \A k \in DOMAIN M : M[k].uri \in ChangedSince(t) /\ M[k].etag = <<Now[M[k].uri]>>
    <3> TAKE k \in DOMAIN M
    <3>1. PICK i \in 1..n : s[i] \in DOMAIN Now /\ M0[k] = R[i + k0]
      BY <1>15, <1>17
    <3>2. M[k].uri = s[i] /\ M[k].etag = <<Now[s[i]]>>
      BY <1>9, <1>17, <3>1
    <3> QED
      BY <1>3, <1>c, <3>1, <3>2
  <2>2. \A u \in ChangedSince(t) : \E k \in DOMAIN M : M[k].uri = u
    <3> TAKE u \in ChangedSince(t)
    <3>1. PICK i \in 1..n : s[i] = u
      BY <1>3, <1>c
    <3>2. s[i] \in DOMAIN Now
      BY <1>c, <3>1
    <3>3. PICK k \in DOMAIN M0 : M0[k] = R[i + k0]
      BY <1>16, <3>2
    <3> QED
      BY <1>9, <1>17, <3>1, <3>3
  <2> QED
    BY <2>0, <2>1, <2>2 DEF Reported
<1>19. RemovedOf(x) = GoneSince(t)
  <2>1. \A r : r \in ToSet(R) <=> \E i \in 1..n + k0 : r = R[i]
    BY <1>8 DEF ToSet
  <2>2. RemovedOf(x) = {r.href : r \in {q \in ToSet(R) : IsItem(q) /\ ~HasProperty(q, <<"getetag">>)}}
    BY DEF RemovedOf, R
  <2>3. \A u \in RemovedOf(x) : u \in GoneSince(t)
    <3> TAKE u \in RemovedOf(x)
    <3>1. PICK i \in 1..n + k0 : IsItem(R[i]) /\ ~HasProperty(R[i], <<"getetag">>) /\ u = R[i].href
      BY <2>1, <2>2
    <3>2. i - k0 \in 1..n /\ i = (i - k0) + k0
      BY <1>6, <1>10, <3>1
    <3>3. u = s[i - k0] /\ s[i - k0] \notin DOMAIN Now
      BY <1>9, <3>1, <3>2
    <3> QED
      BY <1>3, <1>c, <3>2, <3>3
  <2>4. \A u \in GoneSince(t) : u \in RemovedOf(x)
    <3> TAKE u \in GoneSince(t)
    <3>1. PICK i \in 1..n : s[i] = u
      BY <1>3, <1>c
    <3>2. s[i] \notin DOMAIN Now
      BY <1>c, <3>1
    <3>3. R[i + k0] \in ToSet(R) /\ IsItem(R[i + k0]) /\ ~HasProperty(R[i + k0], <<"getetag">>) /\ R[i + k0].href = u
      BY <1>9, <1>11, <1>k, <2>1, <3>1, <3>2
    <3> QED
      BY <2>2, <3>3
  <2> QED
    BY <2>3, <2>4
<1> QED
  BY <1>8, <1>18, <1>19 DEF M

-----------------------------------------------------------------------------
(* Reading: contents, and the answers to writes.                           *)

(* A multiget brings the content each item has now under the item's name.  *)
LEMMA MultigetFacts ==
  ASSUME NEW us, IsFiniteSet(ToSet(us)), NEW data, data # Text, NEW x \in MultigetAnswers(us, data)
  PROVE  LET ds == DataOf(x, data) IN
         /\ Understood(x)
         /\ \A j \in DOMAIN ds : ds[j].uri \in DOMAIN Now /\ ds[j].data = <<ds[j].uri, Now[ds[j].uri]>>
<1> DEFINE S0 == ToSet(us)
<1>1. PICK s \in Orders(S0) :
        x = Multistatus([i \in DOMAIN s |->
                           IF s[i] \in DOMAIN Now
                           THEN Found(s[i], <<Elem(data, <<TextNode(<<s[i], Now[s[i]]>>)>>)>>)
                           ELSE Missing(s[i])], 0)
  BY DEF MultigetAnswers
<1> DEFINE n == Cardinality(S0)
           node(u) == IF u \in DOMAIN Now THEN Found(u, <<Elem(data, <<TextNode(<<u, Now[u]>>)>>)>>) ELSE Missing(u)
           rs == [i \in DOMAIN s |-> node(s[i])]
           R == Responses(x.body)
           T == {node(u) : u \in S0}
<1>2. n \in Nat /\ DOMAIN s = 1..n /\ ToSet(s) = S0
  BY OrdersFacts
<1>3. \A i \in 1..n : s[i] \in S0
  BY <1>2 DEF ToSet
<1>g. \A u \in DOMAIN Now : LET r == ParseResponse(node(u)) IN
        r.href = u /\ HasProperty(r, <<data>>) /\ GetProperty(r, <<data>>) = <<u, Now[u]>>
  <2> TAKE u \in DOMAIN Now
  <2>1. PICK text : text = <<u, Now[u]>>
    OBVIOUS
  <2>2. text # <<>>
    BY <2>1
  <2>3. node(u) = Found(u, <<Elem(data, <<TextNode(text)>>)>>)
    BY <2>1
  <2> HIDE DEF node
  <2>4. LET r == ParseResponse(node(u)) IN
          r.href = u /\ HasProperty(r, <<data>>) /\ GetProperty(r, <<data>>) = text
    BY <2>2, <2>3, DataResponse
  <2> QED
    BY <2>1, <2>4
<1>h. \A u : u \notin DOMAIN Now => ~HasProperty(ParseResponse(node(u)), <<data>>)
  BY MissingFacts
<1>x. x = Multistatus(rs, 0)
  BY <1>1
<1>m. \A u : node(u).name = "response"
  BY NodeNames
<1> HIDE DEF n, node, S0
<1>4. rs \in [1..n -> T] /\ \A i \in 1..n : rs[i] = node(s[i])
  BY <1>2, <1>3
<1> HIDE DEF rs, T
<1>5. rs \in Seq(T) /\ Len(rs) = n
  BY <1>2, <1>4
<1>6. \A i \in 1..Len(rs) : rs[i].name = "response"
  BY <1>4, <1>5, <1>m
<1>7. /\ Understood(x) /\ DOMAIN R = 1..n
      /\ \A i \in 1..n : R[i] = ParseResponse(rs[i])
  BY <1>5, <1>6, <1>x, ResponsesFacts
<1> HIDE DEF R
<1> DEFINE H == Having(R, <<data>>)
           ds == DataOf(x, data)
<1>8. Members(H, R, {i \in 1..n : HasProperty(R[i], <<data>>)})
  BY <1>2, <1>7, HavingFacts
<1>9. ds = [i \in DOMAIN H |-> [uri |-> H[i].href, data |-> GetProperty(H[i], <<data>>)]]
  BY DEF DataOf, R
<1> HIDE DEF H, ds
<1>10. \A j \in DOMAIN ds : ds[j].uri \in DOMAIN Now /\ ds[j].data = <<ds[j].uri, Now[ds[j].uri]>>
  <2> TAKE j \in DOMAIN ds
  <2>1. j \in DOMAIN H /\ ds[j].uri = H[j].href /\ ds[j].data = GetProperty(H[j], <<data>>)
    BY <1>9
  <2>2. PICK i \in 1..n : H[j] = R[i] /\ HasProperty(R[i], <<data>>)
    BY <1>8, <2>1 DEF Members
  <2>3. R[i] = ParseResponse(node(s[i]))
    BY <1>4, <1>7
  <2>4. s[i] \in DOMAIN Now
    BY <1>h, <2>2, <2>3
  <2>5. H[j].href = s[i] /\ GetProperty(H[j], <<data>>) = <<s[i], Now[s[i]]>>
    BY <1>g, <2>2, <2>3, <2>4
  <2> QED
    BY <2>1, <2>4, <2>5
<1> QED
  BY <1>7, <1>10 DEF ds

(* The answer to a POST with the new item's etag, and the one with an error.*)
LEMMA SingleResponse ==
  ASSUME NEW node, node.name = "response"
  PROVE  LET x == Multistatus(<<node>>, 0) IN
         Understood(x) /\ Responses(x.body) # <<>> /\ Responses(x.body)[1] = ParseResponse(node)
<1> DEFINE S == {node}
           rs == <<node>>
           x == Multistatus(rs, 0)
<1>1. rs \in Seq(S) /\ Len(rs) = 1 /\ rs[1] = node
  OBVIOUS
<1> HIDE DEF S, rs
<1>2. \A i \in 1..Len(rs) : rs[i].name = "response"
  <2>1. \A i \in 1..1 : i = 1
    OBVIOUS
  <2> QED
    BY <1>1, <2>1
<1>3. /\ Understood(x) /\ DOMAIN Responses(x.body) = 1..Len(rs)
      /\ \A i \in 1..Len(rs) : Responses(x.body)[i] = ParseResponse(rs[i])
  BY <1>1, <1>2, ResponsesFacts
<1>4. 1 \in 1..Len(rs)
  BY <1>1
<1> HIDE DEF x
<1>5. Responses(x.body)[1] = ParseResponse(node)
  BY <1>1, <1>3, <1>4
<1>6. Responses(x.body) # <<>>
  <2>1. DOMAIN <<>> = {}
    OBVIOUS
  <2> QED
    BY <1>3, <1>4, <2>1
<1> QED
  BY <1>3, <1>5, <1>6 DEF x, rs

(* The answer to a POST that tells the new item's URI and etag.            *)
LEMMA AddedFacts ==
  \A u, v : LET x == AddedMulti(u, v) IN
    /\ x.ok /\ x.code = 207 /\ Understood(x) /\ Responses(x.body) # <<>>
    /\ Responses(x.body)[1].href = u
    /\ HasProperty(Responses(x.body)[1], <<"getetag">>)
    /\ GetProperty(Responses(x.body)[1], <<"getetag">>) = <<v>>
<1> TAKE u, v
<1> DEFINE node == Found(u, <<ETag(v)>>)
           x == Multistatus(<<node>>, 0)
<1>1. x.ok /\ x.code = 207
  BY DEF Multistatus, Reply
<1>2. node.name = "response"
  BY NodeNames
<1>3. ParseResponse(node).href = u /\ HasProperty(ParseResponse(node), <<"getetag">>)
      /\ GetProperty(ParseResponse(node), <<"getetag">>) = <<v>>
  BY EtagResponse
<1> HIDE DEF node
<1>4. Understood(x) /\ Responses(x.body) # <<>> /\ Responses(x.body)[1] = ParseResponse(node)
  BY <1>2, SingleResponse
<1> HIDE DEF x
<1>5. /\ x.ok /\ x.code = 207 /\ Understood(x) /\ Responses(x.body) # <<>>
      /\ Responses(x.body)[1].href = u
      /\ HasProperty(Responses(x.body)[1], <<"getetag">>)
      /\ GetProperty(Responses(x.body)[1], <<"getetag">>) = <<v>>
  BY <1>1, <1>3, <1>4
<1> QED
  BY <1>5 DEF x, node, AddedMulti

(* The answer to a POST that the server refused has no etag in it.         *)
LEMMA ConflictFacts ==
  \A u : LET x == Conflict(u) IN
    /\ x.code = 207 /\ Understood(x) /\ Responses(x.body) # <<>>
    /\ ~HasProperty(Responses(x.body)[1], <<"getetag">>)
<1> TAKE u
<1> DEFINE e == Elem("error", <<Elem("no-uid-conflict", <<>>)>>)
           kids == <<Href(u), StatusLine(409), e>>
           node == Elem("response", kids)
           x == Multistatus(<<node>>, 0)
<1>1. x.code = 207
  BY DEF Multistatus, Reply
<1>2. node.name = "response" /\ node.kids = kids
  BY ElemFacts
<1>3. Href(u).name = "href" /\ StatusLine(409).name = "status" /\ e.name = "error"
  BY DEF Href, StatusLine, Elem
<1>4. {i \in DOMAIN kids : kids[i].name = "propstat"} = {}
  <2>1. DOMAIN kids = 1..3 /\ kids[1] = Href(u) /\ kids[2] = StatusLine(409) /\ kids[3] = e
    OBVIOUS
  <2>2. \A i \in 1..3 : i = 1 \/ i = 2 \/ i = 3
    OBVIOUS
  <2> HIDE DEF kids, e
  <2> QED
    BY <1>3, <2>1, <2>2
<1> HIDE DEF kids, node
<1>5. Those(node.kids, {i \in DOMAIN node.kids : node.kids[i].name = "propstat"}) = <<>>
  <2>1. {} \in SUBSET (1..0) /\ 0 \in Nat
    OBVIOUS
  <2>2. Those(kids, {}) = <<>>
    BY <2>1, ThoseMembers DEF Members
  <2> QED
    BY <1>2, <1>4, <2>2
<1>6. ParseResponse(node).properties = <<>>
  <2>1. [i \in DOMAIN <<>> |-> PropStat(<<>>[i])] = <<>>
    OBVIOUS
  <2> QED
    BY <1>5, <2>1 DEF ParseResponse
<1>7. ~HasProperty(ParseResponse(node), <<"getetag">>)
  BY <1>6 DEF HasProperty
<1>8. Understood(x) /\ Responses(x.body) # <<>> /\ Responses(x.body)[1] = ParseResponse(node)
  BY <1>2, SingleResponse
<1> HIDE DEF x
<1>9. /\ x.code = 207 /\ Understood(x) /\ Responses(x.body) # <<>>
      /\ ~HasProperty(Responses(x.body)[1], <<"getetag">>)
  BY <1>1, <1>7, <1>8
<1> QED
  BY <1>9 DEF x, node, kids, e, Conflict

(* The answer that names nothing is a success without an id.               *)
LEMMA UnnamedFacts ==
  LET x == Multistatus(<<>>, 0) IN ReadAdded(x) = "unnamed"
<1> DEFINE rs == <<>>
           x == Multistatus(rs, 0)
<1>1. rs \in Seq({}) /\ Len(rs) = 0
  OBVIOUS
<1>2. x.ok /\ x.code = 207
  BY DEF Multistatus, Reply
<1> HIDE DEF rs, x
<1>3. Understood(x) /\ DOMAIN Responses(x.body) = 1..Len(rs)
  <2>1. \A i \in 1..Len(rs) : rs[i].name = "response"
    BY <1>1
  <2>2. /\ Understood(Multistatus(rs, 0))
        /\ DOMAIN Responses(Multistatus(rs, 0).body) = 1..Len(rs)
    BY <1>1, <2>1, ResponsesFacts
  <2> QED
    BY <2>2 DEF x
<1>4. Responses(x.body) = <<>>
  <2> DEFINE nodes == Those(x.body.kids, {i \in DOMAIN x.body.kids : x.body.kids[i].name = "response"})
  <2>1. Responses(x.body) = [i \in DOMAIN nodes |-> ParseResponse(nodes[i])]
    BY DEF Responses
  <2>2. DOMAIN Responses(x.body) = 1..0
    BY <1>1, <1>3
  <2> HIDE DEF nodes
  <2>3. DOMAIN nodes = 1..0
    BY <2>1, <2>2
  <2>4. Responses(x.body) = [i \in 1..0 |-> ParseResponse(nodes[i])]
    BY <2>1, <2>3
  <2> QED
    BY <2>4
<1>5. ReadAdded(x) = "unnamed"
  BY <1>2, <1>3, <1>4 DEF ReadAdded
<1> QED
  BY <1>5 DEF x, rs

-----------------------------------------------------------------------------
(* Discovery.                                                              *)

Calendars == Seq([resource : {"calendar", "addressbook"}, name : STRING, types : SUBSET Types])

(* What the storage learns of the collections of a home set.               *)
LEMMA ListingFacts ==
  ASSUME setup.cals \in Calendars, NEW indices \in Seq(1..Len(setup.cals)), NEW x,
         x = Multistatus(Listing(indices), 0)
  PROVE  LET books == Having(Responses(x.body), <<"resourcetype", "addressbook">>)
             infos == CalendarsInfo(x)
         IN  /\ Understood(x)
             /\ books # <<>> => /\ books[1].href[1] \in 1..Len(setup.cals)
                                /\ setup.cals[books[1].href[1]].resource = "addressbook"
             /\ \E c \in Nat : DOMAIN infos = 1..c
             /\ \A k \in DOMAIN infos :
                  /\ infos[k].index \in ToSet(indices) /\ infos[k].index \in 1..Len(setup.cals)
                  /\ setup.cals[infos[k].index].resource = "calendar"
                  /\ infos[k].name = <<setup.cals[infos[k].index].name>>
                  /\ infos[k].types = setup.cals[infos[k].index].types
             /\ \A i \in ToSet(indices) :
                  setup.cals[i].resource = "calendar" => \E k \in DOMAIN infos : infos[k].index = i
<1> DEFINE n == Len(indices)
           cal(i) == setup.cals[indices[i]]
           first == Found("home", <<Elem("resourcetype", <<Elem("collection", <<>>)>>)>>)
           node(i) == CollectionNode(indices[i], cal(i))
           f == [i \in DOMAIN indices |-> node(i)]
           T == {node(i) : i \in 1..n}
           rs == <<first>> \o f
           R == Responses(x.body)
<1>1. x = Multistatus(rs, 0)
  BY DEF Listing, CollectionNode
<1>2. n \in Nat /\ DOMAIN indices = 1..n /\ \A i \in 1..n : indices[i] \in 1..Len(setup.cals)
  OBVIOUS
<1>3. /\ \A i \in ToSet(indices) : \E j \in 1..n : indices[j] = i
      /\ \A j \in 1..n : indices[j] \in ToSet(indices)
  BY <1>2 DEF ToSet
<1>4. \A i \in 1..n : cal(i).resource \in {"calendar", "addressbook"} /\ cal(i).types \subseteq Types
  <2> TAKE i \in 1..n
  <2> DEFINE C == [resource : {"calendar", "addressbook"}, name : STRING, types : SUBSET Types]
  <2>1. indices[i] \in 1..Len(setup.cals) /\ setup.cals \in Seq(C)
    BY <1>2 DEF Calendars
  <2>2. cal(i) \in C
    <3> HIDE DEF C
    <3> QED
      BY <2>1, ElementOfSeq
  <2> HIDE DEF cal
  <2> QED
    BY <2>2
<1>5. \A name : HasProperty(ParseResponse(first), name) => name = <<"resourcetype", "collection">>
  BY CollectionResponse
<1>6. \A i \in 1..n : LET r == ParseResponse(node(i)) IN
        /\ r.href = <<indices[i]>>
        /\ HasProperty(r, <<"resourcetype", "addressbook">>) <=> cal(i).resource = "addressbook"
        /\ HasProperty(r, <<"resourcetype", "calendar">>) <=> cal(i).resource = "calendar"
        /\ GetProperty(r, <<"displayname">>) = <<cal(i).name>>
        /\ \A t : HasProperty(r, <<"supported-calendar-component-set", t>>) <=> t \in cal(i).types
  BY <1>4, CollectionNodeResponse
<1>m. first.name = "response" /\ \A i : node(i).name = "response"
  BY NodeNames DEF CollectionNode
<1> HIDE DEF n, first, node
<1>7. f \in [1..n -> T] /\ \A i \in 1..n : f[i] = node(i)
  BY <1>2
<1> HIDE DEF f, T
<1>8. /\ rs \in Seq(T \cup {first}) /\ Len(rs) = n + 1 /\ rs[1] = first
      /\ \A i \in 1..n : rs[i + 1] = f[i]
  BY <1>2, <1>7, ConsFacts
<1> HIDE DEF rs
<1>9. \A i \in 1..n + 1 : i = 1 \/ (i - 1 \in 1..n /\ i = (i - 1) + 1)
  BY <1>2
<1>10. \A i \in 1..Len(rs) : rs[i].name = "response"
  BY <1>7, <1>8, <1>9, <1>m
<1>11. /\ Understood(x) /\ DOMAIN R = 1..n + 1
       /\ \A i \in 1..n + 1 : R[i] = ParseResponse(rs[i])
  BY <1>1, <1>8, <1>10, ResponsesFacts
<1> HIDE DEF R
<1>12. \A name : HasProperty(R[1], name) => name = <<"resourcetype", "collection">>
  <2>1. R[1] = ParseResponse(first)
    BY <1>2, <1>8, <1>11
  <2> QED
    BY <1>5, <2>1
<1>13. ASSUME NEW i \in 1..n
       PROVE  /\ R[i + 1].href = <<indices[i]>> /\ R[i + 1].href[1] = indices[i] /\ i + 1 \in 1..n + 1
              /\ HasProperty(R[i + 1], <<"resourcetype", "addressbook">>) <=> cal(i).resource = "addressbook"
              /\ HasProperty(R[i + 1], <<"resourcetype", "calendar">>) <=> cal(i).resource = "calendar"
              /\ GetProperty(R[i + 1], <<"displayname">>) = <<cal(i).name>>
              /\ \A t : HasProperty(R[i + 1], <<"supported-calendar-component-set", t>>) <=> t \in cal(i).types
  <2>1. i + 1 \in 1..n + 1
    BY <1>2
  <2>2. R[i + 1] = ParseResponse(node(i))
    BY <1>7, <1>8, <1>11, <2>1
  <2>3. R[i + 1].href = <<indices[i]>>
    BY <1>6, <2>2
  <2> HIDE DEF cal
  <2> QED
    BY <1>6, <2>1, <2>2, <2>3
<1>14. n + 1 \in Nat
  BY <1>2
<1> DEFINE books == Having(R, <<"resourcetype", "addressbook">>)
           cals == Having(R, <<"resourcetype", "calendar">>)
           infos == CalendarsInfo(x)
<1>15. Members(books, R, {i \in 1..n + 1 : HasProperty(R[i], <<"resourcetype", "addressbook">>)})
  BY <1>11, <1>14, HavingFacts
<1>16. Members(cals, R, {i \in 1..n + 1 : HasProperty(R[i], <<"resourcetype", "calendar">>)})
  BY <1>11, <1>14, HavingFacts
<1>17. infos = [i \in DOMAIN cals |->
                  [index |-> cals[i].href[1],
                   name |-> GetProperty(cals[i], <<"displayname">>),
                   types |-> {t \in Types : HasProperty(cals[i], <<"supported-calendar-component-set", t>>)}]]
  BY DEF CalendarsInfo, R
<1> HIDE DEF books, cals, infos
<1>18. ASSUME books # <<>>
       PROVE  books[1].href[1] \in 1..Len(setup.cals) /\ setup.cals[books[1].href[1]].resource = "addressbook"
  <2>1. 1 \in DOMAIN books
    BY <1>15, <1>18 DEF Members
  <2>2. PICK i \in 1..n + 1 : books[1] = R[i] /\ HasProperty(R[i], <<"resourcetype", "addressbook">>)
    BY <1>15, <2>1 DEF Members
  <2>3. i # 1
    BY <1>12, <2>2, Paths
  <2>4. i - 1 \in 1..n /\ i = (i - 1) + 1
    BY <1>9, <2>3
  <2> DEFINE j == i - 1
  <2>5. j \in 1..n /\ i = j + 1
    BY <2>4
  <2> HIDE DEF j, cal
  <2>6. books[1].href[1] = indices[j] /\ cal(j).resource = "addressbook"
    BY <1>13, <2>2, <2>5
  <2>7. indices[j] \in 1..Len(setup.cals)
    BY <1>2, <2>5
  <2> QED
    BY <2>6, <2>7 DEF cal
<1>19. \A k \in DOMAIN infos : \E i \in 1..n :
         /\ infos[k].index = indices[i] /\ cal(i).resource = "calendar"
         /\ infos[k].name = <<cal(i).name>> /\ infos[k].types = cal(i).types
  <2> TAKE k \in DOMAIN infos
  <2>1. /\ k \in DOMAIN cals /\ infos[k].index = cals[k].href[1]
        /\ infos[k].name = GetProperty(cals[k], <<"displayname">>)
        /\ infos[k].types = {t \in Types : HasProperty(cals[k], <<"supported-calendar-component-set", t>>)}
    BY <1>17
  <2>2. PICK i \in 1..n + 1 : cals[k] = R[i] /\ HasProperty(R[i], <<"resourcetype", "calendar">>)
    BY <1>16, <2>1 DEF Members
  <2>3. i # 1
    BY <1>12, <2>2, Paths
  <2>4. i - 1 \in 1..n /\ i = (i - 1) + 1
    BY <1>9, <2>3
  <2> HIDE DEF cal
  <2>5. infos[k].types = cal(i - 1).types
    BY <1>4, <1>13, <2>1, <2>2, <2>4
  <2>6. infos[k].index = indices[i - 1] /\ cal(i - 1).resource = "calendar" /\ infos[k].name = <<cal(i - 1).name>>
    BY <1>13, <2>1, <2>2, <2>4
  <2> QED
    BY <2>4, <2>5, <2>6
<1>20. \A i \in ToSet(indices) : setup.cals[i].resource = "calendar" => \E k \in DOMAIN infos : infos[k].index = i
  <2> SUFFICES ASSUME NEW i \in ToSet(indices), setup.cals[i].resource = "calendar"
               PROVE  \E k \in DOMAIN infos : infos[k].index = i
    OBVIOUS
  <2>1. PICK j \in 1..n : indices[j] = i
    BY <1>3
  <2>2. HasProperty(R[j + 1], <<"resourcetype", "calendar">>) /\ R[j + 1].href[1] = i /\ j + 1 \in 1..n + 1
    BY <1>13, <2>1
  <2>3. PICK k \in DOMAIN cals : cals[k] = R[j + 1]
    BY <1>16, <2>2 DEF Members
  <2> QED
    BY <1>17, <2>2, <2>3
<1>21. \E c \in Nat : DOMAIN infos = 1..c
  BY <1>16, <1>17 DEF Members
<1>22. \A k \in DOMAIN infos :
         /\ infos[k].index \in ToSet(indices) /\ infos[k].index \in 1..Len(setup.cals)
         /\ setup.cals[infos[k].index].resource = "calendar"
         /\ infos[k].name = <<setup.cals[infos[k].index].name>>
         /\ infos[k].types = setup.cals[infos[k].index].types
  BY <1>2, <1>3, <1>19
<1> QED
  BY <1>11, <1>18, <1>20, <1>21, <1>22 DEF books, infos, R

(* The calendar that is selected is one of the list that supports the type,*)
(* and the one of the given name if there is such a calendar.              *)
LEMMA SelectedFacts ==
  ASSUME NEW infos, NEW n \in Nat, DOMAIN infos = 1..n, \A k \in 1..n : infos[k].index \in Nat \ {0}
  PROVE  LET i == Selected(infos) IN
         \/ i = 0
         \/ \E k \in 1..n :
              /\ i = infos[k].index /\ setup.type \in infos[k].types
              /\ setup.name # "" /\ infos[k].name # <<setup.name>> =>
                   \A j \in 1..n : ~(infos[j].name = <<setup.name>> /\ setup.type \in infos[j].types)
<1> DEFINE I == {i \in DOMAIN infos : setup.type \in infos[i].types}
           J == {i \in DOMAIN infos : infos[i].name = <<setup.name>> /\ setup.type \in infos[i].types}
           fit == Those(infos, I)
           named == Those(infos, J)
<1>1. I \in SUBSET (1..n) /\ J \in SUBSET (1..n)
  OBVIOUS
<1>2. /\ \A i : i \in I <=> i \in 1..n /\ setup.type \in infos[i].types
      /\ \A i : i \in J <=> i \in 1..n /\ infos[i].name = <<setup.name>> /\ setup.type \in infos[i].types
  OBVIOUS
<1>3. /\ FirstSupporting(infos) = IF fit = <<>> THEN 0 ELSE fit[1].index
      /\ Selected(infos) = IF setup.name # "" /\ named # <<>> THEN named[1].index ELSE FirstSupporting(infos)
  BY DEF FirstSupporting, Selected
<1> HIDE DEF I, J
<1>4. Members(fit, infos, I) /\ Members(named, infos, J)
  BY <1>1, ThoseMembers
<1> HIDE DEF fit, named
<1>5. ASSUME named # <<>>
      PROVE  \E k \in 1..n : named[1].index = infos[k].index /\ infos[k].name = <<setup.name>> /\ setup.type \in infos[k].types
  <2>1. 1 \in DOMAIN named
    BY <1>4, <1>5 DEF Members
  <2>2. PICK k \in J : named[1] = infos[k]
    BY <1>4, <2>1 DEF Members
  <2> QED
    BY <1>2, <2>2
<1>6. ASSUME fit # <<>>
      PROVE  \E k \in 1..n : fit[1].index = infos[k].index /\ setup.type \in infos[k].types
  <2>1. 1 \in DOMAIN fit
    BY <1>4, <1>6 DEF Members
  <2>2. PICK k \in I : fit[1] = infos[k]
    BY <1>4, <2>1 DEF Members
  <2> QED
    BY <1>2, <2>2
<1>7. ASSUME named = <<>>
      PROVE  \A j \in 1..n : ~(infos[j].name = <<setup.name>> /\ setup.type \in infos[j].types)
  <2>1. J = {}
    BY <1>4, <1>7 DEF Members
  <2> QED
    BY <1>2, <2>1
<1> QED
  BY <1>3, <1>5, <1>6, <1>7

-----------------------------------------------------------------------------
(* The inductive invariant.                                                *)

CallFields ==
  {"op", "step", "ret", "args", "batch", "given", "hops", "token", "out", "removed", "start", "at"}
Writes == {"add", "modify", "remove"}
Reads == {"revisions", "changed", "get"}
InitSteps == {"authorize", "principal", "homeset", "collections", "info"}
Collections == UNION {[D -> Nat] : D \in SUBSET Items}

(* The collection's history: a write has its number, and what the m-th     *)
(* write found unchanged since the n-th is in hist[n] as it is in hist[m]. *)
HistInv ==
  /\ hist \in Seq(Collections) /\ Clock \in Nat \ {0}
  /\ \A n \in 1..Clock : DOMAIN hist[n] \subseteq Items /\ \A u \in DOMAIN hist[n] : hist[n][u] \in 1..n
  /\ \A n, m \in 1..Clock : n <= m =>
       \A u \in DOMAIN hist[m] : hist[m][u] <= n => u \in DOMAIN hist[n] /\ hist[n][u] = hist[m][u]
  /\ mine \subseteq 2..Clock

(* What the helper knows of an item is not newer than the item.            *)
HelperInv ==
  /\ DOMAIN helper = {"made", "collection", "token", "metadata"}
  /\ helper.collection \in 0..Len(setup.cals)
  /\ \E n \in Nat : DOMAIN helper.metadata = 1..n
  /\ \A i \in DOMAIN helper.metadata : \E v \in 1..Clock :
       /\ helper.metadata[i].etag = <<v>>
       /\ helper.metadata[i].uri \in DOMAIN Now => v <= Now[helper.metadata[i].uri]

(* The calendar is the given one, or the best of the home set.             *)
Best(i) ==
  setup.name # "" /\ setup.cals[i].name # setup.name =>
    \A j \in DOMAIN setup.cals :
      LET d == setup.cals[j] IN ~(d.resource = "calendar" /\ d.name = setup.name /\ setup.type \in d.types)

UrlInv ==
  /\ setup \in Setups
  /\ calendarUrl \in 0..Len(setup.cals)
  /\ setup.given => calendarUrl = 1
  /\ ~Card /\ ~setup.given /\ calendarUrl # 0 => Best(calendarUrl)

(* Which step belongs to which call.                                       *)
StepInv ==
  /\ DOMAIN call = CallFields
  /\ call.ret \in {"ok", "fail"} /\ call.at \in Nat
  /\ call.step \in {"idle", "done", "ask"} \cup Writes \cup InitSteps
  /\ call.step = "idle" => call.op = "none"
  /\ call.step \in InitSteps => call.op = "init" /\ call.ret = "ok"
  /\ call.step \in Writes => call.op = call.step
  /\ call.step = "ask" => call.op \in {"add", "modify"} /\ ~setup.headers
  /\ ~Card /\ call.step \in {"principal", "homeset", "collections"} => calendarUrl = 0
  /\ call.step = "info" => ~Card /\ calendarUrl # 0

(* A batch: the items done and those still to do are the batch.            *)
Report == [id : Items \cup {NoId}, of : Items, ver : Nat, rev : Seq(Nat)]

BatchInv ==
  call.op \in Writes =>
    /\ call.args \in Seq(Items) /\ call.batch \in Seq(Items) /\ call.out \in Seq(Report) /\ call.given \in Seq(Nat)
    /\ \A i, j \in DOMAIN call.args : call.args[i] = call.args[j] => i = j
    /\ call.step # "done" => call.args # <<>> /\ call.ret = "ok"
    /\ call.step = "done" /\ call.ret = "ok" => call.args = <<>>
    /\ call.ret = "ok" =>
         /\ Len(call.batch) = Len(call.out) + Len(call.args)
         /\ \A i \in 1..Len(call.out) : call.out[i].of = call.batch[i]
         /\ \A i \in 1..Len(call.args) : call.args[i] = call.batch[Len(call.out) + i]

(* No item after the first of args was written since the call began, and   *)
(* each report is of a write of this storage.                              *)
Untouched(h, n, u) ==
  \/ u \notin DOMAIN h[n] /\ u \notin DOMAIN h[n - 1]
  \/ u \in DOMAIN h[n] /\ u \in DOMAIN h[n - 1] /\ h[n][u] = h[n - 1][u]

Reports(h, m, r) ==
  r.id = r.of /\ r.rev = <<r.ver>> /\ r.ver \in m /\ r.id \in DOMAIN h[r.ver] /\ h[r.ver][r.id] = r.ver

EffectInv ==
  call.op \in Writes =>
    /\ call.start \in 1..Clock
    /\ call.args # <<>> =>
         \A n \in mine : n > call.start => \A u \in ToSet(Tail(call.args)) : Untouched(hist, n, u)
    /\ call.op # "remove" /\ setup.headers => \A i \in DOMAIN call.out : Reports(hist, mine, call.out[i])

DAVInv ==
  HistInv /\ HelperInv /\ UrlInv /\ StepInv /\ BatchInv /\ EffectInv /\ ReadsAreExact /\ InitPicksSupported

(* The initial state.                                                      *)
LEMMA InitGivesDAVInv == Init => DAVInv
<1> SUFFICES ASSUME Init PROVE DAVInv
  OBVIOUS
<1> DEFINE first == [u \in Items |-> 1]
<1>1. PICK there \in SUBSET Items : hist = <<[u \in there |-> 1]>>
  BY DEF Init
<1>2. [u \in there |-> 1] \in Collections
  BY DEF Collections
<1>3. PICK c \in Collections : c = [u \in there |-> 1] /\ hist = <<c>>
  BY <1>1, <1>2
<1>4. hist \in Seq(Collections) /\ Clock = 1 /\ hist[1] = c
  BY <1>3 DEF Clock
<1>5. HistInv
  <2>1. DOMAIN c = there /\ \A u \in there : c[u] = 1
    BY <1>3
  <2>2. mine = {}
    BY DEF Init
  <2> QED
    BY <1>4, <2>1, <2>2 DEF HistInv
<1>6. setup \in Setups /\ setup.cals \in Calendars /\ (setup.given => setup.cals # <<>>)
  BY DAVStorageAssumption DEF Init, Calendars
<1>7. HelperInv
  <2>1. helper = NoHelper
    BY DEF Init
  <2>2. DOMAIN helper = {"made", "collection", "token", "metadata"} /\ helper.collection = 0 /\ helper.metadata = <<>>
    BY <2>1 DEF NoHelper
  <2>3. Len(setup.cals) \in Nat
    BY <1>6 DEF Calendars
  <2>4. DOMAIN helper.metadata = 1..0
    BY <2>2
  <2> QED
    BY <2>2, <2>3, <2>4 DEF HelperInv
<1>8. UrlInv
  <2>1. calendarUrl = IF setup.given THEN 1 ELSE 0
    BY DEF Init
  <2>2. Len(setup.cals) \in Nat /\ (setup.given => Len(setup.cals) # 0)
    BY <1>6 DEF Calendars
  <2>3. calendarUrl \in 0..Len(setup.cals) /\ (setup.given => calendarUrl = 1)
    BY <2>1, <2>2
  <2>4. ~setup.given => calendarUrl = 0
    BY <2>1
  <2> QED
    BY <1>6, <2>3, <2>4 DEF UrlInv
<1>9. call = NoCall
  BY DEF Init
<1>10. StepInv /\ BatchInv /\ EffectInv /\ ReadsAreExact /\ InitPicksSupported
  <2>1. call.step = "idle" /\ call.op = "none" /\ call.ret = "ok" /\ call.at = 1 /\ DOMAIN call = CallFields
    BY <1>9 DEF NoCall, CallFields
  <2> QED
    BY <2>1 DEF StepInv, BatchInv, EffectInv, ReadsAreExact, InitPicksSupported, Writes, InitSteps, Succeeded
<1> QED
  BY <1>5, <1>7, <1>8, <1>10 DEF DAVInv

-----------------------------------------------------------------------------
(* Steps that leave the server alone.                                      *)

(* The part of the invariant that is not about the call.                   *)
LEMMA StillFacts ==
  /\ HistInv /\ UNCHANGED <<hist, mine>> => HistInv'
  /\ HelperInv /\ UNCHANGED <<hist, setup, helper>> => HelperInv'
  /\ UrlInv /\ UNCHANGED <<setup, calendarUrl>> => UrlInv'
<1>1. HistInv /\ UNCHANGED <<hist, mine>> => HistInv'
  BY DEF HistInv, Clock
<1>2. HelperInv /\ UNCHANGED <<hist, setup, helper>> => HelperInv'
  BY DEF HelperInv, Clock, Now
<1>3. UrlInv /\ UNCHANGED <<setup, calendarUrl>> => UrlInv'
  BY DEF UrlInv, Best, Card
<1> QED
  BY <1>1, <1>2, <1>3

(* What a call does not promise.                                           *)
LEMMA QuietFacts ==
  /\ call'.op \notin Writes => BatchInv' /\ EffectInv'
  /\ call'.step # "done" \/ call'.op \notin Reads \/ call'.ret # "ok" => ReadsAreExact'
  /\ call'.step # "done" \/ call'.op # "init" \/ call'.ret # "ok" => InitPicksSupported'
<1>1. call'.op \notin Writes => BatchInv' /\ EffectInv'
  BY DEF BatchInv, EffectInv
<1>2. call'.step # "done" \/ call'.op \notin Reads \/ call'.ret # "ok" => ReadsAreExact'
  BY DEF ReadsAreExact, Succeeded, Reads
<1>3. call'.step # "done" \/ call'.op # "init" \/ call'.ret # "ok" => InitPicksSupported'
  BY DEF InitPicksSupported, Succeeded
<1> QED
  BY <1>1, <1>2, <1>3

(* A new call.                                                             *)
LEMMA BeginFacts ==
  \A op, step : LET c == Begin(op, step) IN
    /\ DOMAIN c = CallFields /\ c.op = op /\ c.step = step /\ c.ret = "ok"
    /\ c.args = <<>> /\ c.batch = <<>> /\ c.given = <<>> /\ c.out = <<>>
    /\ c.token = 0 /\ c.removed = {} /\ c.start = Clock /\ c.at = Clock
  BY DEF Begin, NoCall, CallFields

(* A step of a call that is not a write and whose end promises nothing: the *)
(* new call and the helper are what is left to look at.                    *)
LEMMA ReadStep ==
  ASSUME DAVInv, UNCHANGED <<setup, hist, mine, calendarUrl>>, StepInv', HelperInv',
         call'.op \notin Writes, ReadsAreExact', InitPicksSupported'
  PROVE  DAVInv'
<1>1. HistInv' /\ UrlInv'
  BY StillFacts DEF DAVInv
<1> QED
  BY <1>1, QuietFacts DEF DAVInv

(* What a call's answer says of the items' versions.                       *)
Told(out) ==
  [u \in {out[i].id : i \in DOMAIN out} |-> out[CHOOSE i \in DOMAIN out : out[i].id = u].ver]

(* ReadsAreExact of a call c and a history h.                              *)
ExactOf(c, h, s) ==
  LET told == Told(c.out)
      then == h[c.token]
  IN  /\ c.step = "done" /\ c.op = "revisions" /\ c.ret = "ok" => told = h[c.at]
      /\ c.step = "done" /\ c.op = "changed" /\ c.ret = "ok" =>
           [u \in (DOMAIN then \ c.removed) \cup DOMAIN told |->
              IF u \in DOMAIN told THEN told[u] ELSE then[u]] = h[c.at]
      /\ (c.step = "done" /\ c.op = "get" /\ c.ret = "ok") /\ ~s.kind = "card" =>
           \A i \in DOMAIN c.out :
             LET r == c.out[i] IN r.of = r.id /\ (r.rev # <<>> => r.rev[1] <= r.ver)

(* That is what ReadsAreExact says of the state, before and after a step.  *)
LEMMA ExactFacts ==
  (ReadsAreExact <=> ExactOf(call, hist, setup)) /\ (ReadsAreExact' <=> ExactOf(call', hist', setup'))
<1>1. ReadsAreExact <=> ExactOf(call, hist, setup)
  BY DEF ReadsAreExact, ExactOf, Told, Succeeded, Card
<1>2. ReadsAreExact' <=> ExactOf(call', hist', setup')
  BY DEF ReadsAreExact, ExactOf, Told, Succeeded, Card
<1> QED
  BY <1>1, <1>2

(* Steps without effect keep the invariant.                                *)
LEMMA StutterPreserves == DAVInv /\ UNCHANGED vars => DAVInv'
<1> SUFFICES ASSUME DAVInv, UNCHANGED vars PROVE DAVInv'
  OBVIOUS
<1>1. HistInv' /\ HelperInv' /\ UrlInv'
  BY StillFacts DEF DAVInv, vars
<1>2. StepInv' /\ BatchInv'
  BY DEF DAVInv, vars, StepInv, BatchInv, Card
<1>3. EffectInv'
  BY DEF DAVInv, vars, EffectInv, Clock
<1>4. InitPicksSupported'
  BY DEF DAVInv, vars, InitPicksSupported, Succeeded, Card
<1>5. ReadsAreExact'
  <2>1. call' = call /\ hist' = hist /\ setup' = setup
    BY DEF vars
  <2>2. ReadsAreExact
    BY DEF DAVInv
  <2> QED
    BY <2>1, <2>2, ExactFacts
<1> QED
  BY <1>1, <1>2, <1>3, <1>4, <1>5 DEF DAVInv

(* The caller takes the result of a call.                                  *)
LEMMA TakePreserves == DAVInv /\ Take => DAVInv'
<1> SUFFICES ASSUME DAVInv, Take PROVE DAVInv'
  OBVIOUS
<1>1. call'.step = "idle" /\ call'.op = "none" /\ call'.ret = "ok" /\ call'.at = 1 /\ DOMAIN call' = CallFields
  BY DEF Take, NoCall, CallFields
<1>2. UNCHANGED <<setup, hist, mine, calendarUrl, helper>>
  BY DEF Take
<1>3. StepInv'
  BY <1>1 DEF StepInv, Writes, InitSteps
<1>4. HelperInv'
  BY <1>2, StillFacts DEF DAVInv
<1>5. call'.op \notin Writes /\ ReadsAreExact' /\ InitPicksSupported'
  BY <1>1, QuietFacts DEF Writes
<1> QED
  BY <1>2, <1>3, <1>4, <1>5, ReadStep

(* init() begins.                                                          *)
LEMMA StartInitPreserves == DAVInv /\ StartInit => DAVInv'
<1> SUFFICES ASSUME DAVInv, StartInit PROVE DAVInv'
  OBVIOUS
<1>1. UNCHANGED <<setup, hist, mine, calendarUrl>>
  BY DEF StartInit
<1> DEFINE step == IF setup.oauth THEN "authorize" ELSE FirstRequest
<1>2. call' = [Begin("init", step) EXCEPT !.hops = setup.moved]
  BY DEF StartInit
<1>3. /\ DOMAIN call' = CallFields /\ call'.op = "init" /\ call'.step = step /\ call'.ret = "ok"
      /\ call'.at = Clock
  BY <1>2, BeginFacts
<1>4. step \in {"authorize", "principal", "info"}
      /\ (step = "info" => ~Card /\ calendarUrl # 0) /\ (~Card /\ step = "principal" => calendarUrl = 0)
  BY DEF FirstRequest
<1>5. Clock \in Nat
  BY DEF DAVInv, HistInv
<1>c. Card' <=> Card
  BY <1>1 DEF Card
<1>6. StepInv'
  <2> HIDE DEF step
  <2> QED
    BY <1>1, <1>3, <1>4, <1>5, <1>c DEF StepInv, Writes, InitSteps
<1>7. HelperInv'
  <2>1. helper' = NoHelper \/ helper' = NewHelper
    BY DEF StartInit
  <2>2. /\ DOMAIN helper' = {"made", "collection", "token", "metadata"}
        /\ helper'.collection = 0 /\ helper'.metadata = <<>>
    BY <2>1 DEF NoHelper, NewHelper
  <2>3. Len(setup'.cals) \in Nat
    BY <1>1, DAVStorageAssumption DEF DAVInv, UrlInv
  <2>4. DOMAIN helper'.metadata = 1..0
    BY <2>2
  <2> QED
    BY <2>2, <2>3, <2>4 DEF HelperInv
<1>8. ReadsAreExact' /\ InitPicksSupported' /\ call'.op \notin Writes
  BY <1>3, <1>4, QuietFacts DEF Writes
<1> QED
  BY <1>1, <1>6, <1>7, <1>8, ReadStep

(* init(): the authorization, and a given URL.                             *)
LEMMA AuthorizePreserves == DAVInv /\ Authorize => DAVInv'
<1> SUFFICES ASSUME DAVInv, Authorize PROVE DAVInv'
  OBVIOUS
<1>1. UNCHANGED <<setup, hist, mine, calendarUrl>>
  BY DEF Authorize
<1>2. StepInv /\ HelperInv /\ call.step = "authorize" /\ call.op = "init" /\ DOMAIN call = CallFields /\ call.at \in Nat
  BY DEF Authorize, DAVInv, StepInv, InitSteps
<1>3. \/ helper' = NewHelper /\ call' = [call EXCEPT !.step = FirstRequest]
      \/ UNCHANGED helper /\ call' = Return("fail")
  BY DEF Authorize
<1>c. Card' <=> Card
  BY <1>1 DEF Card
<1>4. CASE helper' = NewHelper /\ call' = [call EXCEPT !.step = FirstRequest]
  <2>1. DOMAIN call' = CallFields /\ call'.op = "init" /\ call'.step = FirstRequest /\ call'.ret = call.ret /\ call'.at = call.at
    BY <1>2, <1>4 DEF CallFields
  <2>2. /\ FirstRequest \in {"principal", "info"}
        /\ (FirstRequest = "info" => ~Card /\ calendarUrl # 0) /\ (~Card /\ FirstRequest = "principal" => calendarUrl = 0)
    BY DEF FirstRequest
  <2>3. StepInv'
    BY <1>1, <1>2, <1>c, <2>1, <2>2 DEF StepInv, Writes, InitSteps
  <2>4. HelperInv'
    <3>1. /\ DOMAIN helper' = {"made", "collection", "token", "metadata"}
          /\ helper'.collection = 0 /\ helper'.metadata = <<>>
      BY <1>4 DEF NoHelper, NewHelper
    <3>2. Len(setup'.cals) \in Nat
      BY <1>1, DAVStorageAssumption DEF DAVInv, UrlInv
    <3>3. DOMAIN helper'.metadata = 1..0
      BY <3>1
    <3> QED
      BY <3>1, <3>2, <3>3 DEF HelperInv
  <2>5. ReadsAreExact' /\ InitPicksSupported' /\ call'.op \notin Writes
    BY <2>1, <2>2, QuietFacts DEF Writes
  <2> QED
    BY <1>1, <2>3, <2>4, <2>5, ReadStep
<1>5. CASE UNCHANGED helper /\ call' = Return("fail")
  <2>1. DOMAIN call' = CallFields /\ call'.op = "init" /\ call'.step = "done" /\ call'.ret = "fail" /\ call'.at = call.at
    BY <1>2, <1>5 DEF CallFields, Return
  <2>2. StepInv'
    BY <1>2, <2>1 DEF StepInv, Writes, InitSteps
  <2>3. HelperInv'
    BY <1>1, <1>2, <1>5, StillFacts
  <2>4. ReadsAreExact' /\ InitPicksSupported' /\ call'.op \notin Writes
    BY <2>1, QuietFacts DEF Writes
  <2> QED
    BY <1>1, <2>2, <2>3, <2>4, ReadStep
<1> QED
  BY <1>3, <1>4, <1>5

-----------------------------------------------------------------------------
(* init().                                                                 *)

(* A step of the discovery that ends the call with a failure, or goes on.  *)
LEMMA DiscoveryStep ==
  ASSUME DAVInv, UNCHANGED <<setup, hist, mine, calendarUrl, helper>>, call.step \in InitSteps,
         \/ call' = Return("fail")
         \/ \E h : call' = [call EXCEPT !.hops = h]
         \/ call.step \in {"principal", "homeset"} /\ \E s \in {"homeset", "collections"} : call' = [call EXCEPT !.step = s]
  PROVE  DAVInv'
<1>1. StepInv /\ HelperInv /\ call.op = "init" /\ call.ret = "ok" /\ DOMAIN call = CallFields /\ call.at \in Nat
  BY DEF DAVInv, StepInv
<1>2. HelperInv'
  BY <1>1, StillFacts
<1>c. Card' <=> Card
  BY DEF Card
<1>3. CASE call' = Return("fail")
  <2>1. DOMAIN call' = CallFields /\ call'.op = "init" /\ call'.step = "done" /\ call'.ret = "fail" /\ call'.at = call.at
    BY <1>1, <1>3 DEF CallFields, Return
  <2>2. StepInv'
    BY <1>1, <2>1 DEF StepInv, Writes, InitSteps
  <2>3. ReadsAreExact' /\ InitPicksSupported' /\ call'.op \notin Writes
    BY <2>1, QuietFacts DEF Writes
  <2> QED
    BY <1>2, <2>2, <2>3, ReadStep
<1>4. CASE \E h : call' = [call EXCEPT !.hops = h]
  <2>1. DOMAIN call' = CallFields /\ call'.op = "init" /\ call'.step = call.step /\ call'.ret = "ok" /\ call'.at = call.at
    BY <1>1, <1>4 DEF CallFields
  <2>2. StepInv'
    BY <1>1, <1>c, <2>1 DEF StepInv, Writes, InitSteps
  <2>3. ReadsAreExact' /\ InitPicksSupported' /\ call'.op \notin Writes
    BY <2>1, QuietFacts DEF Writes, InitSteps
  <2> QED
    BY <1>2, <2>2, <2>3, ReadStep
<1>5. CASE call.step \in {"principal", "homeset"} /\ \E s \in {"homeset", "collections"} : call' = [call EXCEPT !.step = s]
  <2>1. PICK s \in {"homeset", "collections"} : call' = [call EXCEPT !.step = s]
    BY <1>5
  <2>2. DOMAIN call' = CallFields /\ call'.op = "init" /\ call'.step = s /\ call'.ret = "ok" /\ call'.at = call.at
    BY <1>1, <2>1 DEF CallFields
  <2>3. ~Card => calendarUrl = 0
    BY <1>1, <1>5 DEF StepInv
  <2>4. StepInv'
    BY <1>1, <1>c, <2>2, <2>3 DEF StepInv, Writes, InitSteps
  <2>5. ReadsAreExact' /\ InitPicksSupported' /\ call'.op \notin Writes
    BY <2>2, QuietFacts DEF Writes, InitSteps
  <2> QED
    BY <1>2, <2>4, <2>5, ReadStep
<1> QED
  BY <1>3, <1>4, <1>5

(* init(): a redirection of the principal's request is followed.           *)
LEMMA RedirectPreserves == DAVInv /\ FollowRedirect => DAVInv'
<1> SUFFICES ASSUME DAVInv, FollowRedirect PROVE DAVInv'
  OBVIOUS
<1>1. /\ UNCHANGED <<setup, hist, mine, calendarUrl, helper>> /\ call.step \in InitSteps
      /\ \E h : call' = [call EXCEPT !.hops = h]
  BY DEF FollowRedirect, InitSteps
<1> QED
  BY <1>1, DiscoveryStep

(* init(): the principal is asked for.                                     *)
LEMMA PrincipalPreserves == DAVInv /\ FindPrincipalUrl => DAVInv'
<1> SUFFICES ASSUME DAVInv, FindPrincipalUrl PROVE DAVInv'
  OBVIOUS
<1>1. UNCHANGED <<setup, hist, mine, calendarUrl, helper>> /\ call.step = "principal" /\ call.step \in InitSteps
  BY DEF FindPrincipalUrl, InitSteps
<1>2. call' = Return("fail") \/ call' = [call EXCEPT !.step = "homeset"]
  BY DEF FindPrincipalUrl
<1> QED
  BY <1>1, <1>2, DiscoveryStep

(* init(): the home set is asked for.                                      *)
LEMMA HomeSetPreserves == DAVInv /\ (FindAddressbookSet \/ FindCalendarHomeSet) => DAVInv'
<1> SUFFICES ASSUME DAVInv, FindAddressbookSet \/ FindCalendarHomeSet PROVE DAVInv'
  OBVIOUS
<1>1. UNCHANGED <<setup, hist, mine, calendarUrl, helper>> /\ call.step = "homeset" /\ call.step \in InitSteps
  BY DEF FindAddressbookSet, FindCalendarHomeSet, InitSteps
<1>2. call' = Return("fail") \/ call' = [call EXCEPT !.step = "collections"]
  BY DEF FindAddressbookSet, FindCalendarHomeSet
<1> QED
  BY <1>1, <1>2, DiscoveryStep

(* The end of init(): the collection that is left in the helper.           *)
LEMMA InitEnds ==
  ASSUME DAVInv, UNCHANGED <<setup, hist, mine>>, call.step \in InitSteps,
         NEW ret \in {"ok", "fail"}, call' = Return(ret),
         NEW c \in 0..Len(setup.cals), helper' = [helper EXCEPT !.collection = c],
         UrlInv', InitPicksSupported'
  PROVE  DAVInv'
<1>1. StepInv /\ HelperInv /\ call.op = "init" /\ DOMAIN call = CallFields /\ call.at \in Nat
  BY DEF DAVInv, StepInv
<1>2. DOMAIN call' = CallFields /\ call'.op = "init" /\ call'.step = "done" /\ call'.ret = ret /\ call'.at = call.at
  BY <1>1 DEF CallFields, Return
<1>3. StepInv'
  BY <1>1, <1>2 DEF StepInv, Writes, InitSteps
<1>4. HelperInv'
  <2>1. DOMAIN helper' = DOMAIN helper /\ helper'.collection = c /\ helper'.metadata = helper.metadata
    BY <1>1 DEF HelperInv
  <2>2. UNCHANGED <<Clock, Now>>
    BY DEF Clock, Now
  <2> QED
    BY <1>1, <2>1, <2>2 DEF HelperInv
<1>5. HistInv'
  BY StillFacts DEF DAVInv
<1>6. ReadsAreExact' /\ BatchInv' /\ EffectInv'
  BY <1>2, QuietFacts DEF Writes, Reads
<1> QED
  BY <1>3, <1>4, <1>5, <1>6 DEF DAVInv

(* What the assumptions say of a storage's parameters.                     *)
LEMMA SetupFacts ==
  ASSUME setup \in Setups
  PROVE  /\ setup.cals \in Calendars /\ Len(setup.cals) \in Nat /\ DOMAIN setup.cals = 1..Len(setup.cals)
         /\ setup.given => Len(setup.cals) # 0
<1>1. setup.cals \in Calendars /\ (setup.given => setup.cals # <<>>)
  BY DAVStorageAssumption DEF Calendars
<1> QED
  BY <1>1 DEF Calendars

(* init(): the first address book is taken, so InitPicksSupported holds    *)
(* for contacts (CardDAVHelper.cpp:150).                                   *)
LEMMA AddressbooksPreserves == DAVInv /\ FindAddressbooks => DAVInv'
<1> SUFFICES ASSUME DAVInv, FindAddressbooks PROVE DAVInv'
  OBVIOUS
<1>1. /\ UNCHANGED <<setup, hist, mine, calendarUrl>> /\ call.step = "collections" /\ call.step \in InitSteps /\ Card
      /\ UrlInv /\ setup \in Setups
  BY DEF FindAddressbooks, InitSteps, DAVInv, UrlInv
<1> DEFINE Books(x) == IF Understood(x) THEN Having(Responses(x.body), <<"resourcetype", "addressbook">>) ELSE <<>>
<1>2. PICK x \in Exchanges({Multistatus(Listing(AllCals), 0)}) :
        IF Books(x) = <<>> THEN call' = Return("fail") /\ UNCHANGED helper
        ELSE helper' = [helper EXCEPT !.collection = Books(x)[1].href[1]] /\ call' = Return("ok")
  BY DEF FindAddressbooks
<1>3. CASE Books(x) = <<>>
  BY <1>1, <1>2, <1>3, DiscoveryStep
<1>4. CASE Books(x) # <<>>
  <2> DEFINE c == Books(x)[1].href[1]
  <2>1. Understood(x)
    BY <1>4
  <2>2. x = Multistatus(Listing(AllCals), 0)
    BY <2>1, NotUnderstood DEF Exchanges
  <2>3. setup.cals \in Calendars /\ AllCals \in Seq(1..Len(setup.cals))
    <3>1. setup.cals \in Calendars /\ Len(setup.cals) \in Nat /\ DOMAIN setup.cals = 1..Len(setup.cals)
      BY <1>1, SetupFacts
    <3> QED
      BY <3>1 DEF AllCals
  <2>4. Having(Responses(x.body), <<"resourcetype", "addressbook">>) = Books(x)
    BY <2>1
  <2>5. c \in 1..Len(setup.cals) /\ setup.cals[c].resource = "addressbook"
    BY <1>4, <2>2, <2>3, <2>4, ListingFacts
  <2>6. helper' = [helper EXCEPT !.collection = c] /\ call' = Return("ok")
    BY <1>2, <1>4
  <2> HIDE DEF c, Books
  <2>7. c \in 0..Len(setup.cals)
    BY <2>5
  <2>8. UrlInv'
    BY <1>1, StillFacts
  <2>9. InitPicksSupported'
    <3>1. helper'.collection = c
      BY <2>6 DEF DAVInv, HelperInv
    <3> QED
      BY <1>1, <2>5, <3>1 DEF InitPicksSupported, Card
  <2> QED
    BY <1>1, <2>6, <2>7, <2>8, <2>9, InitEnds
<1> QED
  BY <1>3, <1>4

(* init(): a calendar that supports the type is taken, the named one       *)
(* first, so InitPicksSupported holds for events and tasks.                *)
LEMMA CalendarsPreserves == DAVInv /\ FindCalendars => DAVInv'
<1> SUFFICES ASSUME DAVInv, FindCalendars PROVE DAVInv'
  OBVIOUS
<1>1. /\ UNCHANGED <<setup, hist, mine>> /\ call.step = "collections" /\ call.step \in InitSteps /\ ~Card
      /\ UrlInv /\ setup \in Setups /\ StepInv
  BY DEF FindCalendars, InitSteps, DAVInv, UrlInv
<1>2. calendarUrl = 0 /\ ~setup.given
  BY <1>1 DEF StepInv, UrlInv
<1>3. setup.cals \in Calendars /\ Len(setup.cals) \in Nat /\ DOMAIN setup.cals = 1..Len(setup.cals)
  BY <1>1, SetupFacts
<1> DEFINE Infos(x) == IF Understood(x) THEN CalendarsInfo(x) ELSE <<>>
<1>4. PICK x \in Exchanges({Multistatus(Listing(AllCals), 0)}) :
        /\ calendarUrl' = Selected(Infos(x))
        /\ helper' = [helper EXCEPT !.collection = Selected(Infos(x))]
        /\ call' = Return(IF Selected(Infos(x)) = 0 THEN "fail" ELSE "ok")
  BY DEF FindCalendars
<1> DEFINE infos == Infos(x)
           Fits(i) == setup.cals[i].resource = "calendar" /\ setup.type \in setup.cals[i].types
<1>5. /\ \E n \in Nat : DOMAIN infos = 1..n
      /\ \A k \in DOMAIN infos :
           /\ infos[k].index \in 1..Len(setup.cals) /\ setup.cals[infos[k].index].resource = "calendar"
           /\ infos[k].name = <<setup.cals[infos[k].index].name>>
           /\ infos[k].types = setup.cals[infos[k].index].types
      /\ infos # <<>> => \A i \in 1..Len(setup.cals) :
           setup.cals[i].resource = "calendar" => \E k \in DOMAIN infos : infos[k].index = i
  <2>1. CASE Understood(x)
    <3>1. x = Multistatus(Listing(AllCals), 0)
      BY <2>1, NotUnderstood DEF Exchanges
    <3>4. AllCals = [i \in 1..Len(setup.cals) |-> i]
      BY <1>3 DEF AllCals
    <3>2. AllCals \in Seq(1..Len(setup.cals)) /\ ToSet(AllCals) = 1..Len(setup.cals)
      <4>1. AllCals \in Seq(1..Len(setup.cals))
        BY <1>3, <3>4
      <4>2. ToSet(AllCals) = 1..Len(setup.cals)
        BY <3>4 DEF ToSet
      <4> QED
        BY <4>1, <4>2
    <3>3. infos = CalendarsInfo(x)
      BY <2>1
    <3> HIDE DEF infos
    <3> QED
      BY <1>3, <3>1, <3>2, <3>3, ListingFacts, SMTT(30)
  <2>2. CASE ~Understood(x)
    <3>1. infos = <<>>
      BY <2>2
    <3>2. DOMAIN infos = 1..0
      BY <3>1
    <3> HIDE DEF infos
    <3> QED
      BY <3>1, <3>2
  <2> QED
    BY <2>1, <2>2
<1>p. PICK c : c = Selected(infos)
  OBVIOUS
<1>q. helper' = [helper EXCEPT !.collection = c] /\ calendarUrl' = c /\ call' = Return(IF c = 0 THEN "fail" ELSE "ok")
  BY <1>4, <1>p
<1> HIDE DEF infos, Infos
<1>6. PICK n \in Nat : DOMAIN infos = 1..n
  BY <1>5
<1>7. \/ c = 0
      \/ \E k \in 1..n :
           /\ c = infos[k].index /\ setup.type \in infos[k].types
           /\ setup.name # "" /\ infos[k].name # <<setup.name>> =>
                \A j \in 1..n : ~(infos[j].name = <<setup.name>> /\ setup.type \in infos[j].types)
  <2>1. \A k \in 1..n : infos[k].index \in Nat \ {0}
    BY <1>3, <1>5, <1>6
  <2> QED
    BY <1>6, <1>p, <2>1, SelectedFacts
<1>8. c # 0 => c \in 1..Len(setup.cals) /\ Fits(c) /\ Best(c)
  <2> SUFFICES ASSUME c # 0 PROVE c \in 1..Len(setup.cals) /\ Fits(c) /\ Best(c)
    OBVIOUS
  <2>1. PICK k \in 1..n :
           /\ c = infos[k].index /\ setup.type \in infos[k].types
           /\ setup.name # "" /\ infos[k].name # <<setup.name>> =>
                \A j \in 1..n : ~(infos[j].name = <<setup.name>> /\ setup.type \in infos[j].types)
    BY <1>7
  <2>2. c \in 1..Len(setup.cals) /\ Fits(c) /\ infos[k].name = <<setup.cals[c].name>>
    BY <1>5, <1>6, <2>1
  <2>3. infos # <<>>
    BY <1>6
  <2>4. ASSUME setup.name # "", setup.cals[c].name # setup.name, NEW j \in DOMAIN setup.cals,
               setup.cals[j].resource = "calendar", setup.cals[j].name = setup.name, setup.type \in setup.cals[j].types
        PROVE  FALSE
    <3>1. PICK m \in DOMAIN infos : infos[m].index = j
      BY <1>3, <1>5, <2>3, <2>4
    <3>2. infos[m].name = <<setup.name>> /\ setup.type \in infos[m].types
      BY <1>5, <2>4, <3>1
    <3>3. infos[k].name # <<setup.name>>
      <4>1. <<setup.cals[c].name>> # <<setup.name>>
        BY <2>4, Paths
      <4> QED
        BY <2>2, <4>1
    <3> QED
      BY <1>6, <2>1, <2>4, <3>1, <3>2, <3>3
  <2> QED
    BY <2>2, <2>4 DEF Best
<1>9. c \in 0..Len(setup.cals)
  BY <1>3, <1>8
<1>10. helper' = [helper EXCEPT !.collection = c] /\ calendarUrl' = c /\ call' = Return(IF c = 0 THEN "fail" ELSE "ok")
  BY <1>q
<1>11. UrlInv'
  <2>1. c # 0 => Best(c)'
    BY <1>1, <1>8 DEF Best
  <2>2. UrlInv' <=> /\ setup' \in Setups /\ calendarUrl' \in 0..Len(setup'.cals)
                    /\ setup'.given => calendarUrl' = 1
                    /\ ~Card' /\ ~setup'.given /\ calendarUrl' # 0 => Best(calendarUrl)'
    BY DEF UrlInv
  <2>3. calendarUrl' # 0 => Best(calendarUrl)'
    BY <1>10, <2>1 DEF Best
  <2> QED
    BY <1>1, <1>2, <1>9, <1>10, <2>2, <2>3
<1>12. InitPicksSupported'
  <2>1. helper'.collection = c
    BY <1>10 DEF DAVInv, HelperInv
  <2>2. c = 0 => call'.ret # "ok"
    BY <1>1, <1>10 DEF Return, StepInv, CallFields
  <2>3. CASE c # 0
    BY <1>1, <1>8, <2>1, <2>3 DEF InitPicksSupported, Card, Best
  <2> QED
    BY <2>2, <2>3, QuietFacts
<1>13. PICK ret \in {"ok", "fail"} : call' = Return(ret)
  BY <1>10
<1> QED
  BY <1>1, <1>9, <1>10, <1>11, <1>12, <1>13, InitEnds

(* init(): the calendar of a given URL is looked at, and kept only if it   *)
(* supports the type.                                                      *)
LEMMA CalendarInfoPreserves == DAVInv /\ QueryCalendarInfo => DAVInv'
<1> SUFFICES ASSUME DAVInv, QueryCalendarInfo PROVE DAVInv'
  OBVIOUS
<1>1. /\ UNCHANGED <<setup, hist, mine, calendarUrl>> /\ call.step = "info" /\ call.step \in InitSteps
      /\ UrlInv /\ setup \in Setups /\ StepInv
  BY DEF QueryCalendarInfo, InitSteps, DAVInv, UrlInv
<1>2. ~Card /\ calendarUrl # 0
  BY <1>1 DEF StepInv
<1>3. setup.cals \in Calendars /\ Len(setup.cals) \in Nat /\ DOMAIN setup.cals = 1..Len(setup.cals)
  BY <1>1, SetupFacts
<1>4. calendarUrl \in 1..Len(setup.cals)
  BY <1>1, <1>2, <1>3 DEF UrlInv
<1> DEFINE Infos(x) == IF Understood(x) THEN CalendarsInfo(x) ELSE <<>>
           Good(x) == Infos(x) # <<>> /\ setup.type \in Infos(x)[1].types
<1>5. PICK x \in Exchanges({Multistatus(Listing(<<calendarUrl>>), 0), Multistatus(Listing(<<>>), 0)}) :
        /\ helper' = [helper EXCEPT !.collection = IF Good(x) THEN calendarUrl ELSE 0]
        /\ call' = Return(IF Good(x) THEN "ok" ELSE "fail")
  BY DEF QueryCalendarInfo
<1> DEFINE c == IF Good(x) THEN calendarUrl ELSE 0
<1>6. Good(x) => setup.cals[calendarUrl].resource = "calendar" /\ setup.type \in setup.cals[calendarUrl].types
  <2> SUFFICES ASSUME Good(x) PROVE setup.cals[calendarUrl].resource = "calendar" /\ setup.type \in setup.cals[calendarUrl].types
    OBVIOUS
  <2>1. Understood(x)
    OBVIOUS
  <2>2. PICK indices \in {<<calendarUrl>>, <<>>} : x = Multistatus(Listing(indices), 0)
    BY <2>1, NotUnderstood DEF Exchanges
  <2>3. indices \in Seq(1..Len(setup.cals)) /\ ToSet(indices) \subseteq {calendarUrl}
    <3>1. CASE indices = <<calendarUrl>>
      BY <1>4, <3>1, ToSetFacts
    <3>2. CASE indices = <<>>
      BY <3>2, ToSetFacts
    <3> QED
      BY <2>2, <3>1, <3>2
  <2> DEFINE infos == CalendarsInfo(x)
  <2>4. infos # <<>> /\ setup.type \in infos[1].types
    BY <2>1
  <2> HIDE DEF infos, Good, Infos
  <2>5. /\ \E n \in Nat : DOMAIN infos = 1..n
        /\ \A k \in DOMAIN infos :
             /\ infos[k].index \in ToSet(indices)
             /\ setup.cals[infos[k].index].resource = "calendar"
             /\ infos[k].types = setup.cals[infos[k].index].types
    BY <1>3, <2>2, <2>3, ListingFacts DEF infos
  <2>6. 1 \in DOMAIN infos
    BY <2>4, <2>5
  <2> QED
    BY <2>3, <2>4, <2>5, <2>6
<1> HIDE DEF Good, Infos
<1>7. c \in 0..Len(setup.cals)
  BY <1>3, <1>4
<1>8. helper' = [helper EXCEPT !.collection = c]
  BY <1>5
<1>9. UrlInv'
  BY <1>1, StillFacts
<1>10. PICK ret \in {"ok", "fail"} : call' = Return(ret) /\ (ret = "ok" => Good(x))
  BY <1>5
<1>11. InitPicksSupported'
  <2>1. helper'.collection = c
    BY <1>8 DEF DAVInv, HelperInv
  <2>2. ~Good(x) => call'.ret # "ok"
    BY <1>1, <1>10 DEF Return, StepInv, CallFields
  <2>3. CASE Good(x)
    <3>1. helper'.collection = calendarUrl /\ (~setup.given => Best(calendarUrl))
      BY <1>1, <1>2, <2>1, <2>3 DEF UrlInv
    <3>2. ~Card'
      BY <1>1, <1>2 DEF Card
    <3> HIDE DEF c
    <3> QED
      BY <1>1, <1>6, <2>3, <3>1, <3>2 DEF InitPicksSupported, Best
  <2> QED
    BY <2>2, <2>3, QuietFacts
<1> HIDE DEF c
<1> QED
  BY <1>1, <1>7, <1>8, <1>9, <1>10, <1>11, InitEnds

-----------------------------------------------------------------------------
(* The calls that read revisions.                                          *)

(* The collection as it is: a function of finitely many items.             *)
LEMMA NowFacts ==
  ASSUME HistInv
  PROVE  /\ Clock \in Nat \ {0} /\ IsFiniteSet(DOMAIN Now) /\ DOMAIN Now \subseteq Items
         /\ \A u \in DOMAIN Now : Now[u] \in 1..Clock
         /\ \A n \in 1..Clock : hist[n] = [u \in DOMAIN hist[n] |-> hist[n][u]]
<1>1. Clock \in Nat \ {0} /\ hist \in Seq(Collections) /\ Len(hist) = Clock /\ Clock \in 1..Clock
  BY DEF HistInv, Clock
<1>2. DOMAIN Now \subseteq Items /\ \A u \in DOMAIN Now : Now[u] \in 1..Clock
  BY <1>1 DEF HistInv, Now
<1>3. IsFiniteSet(DOMAIN Now)
  BY <1>2, FS_Subset, DAVStorageAssumption
<1>4. ASSUME NEW n \in 1..Clock PROVE hist[n] = [u \in DOMAIN hist[n] |-> hist[n][u]]
  <2>1. hist[n] \in Collections
    BY <1>1
  <2>2. PICK D \in SUBSET Items : hist[n] \in [D -> Nat]
    BY <2>1 DEF Collections
  <2> QED
    BY <2>2
<1> QED
  BY <1>1, <1>2, <1>3, <1>4

(* The versions that a reported list of metadata tells of.                 *)
LEMMA ToldFacts ==
  ASSUME NEW metadata, NEW us, Reported(metadata, us)
  PROVE  Told(Revisions(metadata)) = [u \in us |-> Now[u]]
<1> DEFINE out == Revisions(metadata)
           D == DOMAIN metadata
           at(u) == CHOOSE i \in D : out[i].id = u
<1>1. DOMAIN out = D /\ \A i \in D : out[i].id = metadata[i].uri /\ out[i].ver = metadata[i].etag[1]
  BY DEF Revisions, Result
<1>2. \A i \in D : metadata[i].uri \in us /\ metadata[i].etag = <<Now[metadata[i].uri]>>
  BY DEF Reported
<1>3. \A u \in us : \E i \in D : metadata[i].uri = u
  BY DEF Reported
<1>4. \A i \in D : out[i].ver = Now[out[i].id] /\ out[i].id \in us
  BY <1>1, <1>2
<1>5. \A u \in us : at(u) \in D /\ out[at(u)].id = u
  BY <1>1, <1>3
<1>6. \A u \in us : out[at(u)].ver = Now[u]
  BY <1>4, <1>5
<1>7. {out[i].id : i \in D} = us
  BY <1>1, <1>3, <1>4
<1>8. Told(out) = [u \in {out[i].id : i \in D} |-> out[at(u)].ver]
  BY <1>1 DEF Told
<1> HIDE DEF at, out, D
<1> QED
  BY <1>6, <1>7, <1>8 DEF out

(* An empty list has no places.                                            *)
LEMMA EmptyDomain == DOMAIN <<>> = 1..0
  OBVIOUS

(* The helper's metadata are what the server reported.                     *)
LEMMA MetadataStep ==
  ASSUME HistInv, HelperInv, UNCHANGED <<hist, setup>>, NEW metadata,
         metadata = <<>> \/ \E us \in SUBSET DOMAIN Now : Reported(metadata, us),
         DOMAIN helper' = DOMAIN helper, helper'.collection = helper.collection, helper'.metadata = metadata
  PROVE  HelperInv'
<1>1. DOMAIN helper' = DOMAIN helper /\ helper'.collection = helper.collection /\ helper'.metadata = metadata
  OBVIOUS
<1>2. UNCHANGED <<Clock, Now>>
  BY DEF Clock, Now
<1>3. CASE metadata = <<>>
  <2>1. DOMAIN metadata = 1..0 /\ DOMAIN metadata = {} /\ 0 \in Nat
    BY <1>3, EmptyDomain
  <2>2. \E n \in Nat : DOMAIN metadata = 1..n
    BY <2>1
  <2>3. DOMAIN helper' = {"made", "collection", "token", "metadata"} /\ helper'.collection \in 0..Len(setup'.cals)
    BY <1>1 DEF HelperInv
  <2> QED
    BY <1>1, <2>1, <2>2, <2>3 DEF HelperInv
<1>4. CASE \E us \in SUBSET DOMAIN Now : Reported(metadata, us)
  <2>1. PICK us \in SUBSET DOMAIN Now : Reported(metadata, us)
    BY <1>4
  <2>2. \A u \in us : u \in DOMAIN Now /\ Now[u] \in 1..Clock
    BY <2>1, NowFacts
  <2>3. (\E n \in Nat : DOMAIN metadata = 1..n)
        /\ \A i \in DOMAIN metadata : metadata[i].uri \in us /\ metadata[i].etag = <<Now[metadata[i].uri]>>
    BY <2>1 DEF Reported
  <2>4. \A k \in 1..Clock : k <= k
    BY NowFacts
  <2>5. \A i \in DOMAIN metadata : \E v \in 1..Clock :
          /\ metadata[i].etag = <<v>>
          /\ metadata[i].uri \in DOMAIN Now => v <= Now[metadata[i].uri]
    <3> TAKE i \in DOMAIN metadata
    <3>1. PICK v \in 1..Clock : v = Now[metadata[i].uri]
      BY <2>2, <2>3
    <3>2. metadata[i].etag = <<v>> /\ v <= v
      BY <2>3, <2>4, <3>1
    <3> QED
      BY <3>1, <3>2
  <2>6. DOMAIN helper' = {"made", "collection", "token", "metadata"} /\ helper'.collection \in 0..Len(setup'.cals)
    BY <1>1 DEF HelperInv
  <2> QED
    BY <1>1, <1>2, <2>3, <2>5, <2>6 DEF HelperInv
<1> QED
  BY <1>3, <1>4

(* A reading call, begun and done.                                         *)
LEMMA ReadCall ==
  ASSUME HistInv, NEW op \in {"revisions", "changed", "get", "token"}, DOMAIN call' = CallFields,
         call'.op = op, call'.step = "done", call'.ret \in {"ok", "fail"}, call'.at = Clock
  PROVE  StepInv' /\ call'.op \notin Writes /\ InitPicksSupported'
<1>1. Clock \in Nat
  BY DEF HistInv
<1>2. StepInv'
  BY <1>1 DEF StepInv, Writes, InitSteps
<1>3. op \notin Writes /\ op # "init"
  BY DEF Writes
<1> QED
  BY <1>2, <1>3, QuietFacts

(* getRevisions() reports the collection as it is.                         *)
LEMMA RevisionsPreserves == DAVInv /\ QueryMetadata("revisions") => DAVInv'
<1> SUFFICES ASSUME DAVInv, QueryMetadata("revisions") PROVE DAVInv'
  OBVIOUS
<1>1. UNCHANGED <<setup, hist, mine, calendarUrl>> /\ HistInv /\ HelperInv
  BY DEF QueryMetadata, DAVInv
<1> DEFINE M(x) == IF Understood(x) THEN MetadataOf(x) ELSE <<>>
<1>2. PICK x \in Exchanges(MetadataAnswers(DOMAIN Now)) :
        /\ helper' = [helper EXCEPT !.metadata = M(x)]
        /\ call' = [Begin("revisions", "done") EXCEPT
                      !.ret = IF Understood(x) THEN "ok" ELSE "fail", !.out = Revisions(M(x))]
  BY DEF QueryMetadata
<1>3. PICK metadata : metadata = M(x)
  OBVIOUS
<1>4. CASE Understood(x)
  <2>1. x \in MetadataAnswers(DOMAIN Now)
    BY <1>4, NotUnderstood DEF Exchanges
  <2>2. metadata = MetadataOf(x)
    BY <1>3, <1>4
  <2>3. Reported(metadata, DOMAIN Now)
    BY <1>1, <2>1, <2>2, NowFacts, MetadataFacts
  <2>4. helper' = [helper EXCEPT !.metadata = metadata]
        /\ call' = [Begin("revisions", "done") EXCEPT !.ret = "ok", !.out = Revisions(metadata)]
    BY <1>2, <1>3, <1>4
  <2> HIDE DEF M
  <2>5. HelperInv'
    <3>1. DOMAIN helper' = DOMAIN helper /\ helper'.collection = helper.collection /\ helper'.metadata = metadata
      BY <1>1, <2>4 DEF HelperInv
    <3> QED
      BY <1>1, <2>3, <3>1, MetadataStep
  <2>6. /\ DOMAIN call' = CallFields /\ call'.op = "revisions" /\ call'.step = "done" /\ call'.ret = "ok"
        /\ call'.at = Clock /\ call'.out = Revisions(metadata)
    BY <2>4, BeginFacts DEF CallFields
  <2>7. StepInv' /\ call'.op \notin Writes /\ InitPicksSupported'
    BY <1>1, <2>6, ReadCall
  <2>8. Told(call'.out) = hist'[call'.at]
    <3>1. Told(call'.out) = [u \in DOMAIN Now |-> Now[u]]
      BY <2>3, <2>6, ToldFacts
    <3>2. Now = hist[Clock] /\ Clock \in 1..Clock
      BY <1>1, NowFacts DEF Now
    <3> QED
      BY <1>1, <2>6, <3>1, <3>2, NowFacts
  <2>9. ReadsAreExact'
    <3>1. call'.op # "changed" /\ call'.op # "get"
      BY <2>6
    <3> QED
      BY <2>8, <3>1, ExactFacts DEF ExactOf
  <2> QED
    BY <1>1, <2>5, <2>7, <2>9, ReadStep
<1>5. CASE ~Understood(x)
  <2>1. helper' = [helper EXCEPT !.metadata = <<>>]
        /\ call' = [Begin("revisions", "done") EXCEPT !.ret = "fail", !.out = Revisions(<<>>)]
    BY <1>2, <1>5
  <2>2. HelperInv'
    <3>1. DOMAIN helper' = DOMAIN helper /\ helper'.collection = helper.collection /\ helper'.metadata = <<>>
      BY <1>1, <2>1 DEF HelperInv
    <3> QED
      BY <1>1, <3>1, MetadataStep
  <2>3. /\ DOMAIN call' = CallFields /\ call'.op = "revisions" /\ call'.step = "done" /\ call'.ret = "fail"
        /\ call'.at = Clock
    BY <2>1, BeginFacts DEF CallFields
  <2>4. StepInv' /\ call'.op \notin Writes /\ InitPicksSupported'
    BY <1>1, <2>3, ReadCall
  <2>5. ReadsAreExact'
    BY <2>3, QuietFacts
  <2> QED
    BY <1>1, <2>2, <2>4, <2>5, ReadStep
<1> QED
  BY <1>4, <1>5

(* What the REPORT since a token tells, laid over the collection the token *)
(* stands for, is the collection as it is.                                 *)
LEMMA ChangedPreserves == ASSUME NEW t \in 1..Clock PROVE DAVInv /\ QueryChanged(t) => DAVInv'
<1> SUFFICES ASSUME DAVInv, QueryChanged(t) PROVE DAVInv'
  OBVIOUS
<1>1. UNCHANGED <<setup, hist, mine, calendarUrl>> /\ HistInv /\ HelperInv
  BY DEF QueryChanged, DAVInv
<1> DEFINE M(x) == IF Understood(x) THEN ChangedOf(x) ELSE <<>>
<1>2. PICK x \in Exchanges(ChangeAnswers(t)) :
        /\ \E k : helper' = [helper EXCEPT !.metadata = M(x), !.token = k]
        /\ call' = [Begin("changed", "done") EXCEPT
                      !.ret = IF Understood(x) THEN "ok" ELSE "fail", !.token = t,
                      !.out = Revisions(M(x)),
                      !.removed = IF Understood(x) THEN RemovedOf(x) ELSE {}]
  BY DEF QueryChanged
<1>3. PICK metadata : metadata = M(x)
  OBVIOUS
<1>4. CASE Understood(x)
  <2>1. x \in ChangeAnswers(t)
    BY <1>4, NotUnderstood DEF Exchanges
  <2>2. metadata = ChangedOf(x)
    BY <1>3, <1>4
  <2>3. Reported(metadata, ChangedSince(t)) /\ RemovedOf(x) = GoneSince(t)
    <3>1. IsFiniteSet(Items) /\ "collection" \notin Items /\ DOMAIN Now \subseteq Items
      BY <1>1, NowFacts, DAVStorageAssumption
    <3> QED
      BY <2>1, <2>2, <3>1, ChangedFacts
  <2>4. (\E k : helper' = [helper EXCEPT !.metadata = metadata, !.token = k])
        /\ call' = [Begin("changed", "done") EXCEPT !.ret = "ok", !.token = t, !.out = Revisions(metadata),
                                                    !.removed = GoneSince(t)]
    BY <1>2, <1>3, <1>4, <2>3
  <2> HIDE DEF M
  <2>5. HelperInv'
    <3>1. ChangedSince(t) \in SUBSET DOMAIN Now
      BY DEF ChangedSince
    <3>2. DOMAIN helper' = DOMAIN helper /\ helper'.collection = helper.collection /\ helper'.metadata = metadata
      BY <1>1, <2>4 DEF HelperInv
    <3> QED
      BY <1>1, <2>3, <3>1, <3>2, MetadataStep
  <2>6. /\ DOMAIN call' = CallFields /\ call'.op = "changed" /\ call'.step = "done" /\ call'.ret = "ok"
        /\ call'.at = Clock /\ call'.out = Revisions(metadata) /\ call'.token = t /\ call'.removed = GoneSince(t)
    BY <2>4, BeginFacts DEF CallFields
  <2>7. StepInv' /\ call'.op \notin Writes /\ InitPicksSupported'
    BY <1>1, <2>6, ReadCall
  <2> DEFINE told == [u \in ChangedSince(t) |-> Now[u]]
             then == hist[t]
  <2>8. Told(call'.out) = told
    BY <2>3, <2>6, ToldFacts
  <2>9. Clock \in Nat \ {0} /\ Clock \in 1..Clock /\ Now = hist[Clock] /\ t \in 1..Clock /\ t <= Clock
    BY <1>1, NowFacts DEF Now
  <2>10. \A u \in DOMAIN Now : Now[u] <= t => u \in DOMAIN then /\ then[u] = Now[u]
    BY <1>1, <2>9 DEF HistInv
  <2>11. \A u \in DOMAIN Now : Now[u] \in 1..Clock
    BY <1>1, NowFacts
  <2>12. \A u : u \in ChangedSince(t) <=> u \in DOMAIN Now /\ Now[u] > t
    BY DEF ChangedSince
  <2>13. \A u \in DOMAIN then : u \notin DOMAIN Now => u \in GoneSince(t)
    <3>1. DOMAIN then \subseteq Items
      BY <1>1, <2>9 DEF HistInv
    <3>2. t \in t..Clock
      BY <2>9
    <3> QED
      BY <3>1, <3>2 DEF GoneSince
  <2>14. \A u \in GoneSince(t) : u \notin DOMAIN Now
    BY DEF GoneSince
  <2>15. (DOMAIN then \ GoneSince(t)) \cup ChangedSince(t) = DOMAIN Now
    <3> HIDE DEF then
    <3>1. \A u \in DOMAIN Now : Now[u] > t \/ Now[u] <= t
      BY <2>9, <2>11
    <3>2. \A u \in DOMAIN Now : u \in (DOMAIN then \ GoneSince(t)) \cup ChangedSince(t)
      BY <2>10, <2>12, <2>14, <3>1
    <3>3. \A u \in (DOMAIN then \ GoneSince(t)) \cup ChangedSince(t) : u \in DOMAIN Now
      BY <2>12, <2>13
    <3> QED
      BY <3>2, <3>3
  <2>16. [u \in (DOMAIN then \ GoneSince(t)) \cup ChangedSince(t) |->
            IF u \in ChangedSince(t) THEN told[u] ELSE then[u]] = [u \in DOMAIN Now |-> Now[u]]
    <3> HIDE DEF then
    <3>1. \A u \in DOMAIN Now : (IF u \in ChangedSince(t) THEN told[u] ELSE then[u]) = Now[u]
      <4> TAKE u \in DOMAIN Now
      <4>1. CASE u \in ChangedSince(t)
        BY <4>1
      <4>2. CASE u \notin ChangedSince(t)
        <5>1. Now[u] <= t
          BY <2>9, <2>11, <2>12, <4>2
        <5> QED
          BY <2>10, <4>2, <5>1
      <4> QED
        BY <4>1, <4>2
    <3> HIDE DEF told
    <3> QED
      BY <2>15, <3>1
  <2>17. [u \in DOMAIN Now |-> Now[u]] = hist[Clock]
    BY <1>1, <2>9, NowFacts
  <2>18. ReadsAreExact'
    <3>1. call'.op # "revisions" /\ call'.op # "get"
      BY <2>6
    <3>2. hist'[call'.token] = then /\ hist'[call'.at] = hist[Clock] /\ call'.removed = GoneSince(t) /\ DOMAIN told = ChangedSince(t)
      BY <1>1, <2>6
    <3> HIDE DEF told, then
    <3>3. [u \in (DOMAIN then \ GoneSince(t)) \cup DOMAIN told |->
              IF u \in DOMAIN told THEN told[u] ELSE then[u]] = hist[Clock]
      BY <2>16, <2>17, <3>2
    <3> QED
      BY <2>8, <3>1, <3>2, <3>3, ExactFacts DEF ExactOf
  <2> QED
    BY <1>1, <2>5, <2>7, <2>18, ReadStep
<1>5. CASE ~Understood(x)
  <2>1. (\E k : helper' = [helper EXCEPT !.metadata = <<>>, !.token = k])
        /\ call' = [Begin("changed", "done") EXCEPT !.ret = "fail", !.token = t, !.out = Revisions(<<>>), !.removed = {}]
    BY <1>2, <1>5
  <2>2. HelperInv'
    <3>1. DOMAIN helper' = DOMAIN helper /\ helper'.collection = helper.collection /\ helper'.metadata = <<>>
      BY <1>1, <2>1 DEF HelperInv
    <3> QED
      BY <1>1, <3>1, MetadataStep
  <2>3. /\ DOMAIN call' = CallFields /\ call'.op = "changed" /\ call'.step = "done" /\ call'.ret = "fail"
        /\ call'.at = Clock
    BY <2>1, BeginFacts DEF CallFields
  <2>4. StepInv' /\ call'.op \notin Writes /\ InitPicksSupported'
    BY <1>1, <2>3, ReadCall
  <2>5. ReadsAreExact'
    BY <2>3, QuietFacts
  <2> QED
    BY <1>1, <2>2, <2>4, <2>5, ReadStep
<1> QED
  BY <1>4, <1>5

(* getChangedRevisions(), for contacts and for events.                     *)
LEMMA ChangesPreserves == DAVInv /\ (QueryChangedContactsMetadata \/ QueryChangedEventsMetadata) => DAVInv'
<1> SUFFICES ASSUME DAVInv, QueryChangedContactsMetadata \/ QueryChangedEventsMetadata PROVE DAVInv'
  OBVIOUS
<1>1. CASE \E t \in 1..Clock : QueryChanged(t)
  BY <1>1, ChangedPreserves
<1>2. CASE /\ call' = [Begin("changed", "done") EXCEPT !.ret = "fail"]
           /\ UNCHANGED <<setup, hist, mine, calendarUrl, helper>>
  <2>1. /\ DOMAIN call' = CallFields /\ call'.op = "changed" /\ call'.step = "done" /\ call'.ret = "fail"
        /\ call'.at = Clock
    BY <1>2, BeginFacts DEF CallFields
  <2>2. HistInv /\ HelperInv'
    BY <1>2, StillFacts DEF DAVInv
  <2>3. StepInv' /\ call'.op \notin Writes /\ InitPicksSupported'
    BY <2>1, <2>2, ReadCall
  <2>4. ReadsAreExact'
    BY <2>1, QuietFacts
  <2> QED
    BY <1>2, <2>2, <2>3, <2>4, ReadStep
<1> QED
  BY <1>1, <1>2 DEF QueryChangedContactsMetadata, QueryChangedEventsMetadata

(* getToken() leaves nothing behind that the invariant is about.           *)
LEMMA TokenPreserves == DAVInv /\ QueryToken => DAVInv'
<1> SUFFICES ASSUME DAVInv, QueryToken PROVE DAVInv'
  OBVIOUS
<1>1. UNCHANGED <<setup, hist, mine, calendarUrl>> /\ HistInv /\ HelperInv
  BY DEF QueryToken, DAVInv
<1>2. (\E k : helper' = [helper EXCEPT !.token = k])
      /\ \E ret \in {"ok", "fail"} : call' = [Begin("token", "done") EXCEPT !.ret = ret]
  BY DEF QueryToken
<1>3. HelperInv'
  <2>1. DOMAIN helper' = DOMAIN helper /\ helper'.collection = helper.collection /\ helper'.metadata = helper.metadata
    BY <1>1, <1>2 DEF HelperInv
  <2>2. UNCHANGED <<Clock, Now>>
    BY <1>1 DEF Clock, Now
  <2> QED
    BY <1>1, <2>1, <2>2 DEF HelperInv
<1>4. /\ DOMAIN call' = CallFields /\ call'.op = "token" /\ call'.step = "done" /\ call'.ret \in {"ok", "fail"}
      /\ call'.at = Clock
  BY <1>2, BeginFacts DEF CallFields
<1>5. StepInv' /\ call'.op \notin Writes /\ InitPicksSupported'
  BY <1>1, <1>4, ReadCall
<1>6. ReadsAreExact'
  BY <1>4, QuietFacts DEF Reads
<1> QED
  BY <1>1, <1>3, <1>5, <1>6, ReadStep

-----------------------------------------------------------------------------
(* The calls that read items.                                              *)

(* A revision the helper knows is not newer than the item.                 *)
LEMMA KnownFacts ==
  ASSUME HistInv, HelperInv, NEW u \in DOMAIN Now, KnownRevision(u) # <<>>
  PROVE  KnownRevision(u)[1] \in Nat /\ KnownRevision(u)[1] <= Now[u]
<1> DEFINE md == helper.metadata
           I == {i \in DOMAIN md : md[i].uri = u}
           known == About(md, u)
<1>1. PICK n \in Nat : DOMAIN md = 1..n
  BY DEF HelperInv
<1>2. known = Those(md, I)
  BY DEF About
<1>3. I \in SUBSET (1..n)
  BY <1>1
<1>4. Members(known, md, I)
  BY <1>2, <1>3, ThoseMembers
<1>5. \A i \in I : i \in DOMAIN md /\ md[i].uri = u
  OBVIOUS
<1>6. KnownRevision(u) = IF known = <<>> THEN <<>> ELSE known[1].etag
  BY DEF KnownRevision
<1> HIDE DEF I, known
<1>7. known # <<>>
  BY <1>6
<1>8. 1 \in DOMAIN known
  BY <1>4, <1>7 DEF Members
<1>9. PICK i \in I : known[1] = md[i]
  BY <1>4, <1>8 DEF Members
<1>10. PICK v \in 1..Clock : md[i].etag = <<v>> /\ (md[i].uri \in DOMAIN Now => v <= Now[md[i].uri])
  BY <1>5 DEF HelperInv
<1>11. KnownRevision(u) = <<v>>
  BY <1>6, <1>7, <1>9, <1>10
<1> QED
  BY <1>5, <1>10, <1>11, NowFacts

(* Of each id of a successful getEvents() or getTasks(), the content.      *)
LEMMA ContentFacts ==
  ASSUME HistInv, HelperInv, NEW us, IsFiniteSet(ToSet(us)), NEW x \in MultigetAnswers(us, "calendar-data"),
         NEW got, got = ICals(us, x), \A i \in DOMAIN got : got[i] # <<>>,
         NEW out, out = WithIds(us, got)
  PROVE  \A i \in DOMAIN out : out[i].of = out[i].id /\ (out[i].rev # <<>> => out[i].rev[1] <= out[i].ver)
<1> DEFINE ds == DataOf(x, "calendar-data")
           Has(i) == \E j \in DOMAIN ds : ds[j].uri = us[i]
           at(i) == CHOOSE j \in DOMAIN ds : ds[j].uri = us[i]
<1>1. \A j \in DOMAIN ds : ds[j].uri \in DOMAIN Now /\ ds[j].data = <<ds[j].uri, Now[ds[j].uri]>>
  <2>1. "calendar-data" # Text
    BY DEF Text
  <2> QED
    BY <2>1, MultigetFacts
<1>2. got = [i \in DOMAIN us |-> IF Has(i) THEN ds[at(i)].data ELSE <<>>]
  BY DEF ICals
<1>3. DOMAIN out = DOMAIN us /\ \A i \in DOMAIN us : out[i] = Result(us[i], got[i][1], got[i][2], KnownRevision(us[i]))
  BY <1>2 DEF WithIds
<1>4. ASSUME NEW i \in DOMAIN us
      PROVE  us[i] \in DOMAIN Now /\ got[i] = <<us[i], Now[us[i]]>>
  <2>1. Has(i)
    BY <1>2
  <2>2. at(i) \in DOMAIN ds /\ ds[at(i)].uri = us[i]
    BY <2>1
  <2>3. got[i] = ds[at(i)].data
    BY <1>2, <2>1
  <2> HIDE DEF at, ds
  <2> QED
    BY <1>1, <2>2, <2>3
<1> HIDE DEF ds, Has, at
<1>5. ASSUME NEW i \in DOMAIN out
      PROVE  out[i].of = out[i].id /\ (out[i].rev # <<>> => out[i].rev[1] <= out[i].ver)
  <2>1. i \in DOMAIN us
    BY <1>3
  <2>2. PICK u : u = us[i]
    OBVIOUS
  <2>3. PICK v : v = Now[u]
    OBVIOUS
  <2>4. u \in DOMAIN Now /\ got[i] = <<u, v>>
    BY <1>4, <2>1, <2>2, <2>3
  <2>5. got[i][1] = u /\ got[i][2] = v
    BY <2>4
  <2>6. out[i] = Result(u, u, v, KnownRevision(u))
    BY <1>3, <2>1, <2>2, <2>5
  <2>7. out[i].of = u /\ out[i].id = u /\ out[i].ver = v /\ out[i].rev = KnownRevision(u)
    BY <2>6 DEF Result
  <2> QED
    BY <2>3, <2>4, <2>7, KnownFacts
<1> QED
  BY <1>5

(* A get call, of any kind.                                                *)
LEMMA GetPreserves ==
  ASSUME NEW us, IsFiniteSet(ToSet(us)), NEW data, Card \/ data = "calendar-data", NEW wanted
  PROVE  DAVInv /\ GetItems(us, data, wanted) => DAVInv'
<1> SUFFICES ASSUME DAVInv, GetItems(us, data, wanted) PROVE DAVInv'
  OBVIOUS
<1>1. UNCHANGED <<setup, hist, mine, calendarUrl, helper>> /\ HistInv /\ HelperInv
  BY DEF GetItems, DAVInv
<1> DEFINE Got(x) == IF Understood(x) THEN Contents(us, x) ELSE <<>>
           Good(x) == Understood(x) /\ Len(Got(x)) >= wanted /\ \A i \in DOMAIN Got(x) : Got(x)[i] # <<>>
<1>2. PICK x \in Exchanges(MultigetAnswers(us, data)) :
        call' = [Begin("get", "done") EXCEPT !.args = us,
                   !.ret = IF Good(x) THEN "ok" ELSE "fail", !.out = IF Good(x) THEN WithIds(us, Got(x)) ELSE <<>>]
  BY DEF GetItems
<1>3. PICK got : got = Got(x)
  OBVIOUS
<1>4. PICK out : out = IF Good(x) THEN WithIds(us, got) ELSE <<>>
  OBVIOUS
<1>5. PICK ret \in {"ok", "fail"} : ret = (IF Good(x) THEN "ok" ELSE "fail")
  OBVIOUS
<1>6. call' = [Begin("get", "done") EXCEPT !.args = us, !.ret = ret, !.out = out]
  BY <1>2, <1>3, <1>4, <1>5
<1>7. ret = "ok" => Understood(x) /\ got = Contents(us, x) /\ (\A i \in DOMAIN got : got[i] # <<>>) /\ out = WithIds(us, got)
  BY <1>3, <1>4, <1>5
<1> HIDE DEF Good, Got
<1>8. /\ DOMAIN call' = CallFields /\ call'.op = "get" /\ call'.step = "done" /\ call'.ret = ret
      /\ call'.at = Clock /\ call'.out = out
  BY <1>6, BeginFacts DEF CallFields
<1>9. StepInv' /\ call'.op \notin Writes /\ InitPicksSupported'
  BY <1>1, <1>8, ReadCall
<1>10. ReadsAreExact'
  <2>1. CASE ret # "ok"
    BY <1>8, <2>1, QuietFacts
  <2>2. CASE ret = "ok" /\ ~Card
    <3>1. x \in MultigetAnswers(us, "calendar-data")
      BY <1>7, <2>2, NotUnderstood DEF Exchanges
    <3>2. got = ICals(us, x) /\ out = WithIds(us, got) /\ \A i \in DOMAIN got : got[i] # <<>>
      BY <1>7, <2>2 DEF Contents
    <3>4. \A i \in DOMAIN out : out[i].of = out[i].id /\ (out[i].rev # <<>> => out[i].rev[1] <= out[i].ver)
      BY <1>1, <3>1, <3>2, ContentFacts
    <3>5. call'.op # "revisions" /\ call'.op # "changed"
      BY <1>8
    <3> QED
      BY <1>8, <3>4, <3>5, ExactFacts DEF ExactOf
  <2>3. CASE Card
    <3>1. call'.op # "revisions" /\ call'.op # "changed" /\ setup'.kind = "card"
      BY <1>1, <1>8, <2>3 DEF Card
    <3> QED
      BY <3>1, ExactFacts DEF ExactOf
  <2> QED
    BY <2>1, <2>2, <2>3
<1>11. HelperInv'
  BY <1>1, StillFacts
<1> QED
  BY <1>1, <1>9, <1>10, <1>11, ReadStep

(* Batches of items, without repetition.                                   *)
LEMMA BatchFacts ==
  ASSUME NEW S, NEW us \in Batches(S)
  PROVE  /\ us \in Seq(S) /\ us # <<>> /\ IsFiniteSet(ToSet(us)) /\ ToSet(us) \subseteq S
         /\ \A i, j \in DOMAIN us : us[i] = us[j] => i = j
<1>1. PICK n \in 1..2 : us \in [1..n -> S] /\ \A i, j \in 1..n : i # j => us[i] # us[j]
  BY DEF Batches
<1>2. us \in Seq(S) /\ DOMAIN us = 1..n /\ us # <<>>
  BY <1>1
<1>3. ToSet(us) = {us[i] : i \in 1..n}
  BY <1>2 DEF ToSet
<1>4. IsFiniteSet(ToSet(us))
  <2>1. IsFiniteSet(1..n)
    BY FS_Interval
  <2>2. IsFiniteSet({us[i] : i \in 1..n})
    <3> DEFINE T == {us[i] : i \in 1..n}
    <3>1. us \in Surjection(1..n, T)
      BY <1>1 DEF Surjection
    <3> HIDE DEF T
    <3>2. IsFiniteSet(T)
      BY <2>1, <3>1, FS_Surjection
    <3> QED
      BY <3>2 DEF T
  <2> QED
    BY <1>3, <2>2
<1> QED
  BY <1>1, <1>2, <1>3, <1>4

(* The get calls of the storages.                                          *)
LEMMA GetsPreserves == DAVInv /\ (GetContact \/ GetContacts \/ GetEvent \/ GetEvents \/ GetTask \/ GetTasks) => DAVInv'
<1> SUFFICES ASSUME DAVInv, GetContact \/ GetContacts \/ GetEvent \/ GetEvents \/ GetTask \/ GetTasks
             PROVE  DAVInv'
  OBVIOUS
<1>1. \A u : IsFiniteSet(ToSet(<<u>>))
  <2> TAKE u
  <2>1. ToSet(<<u>>) = {u}
    BY ToSetFacts
  <2> QED
    BY <2>1, FS_Singleton
<1>2. CASE GetContact \/ GetEvent \/ GetTask
  <2>1. PICK u, data, wanted : GetItems(<<u>>, data, wanted) /\ (Card \/ data = "calendar-data")
    BY <1>2 DEF GetContact, GetEvent, GetTask, GetObjects
  <2> QED
    BY <1>1, <2>1, GetPreserves
<1>3. CASE GetContacts \/ GetEvents \/ GetTasks
  <2>1. PICK us \in Batches(Items) : \E data, wanted : GetItems(us, data, wanted) /\ (Card \/ data = "calendar-data")
    BY <1>3 DEF GetContacts, GetEvents, GetTasks, GetObjects
  <2>2. IsFiniteSet(ToSet(us))
    BY BatchFacts
  <2> QED
    BY <2>1, <2>2, GetPreserves
<1> QED
  BY <1>2, <1>3

-----------------------------------------------------------------------------
(* Writes to the server.                                                   *)

(* The server wrote, or removed, the item u.                               *)
Wrote(u) == hist' = Put(u) \/ (u \in DOMAIN Now /\ hist' = Drop(u))

(* A write adds one collection to the history, the same but for its item.  *)
LEMMA WriteFacts ==
  ASSUME HistInv, NEW u \in Items, Wrote(u)
  PROVE  /\ Clock \in Nat \ {0} /\ Clock' = Clock + 1 /\ hist' \in Seq(Collections) /\ Now' = hist'[Clock + 1]
         /\ \A n \in 1..Clock : hist'[n] = hist[n]
         /\ DOMAIN Now' \subseteq Items
         /\ \A w \in DOMAIN Now' : (w = u /\ Now'[w] = Clock + 1) \/ (w \in DOMAIN Now /\ Now'[w] = Now[w])
         /\ \A w : w # u => (w \in DOMAIN Now' <=> w \in DOMAIN Now) /\ (w \in DOMAIN Now => Now'[w] = Now[w])
         /\ hist' = Put(u) => u \in DOMAIN Now' /\ Now'[u] = Clock + 1
<1>1. Clock \in Nat \ {0} /\ hist \in Seq(Collections) /\ Clock = Len(hist) /\ Clock \in 1..Clock
  BY DEF HistInv, Clock
<1>2. DOMAIN Now \subseteq Items /\ \A w \in DOMAIN Now : Now[w] \in Nat
  BY <1>1, NowFacts
<1> DEFINE P(c) ==
         /\ DOMAIN c \subseteq DOMAIN Now \cup {u} /\ c = [w \in DOMAIN c |-> c[w]]
         /\ \A w \in DOMAIN c : (w = u /\ c[w] = Clock + 1) \/ (w \in DOMAIN Now /\ c[w] = Now[w])
         /\ \A w : w # u => (w \in DOMAIN c <=> w \in DOMAIN Now) /\ (w \in DOMAIN Now => c[w] = Now[w])
         /\ hist' = Put(u) => u \in DOMAIN c /\ c[u] = Clock + 1
<1>3. \E c : hist' = Append(hist, c) /\ P(c)
  <2>1. CASE hist' = Put(u)
    <3>1. PICK c : c = [v \in DOMAIN Now \cup {u} |-> IF v = u THEN Clock + 1 ELSE Now[v]]
      OBVIOUS
    <3>4. DOMAIN c = DOMAIN Now \cup {u} /\ c[u] = Clock + 1 /\ \A w \in DOMAIN Now : w # u => c[w] = Now[w]
      BY <3>1
    <3>5. c = [w \in DOMAIN c |-> c[w]]
      BY <3>1
    <3>6. \A w \in DOMAIN c : (w = u /\ c[w] = Clock + 1) \/ (w \in DOMAIN Now /\ c[w] = Now[w])
      <4> TAKE w \in DOMAIN c
      <4>1. CASE w = u
        BY <3>4, <4>1
      <4>2. CASE w # u
        BY <3>4, <4>2
      <4> QED
        BY <4>1, <4>2
    <3>7. \A w : w # u => (w \in DOMAIN c <=> w \in DOMAIN Now) /\ (w \in DOMAIN Now => c[w] = Now[w])
      BY <3>4
    <3>2. P(c)
      <4>1. DOMAIN c \subseteq DOMAIN Now \cup {u} /\ u \in DOMAIN c /\ c[u] = Clock + 1
        BY <3>4
      <4> QED
        BY <3>5, <3>6, <3>7, <4>1
    <3>3. hist' = Append(hist, c)
      BY <2>1, <3>1 DEF Put
    <3> HIDE DEF P
    <3> QED
      BY <3>2, <3>3
  <2>2. CASE hist' # Put(u)
    <3>1. PICK c : c = [v \in DOMAIN Now \ {u} |-> Now[v]]
      OBVIOUS
    <3>2. P(c)
      BY <2>2, <3>1
    <3>3. hist' = Append(hist, c)
      BY <2>2, <3>1 DEF Drop, Wrote
    <3> HIDE DEF P
    <3> QED
      BY <3>2, <3>3
  <2> QED
    BY <2>1, <2>2
<1> HIDE DEF P
<1>4. PICK c : hist' = Append(hist, c) /\ P(c)
  BY <1>3
<1>5. c \in Collections
  <2>1. DOMAIN c \in SUBSET Items
    BY <1>2, <1>4 DEF P
  <2>2. \A w \in DOMAIN c : c[w] \in Nat
    BY <1>1, <1>2, <1>4 DEF P
  <2>3. c = [w \in DOMAIN c |-> c[w]]
    BY <1>4 DEF P
  <2>4. c \in [DOMAIN c -> Nat]
    BY <2>2, <2>3
  <2> QED
    BY <2>1, <2>4 DEF Collections
<1>6. /\ hist' \in Seq(Collections) /\ Len(hist') = Clock + 1 /\ hist'[Clock + 1] = c
      /\ \A n \in 1..Clock : hist'[n] = hist[n]
  BY <1>1, <1>4, <1>5, AppendFacts
<1>7. Clock' = Clock + 1 /\ Now' = c
  BY <1>6 DEF Clock, Now
<1>8. DOMAIN c \subseteq Items
  BY <1>2, <1>4 DEF P
<1> QED
  BY <1>1, <1>4, <1>6, <1>7, <1>8 DEF P

(* A write, of this storage or of another client, keeps the history in     *)
(* order.                                                                  *)
LEMMA HistoryStep ==
  ASSUME HistInv, NEW u \in Items, Wrote(u), mine' = mine \/ mine' = mine \cup {Clock + 1}
  PROVE  HistInv'
<1>1. /\ Clock \in Nat \ {0} /\ Clock' = Clock + 1 /\ hist' \in Seq(Collections) /\ Now' = hist'[Clock + 1]
      /\ \A n \in 1..Clock : hist'[n] = hist[n]
      /\ DOMAIN Now' \subseteq Items
      /\ \A w \in DOMAIN Now' : (w = u /\ Now'[w] = Clock + 1) \/ (w \in DOMAIN Now /\ Now'[w] = Now[w])
  BY WriteFacts
<1>2. \A n \in 1..Clock + 1 : n \in 1..Clock \/ n = Clock + 1
  BY <1>1
<1>3. Clock \in 1..Clock /\ Now = hist[Clock]
  BY <1>1 DEF Now
<1>4. \A w \in DOMAIN Now : Now[w] \in 1..Clock
  BY NowFacts
<1>5. \A n \in 1..Clock + 1 : DOMAIN hist'[n] \subseteq Items /\ \A w \in DOMAIN hist'[n] : hist'[n][w] \in 1..n
  <2> TAKE n \in 1..Clock + 1
  <2>1. CASE n \in 1..Clock
    BY <1>1, <2>1 DEF HistInv
  <2>2. CASE n = Clock + 1
    BY <1>1, <1>4, <2>2
  <2> QED
    BY <1>2, <2>1, <2>2
<1>6. ASSUME NEW n \in 1..Clock + 1, NEW m \in 1..Clock + 1, n <= m, NEW w \in DOMAIN hist'[m], hist'[m][w] <= n
      PROVE  w \in DOMAIN hist'[n] /\ hist'[n][w] = hist'[m][w]
  <2>1. CASE m \in 1..Clock
    <3>1. n \in 1..Clock
      BY <1>1, <1>6, <2>1
    <3> QED
      BY <1>1, <1>6, <2>1, <3>1 DEF HistInv
  <2>2. CASE m = Clock + 1 /\ n = m
    BY <1>6, <2>2
  <2>3. CASE m = Clock + 1 /\ n \in 1..Clock
    <3>1. w \in DOMAIN Now' /\ Now'[w] <= n
      BY <1>1, <1>6, <2>3
    <3>2. Now'[w] # Clock + 1
      BY <1>1, <2>3, <3>1
    <3>3. w \in DOMAIN Now /\ Now'[w] = Now[w]
      BY <1>1, <3>1, <3>2
    <3>4. n <= Clock
      BY <1>1, <2>3
    <3>5. w \in DOMAIN hist[n] /\ hist[n][w] = hist[Clock][w]
      BY <1>3, <2>3, <3>1, <3>3, <3>4 DEF HistInv
    <3> QED
      BY <1>1, <1>3, <2>3, <3>3, <3>5
  <2> QED
    BY <1>2, <2>1, <2>2, <2>3
<1>7. mine' \subseteq 2..Clock + 1
  <2>1. mine \subseteq 2..Clock
    BY DEF HistInv
  <2>2. \A k \in 2..Clock : k \in 2..Clock + 1
    BY <1>1
  <2>3. Clock + 1 \in 2..Clock + 1
    BY <1>1
  <2> QED
    BY <2>1, <2>2, <2>3
<1>8. Clock' \in Nat \ {0}
  BY <1>1
<1> QED
  BY <1>1, <1>5, <1>6, <1>7, <1>8 DEF HistInv

(* A write makes items newer, and so leaves what the helper knows not      *)
(* newer than them.                                                        *)
LEMMA HelperStep ==
  ASSUME HistInv, HelperInv, NEW u \in Items, Wrote(u), UNCHANGED <<setup, helper>>
  PROVE  HelperInv'
<1>1. /\ Clock \in Nat \ {0} /\ Clock' = Clock + 1
      /\ \A w \in DOMAIN Now' : (w = u /\ Now'[w] = Clock + 1) \/ (w \in DOMAIN Now /\ Now'[w] = Now[w])
  BY WriteFacts
<1>2. ASSUME NEW i \in DOMAIN helper.metadata
      PROVE  \E v \in 1..Clock + 1 : /\ helper.metadata[i].etag = <<v>>
                                     /\ helper.metadata[i].uri \in DOMAIN Now' => v <= Now'[helper.metadata[i].uri]
  <2>1. PICK v \in 1..Clock : /\ helper.metadata[i].etag = <<v>>
                              /\ helper.metadata[i].uri \in DOMAIN Now => v <= Now[helper.metadata[i].uri]
    BY <1>2 DEF HelperInv
  <2>2. v \in 1..Clock + 1 /\ v <= Clock + 1
    BY <1>1
  <2> QED
    BY <1>1, <2>1, <2>2
<1> QED
  BY <1>1, <1>2 DEF HelperInv

(* What a write leaves of the past.                                        *)
LEMMA PastFacts ==
  ASSUME HistInv, NEW u \in Items, Wrote(u)
  PROVE  /\ \A n \in mine : \A w : Untouched(hist, n, w) => Untouched(hist', n, w)
         /\ \A r : mine \subseteq mine' /\ Reports(hist, mine, r) => Reports(hist', mine', r)
         /\ \A w : w # u => Untouched(hist', Clock + 1, w)
<1>1. /\ Clock \in Nat \ {0} /\ Now' = hist'[Clock + 1]
      /\ \A n \in 1..Clock : hist'[n] = hist[n]
      /\ \A w : w # u => (w \in DOMAIN Now' <=> w \in DOMAIN Now) /\ (w \in DOMAIN Now => Now'[w] = Now[w])
  BY WriteFacts
<1>2. \A n \in mine : n \in 1..Clock /\ n - 1 \in 1..Clock
  BY <1>1 DEF HistInv
<1>3. ASSUME NEW n \in mine, NEW w, Untouched(hist, n, w)
      PROVE  Untouched(hist', n, w)
  <2>1. hist'[n] = hist[n] /\ hist'[n - 1] = hist[n - 1]
    BY <1>1, <1>2
  <2> QED
    BY <1>3, <2>1 DEF Untouched
<1>4. ASSUME NEW r, mine \subseteq mine', Reports(hist, mine, r)
      PROVE  Reports(hist', mine', r)
  <2>1. hist'[r.ver] = hist[r.ver]
    BY <1>1, <1>2, <1>4 DEF Reports
  <2> QED
    BY <1>4, <2>1 DEF Reports
<1>5. ASSUME NEW w, w # u
      PROVE  Untouched(hist', Clock + 1, w)
  <2>1. Clock + 1 - 1 = Clock /\ Clock \in 1..Clock
    BY <1>1
  <2>2. hist'[Clock + 1 - 1] = Now /\ hist'[Clock + 1] = Now'
    BY <1>1, <2>1 DEF Now
  <2> QED
    BY <1>1, <1>5, <2>2 DEF Untouched
<1> QED
  BY <1>3, <1>4, <1>5

(* Another client writes between two requests of a call.                   *)
LEMMA OtherPreserves == DAVInv /\ OtherWrites => DAVInv'
<1> SUFFICES ASSUME DAVInv, OtherWrites PROVE DAVInv'
  OBVIOUS
<1>1. UNCHANGED <<setup, mine, calendarUrl, helper, call>> /\ call.step # "done"
  BY DEF OtherWrites
<1>2. PICK u \in Items : Wrote(u)
  BY DEF OtherWrites, Wrote
<1>3. HistInv /\ HelperInv /\ UrlInv /\ StepInv /\ BatchInv /\ EffectInv
  BY DEF DAVInv
<1>4. HistInv' /\ HelperInv' /\ UrlInv'
  BY <1>1, <1>2, <1>3, HistoryStep, HelperStep, StillFacts
<1>5. StepInv' /\ BatchInv'
  BY <1>1, <1>3 DEF StepInv, BatchInv, Card
<1>6. EffectInv'
  <2>1. Clock \in Nat \ {0} /\ Clock' = Clock + 1
    BY <1>2, <1>3, WriteFacts
  <2>2. /\ \A n \in mine : \A w : Untouched(hist, n, w) => Untouched(hist', n, w)
        /\ \A r : Reports(hist, mine, r) => Reports(hist', mine, r)
    BY <1>1, <1>2, <1>3, PastFacts
  <2>3. SUFFICES ASSUME call.op \in Writes
                 PROVE  /\ call.start \in 1..Clock + 1
                        /\ call.args # <<>> =>
                             \A n \in mine : n > call.start => \A w \in ToSet(Tail(call.args)) : Untouched(hist', n, w)
                        /\ call.op # "remove" /\ setup.headers => \A i \in DOMAIN call.out : Reports(hist', mine, call.out[i])
    BY <1>1, <2>1 DEF EffectInv
  <2>4. call.start \in 1..Clock
    BY <1>3, <2>3 DEF EffectInv
  <2>5. call.start \in 1..Clock + 1
    BY <2>1, <2>4
  <2> QED
    BY <1>3, <2>2, <2>3, <2>5 DEF EffectInv
<1>7. ReadsAreExact' /\ InitPicksSupported'
  BY <1>1, QuietFacts
<1> QED
  BY <1>4, <1>5, <1>6, <1>7 DEF DAVInv

-----------------------------------------------------------------------------
(* Batches.                                                                *)

(* Of a batch without repetition, what is left after the first item.       *)
LEMMA RestFacts ==
  ASSUME NEW S, NEW s \in Seq(S), s # <<>>, \A i, j \in DOMAIN s : s[i] = s[j] => i = j
  PROVE  /\ Head(s) \notin ToSet(Tail(s))
         /\ \A i, j \in DOMAIN Tail(s) : Tail(s)[i] = Tail(s)[j] => i = j
         /\ Tail(s) # <<>> => ToSet(Tail(Tail(s))) \subseteq ToSet(Tail(s))
<1>1. /\ Head(s) = s[1] /\ 1 \in 1..Len(s) /\ Len(Tail(s)) \in Nat /\ Tail(s) \in Seq(S)
      /\ Len(s) = Len(Tail(s)) + 1
      /\ \A k \in 1..Len(Tail(s)) : Tail(s)[k] = s[k + 1] /\ k + 1 \in 1..Len(s)
  BY TailFacts
<1> DEFINE t == Tail(s)
           n == Len(t)
<1>2. t \in Seq(S) /\ n \in Nat /\ DOMAIN t = 1..n /\ DOMAIN s = 1..n + 1
  BY <1>1
<1>3. \A k \in 1..n : t[k] = s[k + 1] /\ k + 1 \in DOMAIN s /\ k + 1 # 1
  BY <1>1, <1>2
<1>4. ToSet(t) = {t[k] : k \in 1..n}
  BY <1>2 DEF ToSet
<1> HIDE DEF t, n
<1>5. Head(s) \notin ToSet(t)
  <2> SUFFICES ASSUME Head(s) \in ToSet(t) PROVE FALSE
    OBVIOUS
  <2>1. PICK k \in 1..n : t[k] = s[1]
    BY <1>1, <1>4
  <2>2. s[k + 1] = s[1] /\ k + 1 \in DOMAIN s /\ 1 \in DOMAIN s
    BY <1>1, <1>3, <2>1
  <2> QED
    BY <1>3, <2>1, <2>2
<1>6. \A i, j \in DOMAIN t : t[i] = t[j] => i = j
  <2> TAKE i, j \in DOMAIN t
  <2> HAVE t[i] = t[j]
  <2>1. s[i + 1] = s[j + 1] /\ i + 1 \in DOMAIN s /\ j + 1 \in DOMAIN s
    BY <1>2, <1>3
  <2>2. i + 1 = j + 1
    BY <2>1
  <2> QED
    BY <1>2, <2>2
<1>7. t # <<>> => ToSet(Tail(t)) \subseteq ToSet(t)
  <2> HAVE t # <<>>
  <2>1. Tail(t) \in Seq(S) /\ \A k \in 1..Len(Tail(t)) : Tail(t)[k] = t[k + 1] /\ k + 1 \in 1..Len(t)
    BY <1>2, TailFacts
  <2>2. ToSet(Tail(t)) = {Tail(t)[k] : k \in 1..Len(Tail(t))}
    <3>1. PICK q \in Seq(S) : q = Tail(t)
      BY <2>1
    <3>2. DOMAIN q = 1..Len(q)
      OBVIOUS
    <3> QED
      BY <3>1, <3>2 DEF ToSet
  <2>3. Len(t) = n
    BY DEF n
  <2> QED
    BY <1>4, <2>1, <2>2, <2>3
<1> QED
  BY <1>5, <1>6, <1>7 DEF t

(* One item of a batch is done.                                            *)
LEMMA BatchNext ==
  ASSUME DAVInv, call.op \in Writes, call.step # "done",
         NEW r \in Report, r.of = Head(call.args), call' = Next1(r)
  PROVE  /\ StepInv' /\ BatchInv' /\ call'.op = call.op /\ call'.args = Tail(call.args)
         /\ call'.out = Append(call.out, r) /\ call'.start = call.start
<1> DEFINE args == call.args
           out == call.out
           batch == call.batch
           rest == Tail(args)
           step == IF rest = <<>> THEN "done" ELSE call.op
<1>1. StepInv /\ BatchInv /\ DOMAIN call = CallFields /\ call.at \in Nat
  BY DEF DAVInv, StepInv
<1>2. /\ args \in Seq(Items) /\ batch \in Seq(Items) /\ out \in Seq(Report)
      /\ \A i, j \in DOMAIN args : args[i] = args[j] => i = j
      /\ args # <<>> /\ call.ret = "ok"
      /\ Len(batch) = Len(out) + Len(args)
      /\ \A i \in 1..Len(out) : out[i].of = batch[i]
      /\ \A i \in 1..Len(args) : args[i] = batch[Len(out) + i]
  BY <1>1 DEF BatchInv
<1>3. /\ DOMAIN call' = CallFields /\ call'.op = call.op /\ call'.args = rest /\ call'.batch = batch
      /\ call'.out = Append(out, r) /\ call'.start = call.start /\ call'.ret = "ok" /\ call'.at = call.at
      /\ call'.given = <<>> /\ call'.step = step
  BY <1>1, <1>2 DEF Next1, CallFields
<1> HIDE DEF args, out, batch
<1>4. step = "done" \/ (step = call.op /\ rest # <<>>)
  OBVIOUS
<1>5. StepInv'
  <2>1. call'.step = "done" \/ (call'.step \in Writes /\ call'.op = call'.step)
    BY <1>3, <1>4
  <2> HIDE DEF step, rest
  <2> QED
    BY <1>1, <1>3, <2>1 DEF StepInv, Writes, InitSteps
<1>6. /\ Head(args) = args[1] /\ 1 \in 1..Len(args) /\ Len(rest) \in Nat
      /\ rest \in Seq(Items) /\ Len(args) = Len(rest) + 1
      /\ \A k \in 1..Len(rest) : rest[k] = args[k + 1] /\ k + 1 \in 1..Len(args)
  BY <1>2, TailFacts
<1>7. /\ Append(out, r) \in Seq(Report) /\ Len(Append(out, r)) = Len(out) + 1
      /\ \A k \in 1..Len(out) : Append(out, r)[k] = out[k]
      /\ Append(out, r)[Len(out) + 1] = r
  BY <1>2, AppendFacts
<1>8. \A i, j \in DOMAIN rest : rest[i] = rest[j] => i = j
  BY <1>2, RestFacts
<1>9. Len(out) \in Nat
  BY <1>2
<1> DEFINE m == Len(out)
           after == Append(out, r)
<1>10. \A i \in 1..m + 1 : after[i].of = batch[i]
  <2> TAKE i \in 1..m + 1
  <2>1. CASE i \in 1..m
    BY <1>2, <1>7, <2>1
  <2>2. CASE i = m + 1
    <3>1. args[1] = batch[m + 1]
      BY <1>2, <1>6
    <3> QED
      BY <1>6, <1>7, <2>2, <3>1 DEF args
  <2> QED
    BY <1>9, <2>1, <2>2
<1>11. \A i \in 1..Len(rest) : rest[i] = batch[m + 1 + i]
  <2> TAKE i \in 1..Len(rest)
  <2>1. rest[i] = args[i + 1] /\ i + 1 \in 1..Len(args)
    BY <1>6
  <2>2. rest[i] = batch[m + (i + 1)]
    BY <1>2, <2>1
  <2>3. m + (i + 1) = m + 1 + i
    BY <1>6, <1>9
  <2> QED
    BY <2>2, <2>3
<1>12. Len(batch) = (m + 1) + Len(rest)
  BY <1>2, <1>6, <1>9
<1>13. BatchInv'
  <2>1. <<>> \in Seq(Nat)
    OBVIOUS
  <2>2. call'.step # "done" => rest # <<>>
    BY <1>3, <1>4
  <2>3. call'.step = "done" => rest = <<>> \/ call.op = "done"
    BY <1>3, <1>4
  <2>4. call.op # "done"
    BY DEF Writes
  <2>5. Len(call'.out) = m + 1 /\ call'.out = after
    BY <1>3, <1>7
  <2> HIDE DEF rest, step, m, after
  <2> QED
    BY <1>2, <1>3, <1>6, <1>7, <1>8, <1>10, <1>11, <1>12, <2>1, <2>2, <2>3, <2>4, <2>5 DEF BatchInv, after
<1> QED
  BY <1>3, <1>5, <1>13 DEF args, out

(* A batch fails.                                                          *)
LEMMA BatchFail ==
  ASSUME DAVInv, call.op \in Writes, call' = Fail
  PROVE  /\ StepInv' /\ BatchInv' /\ call'.op = call.op /\ call'.args = call.args
         /\ call'.out = <<>> /\ call'.start = call.start
<1>1. StepInv /\ BatchInv /\ DOMAIN call = CallFields /\ call.at \in Nat
  BY DEF DAVInv, StepInv
<1>2. /\ DOMAIN call' = CallFields /\ call'.op = call.op /\ call'.args = call.args /\ call'.batch = call.batch
      /\ call'.out = <<>> /\ call'.start = call.start /\ call'.ret = "fail" /\ call'.at = call.at
      /\ call'.given = call.given /\ call'.step = "done"
  BY <1>1 DEF Fail, CallFields
<1>3. StepInv'
  BY <1>1, <1>2 DEF StepInv, Writes, InitSteps
<1>4. BatchInv'
  <2>1. <<>> \in Seq(Report)
    OBVIOUS
  <2>2. /\ call.args \in Seq(Items) /\ call.batch \in Seq(Items) /\ call.given \in Seq(Nat)
        /\ \A i, j \in DOMAIN call.args : call.args[i] = call.args[j] => i = j
    BY <1>1 DEF BatchInv
  <2>3. PICK args : args = call.args
    OBVIOUS
  <2>4. /\ call'.args \in Seq(Items) /\ call'.batch \in Seq(Items) /\ call'.given \in Seq(Nat)
        /\ call'.out \in Seq(Report)
    BY <1>2, <2>1, <2>2
  <2>5. \A i, j \in DOMAIN call'.args : call'.args[i] = call'.args[j] => i = j
    BY <1>2, <2>2
  <2>6. call'.step = "done" /\ call'.ret # "ok"
    BY <1>2
  <2> QED
    BY <2>4, <2>5, <2>6 DEF BatchInv
<1> QED
  BY <1>2, <1>3, <1>4

(* A batch asks for the etag that was not given.                           *)
LEMMA BatchAsk ==
  ASSUME DAVInv, call.op \in {"add", "modify"}, call.step # "done", ~setup'.headers,
         call' = [call EXCEPT !.step = "ask", !.at = Clock + 1]
  PROVE  /\ StepInv' /\ BatchInv' /\ call'.op = call.op /\ call'.args = call.args
         /\ call'.out = call.out /\ call'.start = call.start
<1>1. StepInv /\ BatchInv /\ DOMAIN call = CallFields /\ Clock + 1 \in Nat
  BY DEF DAVInv, StepInv, HistInv
<1>2. /\ DOMAIN call' = CallFields /\ call'.op = call.op /\ call'.args = call.args /\ call'.batch = call.batch
      /\ call'.out = call.out /\ call'.start = call.start /\ call'.ret = call.ret /\ call'.at = Clock + 1
      /\ call'.given = call.given /\ call'.step = "ask"
  BY <1>1 DEF CallFields
<1>3. StepInv'
  BY <1>1, <1>2 DEF StepInv, Writes, InitSteps
<1>4. BatchInv'
  <2> DEFINE P(args, batch, out, given) ==
         /\ args \in Seq(Items) /\ batch \in Seq(Items) /\ out \in Seq(Report) /\ given \in Seq(Nat)
         /\ \A i, j \in DOMAIN args : args[i] = args[j] => i = j
         /\ args # <<>>
         /\ Len(batch) = Len(out) + Len(args)
         /\ \A i \in 1..Len(out) : out[i].of = batch[i]
         /\ \A i \in 1..Len(args) : args[i] = batch[Len(out) + i]
  <2>1. call.op \in Writes
    BY DEF Writes
  <2>2. P(call.args, call.batch, call.out, call.given) /\ call.ret = "ok"
    BY <1>1, <2>1 DEF BatchInv
  <2>3. P(call'.args, call'.batch, call'.out, call'.given) /\ call'.ret = "ok" /\ call'.step # "done"
    <3> HIDE DEF P
    <3> QED
      BY <1>2, <2>2
  <2> QED
    BY <2>3 DEF BatchInv
<1> QED
  BY <1>2, <1>3, <1>4

(* The effect of a request of a batch: the item, and no other, is written. *)
LEMMA EffectStep ==
  ASSUME DAVInv, call.op \in Writes, call.step # "done", UNCHANGED setup,
         UNCHANGED <<hist, mine>> \/ (Wrote(Head(call.args)) /\ mine' = mine \cup {Clock + 1}),
         call'.op = call.op, call'.start = call.start,
         call'.args = call.args \/ call'.args = Tail(call.args),
         \/ call.op = "remove" \/ ~setup.headers
         \/ call'.out = <<>>
         \/ \E r : call'.out = Append(call.out, r) /\ Reports(hist', mine', r)
  PROVE  EffectInv'
<1> DEFINE args == call.args
           u == Head(args)
<1>1. HistInv /\ EffectInv /\ BatchInv /\ Clock \in Nat \ {0}
  BY DEF DAVInv, HistInv
<1>2. args \in Seq(Items) /\ args # <<>> /\ (\A i, j \in DOMAIN args : args[i] = args[j] => i = j) /\ call.out \in Seq(Report)
  BY <1>1 DEF BatchInv
<1>3. u \in Items
  BY <1>2, TailFacts
<1>4. u \notin ToSet(Tail(args)) /\ (Tail(args) # <<>> => ToSet(Tail(Tail(args))) \subseteq ToSet(Tail(args)))
  BY <1>2, RestFacts
<1>5. call'.args # <<>> => ToSet(Tail(call'.args)) \subseteq ToSet(Tail(args))
  BY <1>4
<1>6. \A n \in mine : n > call.start => \A w \in ToSet(Tail(args)) : Untouched(hist, n, w)
  BY <1>1, <1>2 DEF EffectInv
<1>7. call.start \in 1..Clock
  BY <1>1 DEF EffectInv
<1> HIDE DEF args, u
<1>8. /\ call.start \in 1..Clock'
      /\ \A n \in mine' : n > call.start => \A w \in ToSet(Tail(args)) : Untouched(hist', n, w)
      /\ \A r : Reports(hist, mine, r) => Reports(hist', mine', r)
  <2>1. CASE UNCHANGED <<hist, mine>>
    BY <1>6, <1>7, <2>1 DEF Clock
  <2>2. CASE Wrote(u) /\ mine' = mine \cup {Clock + 1}
    <3>1. Clock' = Clock + 1
      BY <1>1, <1>3, <2>2, WriteFacts
    <3>2. /\ \A n \in mine : \A w : Untouched(hist, n, w) => Untouched(hist', n, w)
          /\ \A r : mine \subseteq mine' /\ Reports(hist, mine, r) => Reports(hist', mine', r)
          /\ \A w : w # u => Untouched(hist', Clock + 1, w)
      BY <1>1, <1>3, <2>2, PastFacts
    <3>3. call.start \in 1..Clock'
      BY <1>1, <1>7, <3>1
    <3> QED
      BY <1>4, <1>6, <2>2, <3>2, <3>3 DEF u
  <2> QED
    BY <2>1, <2>2 DEF u, args
<1>9. call.op # "remove" /\ setup.headers => \A i \in DOMAIN call'.out : Reports(hist', mine', call'.out[i])
  <2> HAVE call.op # "remove" /\ setup.headers
  <2>1. \A i \in DOMAIN call.out : Reports(hist', mine', call.out[i])
    BY <1>1, <1>8 DEF EffectInv
  <2>2. CASE call'.out = <<>>
    BY <2>2
  <2>3. CASE \E r : call'.out = Append(call.out, r) /\ Reports(hist', mine', r)
    <3>1. PICK r : call'.out = Append(call.out, r) /\ Reports(hist', mine', r)
      BY <2>3
    <3>2. \A i \in DOMAIN call'.out : (i \in DOMAIN call.out /\ call'.out[i] = call.out[i]) \/ call'.out[i] = r
      BY <1>2, <3>1
    <3> QED
      BY <2>1, <3>1, <3>2
  <2> QED
    BY <2>2, <2>3
<1> QED
  BY <1>5, <1>8, <1>9 DEF EffectInv

(* A request of a batch, put together.                                     *)
LEMMA WriteStep ==
  ASSUME DAVInv, call.op \in Writes, call.step # "done", UNCHANGED <<setup, calendarUrl, helper>>,
         UNCHANGED <<hist, mine>> \/ (Wrote(Head(call.args)) /\ mine' = mine \cup {Clock + 1}),
         StepInv', BatchInv', EffectInv', call'.op = call.op
  PROVE  DAVInv'
<1>1. HistInv /\ HelperInv /\ UrlInv /\ BatchInv
  BY DEF DAVInv
<1>2. Head(call.args) \in Items
  BY <1>1, TailFacts DEF BatchInv
<1>3. HistInv' /\ HelperInv' /\ UrlInv'
  BY <1>1, <1>2, StillFacts, HistoryStep, HelperStep
<1>4. ReadsAreExact' /\ InitPicksSupported'
  BY QuietFacts DEF Writes, Reads
<1> QED
  BY <1>3, <1>4 DEF DAVInv

-----------------------------------------------------------------------------
(* The answers to writes, and adding.                                      *)

(* The answers without a body, and what they say.                          *)
LEMMA AnswerFacts ==
  /\ \A x \in Exchanges({}) : x.code \notin {201, 204} /\ ~Understood(x)
  /\ \A u, v : LET x == Created(u, v) IN
       /\ x.ok /\ x.code = 201
       /\ setup.headers => x.location = u /\ x.etag = <<v>>
       /\ ~setup.headers => x.location = NoId /\ x.etag = <<>>
  /\ \A v : LET x == NoContent(v) IN
       /\ x.ok /\ x.code = 204 /\ (setup.headers => x.etag = <<v>>) /\ (~setup.headers => x.etag = <<>>)
  /\ \A n : Code(n).ok /\ Code(n).code = n /\ Code(n).etag = <<>>
  /\ ~Broken.ok /\ Broken.code = 0
<1>1. \A x \in Exchanges({}) : x.code \notin {201, 204} /\ ~Understood(x)
  <2>1. Broken.code = 0 /\ Refused.code = 500 /\ Garbled.code = 207
    BY DEF Broken, Refused, Garbled, Reply
  <2>2. \A x \in Exchanges({}) : x = Broken \/ x = Refused \/ x = Garbled
    BY DEF Exchanges
  <2>3. \A x \in Exchanges({}) : x.code \notin {201, 204}
    BY <2>1, <2>2
  <2> QED
    BY <2>3, NotUnderstood
<1>2. \A u, v : LET x == Created(u, v) IN
       /\ x.ok /\ x.code = 201
       /\ setup.headers => x.location = u /\ x.etag = <<v>>
       /\ ~setup.headers => x.location = NoId /\ x.etag = <<>>
  BY DEF Created, Reply
<1>3. \A v : LET x == NoContent(v) IN
       /\ x.ok /\ x.code = 204 /\ (setup.headers => x.etag = <<v>>) /\ (~setup.headers => x.etag = <<>>)
  BY DEF NoContent, Reply
<1>4. \A n : Code(n).ok /\ Code(n).code = n /\ Code(n).etag = <<>>
  BY DEF Code, Reply
<1>5. ~Broken.ok /\ Broken.code = 0
  BY DEF Broken, Reply
<1> QED
  BY <1>1, <1>2, <1>3, <1>4, <1>5

(* The two parts of an answer.                                             *)
LEMMA PairFacts == \A a, b : <<a, b>>[1] = a /\ <<a, b>>[2] = b
  OBVIOUS

(* What is written is a report of a write.                                 *)
LEMMA ReportFacts ==
  ASSUME HistInv, NEW u \in Items
  PROVE  /\ \A id \in Items \cup {NoId}, v \in Nat, rev \in Seq(Nat) : Result(id, u, v, rev) \in Report
         /\ \A id, v, rev : Result(id, u, v, rev).of = u
         /\ Clock + 1 \in Nat /\ <<Clock + 1>> \in Seq(Nat)
         /\ hist' = Put(u) /\ mine' = mine \cup {Clock + 1} =>
              Reports(hist', mine', Result(u, u, Clock + 1, <<Clock + 1>>))
<1>1. \A id \in Items \cup {NoId}, v \in Nat, rev \in Seq(Nat) : Result(id, u, v, rev) \in Report
  BY DEF Result, Report
<1>2. \A id, v, rev : Result(id, u, v, rev).of = u
  BY DEF Result
<1>3. Clock + 1 \in Nat /\ <<Clock + 1>> \in Seq(Nat)
  BY DEF HistInv
<1>4. ASSUME hist' = Put(u), mine' = mine \cup {Clock + 1}
      PROVE  Reports(hist', mine', Result(u, u, Clock + 1, <<Clock + 1>>))
  <2>1. Now' = hist'[Clock + 1] /\ u \in DOMAIN Now' /\ Now'[u] = Clock + 1
    BY <1>4, WriteFacts DEF Wrote
  <2>2. PICK v : v = Clock + 1
    OBVIOUS
  <2>3. v \in mine' /\ u \in DOMAIN hist'[v] /\ hist'[v][u] = v
    BY <1>4, <2>1, <2>2
  <2>4. PICK r : r = Result(u, u, v, <<v>>)
    OBVIOUS
  <2>5. r.id = u /\ r.of = u /\ r.ver = v /\ r.rev = <<v>>
    BY <2>4 DEF Result
  <2>6. Reports(hist', mine', r)
    BY <2>3, <2>5 DEF Reports
  <2> QED
    BY <2>2, <2>4, <2>6
<1> QED
  BY <1>1, <1>2, <1>3, <1>4

(* The first item of a batch that is going on.                             *)
LEMMA HeadFacts ==
  ASSUME DAVInv, call.step \in Writes \cup {"ask"}
  PROVE  /\ call.op \in Writes /\ call.step # "done" /\ Head(call.args) \in Items /\ call.given \in Seq(Nat)
         /\ (call.step \in Writes => call.op = call.step) /\ HistInv
         /\ call.step = "ask" => call.op \in {"add", "modify"} /\ ~setup.headers
<1>1. StepInv /\ BatchInv /\ HistInv
  BY DEF DAVInv
<1>2. call.op \in Writes /\ call.step # "done" /\ (call.step \in Writes => call.op = call.step)
      /\ (call.step = "ask" => call.op \in {"add", "modify"} /\ ~setup.headers)
  BY <1>1 DEF StepInv, Writes
<1>3. call.args \in Seq(Items) /\ call.args # <<>> /\ call.given \in Seq(Nat)
  BY <1>1, <1>2 DEF BatchInv
<1>4. Head(call.args) \in Items
  BY <1>3, TailFacts
<1> QED
  BY <1>1, <1>2, <1>3, <1>4

(* What a request does and what the storage makes of its answer: fail, or  *)
(* report the write, or ask for the etag.                                  *)
LEMMA RequestStep ==
  ASSUME DAVInv, call.step \in Writes, UNCHANGED <<setup, calendarUrl, helper>>,
         NEW u, u = Head(call.args),
         \/ UNCHANGED <<hist, mine>>
         \/ Wrote(u) /\ mine' = mine \cup {Clock + 1},
         \/ call' = Fail
         \/ \E r \in Report :
              /\ call' = Next1(r) /\ r.of = u
              /\ call.op = "remove" \/ ~setup.headers \/ Reports(hist', mine', r)
         \/ /\ call.op \in {"add", "modify"} /\ ~setup.headers
            /\ call' = [call EXCEPT !.step = "ask", !.at = Clock + 1]
  PROVE  DAVInv'
<1>1. call.op \in Writes /\ call.step # "done"
  BY HeadFacts
<1>2. CASE call' = Fail
  <2>1. /\ StepInv' /\ BatchInv' /\ call'.op = call.op /\ call'.args = call.args
        /\ call'.out = <<>> /\ call'.start = call.start
    BY <1>1, <1>2, BatchFail
  <2>2. EffectInv'
    BY <1>1, <2>1, EffectStep
  <2> QED
    BY <1>1, <2>1, <2>2, WriteStep
<1>3. CASE \E r \in Report :
              /\ call' = Next1(r) /\ r.of = u
              /\ call.op = "remove" \/ ~setup.headers \/ Reports(hist', mine', r)
  <2>1. PICK r \in Report :
              /\ call' = Next1(r) /\ r.of = u
              /\ call.op = "remove" \/ ~setup.headers \/ Reports(hist', mine', r)
    BY <1>3
  <2>2. /\ StepInv' /\ BatchInv' /\ call'.op = call.op /\ call'.args = Tail(call.args)
        /\ call'.out = Append(call.out, r) /\ call'.start = call.start
    BY <1>1, <2>1, BatchNext
  <2>3. EffectInv'
    BY <1>1, <2>1, <2>2, EffectStep
  <2> QED
    BY <1>1, <2>2, <2>3, WriteStep
<1>4. CASE /\ call.op \in {"add", "modify"} /\ ~setup.headers
           /\ call' = [call EXCEPT !.step = "ask", !.at = Clock + 1]
  <2>1. /\ StepInv' /\ BatchInv' /\ call'.op = call.op /\ call'.args = call.args
        /\ call'.out = call.out /\ call'.start = call.start
    BY <1>1, <1>4, BatchAsk
  <2>2. EffectInv'
    BY <1>1, <1>4, <2>1, EffectStep
  <2> QED
    BY <1>1, <2>1, <2>2, WriteStep
<1> QED
  BY <1>2, <1>3, <1>4

(* The answer that names nothing.                                          *)
LEMMA UnnamedAnswer ==
  ASSUME NEW p \in Unnamed
  PROVE  p[1] \in BOOLEAN /\ ~setup.headers /\ p[2] = Multistatus(<<>>, 0)
<1>1. ~setup.headers /\ \E done \in BOOLEAN : p = <<done, Multistatus(<<>>, 0)>>
  BY DEF Unnamed
<1> QED
  BY <1>1, PairFacts

(* It is taken for a success, without an id.                               *)
LEMMA UnnamedStep ==
  ASSUME DAVInv, call.step \in Writes, UNCHANGED <<setup, calendarUrl, helper>>, ~setup.headers,
         NEW u \in Items, u = Head(call.args), HistInv,
         UNCHANGED <<hist, mine>> \/ (Wrote(u) /\ mine' = mine \cup {Clock + 1}),
         call' = Next1(Result(NoId, u, Clock + 1, <<>>))
  PROVE  DAVInv'
<1>1. PICK r : r = Result(NoId, u, Clock + 1, <<>>)
  OBVIOUS
<1>2. r \in Report /\ r.of = u
  <2>1. <<>> \in Seq(Nat) /\ NoId \in Items \cup {NoId} /\ Clock + 1 \in Nat
    BY ReportFacts
  <2>2. Result(NoId, u, Clock + 1, <<>>) \in Report
    BY <2>1, ReportFacts
  <2>3. Result(NoId, u, Clock + 1, <<>>).of = u
    BY ReportFacts
  <2> QED
    BY <1>1, <2>2, <2>3
<1> QED
  BY <1>1, <1>2, RequestStep

(* The answer with the item's etag is read as the report of that write.    *)
LEMMA ListedFacts ==
  ASSUME NEW u
  PROVE  LET x == AddedMulti(u, Clock + 1)
         IN  /\ ReadAdded(x) = "listed"
             /\ ListedResult(u, x) = Result(u, u, Clock + 1, <<Clock + 1>>)
<1> DEFINE x == AddedMulti(u, Clock + 1)
<1>1. /\ x.ok /\ x.code = 207 /\ Understood(x) /\ Responses(x.body) # <<>>
      /\ Responses(x.body)[1].href = u
      /\ HasProperty(Responses(x.body)[1], <<"getetag">>)
      /\ GetProperty(Responses(x.body)[1], <<"getetag">>) = <<Clock + 1>>
  BY AddedFacts
<1> HIDE DEF x
<1>2. ReadAdded(x) = "listed"
  BY <1>1 DEF ReadAdded
<1>3. ListedResult(u, x) = Result(u, u, Clock + 1, <<Clock + 1>>)
  BY <1>1 DEF ListedResult
<1> QED
  BY <1>2, <1>3 DEF x

(* It is the next result of the batch.                                     *)
LEMMA ListedStep ==
  ASSUME DAVInv, call.step \in Writes, UNCHANGED <<setup, calendarUrl, helper>>,
         NEW u \in Items, u = Head(call.args), HistInv,
         hist' = Put(u), Wrote(u), mine' = mine \cup {Clock + 1},
         call' = Next1(Result(u, u, Clock + 1, <<Clock + 1>>))
  PROVE  DAVInv'
<1>1. PICK r : r = Result(u, u, Clock + 1, <<Clock + 1>>)
  OBVIOUS
<1>2. r \in Report /\ r.of = u /\ Reports(hist', mine', r)
  <2>1. u \in Items \cup {NoId} /\ Clock + 1 \in Nat /\ <<Clock + 1>> \in Seq(Nat)
    BY ReportFacts
  <2>2. Result(u, u, Clock + 1, <<Clock + 1>>) \in Report
    BY <2>1, ReportFacts
  <2>3. Result(u, u, Clock + 1, <<Clock + 1>>).of = u
    BY ReportFacts
  <2>4. Reports(hist', mine', Result(u, u, Clock + 1, <<Clock + 1>>))
    BY ReportFacts
  <2> QED
    BY <1>1, <2>2, <2>3, <2>4
<1> QED
  BY <1>1, <1>2, RequestStep

(* A contact of a batch is added by a POST or a PUT.                       *)
LEMMA AddContactPreserves == DAVInv /\ AddContact => DAVInv'
<1> SUFFICES ASSUME DAVInv, AddContact PROVE DAVInv'
  OBVIOUS
<1>1. call.step = "add" /\ call.step \in Writes /\ UNCHANGED <<setup, calendarUrl, helper>>
  BY DEF AddContact, Writes
<1>2. PICK u : u = Head(call.args)
  OBVIOUS
<1>3. u \in Items /\ HistInv /\ call.op = "add"
  BY <1>1, <1>2, HeadFacts
<1>4. PICK p \in PostAnswers(u) \cup {<<FALSE, x>> : x \in Exchanges({})} :
           /\ IF p[1] THEN Done(Put(u)) ELSE NotDone
           /\ call' = CASE ReadAdded(p[2]) = "created" -> Next1(Result(p[2].location, u, Clock + 1, p[2].etag))
                        [] ReadAdded(p[2]) = "listed" -> Next1(ListedResult(u, p[2]))
                        [] ReadAdded(p[2]) = "unnamed" -> Next1(Result(NoId, u, Clock + 1, <<>>))
                        [] OTHER -> Fail
  BY <1>2 DEF AddContact
<1>5. PICK done, x : done = p[1] /\ x = p[2]
  OBVIOUS
<1>6. /\ IF done THEN Done(Put(u)) ELSE NotDone
      /\ call' = CASE ReadAdded(x) = "created" -> Next1(Result(x.location, u, Clock + 1, x.etag))
                   [] ReadAdded(x) = "listed" -> Next1(ListedResult(u, x))
                   [] ReadAdded(x) = "unnamed" -> Next1(Result(NoId, u, Clock + 1, <<>>))
                   [] OTHER -> Fail
  BY <1>4, <1>5
<1>7. \/ done = FALSE /\ (x = Conflict(u) \/ x = Code(409) \/ x \in Exchanges({}))
      \/ done = TRUE /\ (x = AddedMulti(u, Clock + 1) \/ x = Created(u, Clock + 1) \/ x = Broken)
      \/ done \in BOOLEAN /\ ~setup.headers /\ x = Multistatus(<<>>, 0)
  <2>1. \/ \E y \in {Conflict(u), Code(409)} \cup Exchanges({}) : p = <<FALSE, y>>
        \/ \E y \in {AddedMulti(u, Clock + 1), Created(u, Clock + 1), Broken} : p = <<TRUE, y>>
        \/ p \in Unnamed
    BY <1>4, ZenonT(40) DEF PostAnswers
  <2>2. CASE \E y \in {Conflict(u), Code(409)} \cup Exchanges({}) : p = <<FALSE, y>>
    BY <1>5, <2>2, PairFacts
  <2>3. CASE \E y \in {AddedMulti(u, Clock + 1), Created(u, Clock + 1), Broken} : p = <<TRUE, y>>
    BY <1>5, <2>3, PairFacts
  <2>4. CASE p \in Unnamed
    BY <1>5, <2>4, UnnamedAnswer
  <2> QED
    BY <2>1, <2>2, <2>3, <2>4
<1>u. CASE done \in BOOLEAN /\ ~setup.headers /\ x = Multistatus(<<>>, 0)
  <2>1. UNCHANGED <<hist, mine>> \/ (Wrote(u) /\ mine' = mine \cup {Clock + 1})
    BY <1>6, <1>u DEF Done, NotDone, Wrote
  <2>2. ReadAdded(x) = "unnamed"
    BY <1>u, UnnamedFacts
  <2>3. call' = Next1(Result(NoId, u, Clock + 1, <<>>))
    BY <1>6, <2>2
  <2> QED
    BY <1>1, <1>2, <1>3, <1>u, <2>1, <2>3, UnnamedStep
<1>8. CASE done = FALSE /\ (x = Conflict(u) \/ x = Code(409) \/ x \in Exchanges({}))
  <2>1. /\ x.code # 201
        /\ ~Understood(x) \/ (Responses(x.body) # <<>> /\ ~HasProperty(Responses(x.body)[1], <<"getetag">>))
    BY <1>8, AnswerFacts, ConflictFacts, NotUnderstood
  <2>2. ReadAdded(x) \in {"fail", "conflict"}
    BY <2>1 DEF ReadAdded
  <2>3. call' = Fail /\ UNCHANGED <<hist, mine>>
    BY <1>6, <1>8, <2>2 DEF NotDone
  <2> QED
    BY <1>1, <1>2, <2>3, RequestStep
<1>9. CASE done = TRUE /\ (x = AddedMulti(u, Clock + 1) \/ x = Created(u, Clock + 1) \/ x = Broken)
  <2>1. hist' = Put(u) /\ Wrote(u) /\ mine' = mine \cup {Clock + 1}
    BY <1>6, <1>9 DEF Done, Wrote
  <2>2. CASE x = Broken
    <3>1. call' = Fail
      BY <1>6, <2>2, AnswerFacts DEF ReadAdded
    <3> QED
      BY <1>1, <1>2, <2>1, <3>1, RequestStep
  <2>3. CASE x = Created(u, Clock + 1)
    <3>1. ReadAdded(x) = "created"
      BY <2>3, AnswerFacts DEF ReadAdded
    <3>2. call' = Next1(Result(x.location, u, Clock + 1, x.etag))
      BY <1>6, <3>1
    <3>3. PICK r : r = Result(x.location, u, Clock + 1, x.etag)
      OBVIOUS
    <3>4. CASE setup.headers
      <4>1. r = Result(u, u, Clock + 1, <<Clock + 1>>)
        BY <2>3, <3>3, <3>4, AnswerFacts
      <4>2. r \in Report /\ r.of = u /\ Reports(hist', mine', r)
        BY <1>3, <2>1, <4>1, ReportFacts
      <4> QED
        BY <1>1, <1>2, <2>1, <3>2, <3>3, <4>2, RequestStep
    <3>5. CASE ~setup.headers
      <4>1. x.location = NoId /\ x.etag = <<>>
        BY <2>3, <3>5, AnswerFacts
      <4>2. x.location \in Items \cup {NoId} /\ x.etag \in Seq(Nat)
        BY <4>1
      <4>3. r \in Report /\ r.of = u
        <5>1. x.location \in Items \cup {NoId} /\ Clock + 1 \in Nat
          BY <1>3, <4>2, ReportFacts
        <5>2. Result(x.location, u, Clock + 1, x.etag) \in Report
          BY <1>3, <4>2, <5>1, ReportFacts
        <5> QED
          BY <1>3, <3>3, <5>2, ReportFacts
      <4> QED
        BY <1>1, <1>2, <2>1, <3>2, <3>3, <3>5, <4>3, RequestStep
    <3> QED
      BY <3>4, <3>5
  <2>4. CASE x = AddedMulti(u, Clock + 1)
    <3>1. call' = Next1(Result(u, u, Clock + 1, <<Clock + 1>>))
      BY <1>6, <2>4, ListedFacts
    <3> QED
      BY <1>1, <1>2, <1>3, <2>1, <3>1, ListedStep
  <2> QED
    BY <1>9, <2>2, <2>3, <2>4
<1> QED
  BY <1>7, <1>8, <1>9, <1>u

-----------------------------------------------------------------------------
(* Adding, modifying, removing, asking.                                    *)

(* A PUT and what the server answers: one that names a revision writes only *)
(* what has that revision.                                                 *)
PutDone(u, match, done, x) ==
  \/ done = FALSE /\ (x = Code(412) \/ x \in Exchanges({}))
  \/ /\ done = TRUE /\ (match = <<>> \/ (u \in DOMAIN Now /\ match = <<Now[u]>>))
     /\ x = NoContent(Clock + 1) \/ x = Created(u, Clock + 1) \/ x = Broken

(* Every answer to a PUT is one of those.                                  *)
LEMMA PutFacts ==
  ASSUME NEW u, NEW match, NEW p \in PutAnswers(u, match) \cup Unanswered
  PROVE  PutDone(u, match, p[1], p[2])
<1>1. \/ \E y \in {Code(412)} \cup Exchanges({}) : p = <<FALSE, y>>
      \/ /\ match = <<>> \/ (u \in DOMAIN Now /\ match = <<Now[u]>>)
         /\ \E y \in {NoContent(Clock + 1), Created(u, Clock + 1), Broken} : p = <<TRUE, y>>
  <2>1. CASE match # <<>> /\ (u \notin DOMAIN Now \/ match # <<Now[u]>>)
    BY <2>1, ZenonT(40) DEF PutAnswers, Unanswered
  <2>2. CASE ~(match # <<>> /\ (u \notin DOMAIN Now \/ match # <<Now[u]>>))
    <3>1. match = <<>> \/ (u \in DOMAIN Now /\ match = <<Now[u]>>)
      BY <2>2
    <3>2. \/ \E y \in Exchanges({}) : p = <<FALSE, y>>
          \/ \E y \in {NoContent(Clock + 1), Created(u, Clock + 1), Broken} : p = <<TRUE, y>>
      BY <2>2 DEF PutAnswers, Unanswered
    <3> QED
      BY <3>1, <3>2
  <2> QED
    BY <2>1, <2>2
<1>2. CASE \E y \in {Code(412)} \cup Exchanges({}) : p = <<FALSE, y>>
  BY <1>2, PairFacts DEF PutDone
<1>3. CASE /\ match = <<>> \/ (u \in DOMAIN Now /\ match = <<Now[u]>>)
           /\ \E y \in {NoContent(Clock + 1), Created(u, Clock + 1), Broken} : p = <<TRUE, y>>
  BY <1>3, PairFacts DEF PutDone
<1> QED
  BY <1>1, <1>2, <1>3

(* An event or a task of a batch is added.                                 *)
LEMMA AddEventPreserves == DAVInv /\ AddEvent => DAVInv'
<1> SUFFICES ASSUME DAVInv, AddEvent PROVE DAVInv'
  OBVIOUS
<1>1. call.step = "add" /\ call.step \in Writes /\ UNCHANGED <<setup, calendarUrl, helper>>
  BY DEF AddEvent, Writes
<1>2. PICK u : u = Head(call.args)
  OBVIOUS
<1>3. u \in Items /\ HistInv /\ call.op = "add"
  BY <1>1, <1>2, HeadFacts
<1>4. PICK p \in PutAnswers(u, <<>>) \cup ListedAnswers(u) \cup Unanswered :
           /\ IF p[1] THEN Done(Put(u)) ELSE NotDone
           /\ call' = CASE ReadAdded(p[2]) = "created" /\ p[2].etag # <<>> ->
                             Next1(Result(p[2].location, u, Clock + 1, p[2].etag))
                        [] ReadAdded(p[2]) = "listed" -> Next1(ListedResult(u, p[2]))
                        [] ReadAdded(p[2]) = "unnamed" -> Next1(Result(NoId, u, Clock + 1, <<>>))
                        [] ReadAdded(p[2]) = "created" /\ p[2].etag = <<>> ->
                             [call EXCEPT !.step = "ask", !.at = Clock + 1]
                        [] OTHER -> Fail
  BY <1>2 DEF AddEvent
<1>5. PICK done, x : done = p[1] /\ x = p[2]
  OBVIOUS
<1>6. /\ IF done THEN Done(Put(u)) ELSE NotDone
      /\ call' = CASE ReadAdded(x) = "created" /\ x.etag # <<>> -> Next1(Result(x.location, u, Clock + 1, x.etag))
                   [] ReadAdded(x) = "listed" -> Next1(ListedResult(u, x))
                   [] ReadAdded(x) = "unnamed" -> Next1(Result(NoId, u, Clock + 1, <<>>))
                   [] ReadAdded(x) = "created" /\ x.etag = <<>> -> [call EXCEPT !.step = "ask", !.at = Clock + 1]
                   [] OTHER -> Fail
  BY <1>4, <1>5
<1>7. \/ done = FALSE /\ (x = Code(412) \/ x \in Exchanges({}))
      \/ done = TRUE /\ (x = NoContent(Clock + 1) \/ x = Created(u, Clock + 1) \/ x = Broken)
      \/ done = FALSE /\ x = Conflict(u)
      \/ done = TRUE /\ x = AddedMulti(u, Clock + 1)
      \/ done \in BOOLEAN /\ ~setup.headers /\ x = Multistatus(<<>>, 0)
  <2>1. CASE p \in PutAnswers(u, <<>>) \cup Unanswered
    <3>1. PutDone(u, <<>>, p[1], p[2])
      BY <2>1, PutFacts
    <3> QED
      BY <1>5, <3>1 DEF PutDone
  <2>2. CASE p \in ListedAnswers(u)
    <3>1. p = <<FALSE, Conflict(u)>> \/ p = <<TRUE, AddedMulti(u, Clock + 1)>> \/ p \in Unnamed
      BY <2>2 DEF ListedAnswers
    <3>2. CASE p = <<FALSE, Conflict(u)>>
      <4>1. p[1] = FALSE /\ p[2] = Conflict(u)
        BY <3>2, PairFacts
      <4> QED
        BY <1>5, <4>1
    <3>3. CASE p = <<TRUE, AddedMulti(u, Clock + 1)>>
      <4>1. p[1] = TRUE /\ p[2] = AddedMulti(u, Clock + 1)
        BY <3>3, PairFacts
      <4> QED
        BY <1>5, <4>1
    <3>4. CASE p \in Unnamed
      BY <1>5, <3>4, UnnamedAnswer
    <3> QED
      BY <3>1, <3>2, <3>3, <3>4
  <2> QED
    BY <1>4, <2>1, <2>2
<1>u. CASE done \in BOOLEAN /\ ~setup.headers /\ x = Multistatus(<<>>, 0)
  <2>1. UNCHANGED <<hist, mine>> \/ (Wrote(u) /\ mine' = mine \cup {Clock + 1})
    BY <1>6, <1>u DEF Done, NotDone, Wrote
  <2>2. ReadAdded(x) = "unnamed"
    BY <1>u, UnnamedFacts
  <2>3. call' = Next1(Result(NoId, u, Clock + 1, <<>>))
    BY <1>6, <2>2
  <2> QED
    BY <1>1, <1>2, <1>3, <1>u, <2>1, <2>3, UnnamedStep
<1>l. CASE done = TRUE /\ x = AddedMulti(u, Clock + 1)
  <2>1. hist' = Put(u) /\ Wrote(u) /\ mine' = mine \cup {Clock + 1}
    BY <1>6, <1>l DEF Done, Wrote
  <2>2. call' = Next1(Result(u, u, Clock + 1, <<Clock + 1>>))
    BY <1>6, <1>l, ListedFacts
  <2> QED
    BY <1>1, <1>2, <1>3, <2>1, <2>2, ListedStep
<1>c. CASE done = FALSE /\ x = Conflict(u)
  <2>1. /\ x.code # 201 /\ Understood(x) /\ Responses(x.body) # <<>>
        /\ ~HasProperty(Responses(x.body)[1], <<"getetag">>)
    BY <1>c, ConflictFacts
  <2>2. ReadAdded(x) \in {"fail", "conflict"}
    BY <2>1 DEF ReadAdded
  <2>3. call' = Fail /\ UNCHANGED <<hist, mine>>
    BY <1>6, <1>c, <2>2 DEF NotDone
  <2> QED
    BY <1>1, <1>2, <2>3, RequestStep
<1>8. CASE done = FALSE /\ (x = Code(412) \/ x \in Exchanges({}))
  <2>1. x.code # 201 /\ ~Understood(x)
    BY <1>8, AnswerFacts, NotUnderstood
  <2>2. ReadAdded(x) = "fail"
    BY <2>1 DEF ReadAdded
  <2>3. call' = Fail /\ UNCHANGED <<hist, mine>>
    BY <1>6, <1>8, <2>2 DEF NotDone
  <2> QED
    BY <1>1, <1>2, <2>3, RequestStep
<1>9. CASE done = TRUE /\ (x = NoContent(Clock + 1) \/ x = Created(u, Clock + 1) \/ x = Broken)
  <2>1. hist' = Put(u) /\ Wrote(u) /\ mine' = mine \cup {Clock + 1}
    BY <1>6, <1>9 DEF Done, Wrote
  <2>2. CASE x = Broken \/ x = NoContent(Clock + 1)
    <3>1. x.code # 201 /\ ~Understood(x)
      <4>1. x.code \in {0, 204}
        BY <2>2, AnswerFacts
      <4> QED
        BY <4>1 DEF Understood
    <3>2. ReadAdded(x) = "fail"
      BY <3>1 DEF ReadAdded
    <3>3. call' = Fail
      BY <1>6, <3>2
    <3> QED
      BY <1>1, <1>2, <2>1, <3>3, RequestStep
  <2>3. CASE x = Created(u, Clock + 1)
    <3>1. ReadAdded(x) = "created"
      BY <2>3, AnswerFacts DEF ReadAdded
    <3>2. CASE setup.headers
      <4>1. x.location = u /\ x.etag = <<Clock + 1>>
        BY <2>3, <3>2, AnswerFacts
      <4>2. x.etag # <<>>
        BY <4>1, Paths
      <4>3. PICK r : r = Result(u, u, Clock + 1, <<Clock + 1>>)
        OBVIOUS
      <4>4. call' = Next1(r)
        BY <1>6, <3>1, <4>1, <4>2, <4>3
      <4>5. r \in Report /\ r.of = u /\ Reports(hist', mine', r)
        BY <1>3, <2>1, <4>3, ReportFacts
      <4> QED
        BY <1>1, <1>2, <2>1, <4>4, <4>5, RequestStep
    <3>3. CASE ~setup.headers
      <4>1. x.etag = <<>>
        BY <2>3, <3>3, AnswerFacts
      <4>2. call' = [call EXCEPT !.step = "ask", !.at = Clock + 1]
        BY <1>6, <3>1, <4>1
      <4> QED
        BY <1>1, <1>2, <1>3, <2>1, <3>3, <4>2, RequestStep
    <3> QED
      BY <3>2, <3>3
  <2> QED
    BY <1>9, <2>2, <2>3
<1> QED
  BY <1>7, <1>8, <1>9, <1>u, <1>l, <1>c

(* The revision that a modification reports.                               *)
GivenRev(rev, etag) == rev = etag \/ (etag = <<>> /\ rev = call.given)

(* An item of a batch is modified; the server compares the revision.       *)
LEMMA ModifyPreserves == DAVInv /\ (ModifyContact \/ ModifyEvent) => DAVInv'
<1> SUFFICES ASSUME DAVInv, ModifyContact \/ ModifyEvent PROVE DAVInv'
  OBVIOUS
<1>1. call.step = "modify" /\ call.step \in Writes /\ UNCHANGED <<setup, calendarUrl, helper>>
  BY DEF ModifyContact, ModifyEvent, Writes
<1>2. PICK u : u = Head(call.args)
  OBVIOUS
<1>3. u \in Items /\ HistInv /\ call.op = "modify" /\ call.given \in Seq(Nat)
  BY <1>1, <1>2, HeadFacts
<1>4. PICK p \in PutAnswers(u, call.given) \cup Unanswered :
           /\ IF p[1] THEN Done(Put(u)) ELSE NotDone
           /\ \/ p[2].ok /\ p[2].code = 204 /\ \E rev : GivenRev(rev, p[2].etag) /\ call' = Next1(Result(u, u, Clock + 1, rev))
              \/ p[2].ok /\ p[2].code = 204 /\ p[2].etag = <<>> /\ call' = [call EXCEPT !.step = "ask", !.at = Clock + 1]
              \/ call' = Fail
  <2>1. CASE ModifyContact
    <3>1. PICK p \in PutAnswers(u, call.given) \cup Unanswered :
             /\ IF p[1] THEN Done(Put(u)) ELSE NotDone
             /\ call' = IF p[2].ok /\ p[2].code = 204
                        THEN Next1(Result(u, u, Clock + 1, IF p[2].etag # <<>> THEN p[2].etag ELSE call.given))
                        ELSE Fail
      BY <1>2, <2>1 DEF ModifyContact, Modification
    <3>2. PICK rev : rev = IF p[2].etag # <<>> THEN p[2].etag ELSE call.given
      OBVIOUS
    <3>3. GivenRev(rev, p[2].etag)
      BY <3>2 DEF GivenRev
    <3> QED
      BY <3>1, <3>2, <3>3
  <2>2. CASE ModifyEvent
    <3>1. PICK p \in PutAnswers(u, call.given) \cup Unanswered :
             /\ IF p[1] THEN Done(Put(u)) ELSE NotDone
             /\ call' = CASE p[2].ok /\ p[2].code = 204 /\ p[2].etag # <<>> -> Next1(Result(u, u, Clock + 1, p[2].etag))
                          [] p[2].ok /\ p[2].code = 204 /\ p[2].etag = <<>> ->
                               [call EXCEPT !.step = "ask", !.at = Clock + 1]
                          [] OTHER -> Fail
      BY <1>2, <2>2 DEF ModifyEvent, Modification
    <3>2. \A a, b : GivenRev(a, a)
      BY DEF GivenRev
    <3> QED
      BY <3>1, <3>2
  <2> QED
    BY <2>1, <2>2
<1>5. PICK done, x : done = p[1] /\ x = p[2]
  OBVIOUS
<1>6. /\ IF done THEN Done(Put(u)) ELSE NotDone
      /\ \/ x.ok /\ x.code = 204 /\ \E rev : GivenRev(rev, x.etag) /\ call' = Next1(Result(u, u, Clock + 1, rev))
         \/ x.ok /\ x.code = 204 /\ x.etag = <<>> /\ call' = [call EXCEPT !.step = "ask", !.at = Clock + 1]
         \/ call' = Fail
  BY <1>4, <1>5
<1>7. \/ done = FALSE /\ (x = Code(412) \/ x \in Exchanges({}))
      \/ done = TRUE /\ (x = NoContent(Clock + 1) \/ x = Created(u, Clock + 1) \/ x = Broken)
  <2>1. PutDone(u, call.given, p[1], p[2])
    BY PutFacts
  <2> QED
    BY <1>5, <2>1 DEF PutDone
<1>8. CASE done = FALSE /\ (x = Code(412) \/ x \in Exchanges({}))
  <2>1. x.code # 204
    BY <1>8, AnswerFacts
  <2>2. call' = Fail /\ UNCHANGED <<hist, mine>>
    BY <1>6, <1>8, <2>1 DEF NotDone
  <2> QED
    BY <1>1, <1>2, <2>2, RequestStep
<1>9. CASE done = TRUE
  <2>1. hist' = Put(u) /\ Wrote(u) /\ mine' = mine \cup {Clock + 1}
    BY <1>6, <1>9 DEF Done, Wrote
  <2>2. CASE x = Broken \/ x = Created(u, Clock + 1)
    <3>1. x.code # 204
      BY <2>2, AnswerFacts
    <3>2. call' = Fail
      BY <1>6, <3>1
    <3> QED
      BY <1>1, <1>2, <2>1, <3>2, RequestStep
  <2>3. CASE x = NoContent(Clock + 1)
    <3>1. CASE call' = Fail
      BY <1>1, <1>2, <2>1, <3>1, RequestStep
    <3>2. CASE x.etag = <<>> /\ call' = [call EXCEPT !.step = "ask", !.at = Clock + 1]
      <4>1. ~setup.headers
        <5>1. setup.headers => x.etag = <<Clock + 1>>
          BY <2>3, AnswerFacts
        <5>2. <<Clock + 1>> # <<>>
          BY Paths
        <5> QED
          BY <3>2, <5>1, <5>2
      <4> QED
        BY <1>1, <1>2, <1>3, <2>1, <3>2, <4>1, RequestStep
    <3>3. CASE \E rev : GivenRev(rev, x.etag) /\ call' = Next1(Result(u, u, Clock + 1, rev))
      <4>1. PICK rev : GivenRev(rev, x.etag) /\ call' = Next1(Result(u, u, Clock + 1, rev))
        BY <3>3
      <4>2. PICK r : r = Result(u, u, Clock + 1, rev)
        OBVIOUS
      <4>3. setup.headers => rev = <<Clock + 1>>
        <5>1. setup.headers => x.etag = <<Clock + 1>>
          BY <2>3, AnswerFacts
        <5>2. <<Clock + 1>> # <<>>
          BY Paths
        <5> QED
          BY <4>1, <5>1, <5>2 DEF GivenRev
      <4>4. rev \in Seq(Nat)
        <5>1. <<>> \in Seq(Nat) /\ <<Clock + 1>> \in Seq(Nat)
          BY <1>3, ReportFacts
        <5>2. x.etag = <<>> \/ x.etag = <<Clock + 1>>
          BY <2>3, AnswerFacts
        <5> QED
          BY <1>3, <4>1, <5>1, <5>2 DEF GivenRev
      <4>5. r \in Report /\ r.of = u
        <5>1. u \in Items \cup {NoId} /\ Clock + 1 \in Nat
          BY <1>3, ReportFacts
        <5>2. Result(u, u, Clock + 1, rev) \in Report
          BY <1>3, <4>4, <5>1, ReportFacts
        <5> QED
          BY <1>3, <4>2, <5>2, ReportFacts
      <4>6. setup.headers => Reports(hist', mine', r)
        BY <1>3, <2>1, <4>2, <4>3, ReportFacts
      <4> QED
        BY <1>1, <1>2, <2>1, <4>1, <4>2, <4>5, <4>6, RequestStep
    <3> QED
      BY <1>6, <3>1, <3>2, <3>3
  <2> QED
    BY <1>7, <1>9, <2>2, <2>3
<1> QED
  BY <1>7, <1>8, <1>9

(* An item of a batch is removed.                                          *)
LEMMA RemovalPreserves == DAVInv /\ Removal => DAVInv'
<1> SUFFICES ASSUME DAVInv, Removal PROVE DAVInv'
  OBVIOUS
<1>1. call.step = "remove" /\ call.step \in Writes /\ UNCHANGED <<setup, calendarUrl, helper>>
  BY DEF Removal, Writes
<1>2. PICK u : u = Head(call.args)
  OBVIOUS
<1>3. u \in Items /\ HistInv /\ call.op = "remove"
  BY <1>1, <1>2, HeadFacts
<1>4. PICK p \in DeleteAnswers(u) \cup Unanswered :
           /\ IF p[1] THEN Done(Drop(u)) ELSE NotDone
           /\ call' = IF p[2].ok /\ p[2].code = 204 THEN Next1(Result(u, u, Clock + 1, <<>>)) ELSE Fail
  BY <1>2 DEF Removal
<1>5. UNCHANGED <<hist, mine>> \/ (Wrote(u) /\ mine' = mine \cup {Clock + 1})
  <2>1. \/ \E y : p = <<FALSE, y>>
        \/ u \in DOMAIN Now /\ \E y : p = <<TRUE, y>>
    BY <1>4, ZenonT(40) DEF DeleteAnswers, Unanswered
  <2>2. PICK done : done = p[1]
    OBVIOUS
  <2>3. done = FALSE \/ (u \in DOMAIN Now /\ done = TRUE)
    BY <2>1, <2>2, PairFacts
  <2>4. IF done THEN Done(Drop(u)) ELSE NotDone
    BY <1>4, <2>2
  <2> QED
    BY <2>3, <2>4 DEF Done, NotDone, Wrote
<1>6. call' = Fail \/ call' = Next1(Result(u, u, Clock + 1, <<>>))
  BY <1>4
<1>7. Result(u, u, Clock + 1, <<>>) \in Report /\ Result(u, u, Clock + 1, <<>>).of = u
  <2>1. u \in Items \cup {NoId} /\ Clock + 1 \in Nat /\ <<>> \in Seq(Nat)
    BY <1>3, ReportFacts
  <2> QED
    BY <1>3, <2>1, ReportFacts
<1> QED
  BY <1>1, <1>2, <1>3, <1>5, <1>6, <1>7, RequestStep

(* The etag that the answer to the write did not give is asked for.        *)
LEMMA AskPreserves == DAVInv /\ AskForEtag => DAVInv'
<1> SUFFICES ASSUME DAVInv, AskForEtag PROVE DAVInv'
  OBVIOUS
<1>1. call.step = "ask" /\ UNCHANGED <<setup, hist, mine, calendarUrl, helper>>
  BY DEF AskForEtag
<1>2. PICK u : u = Head(call.args)
  OBVIOUS
<1>3. /\ u \in Items /\ HistInv /\ call.op \in {"add", "modify"} /\ call.op \in Writes
      /\ call.step # "done" /\ ~setup.headers /\ call.at \in Nat
  BY <1>1, <1>2, HeadFacts DEF DAVInv, StepInv
<1> DEFINE F(x) == IF Understood(x) THEN About(MetadataOf(x), u) ELSE <<>>
           id == IF call.op = "modify" THEN u ELSE NoId
<1>4. PICK x \in Exchanges(IF u \in DOMAIN Now THEN MetadataAnswers({u}) ELSE {Code(404)}) :
        call' = Next1(IF F(x) = <<>> THEN Result(id, u, call.at, <<>>) ELSE Result(u, u, call.at, F(x)[1].etag))
  BY <1>2 DEF AskForEtag
<1>5. F(x) # <<>> => F(x)[1].etag \in Seq(Nat)
  <2> SUFFICES ASSUME F(x) # <<>> PROVE F(x)[1].etag \in Seq(Nat)
    OBVIOUS
  <2>1. Understood(x)
    OBVIOUS
  <2>2. u \in DOMAIN Now /\ x \in MetadataAnswers({u})
    BY <2>1, NotUnderstood DEF Exchanges
  <2>3. PICK md : md = MetadataOf(x)
    OBVIOUS
  <2>4. Reported(md, {u})
    BY <2>2, <2>3, FS_Singleton, MetadataFacts
  <2>5. PICK n \in Nat : DOMAIN md = 1..n
    BY <2>4 DEF Reported
  <2> DEFINE I == {i \in DOMAIN md : md[i].uri = u}
  <2>6. F(x) = Those(md, I) /\ I \in SUBSET (1..n)
    BY <2>1, <2>3, <2>5 DEF About
  <2>7. PICK found : found = F(x) /\ found # <<>>
    OBVIOUS
  <2>8. \A i \in I : i \in DOMAIN md
    OBVIOUS
  <2> HIDE DEF I, F
  <2>9. Members(found, md, I)
    BY <2>5, <2>6, <2>7, ThoseMembers
  <2>10. 1 \in DOMAIN found
    BY <2>7, <2>9 DEF Members
  <2>11. PICK i \in I : found[1] = md[i]
    BY <2>9, <2>10 DEF Members
  <2>12. found[1].etag = <<Now[md[i].uri]>> /\ md[i].uri = u
    BY <2>4, <2>8, <2>11 DEF Reported
  <2>13. Now[u] \in Nat
    BY <1>3, <2>2, NowFacts
  <2> QED
    BY <2>7, <2>12, <2>13
<1>6. PICK r : r = IF F(x) = <<>> THEN Result(id, u, call.at, <<>>) ELSE Result(u, u, call.at, F(x)[1].etag)
  OBVIOUS
<1>7. call' = Next1(r)
  BY <1>4, <1>6
<1>8. r \in Report /\ r.of = u
  <2>1. PICK name \in Items \cup {NoId}, rev \in Seq(Nat) : r = Result(name, u, call.at, rev)
    <3>1. id \in Items \cup {NoId} /\ u \in Items \cup {NoId} /\ <<>> \in Seq(Nat)
      BY <1>3
    <3> HIDE DEF F, id
    <3> QED
      BY <1>5, <1>6, <3>1
  <2>2. Result(name, u, call.at, rev) \in Report
    BY <1>3, ReportFacts
  <2> QED
    BY <1>3, <2>1, <2>2, ReportFacts
<1> HIDE DEF F, id
<1>9. /\ StepInv' /\ BatchInv' /\ call'.op = call.op /\ call'.args = Tail(call.args)
      /\ call'.out = Append(call.out, r) /\ call'.start = call.start
  BY <1>2, <1>3, <1>7, <1>8, BatchNext
<1>10. EffectInv'
  BY <1>1, <1>3, <1>9, EffectStep
<1> QED
  BY <1>1, <1>3, <1>9, <1>10, WriteStep

-----------------------------------------------------------------------------
(* All steps, and the theorems.                                            *)

(* A batch begins: nothing of it is done, all is to do.                    *)
LEMMA StartBatchPreserves ==
  ASSUME NEW op \in Writes, NEW S, S = Items \/ S = Items \cup {Stranger},
         NEW args \in Seq(S), args # <<>>, \A i, j \in DOMAIN args : args[i] = args[j] => i = j,
         NEW given \in Seq(Nat)
  PROVE  DAVInv /\ StartBatch(op, args, given) => DAVInv'
<1> SUFFICES ASSUME DAVInv, StartBatch(op, args, given) PROVE DAVInv'
  OBVIOUS
<1>1. UNCHANGED <<setup, hist, mine, calendarUrl, helper>> /\ HistInv
  BY DEF StartBatch, DAVInv
<1>2. HistInv' /\ HelperInv' /\ UrlInv'
  BY <1>1, StillFacts DEF DAVInv
<1>3. Clock \in Nat \ {0} /\ mine \subseteq 2..Clock /\ Clock \in 1..Clock /\ Clock' = Clock
  BY <1>1 DEF HistInv, Clock
<1>4. CASE Stranger \in ToSet(args)
  <2>1. call' = [Begin(op, "done") EXCEPT !.ret = "fail"]
    BY <1>4 DEF StartBatch
  <2>2. /\ DOMAIN call' = CallFields /\ call'.op = op /\ call'.step = "done" /\ call'.ret = "fail"
        /\ call'.args = <<>> /\ call'.batch = <<>> /\ call'.given = <<>> /\ call'.out = <<>>
        /\ call'.start = Clock /\ call'.at = Clock
    BY <2>1, BeginFacts DEF CallFields
  <2>3. StepInv'
    BY <1>3, <2>2 DEF StepInv, Writes, InitSteps
  <2>4. BatchInv'
    BY <2>2 DEF BatchInv
  <2>5. EffectInv'
    BY <1>3, <2>2 DEF EffectInv
  <2>6. ReadsAreExact' /\ InitPicksSupported'
    BY <2>2, QuietFacts
  <2> QED
    BY <1>2, <2>3, <2>4, <2>5, <2>6 DEF DAVInv
<1>5. CASE Stranger \notin ToSet(args)
  <2>1. call' = [Begin(op, op) EXCEPT !.args = args, !.batch = args, !.given = given]
    BY <1>5 DEF StartBatch
  <2>2. /\ DOMAIN call' = CallFields /\ call'.op = op /\ call'.step = op /\ call'.ret = "ok"
        /\ call'.args = args /\ call'.batch = args /\ call'.given = given /\ call'.out = <<>>
        /\ call'.start = Clock /\ call'.at = Clock
    BY <2>1, BeginFacts DEF CallFields
  <2>3. StepInv'
    BY <1>3, <2>2 DEF StepInv, Writes, InitSteps
  <2>4. args \in Seq(Items)
    <3>1. \A i \in 1..Len(args) : args[i] \in S /\ args[i] \in ToSet(args)
      BY DEF ToSet
    <3>2. \A i \in 1..Len(args) : args[i] \in Items
      BY <1>5, <3>1
    <3> QED
      BY <3>2
  <2>5. BatchInv'
    <3>1. <<>> \in Seq(Report) /\ Len(<<>>) = 0 /\ Len(args) \in Nat /\ op # "done"
      BY DEF Writes
    <3>2. Len(args) = Len(<<>>) + Len(args) /\ \A i \in 1..Len(args) : args[i] = args[Len(<<>>) + i]
      BY <3>1
    <3>3. \A i \in 1..Len(<<>>) : FALSE
      BY <3>1
    <3> QED
      BY <2>2, <2>4, <3>1, <3>2, <3>3 DEF BatchInv
  <2>6. EffectInv'
    <3>1. \A n \in mine : ~(n > Clock)
      BY <1>3
    <3>2. \A i \in DOMAIN call'.out : FALSE
      BY <2>2
    <3> QED
      BY <1>1, <1>3, <2>2, <3>1, <3>2 DEF EffectInv
  <2>7. ReadsAreExact' /\ InitPicksSupported'
    BY <2>2, QuietFacts DEF Writes
  <2> QED
    BY <1>2, <2>3, <2>5, <2>6, <2>7 DEF DAVInv
<1> QED
  BY <1>4, <1>5

(* The calls that write begin.                                             *)
LEMMA StartsPreserves == DAVInv /\ (StartAdd \/ StartRemove \/ StartModify) => DAVInv'
<1> SUFFICES ASSUME DAVInv, StartAdd \/ StartRemove \/ StartModify PROVE DAVInv'
  OBVIOUS
<1>1. "add" \in Writes /\ "remove" \in Writes /\ "modify" \in Writes /\ <<>> \in Seq(Nat)
  BY DEF Writes
<1>2. CASE \E op \in Writes : \E S \in {Items, Items \cup {Stranger}} : \E us \in Batches(S) : StartBatch(op, us, <<>>)
  <2>1. PICK op \in Writes, S \in {Items, Items \cup {Stranger}} : \E us \in Batches(S) : StartBatch(op, us, <<>>)
    BY <1>2
  <2>2. PICK us \in Batches(S) : StartBatch(op, us, <<>>)
    BY <2>1
  <2>3. us \in Seq(S) /\ us # <<>> /\ \A i, j \in DOMAIN us : us[i] = us[j] => i = j
    BY BatchFacts
  <2> QED
    BY <1>1, <2>1, <2>2, <2>3, StartBatchPreserves
<1>3. CASE \E u \in Items, v \in 1..Clock : StartBatch("modify", <<u>>, <<v>>)
  <2>1. PICK u \in Items, v \in 1..Clock : StartBatch("modify", <<u>>, <<v>>)
    BY <1>3
  <2>2. <<u>> \in Seq(Items) /\ <<u>> # <<>> /\ \A i, j \in DOMAIN <<u>> : <<u>>[i] = <<u>>[j] => i = j
    OBVIOUS
  <2>3. <<v>> \in Seq(Nat)
    BY DEF DAVInv, HistInv
  <2> QED
    BY <1>1, <2>1, <2>2, <2>3, StartBatchPreserves
<1>4. \/ \E op \in Writes : \E S \in {Items, Items \cup {Stranger}} : \E us \in Batches(S) : StartBatch(op, us, <<>>)
      \/ \E u \in Items, v \in 1..Clock : StartBatch("modify", <<u>>, <<v>>)
  BY <1>1 DEF StartAdd, StartRemove, StartModify
<1> QED
  BY <1>2, <1>3, <1>4

(* Every step keeps the invariant.                                         *)
LEMMA NextPreserves == DAVInv /\ [Next]_vars => DAVInv'
<1> SUFFICES ASSUME DAVInv, [Next]_vars PROVE DAVInv'
  OBVIOUS
<1>1. CASE UNCHANGED vars
  BY <1>1, StutterPreserves
<1>2. CASE InitContacts \/ InitCalendar
  BY <1>2, StartInitPreserves DEF InitContacts, InitCalendar
<1>3. CASE Read
  <2>1. CASE QueryContactsMetadata \/ QueryEventsMetadata
    BY <2>1, RevisionsPreserves DEF QueryContactsMetadata, QueryEventsMetadata
  <2>2. CASE QueryChangedContactsMetadata \/ QueryChangedEventsMetadata
    BY <2>2, ChangesPreserves
  <2>3. CASE QueryAddressbookMetadata \/ QueryCalendarMetadata
    BY <2>3, TokenPreserves DEF QueryAddressbookMetadata, QueryCalendarMetadata
  <2>4. CASE GetContact \/ GetContacts \/ GetEvent \/ GetEvents \/ GetTask \/ GetTasks
    BY <2>4, GetsPreserves
  <2> QED
    BY <1>3, <2>1, <2>2, <2>3, <2>4 DEF Read
<1>4. CASE StartAdd \/ StartModify \/ StartRemove
  BY <1>4, StartsPreserves
<1>5. CASE Step
  <2>1. CASE Authorize \/ FollowRedirect \/ FindPrincipalUrl \/ FindAddressbookSet \/ FindCalendarHomeSet
    BY <2>1, AuthorizePreserves, RedirectPreserves, PrincipalPreserves, HomeSetPreserves
  <2>2. CASE FindAddressbooks \/ FindCalendars \/ QueryCalendarInfo
    BY <2>2, AddressbooksPreserves, CalendarsPreserves, CalendarInfoPreserves
  <2>3. CASE AddContact \/ AddEvent \/ ModifyContact \/ ModifyEvent \/ AskForEtag
    BY <2>3, AddContactPreserves, AddEventPreserves, ModifyPreserves, AskPreserves
  <2>4. CASE RemoveContact \/ RemoveEvent
    BY <2>4, RemovalPreserves DEF RemoveContact, RemoveEvent
  <2> QED
    BY <1>5, <2>1, <2>2, <2>3, <2>4 DEF Step
<1>6. CASE Take \/ OtherWrites
  BY <1>6, TakePreserves, OtherPreserves
<1> QED
  BY <1>1, <1>2, <1>3, <1>4, <1>5, <1>6 DEF Next

(* The invariant holds, for any items, any number of writes and any        *)
(* servers and parameters that the assumption allows.                      *)
THEOREM DAVInvariant == Spec => []DAVInv
  BY InitGivesDAVInv, NextPreserves, PTL DEF Spec

(* The types: collections have only known items and versions the server    *)
(* gave, and calls are in a step they know.                                *)
THEOREM DAVTypes == Spec => []TypeOK
<1>1. DAVInv => TypeOK
  BY DEF DAVInv, HistInv, HelperInv, UrlInv, StepInv, Writes, InitSteps, TypeOK
<1> QED
  BY <1>1, DAVInvariant, PTL

(* getRevisions() and getChangedRevisions() report the collection at the   *)
(* time of the answer, and getEvents() and getTasks() give each id its own *)
(* content and no revision newer than that (CardDAVHelper.cpp:310,         *)
(* CalDAVHelper.cpp:420 and 489), whatever other clients write between the *)
(* requests.                                                               *)
THEOREM DAVReads == Spec => []ReadsAreExact
<1>1. DAVInv => ReadsAreExact
  BY DEF DAVInv
<1> QED
  BY <1>1, DAVInvariant, PTL

(* init() ends with an address book, or with a calendar of the storage's   *)
(* type and of the given name if there is one (CalDAVStorage.cpp:121,      *)
(* CardDAVHelper.cpp:150), whatever the home set contains.                 *)
THEOREM DAVInitPicks == Spec => []InitPicksSupported
<1>1. DAVInv => InitPicksSupported
  BY DEF DAVInv
<1> QED
  BY <1>1, DAVInvariant, PTL

(* A batch that succeeded hands back the id and the revision of each       *)
(* write, and no item beyond the one a batch stopped at was touched        *)
(* (CardDAVStorage.cpp:159, CalDAVStorage.cpp:249), for batches of any     *)
(* length.                                                                 *)
THEOREM DAVWrites == Spec => []WritesAreReported
<1>1. DAVInv => WritesAreReported
  <2> SUFFICES ASSUME DAVInv PROVE WritesAreReported
    OBVIOUS
  <2>1. BatchInv /\ EffectInv
    BY DEF DAVInv
  <2>2. ASSUME Succeeded("add") \/ Succeeded("modify") \/ Succeeded("remove")
        PROVE  [i \in DOMAIN call.out |-> call.out[i].of] = call.batch
    <3>1. call.op \in Writes /\ call.step = "done" /\ call.ret = "ok"
      BY <2>2 DEF Succeeded, Writes
    <3>2. /\ call.batch \in Seq(Items) /\ call.out \in Seq(Report) /\ call.args = <<>>
          /\ Len(call.batch) = Len(call.out) + Len(call.args)
          /\ \A i \in 1..Len(call.out) : call.out[i].of = call.batch[i]
      BY <2>1, <3>1 DEF BatchInv
    <3>3. Len(call.args) = 0 /\ Len(call.out) \in Nat
      BY <3>2
    <3>4. Len(call.batch) = Len(call.out)
      BY <3>2, <3>3
    <3>5. DOMAIN call.out = 1..Len(call.out) /\ call.batch = [i \in 1..Len(call.out) |-> call.batch[i]]
      BY <3>2, <3>4
    <3> QED
      BY <3>2, <3>5
  <2>3. ASSUME Succeeded("add") \/ Succeeded("modify"), setup.headers, NEW i \in DOMAIN call.out
        PROVE  Reports(hist, mine, call.out[i])
    <3>1. call.op \in Writes /\ call.op # "remove"
      BY <2>3 DEF Succeeded, Writes
    <3> QED
      BY <2>1, <2>3, <3>1 DEF EffectInv
  <2>4. ASSUME call.op \in Writes, call.args # <<>>, NEW n \in mine, n > call.start, NEW u \in ToSet(Tail(call.args))
        PROVE  Untouched(hist, n, u)
    BY <2>1, <2>4 DEF EffectInv
  <2> QED
    BY <2>2, <2>3, <2>4 DEF WritesAreReported, Reports, Untouched, Writes
<1> QED
  BY <1>1, DAVInvariant, PTL

(* A modification that names a revision overwrites that version and no     *)
(* other (CardDAVHelper.cpp:673, CalDAVHelper.cpp:785), whoever writes     *)
(* meanwhile.                                                              *)
THEOREM DAVModifications == Spec => NoBlindOverwrite
<1> DEFINE u == Head(call.args)
           A == call.step = "modify" /\ call.given # <<>> /\ mine' # mine => u \in DOMAIN Now /\ <<Now[u]>> = call.given
<1>1. ASSUME Next, call.step = "modify", call.given # <<>>, mine' # mine
      PROVE  u \in DOMAIN Now /\ <<Now[u]>> = call.given
  <2>1. ModifyContact \/ ModifyEvent
    <3>1. ~(InitContacts \/ InitCalendar \/ Take \/ OtherWrites)
      BY <1>1 DEF InitContacts, InitCalendar, StartInit, Take, OtherWrites
    <3>2. ~Read
      BY <1>1 DEF Read, QueryContactsMetadata, QueryEventsMetadata, QueryMetadata, QueryChangedContactsMetadata,
                  QueryChangedEventsMetadata, QueryChanged, QueryAddressbookMetadata, QueryCalendarMetadata, QueryToken,
                  GetContact, GetContacts, GetEvent, GetEvents, GetTask, GetTasks, GetObjects, GetItems
    <3>3. ~(StartAdd \/ StartModify \/ StartRemove)
      BY <1>1 DEF StartAdd, StartModify, StartRemove, StartBatch
    <3>4. ~(Authorize \/ FollowRedirect \/ FindPrincipalUrl \/ FindAddressbookSet \/ FindCalendarHomeSet)
      BY <1>1 DEF Authorize, FollowRedirect, FindPrincipalUrl, FindAddressbookSet, FindCalendarHomeSet
    <3>5. ~(FindAddressbooks \/ FindCalendars \/ QueryCalendarInfo)
      BY <1>1 DEF FindAddressbooks, FindCalendars, QueryCalendarInfo
    <3>6. ~(AddContact \/ AddEvent \/ AskForEtag \/ RemoveContact \/ RemoveEvent)
      BY <1>1 DEF AddContact, AddEvent, AskForEtag, RemoveContact, RemoveEvent, Removal
    <3> QED
      BY <1>1, <3>1, <3>2, <3>3, <3>4, <3>5, <3>6 DEF Next, Step
  <2>2. PICK p \in PutAnswers(u, call.given) \cup Unanswered : IF p[1] THEN Done(Put(u)) ELSE NotDone
    BY <2>1 DEF ModifyContact, ModifyEvent, Modification
  <2>3. PutDone(u, call.given, p[1], p[2])
    BY PutFacts
  <2>4. p[1] # FALSE
    BY <1>1, <2>2 DEF NotDone
  <2> QED
    BY <1>1, <2>3, <2>4 DEF PutDone
<1>2. [Next]_vars => [call.step = "modify" /\ call.given # <<>> /\ mine' # mine =>
                        LET w == Head(call.args) IN w \in DOMAIN Now /\ <<Now[w]>> = call.given]_vars
  BY <1>1
<1> QED
  BY <1>2, PTL DEF Spec, NoBlindOverwrite

-----------------------------------------------------------------------------
(* The iterators.                                                          *)

(* A batch asks for the items that follow, and for one at least before the *)
(* end.                                                                    *)
LEMMA AskedFacts ==
  ASSUME offset \in Nat
  PROVE  /\ IsFiniteSet(Asked) /\ Cardinality(Asked) \in Nat
         /\ \A c \in Asked : c \in All /\ c \in Int /\ offset <= c /\ c < offset + QuerySize
         /\ \A c \in All : offset <= c /\ c < offset + QuerySize => c \in Asked
         /\ \A k \in 1..Cardinality(Asked) : offset + k - 1 \in Asked
         /\ \A c \in Asked : \E k \in 1..Cardinality(Asked) : c = offset + k - 1
         /\ offset < Total => Cardinality(Asked) > 0
<1>t. offset \in Nat /\ QuerySize \in Nat \ {0} /\ Total \in Nat
  BY DAVIteratorAssumption
<1>1. CASE offset + QuerySize <= Total
  <2>1. Asked = offset..offset + QuerySize - 1
    BY <1>t, <1>1 DEF Asked, All
  <2>2. IsFiniteSet(Asked) /\ Cardinality(Asked) = QuerySize
    BY <1>t, <2>1, FS_Interval
  <2> QED
    BY <1>t, <1>1, <2>1, <2>2 DEF All
<1>2. CASE Total < offset + QuerySize /\ offset < Total
  <2>1. Asked = offset..Total - 1
    BY <1>t, <1>2 DEF Asked, All
  <2>2. IsFiniteSet(Asked) /\ Cardinality(Asked) = Total - offset
    BY <1>t, <1>2, <2>1, FS_Interval
  <2> QED
    BY <1>t, <1>2, <2>1, <2>2 DEF All
<1>3. CASE Total <= offset
  <2>1. Asked = {}
    BY <1>t, <1>3 DEF Asked, All
  <2>2. IsFiniteSet(Asked) /\ Cardinality(Asked) = 0
    BY <2>1, FS_EmptySet
  <2> QED
    BY <1>t, <1>3, <2>1, <2>2 DEF All
<1> QED
  BY <1>t, <1>1, <1>2, <1>3

(* A server's answer has each item asked for that is still there, once.    *)
LEMMA AnswersFacts ==
  ASSUME offset \in Nat, onServer \subseteq All, NEW answer \in Answers
  PROVE  /\ Len(answer) \in Nat /\ DOMAIN answer = 1..Len(answer)
         /\ Len(answer) <= Cardinality(Asked)
         /\ onServer = All => Len(answer) = Cardinality(Asked)
         /\ \A k \in 1..Len(answer) : answer[k] \in onServer \cap Asked
         /\ \A j, k \in 1..Len(answer) : answer[j] = answer[k] => j = k
         /\ \A c \in onServer \cap Asked : \E k \in 1..Len(answer) : answer[k] = c
<1> DEFINE there == onServer \cap Asked
<1>1. IsFiniteSet(Asked) /\ Cardinality(Asked) \in Nat /\ \A c \in Asked : c \in All
  BY AskedFacts
<1>2. /\ IsFiniteSet(there) /\ Cardinality(there) <= Cardinality(Asked)
      /\ onServer = All => there = Asked
  BY <1>1, FS_Subset
<1>3. answer \in Orders(there)
  BY DEF Answers, Orders
<1> HIDE DEF there
<1>4. /\ Cardinality(there) \in Nat /\ DOMAIN answer = 1..Cardinality(there) /\ ToSet(answer) = there
      /\ \A i, j \in DOMAIN answer : answer[i] = answer[j] => i = j
  BY <1>2, <1>3, OrdersFacts
<1>5. answer \in [1..Cardinality(there) -> there] /\ Len(answer) = Cardinality(there)
  <2>1. answer \in [1..Cardinality(there) -> there]
    BY <1>3 DEF Orders
  <2> QED
    BY <1>4, <2>1
<1>6. \A c \in there : \E k \in 1..Len(answer) : answer[k] = c
  BY <1>4, <1>5 DEF ToSet
<1> QED
  BY <1>2, <1>4, <1>5, <1>6 DEF there

-----------------------------------------------------------------------------
(* The items that were handed out or are cached.                           *)
Delivered == returned \o cachedContacts

\* What an item's id has to do with its content.
Placed(i) ==
  /\ byName => i.content = i.id \/ (i.content = Nothing /\ i.id \notin onServer \ Unreadable)
  /\ i.content # Nothing => i.id - i.content < QuerySize /\ i.content - i.id < QuerySize

DeliveredInv ==
  /\ \A j, k \in DOMAIN Delivered : j < k =>
       /\ Delivered[j].id < Delivered[k].id
       /\ Delivered[j].content = Delivered[k].content => Delivered[j].content = Nothing
  /\ \A k \in DOMAIN Delivered : Delivered[k].id < offset /\ Delivered[k].content < offset
  /\ \A k \in DOMAIN Delivered : Placed(Delivered[k])
  /\ \A c \in onServer \ Unreadable : c < offset => \E k \in DOMAIN Delivered : Delivered[k].content = c

(* What the thread and next() know of each other.                          *)
IteratorStatusInv ==
  /\ transferStatus = "End" => offset >= Total /\ tpc = "exited"
  /\ tpc \in {"loop", "download"} => transferStatus = "Ok"
  /\ tpc = "download" => offset < Total
  /\ tpc = "signal" => transferStatus # "End" /\ (transferStatus = "Error" \/ cancelled)
  /\ tpc = "exited" => transferStatus # "Ok" \/ cancelled
  /\ cancelled <=> npc \in {"destroying", "joining", "gone"}
  /\ npc = "null" => \/ transferStatus = "Error"
                     \/ transferStatus = "End" /\ cachedContacts = <<>>
  /\ npc = "woken" /\ transferStatus = "Ok" /\ (byName \/ onServer = All) => cachedContacts # <<>>

IteratorInv == IteratorTypeOK /\ DeliveredInv /\ IteratorStatusInv /\ FrontIsSafe

-----------------------------------------------------------------------------
(* Handing out the first of the cached items keeps the sequence of all.    *)
LEMMA HandOut ==
  ASSUME NEW S, NEW r \in Seq(S), NEW c \in Seq(S), c # <<>>
  PROVE  /\ Append(r, Head(c)) \in Seq(S) /\ Tail(c) \in Seq(S)
         /\ Append(r, Head(c)) \o Tail(c) = r \o c
<1> DEFINE r2 == Append(r, Head(c))
           c2 == Tail(c)
<1>1. /\ r2 \in Seq(S) /\ Len(r2) = Len(r) + 1 /\ r2[Len(r) + 1] = c[1]
      /\ \A i \in 1..Len(r) : r2[i] = r[i]
  OBVIOUS
<1>2. c2 \in Seq(S) /\ Len(c) = Len(c2) + 1 /\ \A i \in 1..Len(c2) : c2[i] = c[i + 1]
  OBVIOUS
<1> HIDE DEF r2, c2
<1>3. /\ r2 \o c2 \in Seq(S) /\ Len(r2 \o c2) = Len(r2) + Len(c2)
      /\ \A i \in 1..Len(r2) + Len(c2) : (r2 \o c2)[i] = IF i <= Len(r2) THEN r2[i] ELSE c2[i - Len(r2)]
  BY <1>1, <1>2, ConcatProperties
<1>4. /\ r \o c \in Seq(S) /\ Len(r \o c) = Len(r) + Len(c)
      /\ \A i \in 1..Len(r) + Len(c) : (r \o c)[i] = IF i <= Len(r) THEN r[i] ELSE c[i - Len(r)]
  BY ConcatProperties
<1>5. Len(r) \in Nat /\ Len(c) \in Nat /\ Len(c2) \in Nat
  BY <1>2
<1>6. \A i \in 1..Len(r) + Len(c) : (r2 \o c2)[i] = (r \o c)[i]
  <2> TAKE i \in 1..Len(r) + Len(c)
  <2>0. i \in 1..Len(r2) + Len(c2)
    BY <1>1, <1>2, <1>5
  <2>1. CASE i <= Len(r)
    BY <1>1, <1>3, <1>4, <1>5, <2>0, <2>1
  <2>2. CASE i = Len(r) + 1
    <3>1. (r2 \o c2)[i] = c[1]
      BY <1>1, <1>3, <1>5, <2>0, <2>2
    <3>2. (r \o c)[i] = c[1]
      BY <1>4, <1>5, <2>2
    <3> QED
      BY <3>1, <3>2
  <2>3. CASE Len(r) + 1 < i
    <3>1. (r2 \o c2)[i] = c2[i - (Len(r) + 1)]
      BY <1>1, <1>3, <1>5, <2>0, <2>3
    <3>2. c2[i - (Len(r) + 1)] = c[(i - (Len(r) + 1)) + 1] /\ (i - (Len(r) + 1)) + 1 = i - Len(r)
      BY <1>2, <1>5, <2>3
    <3>3. (r \o c)[i] = c[i - Len(r)]
      BY <1>4, <1>5, <2>3
    <3> QED
      BY <3>1, <3>2, <3>3
  <2>4. i <= Len(r) \/ i = Len(r) + 1 \/ Len(r) + 1 < i
    BY <1>5
  <2> QED
    BY <2>1, <2>2, <2>3, <2>4
<1>7. r2 \o c2 = r \o c
  <2>1. Len(r2 \o c2) = Len(r \o c)
    BY <1>1, <1>2, <1>3, <1>4, <1>5
  <2>2. \A i \in 1..Len(r \o c) : (r2 \o c2)[i] = (r \o c)[i]
    BY <1>4, <1>6
  <2>3. r2 \o c2 \in Seq(S) /\ r \o c \in Seq(S)
    BY <1>3, <1>4
  <2> DEFINE x == r2 \o c2
             y == r \o c
  <2>4. x \in Seq(S) /\ y \in Seq(S) /\ Len(x) = Len(y) /\ \A i \in 1..Len(y) : x[i] = y[i]
    BY <2>1, <2>2, <2>3
  <2> HIDE DEF x, y
  <2>5. x = y
    BY <2>4, SeqEqual
  <2> QED
    BY <2>5 DEF x, y
<1> QED
  BY <1>1, <1>2, <1>7 DEF r2, c2

(* What a batch appends to the sequence of all items.                      *)
LEMMA DownloadFacts ==
  ASSUME IteratorTypeOK, NEW answer \in Answers
  PROVE  LET b == Batch(answer) IN
         /\ b \in Seq(Item) /\ Len(b) \in Nat
         /\ offset < Total /\ (byName \/ onServer = All) => Len(b) > 0
         /\ \A k \in 1..Len(b) :
              /\ b[k].id = offset + k - 1 /\ offset + k - 1 < offset + QuerySize
              /\ b[k].content \in Asked \cup {Nothing} /\ Placed(b[k])
         /\ \A j, k \in 1..Len(b) : j < k /\ b[j].content = b[k].content => b[j].content = Nothing
         /\ \A c \in (onServer \cap Asked) \ Unreadable : \E k \in 1..Len(b) : b[k].content = c
<1> DEFINE b == Batch(answer)
           m == Cardinality(Asked)
<1>1. offset \in Nat /\ onServer \subseteq All /\ Total \in Nat /\ QuerySize \in Nat \ {0} /\ byName \in BOOLEAN
  BY DAVIteratorAssumption DEF IteratorTypeOK
<1>2. /\ m \in Nat /\ (offset < Total => m > 0)
      /\ \A c \in Asked : c \in All /\ c \in Int /\ offset <= c /\ c < offset + QuerySize
      /\ \A k \in 1..m : offset + k - 1 \in Asked
      /\ \A c \in Asked : \E k \in 1..m : c = offset + k - 1
  BY <1>1, AskedFacts
<1>3. /\ Len(answer) \in Nat /\ Len(answer) <= m /\ (onServer = All => Len(answer) = m)
      /\ \A k \in 1..Len(answer) : answer[k] \in onServer \cap Asked
      /\ \A j, k \in 1..Len(answer) : answer[j] = answer[k] => j = k
      /\ \A c \in onServer \cap Asked : \E k \in 1..Len(answer) : answer[k] = c
  BY <1>1, AnswersFacts
<1> HIDE DEF m
<1>n. Nothing \notin Asked /\ Nothing = -1
  BY <1>1, <1>2 DEF Nothing
<1>4. CASE byName
  <2> DEFINE At(k) == IF offset + k - 1 \in onServer THEN Parsed(offset + k - 1) ELSE Nothing
  <2>1. b = [k \in 1..m |-> [id |-> offset + k - 1, content |-> At(k)]]
    BY <1>4 DEF Batch, Events, m
  <2>2. \A k \in 1..m : /\ At(k) = offset + k - 1 \/ At(k) = Nothing
                        /\ At(k) = Nothing => offset + k - 1 \notin onServer \ Unreadable
    BY <1>2, <1>n DEF Parsed
  <2>3. \A k \in 1..m : offset + k - 1 \in onServer \ Unreadable => At(k) = offset + k - 1
    BY DEF Parsed
  <2> HIDE DEF At
  <2>4. \A k \in 1..m : b[k] \in Item
    BY <1>2, <2>1, <2>2 DEF Item
  <2>5. b \in Seq(Item) /\ Len(b) = m
    BY <1>2, <2>1, <2>4
  <2>6. \A k \in 1..m : b[k].id = offset + k - 1 /\ b[k].content = At(k)
    BY <2>1
  <2>7. \A k \in 1..m : Placed(b[k])
    BY <1>1, <1>2, <2>2, <2>6 DEF Placed
  <2>8. \A j, k \in 1..m : j < k /\ b[j].content = b[k].content => b[j].content = Nothing
    <3> TAKE j, k \in 1..m
    <3> HAVE j < k /\ b[j].content = b[k].content
    <3>1. offset + j - 1 # offset + k - 1
      BY <1>1, <1>2
    <3> QED
      BY <2>2, <2>6, <3>1
  <2>9. \A c \in (onServer \cap Asked) \ Unreadable : \E k \in 1..m : b[k].content = c
    BY <1>2, <2>3, <2>6
  <2>10. \A k \in 1..m : b[k].content \in Asked \cup {Nothing} /\ offset + k - 1 < offset + QuerySize
    BY <1>2, <2>2, <2>6
  <2> QED
    BY <1>2, <2>5, <2>6, <2>7, <2>8, <2>9, <2>10
<1>5. CASE ~byName
  <2> DEFINE n == Len(answer)
  <2>1. b = [k \in 1..n |-> [id |-> offset + k - 1, content |-> Parsed(answer[k])]]
    BY <1>5 DEF Batch, Contacts
  <2>2. \A k \in 1..n : /\ Parsed(answer[k]) = answer[k] \/ Parsed(answer[k]) = Nothing
                        /\ answer[k] \notin Unreadable => Parsed(answer[k]) = answer[k]
                        /\ answer[k] \in Asked /\ k \in 1..m
    BY <1>2, <1>3 DEF Parsed
  <2>3. n \in Nat /\ \A k \in 1..n : b[k] \in Item
    BY <1>2, <1>3, <2>1, <2>2 DEF Item
  <2>4. b \in Seq(Item) /\ Len(b) = n
    BY <2>1, <2>3
  <2>5. \A k \in 1..n : b[k].id = offset + k - 1 /\ b[k].content = Parsed(answer[k])
    BY <2>1
  <2>6. \A k \in 1..n : Placed(b[k])
    <3> TAKE k \in 1..n
    <3>1. offset <= offset + k - 1 /\ offset + k - 1 < offset + QuerySize /\ offset + k - 1 \in Int
      BY <1>2, <2>2
    <3>2. b[k].content # Nothing => b[k].content \in Int /\ offset <= b[k].content /\ b[k].content < offset + QuerySize
      BY <1>2, <2>2, <2>5
    <3> QED
      BY <1>1, <1>5, <2>5, <3>1, <3>2 DEF Placed
  <2>7. \A j, k \in 1..n : j < k /\ b[j].content = b[k].content => b[j].content = Nothing
    <3> TAKE j, k \in 1..n
    <3> HAVE j < k /\ b[j].content = b[k].content
    <3>1. answer[j] # answer[k]
      BY <1>3, <2>3
    <3> QED
      BY <2>2, <2>5, <3>1
  <2>8. \A c \in (onServer \cap Asked) \ Unreadable : \E k \in 1..n : b[k].content = c
    BY <1>3, <2>2, <2>5
  <2>9. \A k \in 1..n : b[k].content \in Asked \cup {Nothing} /\ offset + k - 1 < offset + QuerySize
    BY <1>2, <2>2, <2>5
  <2>10. offset < Total /\ onServer = All => n > 0
    BY <1>2, <1>3
  <2> HIDE DEF n
  <2> QED
    BY <1>5, <2>3, <2>4, <2>5, <2>6, <2>7, <2>8, <2>9, <2>10
<1> QED
  BY <1>1, <1>4, <1>5

(* A batch continues the sequence of the items.                             *)
LEMMA BatchKeepsItems ==
  IteratorInv /\ DownloadBatch =>
    /\ IteratorTypeOK' /\ DeliveredInv'
    /\ byName \/ onServer = All => cachedContacts' # <<>>
<1> SUFFICES ASSUME IteratorInv, DownloadBatch
             PROVE  /\ IteratorTypeOK' /\ DeliveredInv'
                    /\ byName \/ onServer = All => cachedContacts' # <<>>
  OBVIOUS
<1> USE DEF IteratorInv
<1>t. /\ offset \in Nat /\ onServer \subseteq All /\ Total \in Nat /\ QuerySize \in Nat \ {0}
      /\ returned \in Seq(Item) /\ cachedContacts \in Seq(Item) /\ IteratorTypeOK /\ DeliveredInv
      /\ offset < Total
  BY DAVIteratorAssumption DEF IteratorTypeOK, IteratorStatusInv, DownloadBatch
<1>0. PICK answer \in Answers : cachedContacts' = cachedContacts \o Batch(answer)
  BY DEF DownloadBatch
<1> DEFINE b == Batch(answer)
           old == Delivered
           n == Len(old)
<1>1. /\ cachedContacts' = cachedContacts \o b /\ offset' = offset + QuerySize /\ tpc' = "loop"
      /\ UNCHANGED <<byName, transferStatus, cancelled, returned, onServer>>
      /\ npc' = IF npc = "waiting" THEN "woken" ELSE npc
  BY <1>0 DEF DownloadBatch, Signal
<1>2. /\ b \in Seq(Item) /\ Len(b) \in Nat
      /\ byName \/ onServer = All => Len(b) > 0
      /\ \A k \in 1..Len(b) :
           /\ b[k].id = offset + k - 1 /\ offset + k - 1 < offset + QuerySize
           /\ b[k].content \in Asked \cup {Nothing} /\ Placed(b[k])
      /\ \A j, k \in 1..Len(b) : j < k /\ b[j].content = b[k].content => b[j].content = Nothing
      /\ \A c \in (onServer \cap Asked) \ Unreadable : \E k \in 1..Len(b) : b[k].content = c
  BY <1>t, DownloadFacts
<1> HIDE DEF b
<1>3. cachedContacts' \in Seq(Item) /\ old \in Seq(Item) /\ Delivered' = old \o b
  <2> HIDE DEF Item
  <2>1. cachedContacts' \in Seq(Item) /\ old \in Seq(Item)
    BY <1>t, <1>1, <1>2, ConcatProperties DEF Delivered
  <2>2. Delivered' = returned \o (cachedContacts \o b)
    BY <1>1 DEF Delivered
  <2>3. returned \o (cachedContacts \o b) = (returned \o cachedContacts) \o b
    <3>1. returned \in Seq(Item) /\ cachedContacts \in Seq(Item) /\ b \in Seq(Item)
      BY <1>t, <1>2
    <3> QED
      BY <3>1, ConcatAssociative, SMTT(30)
  <2> QED
    BY <2>1, <2>2, <2>3 DEF Delivered
<1>c. byName \/ onServer = All => cachedContacts' # <<>>
  <2>1. Len(cachedContacts \o b) = Len(cachedContacts) + Len(b) /\ Len(cachedContacts) \in Nat
    BY <1>t, <1>2, ConcatProperties
  <2> QED
    BY <1>1, <1>2, <2>1
<1> HIDE DEF old
<1>4. /\ n \in Nat /\ DOMAIN old = 1..n /\ DOMAIN Delivered' = 1..n + Len(b)
      /\ \A i \in 1..n : Delivered'[i] = old[i]
      /\ \A k \in 1..Len(b) : Delivered'[n + k] = b[k]
  <2>1. /\ n \in Nat /\ DOMAIN old = 1..n
    BY <1>3
  <2>2. /\ Delivered' \in Seq(Item) /\ Len(Delivered') = n + Len(b)
        /\ \A i \in 1..n + Len(b) : Delivered'[i] = IF i <= n THEN old[i] ELSE b[i - n]
    BY <1>2, <1>3, ConcatProperties
  <2>3. \A k \in 1..Len(b) : (n + k) - n = k /\ n + k \in 1..n + Len(b) /\ ~(n + k <= n)
    BY <1>2, <2>1
  <2> QED
    BY <1>2, <2>1, <2>2, <2>3
<1> HIDE DEF n
<1>s. ASSUME NEW i \in 1..n + Len(b)
      PROVE  i \in 1..n \/ \E k \in 1..Len(b) : i = n + k
  <2>1. i \notin 1..n => i - n \in 1..Len(b) /\ i = n + (i - n)
    BY <1>2, <1>4
  <2> QED
    BY <2>1
<1>a. \A k \in 1..Len(b) : b[k].content # Nothing =>
        b[k].content \in Int /\ offset <= b[k].content /\ b[k].content < offset + QuerySize
  BY <1>t, <1>2, AskedFacts
<1>n. Nothing = -1
  BY DEF Nothing
<1>b. \A i \in 1..n : /\ old[i].content \in Int /\ old[i].content < offset
                      /\ old[i].id \in Int /\ old[i].id < offset
  <2>1. \A i \in 1..n : old[i] \in Item
    BY <1>3, <1>4
  <2>2. \A x \in Item : x.content \in Int /\ x.id \in Int
    BY <1>n DEF Item, All
  <2>3. \A i \in 1..n : old[i].content < offset /\ old[i].id < offset
    BY <1>t, <1>4 DEF DeliveredInv, old
  <2> QED
    BY <2>1, <2>2, <2>3
<1>5. IteratorTypeOK'
  <2>1. offset' \in 0..Total + QuerySize - 1
    BY <1>t, <1>1
  <2> QED
    BY <1>1, <1>3, <2>1 DEF IteratorTypeOK
<1>6. \A i, j \in DOMAIN Delivered' : i < j =>
        /\ Delivered'[i].id < Delivered'[j].id
        /\ Delivered'[i].content = Delivered'[j].content => Delivered'[i].content = Nothing
  <2> SUFFICES ASSUME NEW i \in 1..n + Len(b), NEW j \in 1..n + Len(b), i < j
               PROVE  /\ Delivered'[i].id < Delivered'[j].id
                      /\ Delivered'[i].content = Delivered'[j].content => Delivered'[i].content = Nothing
    BY <1>4
  <2>1. CASE i \in 1..n /\ j \in 1..n
    <3>1. \A k, l \in 1..n : k < l =>
            /\ old[k].id < old[l].id
            /\ old[k].content = old[l].content => old[k].content = Nothing
      BY <1>t, <1>4 DEF DeliveredInv, old
    <3>2. Delivered'[i] = old[i] /\ Delivered'[j] = old[j]
      BY <1>4, <2>1
    <3> QED
      BY <2>1, <3>1, <3>2
  <2>2. CASE i \in 1..n /\ \E k \in 1..Len(b) : j = n + k
    <3>1. PICK k \in 1..Len(b) : j = n + k
      BY <2>2
    <3>2. Delivered'[i] = old[i] /\ Delivered'[j] = b[k]
      BY <1>4, <2>2, <3>1
    <3>3. old[i].content \in Int /\ old[i].content < offset /\ old[i].id \in Int /\ old[i].id < offset
      BY <1>b, <2>2
    <3>4. offset <= b[k].id /\ b[k].id \in Int
      BY <1>t, <1>2
    <3>5. b[k].content # Nothing => b[k].content \in Int /\ offset <= b[k].content
      BY <1>a
    <3> QED
      BY <1>t, <3>2, <3>3, <3>4, <3>5
  <2>3. CASE \E k \in 1..Len(b) : i = n + k
    <3>1. PICK k \in 1..Len(b) : i = n + k
      BY <2>3
    <3>2. PICK l \in 1..Len(b) : j = n + l
      BY <1>s, <1>4, <3>1
    <3>3. k < l
      BY <1>4, <3>1, <3>2
    <3>4. Delivered'[i] = b[k] /\ Delivered'[j] = b[l]
      BY <1>4, <3>1, <3>2
    <3>5. b[k].id < b[l].id
      BY <1>t, <1>2, <3>3
    <3> QED
      BY <1>2, <3>3, <3>4, <3>5
  <2> QED
    BY <1>s, <2>1, <2>2, <2>3
<1>7. \A i \in DOMAIN Delivered' : Delivered'[i].id < offset' /\ Delivered'[i].content < offset'
  <2> SUFFICES ASSUME NEW i \in 1..n + Len(b)
               PROVE  Delivered'[i].id < offset + QuerySize /\ Delivered'[i].content < offset + QuerySize
    BY <1>1, <1>4
  <2>1. CASE i \in 1..n
    BY <1>t, <1>4, <1>b, <2>1
  <2>2. CASE \E k \in 1..Len(b) : i = n + k
    <3>1. PICK k \in 1..Len(b) : i = n + k
      BY <2>2
    <3>2. b[k].id < offset + QuerySize /\ b[k].content < offset + QuerySize
      BY <1>t, <1>2, <1>a, <1>n
    <3> QED
      BY <1>4, <3>1, <3>2
  <2> QED
    BY <1>s, <2>1, <2>2
<1>8. \A i \in DOMAIN Delivered' : Placed(Delivered[i])'
  <2> SUFFICES ASSUME NEW i \in 1..n + Len(b) PROVE Placed(Delivered'[i])
    BY <1>1, <1>4 DEF Placed
  <2>1. CASE i \in 1..n
    BY <1>t, <1>4, <2>1 DEF DeliveredInv, old
  <2>2. CASE \E k \in 1..Len(b) : i = n + k
    BY <1>2, <1>4, <2>2
  <2> QED
    BY <1>s, <2>1, <2>2
<1>9. \A c \in onServer' \ Unreadable : c < offset' => \E i \in DOMAIN Delivered' : Delivered'[i].content = c
  <2> SUFFICES ASSUME NEW c \in onServer \ Unreadable, c < offset + QuerySize
               PROVE  \E i \in 1..n + Len(b) : Delivered'[i].content = c
    BY <1>1, <1>4
  <2>0. c \in Int /\ c \in All
    BY <1>t DEF All
  <2>1. CASE c < offset
    <3>1. PICK i \in 1..n : old[i].content = c
      BY <1>t, <1>4, <2>1 DEF DeliveredInv, old
    <3>2. i \in 1..n + Len(b) /\ Delivered'[i].content = c
      BY <1>2, <1>4, <3>1
    <3> QED
      BY <3>2
  <2>2. CASE offset <= c
    <3>1. c \in Asked
      BY <1>t, <2>0, <2>2, AskedFacts
    <3>2. PICK k \in 1..Len(b) : b[k].content = c
      BY <1>2, <3>1
    <3>3. n + k \in 1..n + Len(b) /\ Delivered'[n + k].content = c
      BY <1>2, <1>4, <3>2, SMTT(30)
    <3> QED
      BY <3>3
  <2> QED
    BY <1>t, <2>0, <2>1, <2>2
<1> QED
  BY <1>5, <1>6, <1>7, <1>8, <1>9, <1>c DEF DeliveredInv

-----------------------------------------------------------------------------
(* cursorInit() leaves an iterator that has handed out nothing.            *)
LEMMA IteratorInitEstablishes == IteratorInit => IteratorInv
<1> SUFFICES ASSUME IteratorInit PROVE IteratorInv
  OBVIOUS
<1>1. IteratorTypeOK
  <2>1. offset \in 0..Total + QuerySize - 1
    BY DAVIteratorAssumption DEF IteratorInit
  <2>2. cachedContacts \in Seq(Item) /\ returned \in Seq(Item)
    BY DEF IteratorInit
  <2> QED
    BY <2>1, <2>2 DEF IteratorInit, IteratorTypeOK
<1>2. DeliveredInv
  <2>1. Delivered = <<>> /\ DOMAIN Delivered = {}
    BY DEF IteratorInit, Delivered
  <2>2. \A c \in onServer : ~(c < offset)
    BY DAVIteratorAssumption DEF IteratorInit, All
  <2> QED
    BY <2>1, <2>2 DEF DeliveredInv
<1>3. IteratorStatusInv /\ FrontIsSafe
  BY DEF IteratorInit, IteratorStatusInv, FrontIsSafe
<1> QED
  BY <1>1, <1>2, <1>3 DEF IteratorInv

(* The download thread keeps the invariant.                                *)
LEMMA ThreadPreserves == IteratorInv /\ DownloadThread => IteratorInv'
<1> SUFFICES ASSUME IteratorInv, DownloadThread PROVE IteratorInv'
  OBVIOUS
<1> USE DEF IteratorInv, threadVars
<1>1. CASE DownloadBatch
  <2>1. IteratorTypeOK' /\ DeliveredInv' /\ (byName \/ onServer = All => cachedContacts' # <<>>)
    BY <1>1, BatchKeepsItems
  <2>2. IteratorStatusInv' /\ FrontIsSafe'
    BY <1>1, <2>1 DEF DownloadBatch, Signal, IteratorStatusInv, FrontIsSafe
  <2> QED
    BY <2>1, <2>2
<1>2. CASE StartDownload \/ DownloadFails \/ NoticeCancel \/ SignalAndExit \/ Finish \/ LockDestroyed
  <2>1. IteratorTypeOK'
    BY <1>2 DEF IteratorTypeOK, StartDownload, DownloadFails, NoticeCancel, SignalAndExit, Finish, LockDestroyed, Signal
  <2>2. DeliveredInv'
    <3>1. UNCHANGED <<byName, offset, returned, cachedContacts, onServer>>
      BY <1>2 DEF StartDownload, DownloadFails, NoticeCancel, SignalAndExit, Finish, LockDestroyed
    <3> QED
      BY <3>1 DEF DeliveredInv, Delivered, Placed
  <2>3. IteratorStatusInv' /\ FrontIsSafe'
    <3>1. CASE DownloadFails
      BY <3>1 DEF IteratorStatusInv, FrontIsSafe, DownloadFails
    <3>2. CASE NoticeCancel
      BY <3>2 DEF IteratorStatusInv, FrontIsSafe, NoticeCancel
    <3>3. CASE SignalAndExit
      BY <3>3 DEF IteratorStatusInv, FrontIsSafe, SignalAndExit, Signal, IteratorTypeOK
    <3>4. CASE Finish
      BY <3>4 DEF IteratorStatusInv, FrontIsSafe, Finish, Signal, IteratorTypeOK
    <3>5. CASE StartDownload
      BY <3>5 DEF IteratorStatusInv, FrontIsSafe, StartDownload
    <3>6. CASE LockDestroyed
      BY <3>6 DEF IteratorStatusInv, FrontIsSafe, LockDestroyed
    <3> QED
      BY <1>2, <3>1, <3>2, <3>3, <3>4, <3>5, <3>6
  <2> QED
    BY <2>1, <2>2, <2>3
<1> QED
  BY <1>1, <1>2 DEF DownloadThread

(* next(), the destructor and other clients keep it.                       *)
LEMMA CallerPreserves == IteratorInv /\ (Caller \/ RemoveOnServer) => IteratorInv'
<1> SUFFICES ASSUME IteratorInv, Caller \/ RemoveOnServer PROVE IteratorInv'
  OBVIOUS
<1> USE DEF IteratorInv, threadVars
<1>1. ASSUME TakeItem, npc \in {"idle", "woken"},
             npc = "idle" => cachedContacts # <<>> \/ transferStatus = "End",
             UNCHANGED <<threadVars, transferStatus, cancelled, onServer>>
      PROVE  IteratorInv'
  <2>1. /\ returned' \in Seq(Item) /\ cachedContacts' \in Seq(Item)
        /\ Delivered' = Delivered
    <3>1. CASE UNCHANGED <<cachedContacts, returned>>
      BY <3>1 DEF IteratorTypeOK, Delivered
    <3>2. CASE /\ cachedContacts # <<>>
               /\ returned' = Append(returned, Head(cachedContacts))
               /\ cachedContacts' = Tail(cachedContacts)
      <4>1. returned \in Seq(Item) /\ cachedContacts \in Seq(Item)
        BY DEF IteratorTypeOK
      <4> HIDE DEF Item
      <4> QED
        BY <3>2, <4>1, HandOut DEF Delivered
    <3> QED
      BY <1>1, <3>1, <3>2 DEF TakeItem
  <2>2. IteratorTypeOK'
    BY <1>1, <2>1 DEF IteratorTypeOK, TakeItem
  <2>3. DeliveredInv'
    BY <1>1, <2>1 DEF DeliveredInv, Placed
  <2>4. IteratorStatusInv' /\ FrontIsSafe'
    BY <1>1 DEF IteratorStatusInv, FrontIsSafe, TakeItem
  <2> QED
    BY <2>2, <2>3, <2>4
<1>2. CASE CallNext
  <2>1. CASE cachedContacts = <<>> /\ transferStatus # "End"
    <3>1. npc' = "waiting" /\ UNCHANGED <<threadVars, transferStatus, cancelled, onServer, cachedContacts, returned>>
      BY <1>2, <2>1 DEF CallNext
    <3>2. npc = "idle"
      BY <1>2 DEF CallNext
    <3>3. IteratorTypeOK' /\ DeliveredInv'
      BY <3>1 DEF IteratorTypeOK, DeliveredInv, Delivered, Placed
    <3>4. IteratorStatusInv' /\ FrontIsSafe'
      BY <3>1, <3>2 DEF IteratorStatusInv, FrontIsSafe
    <3> QED
      BY <3>3, <3>4
  <2>2. CASE ~(cachedContacts = <<>> /\ transferStatus # "End")
    BY <1>1, <1>2, <2>2 DEF CallNext
  <2> QED
    BY <2>1, <2>2
<1>3. CASE WakeUp
  BY <1>1, <1>3 DEF WakeUp
<1>4. CASE Destroy \/ DestroyMutex \/ JoinThread
  <2>0. UNCHANGED <<byName, tpc, offset, cachedContacts, transferStatus, returned, onServer>>
    BY <1>4 DEF Destroy, DestroyMutex, JoinThread
  <2>1. IteratorTypeOK' /\ DeliveredInv'
    <3>1. IteratorTypeOK'
      BY <1>4, <2>0 DEF IteratorTypeOK, Destroy, DestroyMutex, JoinThread
    <3>2. DeliveredInv'
      BY <2>0 DEF DeliveredInv, Delivered, Placed
    <3> QED
      BY <3>1, <3>2
  <2>2. IteratorStatusInv' /\ FrontIsSafe'
    BY <1>4 DEF IteratorStatusInv, FrontIsSafe, Destroy, DestroyMutex, JoinThread
  <2> QED
    BY <2>1, <2>2
<1>5. CASE RemoveOnServer
  <2>1. /\ onServer' \subseteq onServer /\ onServer \subseteq All
        /\ onServer' = All => onServer = All
    BY <1>5 DEF RemoveOnServer, IteratorTypeOK
  <2>2. IteratorTypeOK' /\ Delivered' = Delivered
    BY <1>5, <2>1 DEF IteratorTypeOK, RemoveOnServer, Delivered
  <2>3. DeliveredInv'
    BY <1>5, <2>1, <2>2 DEF DeliveredInv, Placed, RemoveOnServer, threadVars
  <2>4. IteratorStatusInv' /\ FrontIsSafe'
    BY <1>5, <2>1 DEF IteratorStatusInv, FrontIsSafe, RemoveOnServer
  <2> QED
    BY <2>2, <2>3, <2>4
<1> QED
  BY <1>2, <1>3, <1>4, <1>5 DEF Caller

(* So does every step.                                                     *)
LEMMA IteratorStepPreserves == IteratorInv /\ [IteratorNext]_iteratorVars => IteratorInv'
<1> SUFFICES ASSUME IteratorInv, [IteratorNext]_iteratorVars PROVE IteratorInv'
  OBVIOUS
<1>1. CASE UNCHANGED iteratorVars
  BY <1>1 DEF iteratorVars, threadVars, IteratorInv, IteratorTypeOK, DeliveredInv, Delivered, Placed, IteratorStatusInv, FrontIsSafe
<1> QED
  BY <1>1, ThreadPreserves, CallerPreserves DEF IteratorNext

(* The iterator's invariant, for any number of items and any batch size.   *)
LEMMA IteratorInvHolds == IteratorSpec => []IteratorInv
  BY IteratorInitEstablishes, IteratorStepPreserves, PTL DEF IteratorSpec

-----------------------------------------------------------------------------
(* The types: a batch never gives an item an id beyond those of the query. *)
THEOREM IteratorTypes == IteratorSpec => []IteratorTypeOK
<1>1. IteratorInv => IteratorTypeOK
  BY DEF IteratorInv
<1> QED
  BY <1>1, IteratorInvHolds, PTL

(* Ids are handed out in the order of the query and no content twice; an   *)
(* event has its own id, a contact that of an item of the same request,    *)
(* whatever vanishes from the server and in whatever order it answers.     *)
THEOREM ItemsInOrder == IteratorSpec => []InOrder
<1>1. IteratorInv => InOrder
  BY DEF IteratorInv, InOrder, DeliveredInv, Delivered, Placed
<1> QED
  BY <1>1, IteratorInvHolds, PTL

(* When next() returns NULL without an error, every item still on the      *)
(* server that can be read was handed out.                                 *)
THEOREM NullIsTheEnd == IteratorSpec => []NullMeansOver
<1>1. ASSUME IteratorInv PROVE NullMeansOver
  <2> SUFFICES ASSUME npc = "null", transferStatus # "Error", NEW c \in onServer \ Unreadable
               PROVE  \E k \in DOMAIN returned : returned[k].content = c
    BY DEF NullMeansOver
  <2> USE <1>1 DEF IteratorInv
  <2>1. cachedContacts = <<>> /\ offset >= Total
    BY DEF IteratorStatusInv
  <2>2. returned \in Seq(Item) /\ Delivered = returned
    <3>1. returned \in Seq(Item)
      BY DEF IteratorTypeOK
    <3> HIDE DEF Item
    <3> QED
      BY <2>1, <3>1, ConcatEmptySeq DEF Delivered
  <2>3. c < offset
    BY <2>1, DAVIteratorAssumption DEF IteratorTypeOK, All
  <2> QED
    BY <2>2, <2>3 DEF DeliveredInv
<1> QED
  BY <1>1, IteratorInvHolds, PTL

(* Of a calendar, and of an intact address book, front() is never called on*)
(* an empty cache.                                                         *)
THEOREM FrontNeverEmpty == IteratorSpec => []FrontIsSafe
<1>1. IteratorInv => FrontIsSafe
  BY DEF IteratorInv
<1> QED
  BY <1>1, IteratorInvHolds, PTL

(* Once the end was seen the thread does not use the mutex any more: the   *)
(* iterator can be deleted.                                                *)
THEOREM EndIsLast == IteratorSpec => []DeleteAfterEnd
<1>1. IteratorInv => DeleteAfterEnd
  BY DEF IteratorInv, IteratorStatusInv, DeleteAfterEnd
<1> QED
  BY <1>1, IteratorInvHolds, PTL
=============================================================================
