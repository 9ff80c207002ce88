--------------------------- MODULE EDSStorageProofs ---------------------------
(***************************************************************************)
(* The storages of Evolution Data Server report what they write, report    *)
(* only revisions that were there, and their iterators hand out each item  *)
(* once and as a whole, for any number of items, of objects of an item and *)
(* of items in a batch, whatever other programs write meanwhile.           *)
(*                                                                         *)
(* The argument: during a write, answers and what is still asked for make  *)
(* up the batch (Writing); during getRevisions() every item of the         *)
(* beginning is in one of the two (Asking).  The contacts' pass is at the  *)
(* m-th item of the cursor's order: what was handed out and the static list*)
(* are the first m, and the cursor is behind them (ContactPassAt).  The    *)
(* calendar's pass has handed out m items, and its batch and the rest of   *)
(* the file are the objects of the others, item after item (ObjectPassAt). *)
(* Writes of other programs only append to the history.                    *)
(***************************************************************************)
EXTENDS EDSStorage, SharedFacts, SequenceTheorems, TLAPS

-----------------------------------------------------------------------------
(* The order of the cursor.                                                *)

\* In increasing order.
Increasing(s) == \A j, k \in DOMAIN s : j < k => s[j] < s[k]

(* Sorted(X) is X in increasing order, each number once.                   *)
LEMMA SortedFacts ==
  ASSUME NEW n \in Nat, NEW X \in SUBSET (0..n - 1)
  PROVE  /\ Cardinality(X) \in Nat
         /\ Sorted(X) \in [1..Cardinality(X) -> X]
         /\ Increasing(Sorted(X))
         /\ \A x \in X : \E k \in 1..Cardinality(X) : Sorted(X)[k] = x
<1> DEFINE m == Cardinality(X)
<1>1. /\ m \in Nat
      /\ \E s \in [1..m -> X] : \A j, k \in DOMAIN s : j < k => s[j] < s[k]
      /\ \A s \in [1..m -> X] :
           (\A j, k \in DOMAIN s :
              j < k => s[j] < s[k]) => \A x \in X : \E k \in DOMAIN s : s[k] = x
  BY IncreasingEnumeration
<1> HIDE DEF m
<1>2. Sorted(X) \in [1..m -> X] /\ Increasing(Sorted(X))
  BY <1>1 DEF Sorted, Increasing, m
<1>3. DOMAIN Sorted(X) = 1..m
  BY <1>2
<1> QED
  BY <1>1, <1>2, <1>3 DEF Increasing, m

(* There is no other increasing sequence of all numbers of X.              *)
LEMMA SortedUnique ==
  ASSUME NEW n \in Nat, NEW X \in SUBSET (0..n - 1), NEW m \in Nat, NEW s \in [1..m -> X],
         Increasing(s), \A x \in X : \E k \in 1..m : s[k] = x
  PROVE  m = Cardinality(X) /\ s = Sorted(X)
<1> DEFINE c == Cardinality(X)
           t == Sorted(X)
<1>1. c \in Nat /\ t \in [1..c -> X] /\ Increasing(t) /\ \A x \in X : \E k \in 1..c : t[k] = x
  BY SortedFacts
<1>2. \A x \in X : x \in Int
  OBVIOUS
<1>3. \A k \in 1..m : s[k] \in X /\ s[k] \in Int
  BY <1>2
<1>4. \A j, k \in 1..m : s[j] = s[k] => j = k
  BY <1>3 DEF Increasing
<1>5. m = c
  <2>1. s \in Bijection(1..m, X)
    BY <1>4 DEF Bijection, Injection, Surjection, IsInjective
  <2>2. ExistsBijection(1..m, X)
    BY <2>1 DEF ExistsBijection
  <2>3. IsFiniteSet(1..m) /\ Cardinality(1..m) = m
    BY FS_Interval
  <2> QED
    BY <2>2, <2>3, FS_Bijection
<1> HIDE DEF t, c
<1>6. \A k \in 1..m : t[k] \in X /\ t[k] \in Int
  BY <1>1, <1>2, <1>5
<1>u. \A j, k \in 1..m : k <= j => s[k] <= s[j] /\ t[k] <= t[j]
  <2>1. DOMAIN s = 1..m /\ DOMAIN t = 1..m
    BY <1>1, <1>5
  <2>2. \A j, k \in 1..m : k <= j => k = j \/ k < j
    OBVIOUS
  <2>3. \A j, k \in 1..m : k < j => s[k] < s[j] /\ t[k] < t[j]
    BY <1>1, <2>1 DEF Increasing
  <2> QED
    BY <1>3, <1>6, <2>2, <2>3
<1>7. \A k \in 1..m : s[k] = t[k]
  <2> DEFINE W == {k \in 1..m : s[k] # t[k]}
  <2> SUFFICES ASSUME W # {} PROVE FALSE
    OBVIOUS
  <2>1. W \subseteq Nat
    OBVIOUS
  <2>2. PICK k \in W : \A j \in W : k <= j
    <3> HIDE DEF W
    <3> QED
      BY <2>1, LeastNatural
  <2>3. k \in 1..m /\ s[k] # t[k] /\ \A j \in 1..m : j < k => s[j] = t[j]
    BY <2>2
  <2> HIDE DEF W
  <2>4. CASE s[k] < t[k]
    <3>1. PICK j \in 1..m : t[j] = s[k]
      BY <1>1, <1>3, <1>5, <2>3
    <3>2. ~(k <= j)
      BY <1>3, <1>6, <1>u, <2>3, <2>4, <3>1
    <3>3. s[j] = s[k] /\ j < k
      BY <2>3, <3>1, <3>2
    <3> QED
      BY <1>3, <2>3, <3>3 DEF Increasing
  <2>5. CASE t[k] < s[k]
    <3>1. PICK j \in 1..m : s[j] = t[k]
      BY <1>1, <1>6, <1>5, <2>3
    <3>2. ~(k <= j)
      BY <1>3, <1>6, <1>u, <2>3, <2>5, <3>1
    <3>3. t[j] = t[k] /\ j < k
      BY <2>3, <3>1, <3>2
    <3> QED
      BY <1>1, <1>5, <1>6, <2>3, <3>3 DEF Increasing
  <2> QED
    BY <1>3, <1>6, <2>3, <2>4, <2>5
<1>8. s = t
  BY <1>1, <1>5, <1>7
<1> QED
  BY <1>5, <1>8 DEF t, c

(* What stands after the m-th item, and how many stand up to it.           *)
LEMMA AfterFacts ==
  ASSUME NEW n \in Nat, NEW X \in SUBSET (0..n - 1), 0 \notin X, NEW m \in 0..Cardinality(X),
         NEW c, c = IF m = 0 THEN 0 ELSE Sorted(X)[m]
  PROVE  /\ Cardinality({i \in X : i > c}) = Cardinality(X) - m
         /\ Sorted({i \in X : i > c}) = [k \in 1..Cardinality(X) - m |-> Sorted(X)[m + k]]
         /\ Cardinality({i \in X : i <= c}) = m
<1> DEFINE N == Cardinality(X)
           s == Sorted(X)
           A == {i \in X : i > c}
           B == {i \in X : i <= c}
           a == [k \in 1..N - m |-> s[m + k]]
           b == [k \in 1..m |-> s[k]]
<1>1. N \in Nat /\ s \in [1..N -> X] /\ Increasing(s) /\ \A x \in X : \E k \in 1..N : s[k] = x
  BY SortedFacts
<1>2. \A x \in X : x \in Nat /\ x > 0
  OBVIOUS
<1>3. A \in SUBSET (0..n - 1) /\ B \in SUBSET (0..n - 1)
  OBVIOUS
<1>m. m \in 0..N
  OBVIOUS
<1>c. c = IF m = 0 THEN 0 ELSE s[m]
  OBVIOUS
<1>A. \A i : i \in A <=> i \in X /\ i > c
  OBVIOUS
<1>B. \A i : i \in B <=> i \in X /\ i <= c
  OBVIOUS
<1> HIDE DEF N, s, A, B
<1>4. \A j, k \in 1..N : j < k => s[j] < s[k]
  BY <1>1 DEF Increasing
<1>5. \A k \in 1..N : s[k] \in X /\ s[k] \in Nat /\ s[k] > 0
  BY <1>1, <1>2
<1>6. \A k \in 1..N : s[k] > c <=> k > m
  <2>1. CASE m = 0
    BY <1>5, <1>c, <2>1
  <2>2. CASE m # 0
    <3>1. m \in 1..N /\ c = s[m] /\ c \in Nat
      BY <1>1, <1>5, <1>c, <1>m, <2>2
    <3>2. \A k \in 1..N : k > m \/ k = m \/ k < m
      BY <3>1
    <3> QED
      BY <1>4, <1>5, <3>1, <3>2
  <2> QED
    BY <2>1, <2>2
<1>7. c \in Nat
  BY <1>1, <1>5, <1>c, <1>m
<1>8. N - m \in Nat /\ m \in Nat /\ \A k \in 1..N - m : m + k \in 1..N /\ m + k > m
  BY <1>1, <1>m
<1>9. a \in [1..N - m -> A]
  BY <1>1, <1>5, <1>6, <1>8, <1>A
<1>10. Increasing(a)
  BY <1>4, <1>8 DEF Increasing
<1>11. \A x \in A : \E k \in 1..N - m : a[k] = x
  <2> TAKE x \in A
  <2>1. PICK k \in 1..N : s[k] = x
    BY <1>1, <1>A
  <2>2. k - m \in 1..N - m /\ m + (k - m) = k
    BY <1>1, <1>6, <1>A, <1>m, <2>1
  <2> QED
    BY <2>1, <2>2
<1>12. b \in [1..m -> B]
  <2>1. \A k \in 1..m : k \in 1..N /\ ~(k > m)
    BY <1>1, <1>m
  <2> QED
    BY <1>1, <1>5, <1>6, <1>7, <2>1, <1>B
<1>13. Increasing(b)
  <2>1. \A k \in 1..m : k \in 1..N
    BY <1>1, <1>m
  <2> QED
    BY <1>4, <2>1 DEF Increasing
<1>14. \A x \in B : \E k \in 1..m : b[k] = x
  <2> TAKE x \in B
  <2>1. PICK k \in 1..N : s[k] = x
    BY <1>1, <1>B
  <2>2. k \in 1..m
    BY <1>1, <1>5, <1>6, <1>7, <1>B, <1>m, <2>1
  <2> QED
    BY <2>1, <2>2
<1> HIDE DEF a, b
<1>15. N - m = Cardinality(A) /\ a = Sorted(A)
  BY <1>3, <1>8, <1>9, <1>10, <1>11, SortedUnique
<1>16. m = Cardinality(B)
  BY <1>3, <1>8, <1>12, <1>13, <1>14, SortedUnique
<1> QED
  BY <1>15, <1>16 DEF A, B, N, a, s

-----------------------------------------------------------------------------
(* Sequences one after the other.                                          *)

\* Where each of n sequences ends, when the i-th has c[i] elements.
Offsets(off, n, c) ==
  /\ off \in [0..n -> Nat] /\ off[0] = 0
  /\ \A i \in 1..n : off[i] = off[i - 1] + c[i]

(* The offsets grow, and between two neighbours every place is taken.      *)
LEMMA OffsetFacts ==
  ASSUME NEW n \in Nat, NEW c \in [1..n -> Nat], NEW off, Offsets(off, n, c)
  PROVE  /\ \A i, j \in 0..n : i <= j => off[i] <= off[j]
         /\ \A p \in 1..off[n] : \E i \in 1..n : off[i - 1] < p /\ p <= off[i]
<1>0. off \in [0..n -> Nat] /\ off[0] = 0 /\ \A i \in 1..n : off[i] = off[i - 1] + c[i]
  BY DEF Offsets
<1>1. ASSUME NEW i \in 0..n PROVE \A j \in 0..n : i <= j => off[i] <= off[j]
  <2> DEFINE F == {d \in Nat : i + d <= n => off[i] <= off[i + d]}
  <2>1. 0 \in F
    BY <1>0
  <2>2. \A d \in Nat : d \in F => d + 1 \in F
    <3> SUFFICES ASSUME NEW d \in Nat, d \in F, i + (d + 1) <= n PROVE off[i] <= off[i + (d + 1)]
      OBVIOUS
    <3>1. i + (d + 1) \in 1..n /\ (i + (d + 1)) - 1 = i + d /\ i + d \in 0..n
      OBVIOUS
    <3>2. off[i + (d + 1)] = off[i + d] + c[i + (d + 1)] /\ c[i + (d + 1)] \in Nat
      BY <1>0, <3>1
    <3>3. off[i] <= off[i + d]
      BY <3>1
    <3>4. off[i] \in Nat /\ off[i + d] \in Nat
      BY <1>0, <3>1
    <3> QED
      BY <3>2, <3>3, <3>4
  <2> HIDE DEF F
  <2>3. Nat \subseteq F
    BY <2>1, <2>2, NatSetInduction
  <2> TAKE j \in 0..n
  <2> HAVE i <= j
  <2>4. j - i \in F /\ i + (j - i) = j
    BY <2>3
  <2> QED
    BY <2>4 DEF F
<1>2. ASSUME NEW p \in 1..off[n] PROVE \E i \in 1..n : off[i - 1] < p /\ p <= off[i]
  <2> DEFINE W == {i \in 0..n : p <= off[i]}
  <2>0. n \in 0..n /\ off[n] \in Nat /\ p <= off[n]
    BY <1>0
  <2>1. n \in W /\ W \subseteq Nat
    BY <2>0
  <2>2. PICK i \in W : \A j \in W : i <= j
    <3> HIDE DEF W
    <3> QED
      BY <2>1, LeastNatural
  <2>3. i \in 1..n
    BY <1>0, <2>2
  <2>4. i - 1 \in 0..n /\ i - 1 \notin W
    BY <2>2, <2>3
  <2> QED
    BY <1>0, <2>2, <2>3, <2>4
<1> QED
  BY <1>1, <1>2

(* Two sequences one after the other.                                      *)
LEMMA ConcatFacts ==
  ASSUME NEW S, NEW s \in Seq(S), NEW t \in Seq(S)
  PROVE  /\ s \o t \in Seq(S) /\ Len(s \o t) = Len(s) + Len(t) /\ Len(s) \in Nat /\ Len(t) \in Nat
         /\ \A k \in 1..Len(s) : (s \o t)[k] = s[k]
         /\ \A k \in 1..Len(t) : (s \o t)[Len(s) + k] = t[k]
<1>1. /\ s \o t \in Seq(S) /\ Len(s \o t) = Len(s) + Len(t)
      /\ \A i \in 1..Len(s) + Len(t) : (s \o t)[i] = IF i <= Len(s) THEN s[i] ELSE t[i - Len(s)]
  BY ConcatProperties
<1>2. Len(s) \in Nat /\ Len(t) \in Nat
  OBVIOUS
<1>3. \A k \in 1..Len(s) : k \in 1..Len(s) + Len(t) /\ k <= Len(s)
  BY <1>2
<1>4. \A k \in 1..Len(t) :
           Len(s) + k \in 1..Len(s) + Len(t) /\ ~(Len(s) + k <= Len(s)) /\ (Len(s) + k) - Len(s) = k
  BY <1>2
<1> QED
  BY <1>1, <1>2, <1>3, <1>4

\* f[i] is the first i sequences, one after the other.
Joined(S, s, f, off, i) ==
  /\ f[i] \in Seq(S) /\ Len(f[i]) = off[i - 1] + Len(s[i])
  /\ \A j \in 1..i : /\ off[j - 1] \in Nat /\ off[j - 1] + Len(s[j]) <= Len(f[i])
                     /\ \A k \in 1..Len(s[j]) : f[i][off[j - 1] + k] = s[j][k]

(* One sequence more is joined to those before it.                         *)
LEMMA JoinNext ==
  ASSUME NEW S, NEW n \in Nat, NEW s \in [1..n -> Seq(S)], NEW f, NEW off, NEW d \in 1..n - 1,
         Joined(S, s, f, off, d), off[d] = Len(f[d]), f[d + 1] = f[d] \o s[d + 1]
  PROVE  Joined(S, s, f, off, d + 1)
<1> DEFINE a == f[d]
           b == f[d + 1]
           c == s[d + 1]
<1>1. d + 1 \in 1..n /\ (d + 1) - 1 = d /\ \A j \in 1..d + 1 : j \in 1..d \/ j = d + 1
  OBVIOUS
<1>2. /\ a \in Seq(S) /\ c \in Seq(S) /\ b = a \o c /\ off[d] = Len(a)
      /\ \A j \in 1..d : Len(s[j]) \in Nat
  BY <1>1 DEF Joined
<1>3. \A j \in 1..d : /\ off[j - 1] \in Nat /\ off[j - 1] + Len(s[j]) <= Len(a)
                       /\ \A k \in 1..Len(s[j]) : a[off[j - 1] + k] = s[j][k]
  BY DEF Joined
<1> HIDE DEF a, b, c
<1>4. /\ b \in Seq(S) /\ Len(b) = Len(a) + Len(c) /\ Len(a) \in Nat /\ Len(c) \in Nat
      /\ \A k \in 1..Len(a) : b[k] = a[k]
      /\ \A k \in 1..Len(c) : b[Len(a) + k] = c[k]
  BY <1>2, ConcatFacts
<1>5. ASSUME NEW j \in 1..d
      PROVE  /\ off[j - 1] \in Nat /\ off[j - 1] + Len(s[j]) <= Len(b)
             /\ \A k \in 1..Len(s[j]) : b[off[j - 1] + k] = s[j][k]
  <2> DEFINE x == off[j - 1]
             y == Len(s[j])
             z == Len(a)
  <2>1. x \in Nat /\ y \in Nat /\ x + y <= z
    BY <1>2, <1>3
  <2>2. \A k \in 1..y : a[x + k] = s[j][k]
    BY <1>3
  <2>3. z \in Nat /\ z <= Len(b) /\ Len(b) \in Nat
    BY <1>4
  <2>4. \A k \in 1..z : b[k] = a[k]
    BY <1>4
  <2> HIDE DEF x, y, z
  <2>5. \A k \in 1..y : x + k \in 1..z
    BY <2>1, <2>3
  <2>6. \A k \in 1..y : b[x + k] = s[j][k]
    BY <2>2, <2>4, <2>5
  <2>7. x + y <= Len(b)
    BY <2>1, <2>3
  <2> QED
    BY <2>1, <2>6, <2>7 DEF x, y
<1>6. /\ off[d] \in Nat /\ off[d] + Len(c) <= Len(b)
      /\ \A k \in 1..Len(c) : b[off[d] + k] = c[k]
  <2>1. off[d] \in Nat /\ Len(b) = off[d] + Len(c) /\ Len(c) \in Nat
    BY <1>2, <1>4
  <2>2. \A k \in 1..Len(c) : b[off[d] + k] = c[k]
    BY <1>2, <1>4
  <2> QED
    BY <2>1, <2>2
<1>7. b \in Seq(S) /\ Len(b) = off[d] + Len(c)
  BY <1>2, <1>4
<1> QED
  BY <1>1, <1>5, <1>6, <1>7 DEF Joined, b, c

\* How long the sequences are.
Lengths(s) == [i \in DOMAIN s |-> Len(s[i])]
\* The first n sequences of s make q.
Placed(q, s, n, off) ==
  /\ Offsets(off, n, Lengths(s)) /\ Len(q) = off[n]
  /\ \A i \in 1..n : \A k \in 1..Len(s[i]) : q[off[i - 1] + k] = s[i][k]

(* FlattenSeq puts the sequences one after the other, each at its offset.  *)
LEMMA Flatten ==
  ASSUME NEW S, NEW n \in Nat, NEW s \in [1..n -> Seq(S)]
  PROVE  FlattenSeq(s) \in Seq(S) /\ \E off : Placed(FlattenSeq(s), s, n, off)
<1>1. CASE n = 0
  <2>1. s = <<>> /\ Len(s) = 0
    BY <1>1
  <2>2. FlattenSeq(s) = <<>>
    BY <2>1 DEF FlattenSeq
  <2>3. Offsets([i \in 0..0 |-> 0], 0, Lengths(s))
    BY <1>1 DEF Offsets, Lengths
  <2>4. Placed(<<>>, s, n, [i \in 0..0 |-> 0])
    BY <1>1, <2>3 DEF Placed
  <2> QED
    BY <2>2, <2>4
<1>2. CASE n # 0
  <2> DEFINE Joins(m, g) == g[1] = s[1] /\ \A i \in 2..m : g[i] = g[i - 1] \o s[i]
             Exists(m) == \E g \in [1..m -> Seq(S)] : Joins(m, g)
             E == {d \in Nat : d + 1 <= n => Exists(d + 1)}
  <2>1. 0 \in E
    <3>1. /\ [i \in 1..0 + 1 |-> s[1]] \in [1..0 + 1 -> Seq(S)]
          /\ Joins(0 + 1, [i \in 1..0 + 1 |-> s[1]])
      BY <1>2
    <3> QED
      BY <3>1
  <2>2. ASSUME NEW d \in Nat, d \in E PROVE d + 1 \in E
    <3> SUFFICES ASSUME (d + 1) + 1 <= n PROVE Exists((d + 1) + 1)
      <4> HIDE DEF Exists
      <4> QED
        OBVIOUS
    <3>0. Exists(d + 1)
      <4> HIDE DEF Exists
      <4> QED
        BY <2>2
    <3>1. PICK g \in [1..d + 1 -> Seq(S)] : Joins(d + 1, g)
      BY <3>0
    <3> DEFINE e == (d + 1) + 1
               h == [i \in 1..e |-> IF i = e THEN g[d + 1] \o s[e] ELSE g[i]]
    <3>2. g[d + 1] \in Seq(S) /\ s[e] \in Seq(S) /\ g[d + 1] \o s[e] \in Seq(S)
      OBVIOUS
    <3>3. h \in [1..e -> Seq(S)]
      BY <3>2
    <3>a. /\ 1 \in 1..e /\ 1 # e /\ e \in 1..e /\ d + 1 \in 1..e /\ d + 1 # e /\ 1 \in 1..d + 1
          /\ \A i \in 2..d + 1 : i \in 1..e /\ i # e /\ i - 1 \in 1..e /\ i - 1 # e
      OBVIOUS
    <3>4. h[1] = s[1] /\ h[e] = g[d + 1] \o s[e] /\ h[d + 1] = g[d + 1]
      BY <3>1, <3>a
    <3>5. \A i \in 2..d + 1 : h[i] = h[i - 1] \o s[i]
      <4>1. \A i \in 2..d + 1 : g[i] = g[i - 1] \o s[i]
        BY <3>1
      <4> HIDE DEF Joins
      <4> QED
        BY <3>a, <4>1
    <3>6. \A i \in 2..e : i \in 2..d + 1 \/ (i = e /\ i - 1 = d + 1)
      OBVIOUS
    <3> HIDE DEF h
    <3>7. \A i \in 2..e : h[i] = h[i - 1] \o s[i]
      BY <3>4, <3>5, <3>6
    <3> QED
      BY <3>3, <3>4, <3>7
  <2>3. Exists(n)
    <3> HIDE DEF Exists
    <3>1. Nat \subseteq E
      <4> HIDE DEF E
      <4> QED
        BY <2>1, <2>2, NatSetInduction
    <3>2. n - 1 \in Nat /\ (n - 1) + 1 = n /\ n <= n
      BY <1>2
    <3>3. \A d \in E : d + 1 <= n => Exists(d + 1)
      OBVIOUS
    <3> HIDE DEF E
    <3>4. Exists((n - 1) + 1)
      BY <3>1, <3>2, <3>3
    <3> QED
      BY <3>2, <3>4, Zenon
  <2>4. PICK g \in [1..n -> Seq(S)] : Joins(n, g)
    BY <2>3
  <2> DEFINE R(g2) == g2 = [i \in 1..n |-> IF i = 1 THEN s[i] ELSE g2[i - 1] \o s[i]]
             f == CHOOSE g2 : R(g2)
  <2>j. g[1] = s[1] /\ \A i \in 2..n : g[i] = g[i - 1] \o s[i]
    BY <2>4
  <2>k. /\ 1 \in 1..n /\ n \in 1..n /\ \A i \in 1..n : i = 1 \/ i \in 2..n
        /\ \A i \in 2..n : i \in 1..n /\ i # 1
    BY <1>2
  <2> HIDE DEF Joins
  <2>5. R(g)
    <3> DEFINE r == [i \in 1..n |-> IF i = 1 THEN s[i] ELSE g[i - 1] \o s[i]]
    <3>1. \A i \in 1..n : r[i] = g[i]
      BY <2>j, <2>k
    <3>2. /\ DOMAIN r = 1..n /\ DOMAIN g = 1..n /\ r = [i \in 1..n |-> r[i]]
          /\ g = [i \in 1..n |-> g[i]]
      OBVIOUS
    <3> HIDE DEF r
    <3>3. g = r
      BY <3>1, <3>2
    <3> QED
      BY <3>3 DEF r
  <2>6. R(f)
    BY <2>5
  <2>7. Len(s) = n /\ FlattenSeq(s) = f[n]
    <3>1. Len(s) = n /\ Len(s) # 0
      BY <1>2
    <3> QED
      BY <1>2, <3>1 DEF FlattenSeq
  <2> HIDE DEF f
  <2>8. f[1] = s[1] /\ \A i \in 2..n : f[i] = f[i - 1] \o s[i]
    <3> DEFINE r == [i \in 1..n |-> IF i = 1 THEN s[i] ELSE f[i - 1] \o s[i]]
    <3>1. f = r
      BY <2>6
    <3>2. r[1] = s[1] /\ \A i \in 2..n : r[i] = f[i - 1] \o s[i]
      BY <2>k
    <3> HIDE DEF r
    <3> QED
      BY <3>1, <3>2
  <2> HIDE DEF R, Joins, Exists, E
  <2> DEFINE off == [i \in 0..n |-> IF i = 0 THEN 0 ELSE Len(f[i])]
             P(i) == Joined(S, s, f, off, i)
             Q == {d \in Nat : d + 1 <= n => P(d + 1)}
  <2>9. 0 \in Q
    <3>1. /\ f[1] \in Seq(S) /\ f[1] = s[1] /\ off[1 - 1] = 0 /\ Len(s[1]) \in Nat
          /\ \A j \in 1..1 : j = 1
      BY <2>8, <2>k
    <3> HIDE DEF off
    <3>2. Joined(S, s, f, off, 1)
      BY <3>1 DEF Joined
    <3> QED
      BY <3>2
  <2>10. ASSUME NEW d \in Nat, d \in Q PROVE d + 1 \in Q
    <3> SUFFICES ASSUME (d + 1) + 1 <= n PROVE P((d + 1) + 1)
      <4> HIDE DEF P
      <4> QED
        OBVIOUS
    <3>0. P(d + 1)
      <4> HIDE DEF P
      <4> QED
        BY <2>10
    <3>1. /\ (d + 1) + 1 \in 2..n /\ ((d + 1) + 1) - 1 = d + 1 /\ d + 1 \in 1..n - 1
          /\ off[d + 1] = Len(f[d + 1])
      OBVIOUS
    <3> HIDE DEF off
    <3>2. f[(d + 1) + 1] = f[d + 1] \o s[(d + 1) + 1]
      BY <2>8, <3>1
    <3> QED
      BY <3>0, <3>1, <3>2, JoinNext
  <2>11. Nat \subseteq Q
    <3> HIDE DEF Q
    <3> QED
      BY <2>9, <2>10, NatSetInduction
  <2>12. ASSUME NEW i \in 1..n PROVE P(i)
    <3> HIDE DEF P
    <3>1. i - 1 \in Nat /\ (i - 1) + 1 = i /\ i <= n
      OBVIOUS
    <3>2. \A d \in Q : d + 1 <= n => P(d + 1)
      OBVIOUS
    <3> HIDE DEF Q
    <3>3. P((i - 1) + 1)
      BY <2>11, <3>1, <3>2
    <3> QED
      BY <3>1, <3>3, Zenon
  <2>13. Offsets(off, n, Lengths(s))
    <3>1. \A i \in 1..n : Len(f[i]) \in Nat
      BY <2>12
    <3>2. off \in [0..n -> Nat] /\ off[0] = 0
      BY <3>1
    <3>3. ASSUME NEW i \in 1..n PROVE off[i] = off[i - 1] + Len(s[i])
      <4>1. P(i)
        BY <2>12
      <4>2. off[i] = Len(f[i])
        OBVIOUS
      <4> HIDE DEF off
      <4> QED
        BY <4>1, <4>2 DEF Joined
    <3>4. \A i \in 1..n : Lengths(s)[i] = Len(s[i])
      BY DEF Lengths
    <3> HIDE DEF off
    <3> QED
      BY <3>2, <3>3, <3>4 DEF Offsets
  <2>14. n \in 1..n /\ P(n) /\ off[n] = Len(f[n])
    <3>1. n \in 1..n /\ n \in 0..n /\ n # 0
      BY <1>2
    <3>2. off[n] = Len(f[n])
      BY <3>1
    <3> HIDE DEF off, P
    <3> QED
      BY <2>12, <3>1, <3>2
  <2> HIDE DEF off
  <2>15. /\ f[n] \in Seq(S)
         /\ \A j \in 1..n : \A k \in 1..Len(s[j]) : f[n][off[j - 1] + k] = s[j][k]
    BY <2>14 DEF Joined
  <2>16. off[n] = Len(f[n])
    BY <2>14
  <2> HIDE DEF P
  <2>17. FlattenSeq(s) \in Seq(S) /\ Placed(FlattenSeq(s), s, n, off)
    BY <2>7, <2>13, <2>15, <2>16 DEF Placed
  <2> QED
    BY <2>17
<1> QED
  BY <1>1, <1>2

-----------------------------------------------------------------------------
(* The inductive invariant: types.                                         *)

\* The values of the variables.
Iters == {"iterate", "read"}
Ops == {"none", "init", "add", "modify", "remove", "get", "revisions"} \cup Iters
Steps == {"idle", "done", "send", "revision", "next", "move"}
Databases == UNION {[D -> Nat] : D \in SUBSET Items}
Results == [id : Items, rev : Seq(Nat)]
Objects == [uid : Items, stamp : Nat]
Calls == [op : Ops, step : Steps, ret : {"ok", "fail"}, batch : Seq(Items), sent : Seq(Items),
          args : Seq(Items) \cup Seq(Results), out : Seq(Results),
          single : BOOLEAN, start : Nat, at : Nat, fresh : BOOLEAN, failed : BOOLEAN]

\* A history: no write is older than the database that shows it.
History(h) ==
  /\ h \in Seq(Databases) /\ h # <<>>
  /\ \A n \in 1..Len(h) : \A i \in DOMAIN h[n] : h[n][i] \in 1..n

\* The running call.
CallType ==
  /\ call \in Calls
  /\ call.step = "move" => call.args \in Seq(Results)
  /\ call.step \in {"send", "revision"} => call.args \in Seq(Items)
  /\ call.step # "idle" => call.start \in 1..Clock

\* The iterators.
IterType ==
  /\ reader \in BOOLEAN
  /\ cursor \in [Iters -> 0..AtEnd] /\ total \in [Iters -> 0..Cardinality(Items)]
  /\ cont \in Seq(Results) /\ file \in Seq(Objects) /\ events \in Seq(Objects)

\* All of the state.
TypeInv ==
  /\ kind \in {"contacts", "event", "task"} /\ connected \in BOOLEAN
  /\ History(hist) /\ IterType /\ CallType

(* What the assumptions on the constants give.                             *)
LEMMA ItemFacts ==
  /\ Cardinality(Items) \in Nat /\ Items = 1..Cardinality(Items) /\ Items \subseteq Nat
  /\ SUBSET Items \subseteq SUBSET (0..(Cardinality(Items) + 1) - 1)
  /\ Cardinality(Items) + 1 \in Nat
  /\ AtEnd \in Nat /\ AtEnd = Cardinality(Items) + 1 /\ 0 \notin Items /\ AtEnd \notin Items
  /\ \A i \in Items : i \in 0..AtEnd /\ Parts[i] \in Nat /\ Parts[i] > 0
  /\ FetchContactsSize \in Nat /\ FetchContactsSize > 0 /\ FetchEventsSize \in Nat
  /\ FetchEventsSize > 0
<1>1. Cardinality(Items) \in Nat
  BY EDSAssumption, FS_CardinalityType
<1>2. Items = 1..Cardinality(Items)
  BY EDSAssumption
<1> DEFINE N == Cardinality(Items)
<1>3. N \in Nat /\ Items = 1..N
  BY <1>1, <1>2
<1> HIDE DEF N
<1>4. \A i \in Items : i \in Nat /\ i \in 0..N + 1 /\ i \in 0..(N + 1) - 1 /\ i # 0 /\ i # N + 1
  BY <1>3
<1>5. SUBSET Items \subseteq SUBSET (0..(N + 1) - 1)
  BY <1>4
<1>6. N + 1 \in Nat
  BY <1>3
<1> QED
  BY <1>3, <1>4, <1>5, <1>6, EDSAssumption DEF AtEnd, N

(* Each database of a history is one of items, with no write that is yet   *)
(* to come.                                                                *)
LEMMA HistoryFacts ==
  ASSUME History(hist)
  PROVE  /\ Clock \in Nat /\ Clock > 0 /\ Clock \in 1..Clock
         /\ \A n \in 1..Clock : /\ hist[n] \in Databases /\ DOMAIN hist[n] \subseteq Items
                               /\ \A i \in DOMAIN hist[n] : hist[n][i] \in 1..n
         /\ Now \in Databases /\ DOMAIN Now \subseteq Items /\ Now \in [DOMAIN Now -> Nat]
         /\ \A i \in DOMAIN Now : Now[i] \in 1..Clock
<1>1. hist \in Seq(Databases) /\ Len(hist) \in Nat /\ Len(hist) > 0
  BY DEF History
<1>2. ASSUME NEW n \in 1..Len(hist)
      PROVE  /\ hist[n] \in Databases /\ DOMAIN hist[n] \subseteq Items
             /\ \A i \in DOMAIN hist[n] : hist[n][i] \in 1..n
  <2>1. hist[n] \in Databases
    BY <1>1
  <2>2. PICK D \in SUBSET Items : hist[n] \in [D -> Nat]
    BY <2>1 DEF Databases
  <2> QED
    BY <2>1, <2>2 DEF History
<1>3. Len(hist) \in 1..Len(hist)
  BY <1>1
<1>4. ASSUME NEW d \in Databases PROVE d \in [DOMAIN d -> Nat]
  <2>1. PICK D \in SUBSET Items : d \in [D -> Nat]
    BY DEF Databases
  <2> QED
    BY <2>1
<1> QED
  BY <1>1, <1>2, <1>3, <1>4 DEF Clock, Now

(* A write makes a history from a history.                                 *)
LEMMA HistoryGrows ==
  ASSUME History(hist), NEW db \in Databases, \A i \in DOMAIN db : db[i] \in 1..Clock + 1
  PROVE  /\ History(Append(hist, db)) /\ Len(Append(hist, db)) = Clock + 1
         /\ \A n \in 1..Clock : Append(hist, db)[n] = hist[n]
         /\ Append(hist, db)[Clock + 1] = db
<1>1. hist \in Seq(Databases) /\ Clock = Len(hist) /\ Clock \in Nat
  BY HistoryFacts DEF History, Clock
<1> DEFINE h == Append(hist, db)
<1>2. /\ h \in Seq(Databases) /\ Len(h) = Clock + 1 /\ h[Clock + 1] = db
      /\ \A n \in 1..Clock : h[n] = hist[n]
  BY <1>1, AppendFacts
<1> HIDE DEF h
<1>3. h # <<>>
  BY <1>1, <1>2
<1>4. ASSUME NEW n \in 1..Len(h) PROVE \A i \in DOMAIN h[n] : h[n][i] \in 1..n
  <2>1. n \in 1..Clock \/ n = Clock + 1
    BY <1>1, <1>2
  <2>2. CASE n \in 1..Clock
    BY <1>2, <2>2, HistoryFacts
  <2>3. CASE n = Clock + 1
    BY <1>2, <2>3
  <2> QED
    BY <2>1, <2>2, <2>3
<1> QED
  BY <1>2, <1>3, <1>4 DEF History, h

(* What a write of the storage, or of another program, appends to the      *)
(* history.                                                                *)
LEMMA WriteFacts ==
  ASSUME History(hist), NEW is \in SUBSET Items
  PROVE  /\ History(Written(is)) /\ History(Dropped(is))
         /\ Len(Written(is)) = Clock + 1 /\ Len(Dropped(is)) = Clock + 1
         /\ \A n \in 1..Clock : Written(is)[n] = hist[n] /\ Dropped(is)[n] = hist[n]
         /\ Written(is)[Clock + 1] = [i \in DOMAIN Now \cup is |-> IF i \in is THEN Clock + 1 ELSE Now[i]]
         /\ Dropped(is)[Clock + 1] = [i \in DOMAIN Now \ is |-> Now[i]]
<1> DEFINE w == [i \in DOMAIN Now \cup is |-> IF i \in is THEN Clock + 1 ELSE Now[i]]
           d == [i \in DOMAIN Now \ is |-> Now[i]]
<1>1. /\ Clock \in Nat /\ DOMAIN Now \subseteq Items /\ \A i \in DOMAIN Now : Now[i] \in 1..Clock
  BY HistoryFacts
<1>2. \A i \in DOMAIN Now : Now[i] \in 1..Clock + 1 /\ Now[i] \in Nat
  BY <1>1
<1>3. w \in [DOMAIN Now \cup is -> Nat] /\ \A i \in DOMAIN w : w[i] \in 1..Clock + 1
  BY <1>1, <1>2
<1>4. d \in [DOMAIN Now \ is -> Nat] /\ \A i \in DOMAIN d : d[i] \in 1..Clock + 1
  BY <1>2
<1>5. w \in Databases /\ d \in Databases
  <2>1. DOMAIN Now \cup is \in SUBSET Items /\ DOMAIN Now \ is \in SUBSET Items
    BY <1>1
  <2> HIDE DEF w, d
  <2> QED
    BY <1>3, <1>4, <2>1 DEF Databases
<1>6. Written(is) = Append(hist, w) /\ Dropped(is) = Append(hist, d)
  BY DEF Written, Dropped
<1> HIDE DEF w, d
<1>7. /\ History(Append(hist, w)) /\ Len(Append(hist, w)) = Clock + 1
      /\ \A n \in 1..Clock : Append(hist, w)[n] = hist[n]
      /\ Append(hist, w)[Clock + 1] = w
  BY <1>3, <1>5, HistoryGrows
<1>8. /\ History(Append(hist, d)) /\ Len(Append(hist, d)) = Clock + 1
      /\ \A n \in 1..Clock : Append(hist, d)[n] = hist[n]
      /\ Append(hist, d)[Clock + 1] = d
  BY <1>4, <1>5, HistoryGrows
<1> QED
  BY <1>6, <1>7, <1>8 DEF w, d

(* A history of one database.                                              *)
LEMMA ForgottenFacts ==
  ASSUME NEW db \in Databases
  PROVE  History(Forgotten(db)) /\ Len(Forgotten(db)) = 1
<1> DEFINE d == [i \in DOMAIN db |-> 1]
<1>1. PICK D \in SUBSET Items : db \in [D -> Nat]
  BY DEF Databases
<1>2. d \in [D -> Nat] /\ \A i \in DOMAIN d : d[i] = 1
  BY <1>1
<1>3. Forgotten(db) = <<d>>
  BY DEF Forgotten
<1> HIDE DEF d
<1>4. d \in Databases
  BY <1>2 DEF Databases
<1>5. /\ <<d>> \in Seq(Databases) /\ Len(<<d>>) = 1 /\ <<d>> # <<>> /\ <<d>>[1] = d
      /\ \A n \in 1..Len(<<d>>) : n = 1
  BY <1>4
<1> QED
  BY <1>2, <1>3, <1>5 DEF History

-----------------------------------------------------------------------------
(* The calendar file.                                                      *)

\* How many objects the items after the m-th have.
Sizes(m, db) == [i \in 1..Cardinality(DOMAIN db) - m |-> Parts[Sorted(DOMAIN db)[m + i]]]

\* The objects of the items of db after the m-th, item after item.
Blocks(q, m, db) ==
  LET n == Cardinality(DOMAIN db) - m
      item(i) == Sorted(DOMAIN db)[m + i]
  IN  \E off : /\ Offsets(off, n, Sizes(m, db))
               /\ Len(q) = off[n]
               /\ \A i \in 1..n : \A k \in 1..Parts[item(i)] :
                    q[off[i - 1] + k] = [uid |-> item(i), stamp |-> db[item(i)]]

(* The order of the cursor, for any set of items.                          *)
LEMMA OrderFacts ==
  ASSUME NEW X, X \subseteq Items
  PROVE  /\ Cardinality(X) \in Nat
         /\ Sorted(X) \in [1..Cardinality(X) -> X] /\ Sorted(X) \in Seq(Items)
         /\ Len(Sorted(X)) = Cardinality(X)
         /\ \A k \in 1..Cardinality(X) : Sorted(X)[k] \in X /\ Sorted(X)[k] \in Items
         /\ Increasing(Sorted(X))
         /\ \A x \in X : \E k \in 1..Cardinality(X) : Sorted(X)[k] = x
<1>1. X \in SUBSET (0..(Cardinality(Items) + 1) - 1) /\ Cardinality(Items) + 1 \in Nat
  BY ItemFacts
<1> DEFINE m == Cardinality(X)
           s == Sorted(X)
<1>2. m \in Nat /\ s \in [1..m -> X] /\ Increasing(s) /\ \A x \in X : \E k \in 1..m : s[k] = x
  BY <1>1, SortedFacts
<1> HIDE DEF m, s
<1>3. s \in Seq(Items) /\ Len(s) = m
  BY <1>2
<1> QED
  BY <1>2, <1>3 DEF m, s

(* The calendar file holds the objects of every item, item after item.     *)
LEMMA VObjectsFacts ==
  ASSUME History(hist)
  PROVE  VObjects \in Seq(Objects) /\ Blocks(VObjects, 0, Now)
<1> DEFINE db == Now
           cnt == Cardinality(DOMAIN db)
           item == Sorted(DOMAIN db)
           seqs == [k \in 1..cnt |-> [j \in 1..Parts[item[k]] |-> [uid |-> item[k], stamp |-> db[item[k]]]]]
<1>1. /\ DOMAIN db \subseteq Items /\ \A i \in DOMAIN db : db[i] \in Nat
  BY HistoryFacts
<1>2. cnt \in Nat /\ \A k \in 1..cnt : item[k] \in DOMAIN db /\ item[k] \in Items
  BY <1>1, OrderFacts
<1>3. VObjects = FlattenSeq(seqs)
  BY DEF VObjects
<1> HIDE DEF db, cnt, item
<1>4. ASSUME NEW k \in 1..cnt
      PROVE  /\ Parts[item[k]] \in Nat
             /\ seqs[k] \in Seq(Objects) /\ Len(seqs[k]) = Parts[item[k]]
             /\ \A j \in 1..Parts[item[k]] : seqs[k][j] = [uid |-> item[k], stamp |-> db[item[k]]]
  <2>1. Parts[item[k]] \in Nat /\ item[k] \in Items /\ db[item[k]] \in Nat
    BY <1>1, <1>2, ItemFacts
  <2>2. [uid |-> item[k], stamp |-> db[item[k]]] \in Objects
    BY <2>1 DEF Objects
  <2>3. seqs[k] = [j \in 1..Parts[item[k]] |-> [uid |-> item[k], stamp |-> db[item[k]]]]
    OBVIOUS
  <2> HIDE DEF seqs
  <2> QED
    BY <2>1, <2>2, <2>3
<1>5. seqs \in [1..cnt -> Seq(Objects)]
  <2>1. DOMAIN seqs = 1..cnt /\ seqs = [k \in 1..cnt |-> seqs[k]]
    OBVIOUS
  <2> HIDE DEF seqs
  <2> QED
    BY <1>4, <2>1
<1> HIDE DEF seqs
<1>6. FlattenSeq(seqs) \in Seq(Objects) /\ \E off : Placed(FlattenSeq(seqs), seqs, cnt, off)
  BY <1>2, <1>5, Flatten
<1>p. PICK off : Placed(FlattenSeq(seqs), seqs, cnt, off)
  BY <1>6
<1>q. /\ Offsets(off, cnt, Lengths(seqs)) /\ Len(FlattenSeq(seqs)) = off[cnt]
      /\ \A i \in 1..cnt : \A k \in 1..Len(seqs[i]) : FlattenSeq(seqs)[off[i - 1] + k] = seqs[i][k]
  BY <1>p DEF Placed
<1>7. Lengths(seqs) = Sizes(0, db)
  <2>1. DOMAIN seqs = 1..cnt /\ cnt - 0 = cnt
    BY <1>2, <1>5
  <2>2. \A i \in 1..cnt : 0 + i = i
    BY <1>2
  <2>3. \A i \in 1..cnt : Len(seqs[i]) = Parts[item[0 + i]]
    BY <1>4, <2>2
  <2>4. Sizes(0, db) = [i \in 1..cnt |-> Parts[item[0 + i]]]
    BY <2>1 DEF Sizes, cnt, item
  <2> QED
    BY <2>1, <2>3, <2>4 DEF Lengths
<1>8. cnt - 0 = cnt /\ \A i \in 1..cnt : 0 + i = i
  BY <1>2
<1>9. \A i \in 1..cnt : \A k \in 1..Parts[item[i]] :
        FlattenSeq(seqs)[off[i - 1] + k] = [uid |-> item[i], stamp |-> db[item[i]]]
  BY <1>4, <1>q
<1>10. \E o : /\ Offsets(o, cnt, Sizes(0, db))
              /\ Len(VObjects) = o[cnt]
              /\ \A i \in 1..cnt : \A k \in 1..Parts[item[0 + i]] :
                   VObjects[o[i - 1] + k] = [uid |-> item[0 + i], stamp |-> db[item[0 + i]]]
  <2>1. \A i \in 1..cnt : \A k \in 1..Parts[item[0 + i]] :
          VObjects[off[i - 1] + k] = [uid |-> item[0 + i], stamp |-> db[item[0 + i]]]
    BY <1>3, <1>8, <1>9
  <2>2. Offsets(off, cnt, Sizes(0, db))
    BY <1>7, <1>q
  <2> QED
    BY <1>3, <1>q, <2>1, <2>2
<1>11. Blocks(VObjects, 0, db)
  BY <1>8, <1>10 DEF Blocks, cnt, item
<1> QED
  BY <1>3, <1>6, <1>11 DEF db

-----------------------------------------------------------------------------
(* Each action keeps the types.                                            *)

(* The types of what the actions read.                                     *)
LEMMA CallFacts ==
  ASSUME TypeInv
  PROVE  /\ History(hist) /\ IterType /\ CallType /\ call \in Calls
         /\ kind \in {"contacts", "event", "task"} /\ connected \in BOOLEAN
         /\ Clock \in Nat /\ Clock \in 1..Clock
         /\ call.op \in Ops /\ call.step \in Steps
         /\ call.batch \in Seq(Items) /\ call.sent \in Seq(Items)
         /\ call.out \in Seq(Results)
         /\ call.start \in Nat /\ call.at \in Nat
  BY HistoryFacts DEF TypeInv, CallType, Calls

\* A call that has just begun.
Fresh(c, op, step) ==
  /\ c \in Calls /\ c.op = op /\ c.step = step /\ c.ret = "ok" /\ c.batch = <<>> /\ c.sent = <<>>
  /\ c.args = <<>>
  /\ c.out = <<>> /\ c.single = FALSE /\ c.start = Clock /\ c.at = 0 /\ c.fresh = TRUE
  /\ c.failed = FALSE

(* A call that begins has these fields.                                    *)
LEMMA BeginType ==
  ASSUME TypeInv, NEW op \in Ops, NEW step \in Steps
  PROVE  Fresh(Begin(op, step), op, step)
<1>1. Clock \in Nat
  BY CallFacts
<1>2. <<>> \in Seq(Items) /\ <<>> \in Seq(Results)
  OBVIOUS
<1> QED
  BY <1>1, <1>2 DEF Begin, NoCall, Fresh, Calls

(* A revision of an item that is there is not empty.                       *)
LEMMA StampsType ==
  ASSUME TypeInv, NEW i \in DOMAIN Now
  PROVE  /\ Stamps(i) \in Seq(Nat) /\ Stamps(i) # <<>> /\ Len(Stamps(i)) = SizeOf(i)
         /\ Result(i, Stamps(i)) \in Results
         /\ <<Now[i]>> \in Seq(Nat) /\ Result(i, <<Now[i]>>) \in Results /\ i \in Items
<1>1. i \in Items /\ Now[i] \in Nat
  BY CallFacts, HistoryFacts
<1>2. SizeOf(i) \in Nat /\ SizeOf(i) > 0
  BY <1>1, ItemFacts DEF SizeOf
<1>3. Stamps(i) = [k \in 1..SizeOf(i) |-> Now[i]]
  BY DEF Stamps
<1>4. Stamps(i) \in Seq(Nat) /\ Len(Stamps(i)) = SizeOf(i) /\ Stamps(i) # <<>>
  BY <1>1, <1>2, <1>3
<1> QED
  BY <1>1, <1>4 DEF Result, Results

(* init() keeps the types.                                                 *)
LEMMA InitType ==
  ASSUME TypeInv, InitContacts \/ InitCalendar
  PROVE  TypeInv'
<1>1. Connects /\ UNCHANGED <<kind, hist, iterVars>>
  BY DEF InitContacts, InitCalendar
<1>2. connected' \in BOOLEAN
  BY <1>1, CallFacts DEF Connects
<1>3. call' \in {[Begin("init", "done") EXCEPT !.ret = "ok"], [Begin("init", "done") EXCEPT !.ret = "fail"]}
  BY <1>1 DEF Connects
<1>4. Fresh(Begin("init", "done"), "init", "done")
  BY BeginType DEF Ops, Steps
<1>5. CallType'
  <2>1. call' \in Calls
    BY <1>3, <1>4 DEF Calls, Fresh
  <2>2. call'.step = "done" /\ call'.start = Clock
    BY <1>3, <1>4 DEF Calls, Fresh
  <2>3. Clock' = Clock /\ Clock \in 1..Clock
    BY <1>1, CallFacts DEF Clock
  <2> QED
    BY <2>1, <2>2, <2>3 DEF CallType
<1> QED
  BY <1>1, <1>2, <1>5 DEF TypeInv, IterType, iterVars, History

(* A batch consists of items, none twice.                                  *)
LEMMA BatchFacts ==
  ASSUME NEW is \in Batches(Items)
  PROVE  /\ is \in Seq(Items) /\ ToSet(is) \subseteq Items /\ IsInjective(is) /\ is # <<>>
         /\ Len(is) \in Nat /\ DOMAIN is = 1..Len(is)
<1>1. PICK n \in 1..MaxBatch : is \in [1..n -> Items]
  BY DEF Batches
<1>2. IsInjective(is)
  BY DEF Batches
<1>3. n \in Nat /\ n > 0 /\ DOMAIN is = 1..n
  BY <1>1, EDSAssumption
<1>4. \A k \in 1..n : is[k] \in Items
  BY <1>1, <1>3
<1>5. is \in Seq(Items) /\ Len(is) = n /\ is # <<>>
  BY <1>1, <1>3
<1> QED
  BY <1>2, <1>3, <1>4, <1>5 DEF ToSet

(* So does the part of it that has objects to send                         *)
(* (toICalComponentsList()).                                               *)
LEMMA AtFacts ==
  ASSUME NEW is \in Batches(Items), NEW K \in SUBSET DOMAIN is
  PROVE  At(is, K) \in Seq(Items) /\ ToSet(At(is, K)) \subseteq Items /\ IsInjective(At(is, K))
<1> DEFINE c == Cardinality(K)
           w == Sorted(K)
           q == At(is, K)
<1>1. /\ is \in Seq(Items) /\ Len(is) \in Nat /\ DOMAIN is = 1..Len(is)
      /\ \A j, k \in DOMAIN is : is[j] = is[k] => j = k
  BY BatchFacts DEF IsInjective
<1>2. K \in SUBSET (0..(Len(is) + 1) - 1) /\ Len(is) + 1 \in Nat
  BY <1>1
<1>3. c \in Nat /\ w \in [1..c -> K] /\ Increasing(w)
  BY <1>2, SortedFacts
<1>4. q = [n \in 1..c |-> is[w[n]]]
  BY DEF At
<1> HIDE DEF c, w, q
<1>5. \A n \in 1..c : w[n] \in DOMAIN is /\ is[w[n]] \in Items
  BY <1>1, <1>3
<1>6. q \in [1..c -> Items]
  BY <1>4, <1>5
<1>7. \A n \in 1..c : w[n] \in Int
  BY <1>1, <1>5
<1>8. ASSUME NEW j \in 1..c, NEW k \in 1..c, q[j] = q[k] PROVE j = k
  <2>1. w[j] = w[k]
    BY <1>1, <1>4, <1>5, <1>8
  <2>2. ~(j < k) /\ ~(k < j)
    BY <1>3, <1>7, <2>1 DEF Increasing
  <2> QED
    BY <1>3, <2>2
<1>9. q \in Seq(Items) /\ DOMAIN q = 1..c
  BY <1>3, <1>6
<1>10. IsInjective(q)
  BY <1>8, <1>9 DEF IsInjective
<1>11. ToSet(q) \subseteq Items
  BY <1>6, <1>9 DEF ToSet
<1> QED
  BY <1>9, <1>10, <1>11 DEF q

\* How a call on items may begin.
Starts(op, is, sent, single) ==
  /\ is \in Seq(Items) /\ is # <<>>
  /\ sent \in Seq(Items) /\ IsInjective(sent) /\ ToSet(sent) \subseteq Items
  /\ single \in BOOLEAN
  /\ call' = IF sent = <<>>
             THEN [Begin(op, "done") EXCEPT !.ret = "fail"]
             ELSE [Begin(op, "send") EXCEPT !.batch = is, !.sent = sent, !.args = is, !.single = single]
  /\ UNCHANGED <<kind, hist, connected, iterVars>>

(* What a call on items begins with.                                       *)
LEMMA StartFacts ==
  ASSUME NEW op, StartContacts(op) \/ StartObjects(op)
  PROVE  \E is, sent, single : Starts(op, is, sent, single)
<1>1. PICK is, sent :
        /\ is \in Batches(Items)
        /\ Start(op, is, sent)
        /\ sent = is \/ sent = <<>> \/ \E found \in SUBSET DOMAIN is : sent = At(is, found)
  BY DEF StartContacts, StartObjects
<1>2. is \in Seq(Items) /\ ToSet(is) \subseteq Items /\ IsInjective(is) /\ is # <<>>
  BY <1>1, BatchFacts
<1>3. sent \in Seq(Items) /\ IsInjective(sent) /\ ToSet(sent) \subseteq Items
  <2>1. CASE sent = <<>>
    BY <2>1 DEF IsInjective, ToSet
  <2>2. CASE \E found \in SUBSET DOMAIN is : sent = At(is, found)
    BY <1>1, <2>2, AtFacts
  <2> QED
    BY <1>1, <1>2, <2>1, <2>2
<1> QED
  BY <1>1, <1>2, <1>3 DEF Start, Starts

(* The beginning of a call on items keeps the types.                       *)
LEMMA StartType ==
  ASSUME TypeInv, NEW op \in {"add", "modify", "remove", "get"}, NEW is, NEW sent, NEW single,
         Starts(op, is, sent, single)
  PROVE  TypeInv'
<1>1. /\ is \in Seq(Items) /\ sent \in Seq(Items) /\ single \in BOOLEAN
      /\ call' = IF sent = <<>>
                 THEN [Begin(op, "done") EXCEPT !.ret = "fail"]
                 ELSE [Begin(op, "send") EXCEPT !.batch = is, !.sent = sent, !.args = is, !.single = single]
      /\ UNCHANGED <<kind, hist, connected, iterVars>>
  BY DEF Starts
<1>2. Clock' = Clock /\ Clock \in 1..Clock /\ op \in Ops
  BY <1>1, CallFacts DEF Clock, Ops
<1>3. CallType'
  <2>1. CASE sent = <<>>
    <3>1. Fresh(Begin(op, "done"), op, "done")
      BY <1>2, BeginType DEF Steps
    <3>2. call' \in Calls /\ call'.step = "done" /\ call'.start = Clock
      BY <1>1, <2>1, <3>1 DEF Calls, Fresh
    <3> QED
      BY <1>2, <3>2 DEF CallType
  <2>2. CASE sent # <<>>
    <3>1. Fresh(Begin(op, "send"), op, "send")
      BY <1>2, BeginType DEF Steps
    <3>2. call' \in Calls /\ call'.step = "send" /\ call'.start = Clock /\ call'.args = is
      BY <1>1, <2>2, <3>1 DEF Calls, Fresh
    <3> QED
      BY <1>1, <1>2, <3>2 DEF CallType
  <2> QED
    BY <2>1, <2>2
<1> QED
  BY <1>1, <1>3 DEF TypeInv, IterType, iterVars, History

\* What a step of a running call makes of it.
LEMMA CallStepType ==
  ASSUME TypeInv, call.step # "idle", call' \in Calls, call'.start = call.start,
         call'.step = "move" => call'.args \in Seq(Results),
         call'.step \in {"send", "revision"} => call'.args \in Seq(Items),
         Clock' = Clock \/ Clock' = Clock + 1
  PROVE  CallType'
<1>1. call.start \in 1..Clock /\ Clock \in Nat
  BY CallFacts DEF CallType
<1>2. call'.start \in 1..Clock'
  BY <1>1
<1> QED
  BY <1>2 DEF CallType

(* create_objects answers with a UID for each object; the ids that are     *)
(* reported are the items of the batch again, in order and once each.      *)
LEMMA NewIdsFacts ==
  ASSUME call.sent \in Seq(Items), IsInjective(call.sent)
  PROVE  NewIds(NewUids) = call.sent
<1> DEFINE b == call.sent
           c == Len(b)
           seqs == [k \in 1..c |-> [j \in 1..Parts[b[k]] |-> b[k]]]
           u == FlattenSeq(seqs)
<1>1. /\ c \in Nat /\ b \in [1..c -> Items] /\ DOMAIN b = 1..c
      /\ \A i, j \in 1..c : b[i] = b[j] => i = j
  BY DEF IsInjective
<1>2. NewUids = u
  BY <1>1 DEF NewUids
<1> HIDE DEF b, c
<1>3. ASSUME NEW k \in 1..c
      PROVE  /\ Parts[b[k]] \in Nat /\ Parts[b[k]] > 0
             /\ seqs[k] \in Seq(Items) /\ Len(seqs[k]) = Parts[b[k]]
             /\ \A j \in 1..Parts[b[k]] : seqs[k][j] = b[k]
  <2>1. Parts[b[k]] \in Nat /\ Parts[b[k]] > 0 /\ b[k] \in Items
    BY <1>1, ItemFacts
  <2>2. seqs[k] = [j \in 1..Parts[b[k]] |-> b[k]]
    OBVIOUS
  <2> HIDE DEF seqs
  <2> QED
    BY <2>1, <2>2
<1>4. seqs \in [1..c -> Seq(Items)]
  <2>1. DOMAIN seqs = 1..c /\ seqs = [k \in 1..c |-> seqs[k]]
    OBVIOUS
  <2> HIDE DEF seqs
  <2> QED
    BY <1>3, <2>1
<1> HIDE DEF seqs
<1>5. u \in Seq(Items) /\ \E off : Placed(u, seqs, c, off)
  BY <1>1, <1>4, Flatten
<1> HIDE DEF u
<1>6. PICK off : Placed(u, seqs, c, off)
  BY <1>5
<1>7. /\ Offsets(off, c, Lengths(seqs)) /\ Len(u) = off[c] /\ Lengths(seqs) \in [1..c -> Nat]
      /\ \A i \in 1..c : \A j \in 1..Parts[b[i]] : u[off[i - 1] + j] = b[i]
  <2>1. DOMAIN seqs = 1..c /\ \A i \in 1..c : Len(seqs[i]) \in Nat
    BY <1>3, <1>4
  <2> QED
    BY <1>3, <1>6, <2>1 DEF Placed, Lengths
<1>8. /\ \A i, j \in 0..c : i <= j => off[i] <= off[j]
      /\ \A p \in 1..off[c] : \E i \in 1..c : off[i - 1] < p /\ p <= off[i]
  BY <1>1, <1>7, OffsetFacts
<1>9. /\ \A i \in 0..c : off[i] \in Nat
      /\ \A i \in 1..c : off[i] = off[i - 1] + Parts[b[i]] /\ i - 1 \in 0..c /\ i \in 0..c
  <2>1. \A i \in 1..c : Lengths(seqs)[i] = Parts[b[i]]
    BY <1>3, <1>4 DEF Lengths
  <2> QED
    <3>1. off \in [0..c -> Nat] /\ \A i \in 1..c : off[i] = off[i - 1] + Lengths(seqs)[i]
      BY <1>7 DEF Offsets
    <3>2. \A i \in 1..c : i - 1 \in 0..c /\ i \in 0..c
      BY <1>1
    <3> QED
      BY <2>1, <3>1, <3>2
<1>10. ASSUME NEW p \in 1..off[c]
       PROVE  \E i \in 1..c : off[i - 1] < p /\ p <= off[i] /\ u[p] = b[i]
  <2>1. PICK i \in 1..c : off[i - 1] < p /\ p <= off[i]
    BY <1>8
  <2>2. p - off[i - 1] \in 1..Parts[b[i]] /\ off[i - 1] + (p - off[i - 1]) = p
    BY <1>3, <1>9, <2>1
  <2>3. u[off[i - 1] + (p - off[i - 1])] = b[i]
    BY <1>7, <2>2
  <2> QED
    BY <2>1, <2>2, <2>3
<1> DEFINE firsts == {p \in DOMAIN u : \A k \in 1..p - 1 : u[k] # u[p]}
           w == [i \in 1..c |-> off[i - 1] + 1]
<1>11. Len(u) \in Nat /\ DOMAIN u = 1..off[c] /\ off[c] \in Nat
  BY <1>1, <1>5, <1>7, <1>9
<1>12. ASSUME NEW i \in 1..c
       PROVE  off[i - 1] + 1 \in 1..off[c] /\ u[off[i - 1] + 1] = b[i]
  <2>1. /\ off[i - 1] \in Nat /\ off[i] = off[i - 1] + Parts[b[i]] /\ off[i] <= off[c]
        /\ Parts[b[i]] \in Nat
    BY <1>1, <1>3, <1>8, <1>9
  <2>2. 1 \in 1..Parts[b[i]]
    BY <1>3
  <2> QED
    BY <1>7, <1>11, <2>1, <2>2, SMTT(30)
<1>13. ASSUME NEW i \in 1..c, NEW k \in 1..(off[i - 1] + 1) - 1
       PROVE  u[k] # u[off[i - 1] + 1]
  <2>1. off[i - 1] \in Nat /\ off[i - 1] <= off[c] /\ k \in 1..off[c] /\ k <= off[i - 1]
    BY <1>8, <1>9, <1>11, <1>1
  <2>2. PICK j \in 1..c : off[j - 1] < k /\ k <= off[j] /\ u[k] = b[j]
    BY <1>10, <2>1
  <2>3. ~(i <= j)
    <3>1. i <= j => off[i - 1] <= off[j - 1]
      BY <1>8, <1>9
    <3>2. off[j - 1] \in Nat
      BY <1>9
    <3> QED
      BY <2>1, <2>2, <3>1, <3>2
  <2> QED
    <3>1. b[j] # b[i]
      BY <1>1, <2>3
    <3>2. u[off[i - 1] + 1] = b[i]
      BY <1>12
    <3> QED
      BY <2>2, <3>1, <3>2
<1>14. w \in [1..c -> firsts]
  <2>1. \A i \in 1..c : off[i - 1] + 1 \in firsts
    BY <1>11, <1>12, <1>13
  <2> HIDE DEF firsts
  <2> QED
    BY <2>1
<1>15. Increasing(w)
  <2>1. ASSUME NEW i \in 1..c, NEW j \in 1..c, i < j PROVE off[i - 1] + 1 < off[j - 1] + 1
    <3>1. off[i] <= off[j - 1]
      BY <1>8, <1>9, <2>1
    <3>2. off[i] = off[i - 1] + Parts[b[i]] /\ off[i - 1] \in Nat /\ off[j - 1] \in Nat
      BY <1>9
    <3> QED
      BY <1>3, <3>1, <3>2
  <2> QED
    BY <2>1 DEF Increasing
<1>16. \A p \in firsts : \E i \in 1..c : w[i] = p
  <2> TAKE p \in firsts
  <2>1. p \in 1..off[c] /\ \A k \in 1..p - 1 : u[k] # u[p]
    BY <1>11
  <2>2. PICK i \in 1..c : off[i - 1] < p /\ p <= off[i] /\ u[p] = b[i]
    BY <1>10, <2>1
  <2>3. off[i - 1] \in Nat
    BY <1>9
  <2>4. ~(off[i - 1] + 1 \in 1..p - 1)
    BY <1>12, <2>1, <2>2
  <2>5. p = off[i - 1] + 1
    BY <1>11, <2>1, <2>2, <2>3, <2>4
  <2> QED
    BY <2>5
<1>17. firsts \in SUBSET (0..(off[c] + 1) - 1) /\ off[c] + 1 \in Nat
  BY <1>11
<1>18. \A i \in 1..c : u[w[i]] = b[i]
  BY <1>12
<1> HIDE DEF w, firsts
<1>19. c = Cardinality(firsts) /\ w = Sorted(firsts)
  BY <1>1, <1>14, <1>15, <1>16, <1>17, SortedUnique
<1>20. NewIds(u) = [i \in 1..Cardinality(firsts) |-> u[Sorted(firsts)[i]]]
  BY DEF NewIds, At, firsts
<1>21. NewIds(u) = [i \in 1..c |-> b[i]]
  BY <1>18, <1>19, <1>20
<1>22. NewIds(u) = b
  BY <1>1, <1>21
<1> QED
  BY <1>2, <1>22 DEF b

-----------------------------------------------------------------------------
(* Fetching and taking objects.                                            *)

(* A part of a sequence.                                                   *)
LEMMA SubSeqFacts ==
  ASSUME NEW T, NEW s \in Seq(T), NEW a \in Nat, NEW b \in Nat, 1 <= a, a <= b + 1, b <= Len(s)
  PROVE  /\ SubSeq(s, a, b) \in Seq(T) /\ Len(SubSeq(s, a, b)) = b - a + 1
         /\ \A k \in 1..b - a + 1 : SubSeq(s, a, b)[k] = s[a + k - 1]
<1>1. \A i \in a..b : s[i] \in T
  <2>1. \A i \in a..b : i \in 1..Len(s)
    OBVIOUS
  <2> QED
    BY <2>1
<1>2. /\ SubSeq(s, a, b) \in Seq(T)
      /\ Len(SubSeq(s, a, b)) = IF a <= b THEN b - a + 1 ELSE 0
      /\ \A i \in 1..b - a + 1 : SubSeq(s, a, b)[i] = s[a + i - 1]
  BY <1>1, SubSeqProperties
<1> QED
  BY <1>2

(* The two parts of a sequence that is cut after its m-th element.         *)
LEMMA SplitFacts ==
  ASSUME NEW T, NEW s \in Seq(T), NEW m \in 0..Len(s)
  PROVE  /\ SubSeq(s, 1, m) \in Seq(T) /\ SubSeq(s, m + 1, Len(s)) \in Seq(T)
         /\ Len(SubSeq(s, 1, m)) = m /\ Len(SubSeq(s, m + 1, Len(s))) = Len(s) - m
         /\ \A k \in 1..m : SubSeq(s, 1, m)[k] = s[k]
         /\ \A k \in 1..Len(s) - m : SubSeq(s, m + 1, Len(s))[k] = s[m + k]
<1>1. Len(s) \in Nat /\ m \in Nat /\ m <= Len(s)
  OBVIOUS
<1> DEFINE a == SubSeq(s, 1, m)
           b == SubSeq(s, m + 1, Len(s))
<1>2. a \in Seq(T) /\ Len(a) = m - 1 + 1 /\ \A k \in 1..m - 1 + 1 : a[k] = s[1 + k - 1]
  BY <1>1, SubSeqFacts
<1>3. /\ b \in Seq(T) /\ Len(b) = Len(s) - (m + 1) + 1
      /\ \A k \in 1..Len(s) - (m + 1) + 1 : b[k] = s[(m + 1) + k - 1]
  BY <1>1, SubSeqFacts
<1> HIDE DEF a, b
<1>4. m - 1 + 1 = m /\ Len(s) - (m + 1) + 1 = Len(s) - m
  BY <1>1
<1>5. \A k \in 1..m : 1 + k - 1 = k
  BY <1>1
<1>6. \A k \in 1..Len(s) - m : (m + 1) + k - 1 = m + k
  BY <1>1
<1>7. a \in Seq(T) /\ Len(a) = m /\ \A k \in 1..m : a[k] = s[k]
  BY <1>2, <1>4, <1>5
<1>8. b \in Seq(T) /\ Len(b) = Len(s) - m /\ \A k \in 1..Len(s) - m : b[k] = s[m + k]
  BY <1>3, <1>4, <1>6
<1> QED
  BY <1>7, <1>8 DEF a, b

(* The two parts put together are the sequence.                            *)
LEMMA SplitJoin ==
  ASSUME NEW T, NEW s \in Seq(T), NEW m \in 0..Len(s)
  PROVE  SubSeq(s, 1, m) \o SubSeq(s, m + 1, Len(s)) = s
<1> DEFINE a == SubSeq(s, 1, m)
           b == SubSeq(s, m + 1, Len(s))
           c == a \o b
<1>1. /\ a \in Seq(T) /\ b \in Seq(T) /\ Len(a) = m /\ Len(b) = Len(s) - m
      /\ \A k \in 1..m : a[k] = s[k]
      /\ \A k \in 1..Len(s) - m : b[k] = s[m + k]
  BY SplitFacts
<1> HIDE DEF a, b
<1>2. /\ c \in Seq(T) /\ Len(c) = Len(a) + Len(b)
      /\ \A k \in 1..Len(a) : c[k] = a[k]
      /\ \A k \in 1..Len(b) : c[Len(a) + k] = b[k]
  BY <1>1, ConcatFacts
<1> HIDE DEF c
<1>3. Len(s) \in Nat /\ m \in Nat /\ m <= Len(s) /\ Len(c) = Len(s)
  BY <1>1, <1>2
<1>4. ASSUME NEW k \in 1..Len(s) PROVE c[k] = s[k]
  <2>1. CASE k <= m
    BY <1>1, <1>2, <1>3, <2>1
  <2>2. CASE m < k
    <3>1. k - m \in 1..Len(s) - m /\ m + (k - m) = k
      BY <1>3, <2>2
    <3>2. c[m + (k - m)] = b[k - m] /\ b[k - m] = s[m + (k - m)]
      BY <1>1, <1>2, <3>1
    <3> QED
      BY <3>1, <3>2
  <2> QED
    BY <1>3, <2>1, <2>2
<1>5. c \in [1..Len(s) -> T] /\ s \in [1..Len(s) -> T]
  BY <1>2, <1>3
<1>6. c = s
  BY <1>4, <1>5
<1> QED
  BY <1>6 DEF a, b, c

\* As many batches are fetched as the objects of one item need.
LEMMA FetchEnough ==
  ASSUME NEW more \in Nat, NEW rest \in Nat, more <= rest
  PROVE  LET read == Smaller(rest, FetchEventsSize * (more \div FetchEventsSize + 1))
         IN  read \in 0..rest /\ more <= read
<1> DEFINE f == FetchEventsSize
           d == more \div f
<1>1. f \in Nat /\ f > 0
  BY ItemFacts
<1> HIDE DEF f
<1>2. d \in Nat /\ f * d <= more /\ more < f * d + f
  BY <1>1
<1> HIDE DEF d
<1>3. f * (d + 1) = f * d + f /\ f * d \in Nat
  BY <1>1, <1>2
<1>4. f * (d + 1) \in Nat /\ more < f * (d + 1)
  BY <1>1, <1>2, <1>3
<1> DEFINE g == f * (d + 1)
<1> HIDE DEF g
<1>5. g \in Nat /\ more < g
  BY <1>4 DEF g
<1>6. Smaller(rest, g) \in 0..rest /\ more <= Smaller(rest, g)
  BY <1>5 DEF Smaller
<1> QED
  BY <1>6 DEF g, d, f

\* What is kept of the objects fetched, and what is left of the file.
Kept(batch, rest, n, read) == SubSeq(batch \o SubSeq(rest, 1, read), n + 1, Len(batch) + read)
Left(rest, read) == SubSeq(rest, read + 1, Len(rest))

\* Nothing but the n objects is lost.
Shifted(T, batch, rest, n, read) ==
  LET e == Kept(batch, rest, n, read)
      f == Left(rest, read)
  IN  /\ e \in Seq(T) /\ f \in Seq(T) /\ e \o f \in Seq(T)
      /\ Len(e \o f) = Len(batch) + Len(rest) - n
      /\ \A k \in 1..Len(batch) + Len(rest) - n : (e \o f)[k] = (batch \o rest)[n + k]

(* When n objects are taken and the batch is filled up from the file, what *)
(* is kept and what is left follow on what was taken.                      *)
LEMMA Shift ==
  ASSUME NEW T, NEW batch \in Seq(T), NEW rest \in Seq(T), NEW read \in 0..Len(rest),
         NEW n \in 0..Len(batch) + read
  PROVE  Shifted(T, batch, rest, n, read)
<1> DEFINE lb == Len(batch)
           lr == Len(rest)
           head == SubSeq(rest, 1, read)
           c == batch \o head
           q == batch \o rest
           e == SubSeq(c, n + 1, lb + read)
           f == SubSeq(rest, read + 1, lr)
           r == e \o f
<1>1. lb \in Nat /\ lr \in Nat /\ n \in Nat /\ read \in Nat /\ read <= lr /\ n <= lb + read
  OBVIOUS
<1>3. /\ head \in Seq(T) /\ f \in Seq(T) /\ Len(head) = read /\ Len(f) = lr - read
      /\ \A k \in 1..read : head[k] = rest[k]
      /\ \A k \in 1..lr - read : f[k] = rest[read + k]
  BY SplitFacts
<1> HIDE DEF head, f
<1>4. /\ c \in Seq(T) /\ Len(c) = lb + Len(head)
      /\ \A k \in 1..lb : c[k] = batch[k]
      /\ \A k \in 1..Len(head) : c[lb + k] = head[k]
  <2>1. head \in Seq(T)
    BY <1>3
  <2> QED
    BY <2>1, ConcatFacts
<1>5. /\ q \in Seq(T) /\ Len(q) = lb + lr
      /\ \A k \in 1..lb : q[k] = batch[k]
      /\ \A k \in 1..lr : q[lb + k] = rest[k]
  BY ConcatFacts
<1> HIDE DEF c, q, lb, lr
<1>7. /\ Len(c) = lb + read /\ n + 1 \in Nat /\ lb + read \in Nat
      /\ 1 <= n + 1 /\ n + 1 <= (lb + read) + 1 /\ lb + read <= Len(c)
  BY <1>1, <1>3, <1>4
<1>8. /\ e \in Seq(T) /\ Len(e) = (lb + read) - (n + 1) + 1
      /\ \A k \in 1..(lb + read) - (n + 1) + 1 : e[k] = c[(n + 1) + k - 1]
  BY <1>4, <1>7, SubSeqFacts
<1> HIDE DEF e
<1>9. /\ (lb + read) - (n + 1) + 1 = lb + read - n
      /\ \A k \in 1..lb + read - n : (n + 1) + k - 1 = n + k
      /\ lb + read - n \in Nat
  BY <1>1, <1>7
<1>10. Len(e) = lb + read - n /\ \A k \in 1..lb + read - n : e[k] = c[n + k]
  BY <1>8, <1>9
<1>11. \A k \in 1..lb + read : c[k] = q[k]
  <2> TAKE k \in 1..lb + read
  <2>1. CASE k <= lb
    BY <1>1, <1>4, <1>5, <2>1
  <2>2. CASE lb < k
    <3>1. k - lb \in 1..read /\ k - lb \in 1..lr /\ lb + (k - lb) = k
      BY <1>1, <1>7, <2>2
    <3>2. /\ c[lb + (k - lb)] = head[k - lb] /\ head[k - lb] = rest[k - lb]
          /\ q[lb + (k - lb)] = rest[k - lb]
      BY <1>3, <1>4, <1>5, <3>1
    <3> QED
      BY <3>1, <3>2
  <2> QED
    BY <1>1, <1>7, <2>1, <2>2
<1>12. /\ r \in Seq(T) /\ Len(r) = Len(e) + Len(f)
       /\ \A k \in 1..Len(e) : r[k] = e[k]
       /\ \A k \in 1..Len(f) : r[Len(e) + k] = f[k]
  <2>1. e \in Seq(T) /\ f \in Seq(T)
    BY <1>3, <1>8
  <2> QED
    BY <2>1, ConcatFacts
<1> HIDE DEF r
<1>13. Len(r) = lb + lr - n
  BY <1>1, <1>3, <1>7, <1>10, <1>12
<1>14. ASSUME NEW k \in 1..lb + lr - n PROVE r[k] = q[n + k]
  <2>1. CASE k <= lb + read - n
    <3>1. k \in 1..lb + read - n /\ n + k \in 1..lb + read
      BY <1>1, <1>7, <2>1
    <3> QED
      BY <1>10, <1>11, <1>12, <3>1
  <2>2. CASE lb + read - n < k
    <3> DEFINE j == k - (lb + read - n)
    <3>1. /\ j \in 1..lr - read /\ Len(e) + j = k /\ read + j \in 1..lr /\ lb + (read + j) = n + k
      BY <1>1, <1>7, <1>10, <2>2
    <3> HIDE DEF j
    <3>2. r[Len(e) + j] = f[j] /\ f[j] = rest[read + j] /\ q[lb + (read + j)] = rest[read + j]
      BY <1>3, <1>5, <1>12, <3>1
    <3> QED
      BY <3>1, <3>2
  <2>3. k \in Int /\ lb + read - n \in Int
    BY <1>1
  <2> QED
    BY <2>1, <2>2, <2>3
<1> QED
  BY <1>3, <1>8, <1>12, <1>13, <1>14 DEF Shifted, Kept, Left, lb, lr, q, r, e, f, c, head

(* next() reads what it needs of the file, and no more than there is.      *)
LEMMA Refill ==
  ASSUME NEW T, NEW batch \in Seq(T), NEW rest \in Seq(T), NEW n \in 0..Len(batch) + Len(rest),
         NEW read, read = IF n - Len(batch) < 0 THEN 0
                          ELSE Smaller(Len(rest), FetchEventsSize * ((n - Len(batch)) \div FetchEventsSize + 1))
  PROVE  read \in 0..Len(rest) /\ n \in 0..Len(batch) + read
<1> DEFINE lb == Len(batch)
           lr == Len(rest)
<1>1. lb \in Nat /\ lr \in Nat /\ n \in Nat /\ n <= lb + lr
  OBVIOUS
<1>2. read = IF n - lb < 0 THEN 0 ELSE Smaller(lr, FetchEventsSize * ((n - lb) \div FetchEventsSize + 1))
  OBVIOUS
<1> HIDE DEF lb, lr
<1>3. read \in 0..lr /\ n <= lb + read
  <2>1. CASE n - lb < 0
    BY <1>1, <1>2, <2>1
  <2>2. CASE ~(n - lb < 0)
    <3>1. n - lb \in Nat /\ n - lb <= lr
      BY <1>1, <2>2
    <3>2. read = Smaller(lr, FetchEventsSize * ((n - lb) \div FetchEventsSize + 1))
      BY <1>2, <2>2
    <3>3. read \in 0..lr /\ n - lb <= read
      BY <1>1, <3>1, <3>2, FetchEnough
    <3> QED
      BY <1>1, <3>3
  <2> QED
    BY <2>1, <2>2
<1> QED
  BY <1>1, <1>3 DEF lb, lr

\* How many objects at the front have the UID of the first.
WithFirstUid(q) == Cardinality({k \in DOMAIN q : \A j \in 1..k : q[j].uid = q[1].uid})

(* The objects with the first UID are those of the next item, all of them. *)
LEMMA FirstBlock ==
  ASSUME NEW db \in Databases, NEW m \in 0..Cardinality(DOMAIN db), NEW q \in Seq(Objects),
  Blocks(q, m, db),
         NEW n, n = WithFirstUid(q),
         NEW x, x = Sorted(DOMAIN db)[m + 1]
  PROVE  /\ q = <<>> => m = Cardinality(DOMAIN db)
         /\ q # <<>> =>
              /\ m + 1 \in 1..Cardinality(DOMAIN db) /\ x \in DOMAIN db /\ x \in Items
              /\ n = Parts[x] /\ n \in 1..Len(q)
              /\ \A k \in 1..n : q[k] = [uid |-> x, stamp |-> db[x]]
              /\ \A r : /\ Len(r) = Len(q) - n
                        /\ \A k \in 1..Len(q) - n : r[k] = q[n + k]
                        => Blocks(r, m + 1, db)
<1> DEFINE N == Cardinality(DOMAIN db) - m
           item(i) == Sorted(DOMAIN db)[m + i]
<1>1. DOMAIN db \subseteq Items
  BY DEF Databases
<1>2. /\ Cardinality(DOMAIN db) \in Nat /\ N \in Nat /\ m \in Nat
      /\ \A i \in 1..N :
           m + i \in 1..Cardinality(DOMAIN db) /\ item(i) \in DOMAIN db /\ item(i) \in Items
      /\ \A i, j \in 1..N : i < j => item(i) < item(j)
  <2>1. /\ Cardinality(DOMAIN db) \in Nat
        /\ \A k \in 1..Cardinality(DOMAIN db) : Sorted(DOMAIN db)[k] \in DOMAIN db
        /\ DOMAIN Sorted(DOMAIN db) = 1..Cardinality(DOMAIN db)
        /\ Increasing(Sorted(DOMAIN db))
    BY <1>1, OrderFacts
  <2>2. \A i \in 1..N : m + i \in 1..Cardinality(DOMAIN db)
    BY <2>1
  <2>3. \A j, k \in 1..Cardinality(DOMAIN db) : j < k => Sorted(DOMAIN db)[j] < Sorted(DOMAIN db)[k]
    BY <2>1 DEF Increasing
  <2>4. N \in Nat /\ m \in Nat
    BY <2>1
  <2> HIDE DEF N
  <2>5. \A i, j \in 1..N : i < j => m + i < m + j
    BY <2>4
  <2> QED
    BY <1>1, <2>1, <2>2, <2>3, <2>4, <2>5
<1>3. PICK off : /\ Offsets(off, N, Sizes(m, db)) /\ Len(q) = off[N]
                 /\ \A i \in 1..N : \A k \in 1..Parts[item(i)] :
                      q[off[i - 1] + k] = [uid |-> item(i), stamp |-> db[item(i)]]
  BY DEF Blocks
<1>4. Sizes(m, db) = [i \in 1..N |-> Parts[item(i)]]
  BY DEF Sizes
<1>x. x = item(1)
  OBVIOUS
<1>D. \A r : Blocks(r, m + 1, db) <=>
        \E o : /\ Offsets(o, Cardinality(DOMAIN db) - (m + 1), Sizes(m + 1, db))
              /\ Len(r) = o[Cardinality(DOMAIN db) - (m + 1)]
              /\ \A i \in 1..Cardinality(DOMAIN db) - (m + 1) :
                   \A k \in 1..Parts[Sorted(DOMAIN db)[m + 1 + i]] :
                   r[o[i - 1] + k] = [uid |-> Sorted(DOMAIN db)[m + 1 + i], stamp |-> db[Sorted(DOMAIN db)[m + 1 + i]]]
  BY DEF Blocks
<1>N. m = Cardinality(DOMAIN db) <=> N = 0
  BY <1>2
<1>M. Cardinality(DOMAIN db) - (m + 1) = N - 1 /\ \A i \in Nat : m + 1 + i = m + (i + 1)
  BY <1>2
<1>S. Sizes(m + 1, db) = [i \in 1..N - 1 |-> Parts[item(i + 1)]]
  <2>1. \A i \in 1..N - 1 : m + 1 + i = m + (i + 1)
    BY <1>M
  <2>2. Sizes(m + 1, db) = [i \in 1..N - 1 |-> Parts[Sorted(DOMAIN db)[m + 1 + i]]]
    BY <1>M DEF Sizes
  <2> QED
    BY <2>1, <2>2
<1>E. \A r : (\E o : /\ Offsets(o, N - 1, Sizes(m + 1, db)) /\ Len(r) = o[N - 1]
                    /\ \A i \in 1..N - 1 : \A k \in 1..Parts[item(i + 1)] :
                         r[o[i - 1] + k] = [uid |-> item(i + 1), stamp |-> db[item(i + 1)]])
              => Blocks(r, m + 1, db)
  <2>1. \A i \in 1..N - 1 : m + 1 + i = m + (i + 1)
    BY <1>M
  <2> HIDE DEF N
  <2> QED
    BY <1>D, <1>M, <2>1
<1> HIDE DEF N, item
<1>5. ASSUME NEW i \in 1..N
      PROVE  Parts[item(i)] \in Nat /\ Parts[item(i)] > 0
  BY <1>2, ItemFacts
<1>6. /\ off \in [0..N -> Nat] /\ off[0] = 0 /\ \A i \in 1..N : off[i] = off[i - 1] + Parts[item(i)]
  BY <1>3, <1>4 DEF Offsets
<1>7. /\ \A i, j \in 0..N : i <= j => off[i] <= off[j]
      /\ \A p \in 1..off[N] : \E i \in 1..N : off[i - 1] < p /\ p <= off[i]
  <2>1. Sizes(m, db) \in [1..N -> Nat]
    BY <1>4, <1>5
  <2> QED
    BY <1>2, <1>3, <2>1, OffsetFacts
<1>8. Len(q) \in Nat /\ DOMAIN q = 1..Len(q) /\ (q = <<>> <=> Len(q) = 0)
  OBVIOUS
<1>9. ASSUME N # 0 PROVE 1 \in 1..N /\ off[1] = Parts[item(1)] /\ off[1] <= Len(q) /\ off[1] > 0 /\ off[1] \in Nat
  <2>1. 1 \in 1..N /\ 1 \in 0..N /\ N \in 0..N /\ 1 <= N /\ 1 - 1 = 0
    BY <1>2, <1>9
  <2>2. off[1] = off[1 - 1] + Parts[item(1)]
    BY <1>6, <2>1
  <2> QED
    BY <1>3, <1>5, <1>6, <1>7, <2>1, <2>2
<1>10. CASE q = <<>>
  <2>1. N = 0
    BY <1>8, <1>9, <1>10
  <2>2. m = Cardinality(DOMAIN db)
    BY <1>N, <2>1
  <2> QED
    BY <1>10, <2>2
<1>11. CASE q # <<>>
  <2>1. N # 0 /\ 1 \in 1..N /\ N - 1 \in Nat
    <3>1. N = 0 => Len(q) = 0
      BY <1>3, <1>6
    <3> QED
      BY <1>2, <1>8, <1>11, <3>1
  <2> DEFINE p == Parts[x]
  <2>2. p = off[1] /\ p \in 1..Len(q) /\ p \in Nat /\ p > 0
    BY <1>5, <1>8, <1>9, <1>x, <2>1
  <2>3. \A k \in 1..p : q[k] = [uid |-> x, stamp |-> db[x]]
    <3>1. 1 - 1 = 0 /\ \A k \in 1..p : 0 + k = k
      BY <2>2
    <3> HIDE DEF p
    <3>2. \A k \in 1..p : q[off[1 - 1] + k] = [uid |-> item(1), stamp |-> db[item(1)]]
      BY <1>3, <1>x, <2>1 DEF p
    <3> QED
      BY <1>6, <1>x, <3>1, <3>2
  <2>4. q[1].uid = x
    BY <2>2, <2>3
  <2>5. ASSUME p < Len(q) PROVE q[p + 1].uid # x
    <3>1. N # 1
      BY <1>3, <2>2, <2>5
    <3>2. 2 \in 1..N /\ 2 - 1 = 1 /\ 1 < 2
      BY <1>2, <2>1, <3>1
    <3>3. 1 \in 1..Parts[item(2)]
      BY <1>5, <3>2
    <3>4. q[off[2 - 1] + 1] = [uid |-> item(2), stamp |-> db[item(2)]]
      BY <1>3, <3>2, <3>3
    <3>5. item(1) < item(2) /\ item(1) \in Nat /\ item(2) \in Nat
      BY <1>2, <2>1, <3>2, ItemFacts
    <3> HIDE DEF p
    <3>6. q[p + 1].uid = item(2)
      BY <2>2, <3>2, <3>4
    <3> QED
      BY <1>x, <3>5, <3>6
  <2> HIDE DEF p
  <2>6. {k \in DOMAIN q : \A j \in 1..k : q[j].uid = q[1].uid} = 1..p
    <3>1. ASSUME NEW k \in 1..p PROVE k \in DOMAIN q /\ \A j \in 1..k : q[j].uid = q[1].uid
      <4>1. \A j \in 1..k : j \in 1..p
        BY <2>2
      <4> QED
        BY <1>8, <2>2, <2>3, <2>4, <4>1
    <3>2. ASSUME NEW k \in DOMAIN q, \A j \in 1..k : q[j].uid = q[1].uid PROVE k \in 1..p
      <4>1. k \in 1..Len(q)
        BY <1>8
      <4>2. p < k => p < Len(q) /\ p + 1 \in 1..k
        BY <1>8, <2>2, <4>1
      <4> QED
        BY <2>2, <2>4, <2>5, <3>2, <4>1, <4>2
    <3> QED
      BY <3>1, <3>2
  <2>7. n = p
    <3>1. n = Cardinality(1..p)
      BY <2>6 DEF WithFirstUid
    <3> QED
      BY <2>2, <3>1, FS_Interval
  <2>8. m + 1 \in 1..Cardinality(DOMAIN db) /\ x \in DOMAIN db /\ x \in Items
    BY <1>2, <1>x, <2>1
  <2>9. ASSUME NEW r, Len(r) = Len(q) - p, \A k \in 1..Len(q) - p : r[k] = q[p + k]
        PROVE  Blocks(r, m + 1, db)
    <3> DEFINE o == [i \in 0..N - 1 |-> off[i + 1] - off[1]]
    <3>0. ASSUME NEW i \in 0..N - 1 PROVE i + 1 \in 0..N /\ off[i + 1] \in Nat /\ off[1] <= off[i + 1]
      <4>1. i + 1 \in 0..N /\ 1 \in 0..N /\ 1 <= i + 1
        BY <1>2, <2>1
      <4> QED
        BY <1>6, <1>7, <4>1
    <3>1. o \in [0..N - 1 -> Nat]
      BY <2>2, <3>0
    <3>2. \A i \in 1..N - 1 : o[i] = o[i - 1] + Parts[item(i + 1)]
      <4> TAKE i \in 1..N - 1
      <4>1. /\ i \in 0..N - 1 /\ i - 1 \in 0..N - 1 /\ i + 1 \in 1..N /\ (i + 1) - 1 = i
            /\ (i - 1) + 1 = i
        BY <1>2
      <4>2. off[i + 1] = off[i] + Parts[item(i + 1)] /\ Parts[item(i + 1)] \in Nat
        BY <1>5, <1>6, <4>1
      <4>3. /\ o[i] = off[i + 1] - off[1] /\ o[i - 1] = off[i] - off[1] /\ off[i] \in Nat
            /\ off[i + 1] \in Nat
        <5>1. o[i - 1] = off[(i - 1) + 1] - off[1]
          BY <4>1
        <5> QED
          BY <3>0, <4>1, <5>1
      <4> QED
        BY <2>2, <4>2, <4>3
    <3>3. o[0] = 0 /\ o[N - 1] = Len(q) - p
      BY <1>2, <1>3, <2>1, <2>2, <1>8
    <3>4. Offsets(o, N - 1, Sizes(m + 1, db))
      <4> HIDE DEF o
      <4> QED
        BY <1>S, <3>1, <3>2, <3>3 DEF Offsets
    <3>5. \A i \in 1..N - 1 : \A k \in 1..Parts[item(i + 1)] :
            r[o[i - 1] + k] = [uid |-> item(i + 1), stamp |-> db[item(i + 1)]]
      <4> TAKE i \in 1..N - 1
      <4> TAKE k \in 1..Parts[item(i + 1)]
      <4>1. /\ i - 1 \in 0..N - 1 /\ i + 1 \in 1..N /\ (i + 1) - 1 = i /\ (i - 1) + 1 = i
            /\ i + 1 \in 0..N /\ i \in 0..N
            /\ N \in 0..N /\ i + 1 <= N
        BY <1>2
      <4>2. o[i - 1] = off[i] - p /\ off[i] \in Nat /\ p <= off[i]
        <5>1. o[i - 1] = off[(i - 1) + 1] - off[1]
          BY <4>1
        <5> QED
          BY <2>2, <3>0, <4>1, <5>1
      <4>3. q[off[(i + 1) - 1] + k] = [uid |-> item(i + 1), stamp |-> db[item(i + 1)]]
        BY <1>3, <4>1
      <4>4. off[i + 1] = off[(i + 1) - 1] + Parts[item(i + 1)] /\ off[i + 1] <= off[N]
        BY <1>6, <1>7, <4>1
      <4>5. Parts[item(i + 1)] \in Nat /\ off[N] = Len(q)
        BY <1>3, <1>5, <4>1
      <4> HIDE DEF o
      <4>6. (o[i - 1] + k) \in 1..Len(q) - p /\ p + (o[i - 1] + k) = off[i] + k
        <5> DEFINE w == Parts[item(i + 1)]
        <5>1. w \in Nat /\ k \in 1..w
          BY <4>5
        <5>2. off[i + 1] = off[i] + w /\ off[i + 1] <= Len(q)
          BY <4>1, <4>4, <4>5
        <5> HIDE DEF w
        <5>3. off[i] + k <= Len(q) /\ off[i] \in Nat /\ k \in Nat /\ k > 0
          BY <1>8, <4>2, <5>1, <5>2
        <5>4. o[i - 1] \in Nat /\ p \in Nat /\ Len(q) \in Nat /\ o[i - 1] + p = off[i]
          <6>1. p \in Nat /\ Len(q) \in Nat
            BY <1>8, <2>2
          <6>2. off[i] \in Nat /\ p <= off[i] /\ o[i - 1] = off[i] - p
            BY <4>2
          <6> QED
            BY <6>1, <6>2
        <5> DEFINE y == o[i - 1]
        <5>5. y \in Nat /\ y + p = off[i]
          BY <5>4
        <5> HIDE DEF y
        <5>6. (y + k) \in 1..Len(q) - p /\ p + (y + k) = off[i] + k
          BY <5>3, <5>4, <5>5
        <5> QED
          BY <5>6 DEF y
      <4>7. r[o[i - 1] + k] = q[p + (o[i - 1] + k)]
        BY <2>9, <4>6
      <4> QED
        BY <4>1, <4>3, <4>6, <4>7
    <3> HIDE DEF o
    <3>6. Len(r) = o[N - 1]
      BY <2>9, <3>3
    <3> QED
      BY <1>E, <3>4, <3>5, <3>6
  <2>10. n \in 1..Len(q) /\ n = Parts[x] /\ \A k \in 1..n : q[k] = [uid |-> x, stamp |-> db[x]]
    BY <2>2, <2>3, <2>7 DEF p
  <2> QED
    BY <1>11, <2>7, <2>8, <2>9, <2>10
<1> QED
  BY <1>10, <1>11

-----------------------------------------------------------------------------
(* The inductive invariant: the running call.                              *)

\* The items whose revisions are reported.
Wanted == IF call.op = "add" THEN call.sent ELSE call.batch

\* A batch was written: the answers so far, and what is still asked for.
Writing ==
  /\ call.at \in 1..Clock
  /\ Len(call.out) + Len(call.args) = Len(Wanted)
  /\ \A k \in 1..Len(call.out) : call.out[k].id = Wanted[k] /\ Seen(call.out[k], call.at..Clock)
  /\ \A k \in 1..Len(call.args) : call.args[k] = Wanted[Len(call.out) + k]

\* getRevisions(): what was there at the start has an answer or is asked for.
Asking ==
  /\ \A i \in DOMAIN hist[call.start] : \/ \E k \in 1..Len(call.out) : call.out[k].id = i
                                        \/ \E k \in 1..Len(call.args) : call.args[k] = i
  /\ \A k \in 1..Len(call.out) : Seen(call.out[k], During)

SendInv ==
  call.step = "send" =>
    /\ call.op \in {"add", "modify", "remove", "get"} /\ call.at = 0
    /\ IsInjective(call.sent) /\ ToSet(call.sent) \subseteq Items
    /\ call.op # "get" => call.args = call.batch /\ call.out = <<>>
    /\ call.op = "get" => call.args # <<>>

RevisionInv ==
  call.step = "revision" => /\ call.op \in {"add", "modify", "revisions"}
                            /\ call.op = "revisions" => Asking
                            /\ call.op # "revisions" => Writing

\* Nobody added or removed an item during the call.
Stable == \A n \in During : DOMAIN hist[n] = DOMAIN Now
Count == Cardinality(DOMAIN Now)
InOrder == Sorted(DOMAIN Now)
Exact(r, i) == r.id = i /\ r.rev # <<>> /\ Seen(r, During)

\* The cursor is behind the m-th item, and the first m were fetched.
ContactPassAt(m) ==
  /\ total[call.op] = Count
  /\ Len(call.out) + Len(cont) = m
  /\ \A k \in 1..Len(call.out) : Exact(call.out[k], InOrder[k])
  /\ \A k \in 1..Len(cont) : Exact(cont[k], InOrder[Len(call.out) + k])
  /\ \/ cursor[call.op] = IF m = 0 THEN 0 ELSE InOrder[m]
     \/ cursor[call.op] = AtEnd /\ m = Count
  /\ call.step = "move" =>
       /\ cont = <<>> /\ m < Count
       /\ Len(call.args) = Smaller(Count - m, FetchContactsSize)
       /\ \A k \in 1..Len(call.args) : Exact(call.args[k], InOrder[m + k])

\* The first m items of the calendar file were handed out, and the objects of
\* the others are still there.
Then == hist[call.start]
Whole(i) == Result(i, [k \in 1..Parts[i] |-> Then[i]])
ObjectPassAt(m) ==
  /\ Len(call.out) = m
  /\ \A k \in 1..m : call.out[k] = Whole(Sorted(DOMAIN Then)[k])
  /\ Blocks(events \o file, m, Then)

PassInv ==
  call.step \in {"next", "move"} =>
    /\ call.op \in Iters /\ call.at = 0
    /\ Contacts /\ call.fresh /\ Stable => \E m \in 0..Count : ContactPassAt(m)
    /\ ~Contacts => /\ call.step = "next"
                    /\ \E m \in 0..Cardinality(DOMAIN Then) : ObjectPassAt(m)

CallInv == SendInv /\ RevisionInv /\ PassInv /\ WritesAreReported /\ RevisionsAreSeen /\ PassIsExact

IInv == TypeInv /\ CallInv

-----------------------------------------------------------------------------
(* next() of the calendar's iterator gives the next item as a whole, or    *)
(* there is none.                                                          *)
LEMMA TakeObject ==
  ASSUME TypeInv, NextObject, NEW m \in 0..Cardinality(DOMAIN Then), ObjectPassAt(m),
         NEW x, x = Sorted(DOMAIN Then)[m + 1]
  PROVE  \/ m = Cardinality(DOMAIN Then) /\ PassEnds /\ UNCHANGED calendarVars
         \/ /\ m + 1 \in 1..Cardinality(DOMAIN Then) /\ Whole(x) \in Results
            /\ call' = [call EXCEPT !.out = Append(@, Whole(x))]
            /\ events' \in Seq(Objects) /\ file' \in Seq(Objects)
            /\ Blocks(events' \o file', m + 1, Then)
<1> DEFINE first == Smaller(FetchEventsSize, Len(file))
           batch == IF events = <<>> THEN SubSeq(file, 1, first) ELSE events
           rest == IF events = <<>> THEN SubSeq(file, first + 1, Len(file)) ELSE file
           n == SameUid(batch, rest)
           taken == SubSeq(batch \o rest, 1, n)
           more == n - Len(batch)
           read == IF more < 0 THEN 0 ELSE Smaller(Len(rest), FetchEventsSize * (more \div FetchEventsSize + 1))
           q == batch \o rest
<1>1. IF batch = <<>>
      THEN PassEnds /\ UNCHANGED calendarVars
      ELSE /\ call' = [call EXCEPT !.out = Append(@, ProcessObject(taken))]
           /\ events' = SubSeq(batch \o SubSeq(rest, 1, read), n + 1, Len(batch) + read)
           /\ file' = SubSeq(rest, read + 1, Len(rest))
  BY DEF NextObject
<1>2. events \in Seq(Objects) /\ file \in Seq(Objects) /\ Len(file) \in Nat
  BY CallFacts DEF IterType
<1>3. first \in 0..Len(file)
  BY <1>2, ItemFacts DEF Smaller
<1>4. /\ batch \in Seq(Objects) /\ rest \in Seq(Objects) /\ q = events \o file
      /\ batch = <<>> => rest = <<>>
  <2>1. CASE events = <<>>
    <3> DEFINE a == SubSeq(file, 1, first)
               b == SubSeq(file, first + 1, Len(file))
    <3>1. /\ a \in Seq(Objects) /\ b \in Seq(Objects) /\ a \o b = file
          /\ Len(a) = first /\ Len(b) = Len(file) - first
      BY <1>2, <1>3, SplitFacts, SplitJoin, ZenonT(40)
    <3>2. batch = a /\ rest = b
      BY <2>1
    <3>3. events \o file = file
      BY <1>2, <2>1
    <3>4. Len(file) # 0 => first # 0
      BY <1>2, ItemFacts DEF Smaller
    <3> HIDE DEF a, b, first
    <3>5. a = <<>> => b = <<>>
      <4> SUFFICES ASSUME a = <<>> PROVE b = <<>>
        OBVIOUS
      <4>1. first = 0
        BY <3>1
      <4>2. Len(b) = 0
        BY <1>2, <3>1, <3>4, <4>1
      <4> QED
        BY <3>1, <4>2
    <3> QED
      BY <3>1, <3>2, <3>3, <3>5
  <2>2. CASE events # <<>>
    BY <1>2, <2>2
  <2> QED
    BY <2>1, <2>2
<1>5. n = Cardinality({k \in DOMAIN q : \A j \in 1..k : q[j].uid = batch[1].uid})
  BY DEF SameUid
<1> HIDE DEF first, batch, rest, n, q
<1>6. call.start \in 1..Clock \/ call.step = "idle"
  BY CallFacts DEF CallType
<1>7. call.start \in 1..Clock
  BY <1>6 DEF NextObject, Passing
<1>8. Then \in Databases /\ DOMAIN Then \subseteq Items /\ \A i \in DOMAIN Then : Then[i] \in Nat
  BY <1>7, CallFacts, HistoryFacts DEF Then
<1>9. /\ q \in Seq(Objects) /\ Len(q) = Len(batch) + Len(rest) /\ Blocks(q, m, Then)
      /\ Len(batch) \in Nat /\ Len(rest) \in Nat
      /\ batch # <<>> => q[1] = batch[1] /\ q # <<>>
      /\ batch = <<>> => q = <<>>
  <2>1. /\ q \in Seq(Objects) /\ Len(q) = Len(batch) + Len(rest) /\ Len(batch) \in Nat
        /\ Len(rest) \in Nat
        /\ \A k \in 1..Len(batch) : q[k] = batch[k]
    BY <1>4, ConcatFacts DEF q
  <2>2. Blocks(q, m, Then)
    BY <1>4 DEF ObjectPassAt
  <2>3. batch # <<>> => 1 \in 1..Len(batch)
    BY <1>4
  <2>4. batch = <<>> => Len(q) = 0
    BY <1>4, <2>1
  <2>5. batch # <<>> => Len(q) # 0
    BY <2>1, <2>3
  <2> QED
    BY <2>1, <2>2, <2>3, <2>4, <2>5
<1>10. /\ q = <<>> => m = Cardinality(DOMAIN Then)
       /\ q # <<>> /\ n = WithFirstUid(q) =>
            /\ m + 1 \in 1..Cardinality(DOMAIN Then) /\ x \in DOMAIN Then /\ x \in Items
            /\ n = Parts[x] /\ n \in 1..Len(q)
            /\ \A k \in 1..n : q[k] = [uid |-> x, stamp |-> Then[x]]
            /\ \A r : /\ Len(r) = Len(q) - n
                      /\ \A k \in 1..Len(q) - n : r[k] = q[n + k]
                      => Blocks(r, m + 1, Then)
  <2> DEFINE c == WithFirstUid(q)
  <2>1. q \in Seq(Objects) /\ Blocks(q, m, Then)
    BY <1>9
  <2>2. c = WithFirstUid(q)
    OBVIOUS
  <2> HIDE DEF c
  <2>3. /\ q = <<>> => m = Cardinality(DOMAIN Then)
        /\ q # <<>> =>
             /\ m + 1 \in 1..Cardinality(DOMAIN Then) /\ x \in DOMAIN Then /\ x \in Items
             /\ c = Parts[x] /\ c \in 1..Len(q)
             /\ \A k \in 1..c : q[k] = [uid |-> x, stamp |-> Then[x]]
             /\ \A r : /\ Len(r) = Len(q) - c
                       /\ \A k \in 1..Len(q) - c : r[k] = q[c + k]
                       => Blocks(r, m + 1, Then)
    BY <1>8, <2>1, <2>2, FirstBlock
  <2>4. n = WithFirstUid(q) => n = c
    BY <2>2
  <2> QED
    BY <2>3, <2>4
<1>11. CASE batch = <<>>
  BY <1>1, <1>9, <1>10, <1>11
<1>12. CASE batch # <<>>
  <2>1. n = WithFirstUid(q)
    BY <1>5, <1>9, <1>12 DEF WithFirstUid
  <2>2. /\ m + 1 \in 1..Cardinality(DOMAIN Then) /\ x \in DOMAIN Then /\ x \in Items
        /\ n = Parts[x] /\ n \in 1..Len(q)
        /\ \A k \in 1..n : q[k] = [uid |-> x, stamp |-> Then[x]]
    BY <1>9, <1>10, <1>12, <2>1
  <2>3. \A r : /\ Len(r) = Len(q) - n
               /\ \A k \in 1..Len(q) - n : r[k] = q[n + k]
               => Blocks(r, m + 1, Then)
    BY <1>9, <1>10, <1>12, <2>1
  <2>4. /\ call' = [call EXCEPT !.out = Append(@, ProcessObject(taken))]
        /\ events' = SubSeq(batch \o SubSeq(rest, 1, read), n + 1, Len(batch) + read)
        /\ file' = SubSeq(rest, read + 1, Len(rest))
    BY <1>1, <1>12
  <2>5. n \in 0..Len(batch) + Len(rest) /\ n \in Nat /\ n > 0
    BY <1>9, <2>2
  <2>6. read \in 0..Len(rest) /\ n \in 0..Len(batch) + read
    BY <1>4, <2>5, Refill, SMTT(30)
  <2>7. taken \in Seq(Objects) /\ Len(taken) = n /\ \A k \in 1..n : taken[k] = q[k]
    <3>1. n \in 0..Len(q)
      BY <1>9, <2>2
    <3>2. taken = SubSeq(q, 1, n)
      BY DEF q
    <3> HIDE DEF taken
    <3> QED
      BY <1>9, <3>1, <3>2, SplitFacts
  <2> HIDE DEF read, taken
  <2>8. ProcessObject(taken) = Whole(x)
    <3>1. DOMAIN taken = 1..n /\ 1 \in 1..n
      BY <2>5, <2>7
    <3>2. taken[1].uid = x /\ \A k \in 1..n : taken[k].stamp = Then[x]
      BY <2>2, <2>7, <3>1
    <3>3. [k \in DOMAIN taken |-> taken[k].stamp] = [k \in 1..Parts[x] |-> Then[x]]
      BY <2>2, <3>1, <3>2
    <3> QED
      BY <3>2, <3>3 DEF ProcessObject, Whole
  <2>9. Whole(x) \in Results
    <3>1. Then[x] \in Nat /\ Parts[x] \in Nat
      BY <1>8, <2>2, ItemFacts
    <3>2. [k \in 1..Parts[x] |-> Then[x]] \in Seq(Nat)
      BY <3>1
    <3> QED
      BY <2>2, <3>2 DEF Whole, Result, Results
  <2>10. /\ events' \in Seq(Objects) /\ file' \in Seq(Objects)
         /\ Len(events' \o file') = Len(batch) + Len(rest) - n
         /\ \A k \in 1..Len(batch) + Len(rest) - n : (events' \o file')[k] = (batch \o rest)[n + k]
    <3> DEFINE e == Kept(batch, rest, n, read)
               f == Left(rest, read)
    <3>1. /\ e \in Seq(Objects) /\ f \in Seq(Objects) /\ e \o f \in Seq(Objects)
          /\ Len(e \o f) = Len(batch) + Len(rest) - n
          /\ \A k \in 1..Len(batch) + Len(rest) - n : (e \o f)[k] = (batch \o rest)[n + k]
      <4>1. batch \in Seq(Objects) /\ rest \in Seq(Objects)
        BY <1>4
      <4>2. read \in 0..Len(rest) /\ n \in 0..Len(batch) + read
        BY <2>6
      <4>3. Shifted(Objects, batch, rest, n, read)
        BY <4>1, <4>2, Shift
      <4> QED
        BY <4>3 DEF Shifted
    <3>2. events' = e /\ file' = f
      BY <2>4 DEF Kept, Left
    <3> HIDE DEF e, f
    <3> QED
      BY <3>1, <3>2
  <2>11. Blocks(events' \o file', m + 1, Then)
    <3>1. /\ Len(events' \o file') = Len(q) - n
          /\ \A k \in 1..Len(q) - n : (events' \o file')[k] = q[n + k]
      <4>1. q = batch \o rest /\ Len(q) = Len(batch) + Len(rest)
        BY <1>9 DEF q
      <4>2. Len(events' \o file') = Len(batch) + Len(rest) - n
        BY <2>10
      <4>3. \A k \in 1..Len(batch) + Len(rest) - n : (events' \o file')[k] = (batch \o rest)[n + k]
        BY <2>10
      <4>4. Len(q) - n = Len(batch) + Len(rest) - n
        BY <1>9, <2>5, <4>1
      <4>5. Len(events' \o file') = Len(q) - n
        BY <4>2, <4>4
      <4>6. \A k \in 1..Len(q) - n : (events' \o file')[k] = (batch \o rest)[n + k]
        BY <4>3, <4>4
      <4> QED
        BY <4>1, <4>5, <4>6
    <3> QED
      BY <2>3, <3>1
  <2> QED
    BY <2>2, <2>4, <2>8, <2>9, <2>10, <2>11
<1> QED
  BY <1>11, <1>12

-----------------------------------------------------------------------------
(* Each action keeps the inductive invariant.                              *)

\* A call of which no property says anything.
Quiet ==
  \/ call.step = "idle"
  \/ call.step = "done" /\ call.ret = "fail" /\ (call.at = 0 \/ call.failed)
  \/ call.step = "done" /\ call.op \in {"init", "get"} /\ call.at = 0
  \/ call.step = "done" /\ call.op = "remove" /\ call.ret = "ok"
  \/ call.step = "done" /\ call.op \in Iters /\ call.failed

(* Such a call has nothing to keep.                                        *)
LEMMA QuietCall ==
  ASSUME Quiet'
  PROVE  CallInv'
<1>1. call'.step \in {"idle", "done"}
  BY DEF Quiet
<1>2. SendInv' /\ RevisionInv' /\ PassInv'
  BY <1>1 DEF SendInv, RevisionInv, PassInv
<1>3. WritesAreReported'
  BY DEF Quiet, WritesAreReported, Succeeded, Done, Iters
<1>4. RevisionsAreSeen'
  BY DEF Quiet, RevisionsAreSeen, Succeeded, Done, Iters
<1>5. PassIsExact'
  BY DEF Quiet, PassIsExact, Succeeded, Done, Iters
<1> QED
  BY <1>2, <1>3, <1>4, <1>5 DEF CallInv

\* The iterators are left alone.
LEMMA IterSame ==
  ASSUME TypeInv, UNCHANGED <<kind, connected, iterVars>>, History(hist'), CallType'
  PROVE  TypeInv'
BY DEF TypeInv, IterType, iterVars, History

(* init() of either storage (EDSContactsStorage::init,                     *)
(* EDSCalendarStorage::init).                                              *)
LEMMA InitKeeps ==
  ASSUME IInv, InitContacts \/ InitCalendar
  PROVE  IInv'
<1>1. TypeInv /\ Connects
  BY DEF IInv, InitContacts, InitCalendar
<1>2. call' \in {[Begin("init", "done") EXCEPT !.ret = "ok"], [Begin("init", "done") EXCEPT !.ret = "fail"]}
  BY <1>1 DEF Connects
<1>3. Fresh(Begin("init", "done"), "init", "done")
  BY <1>1, BeginType DEF Ops, Steps
<1>4. call'.step = "done" /\ call'.op = "init" /\ call'.at = 0
  BY <1>2, <1>3 DEF Calls, Fresh
<1>5. CallInv'
  BY <1>4, QuietCall DEF Quiet
<1> QED
  BY <1>1, <1>5, InitType DEF IInv

(* A call on items begins: its batch is as it was given, and nothing is    *)
(* sent.                                                                   *)
LEMMA StartKeeps ==
  ASSUME IInv, NEW op \in {"add", "modify", "remove", "get"}, StartContacts(op) \/ StartObjects(op)
  PROVE  IInv'
<1>1. TypeInv
  BY DEF IInv
<1>2. PICK is, sent, single : Starts(op, is, sent, single)
  BY StartFacts
<1>a. /\ is \in Seq(Items) /\ is # <<>> /\ IsInjective(sent) /\ ToSet(sent) \subseteq Items
      /\ sent \in Seq(Items) /\ single \in BOOLEAN
      /\ call' = IF sent = <<>>
                 THEN [Begin(op, "done") EXCEPT !.ret = "fail"]
                 ELSE [Begin(op, "send") EXCEPT !.batch = is, !.sent = sent, !.args = is, !.single = single]
  BY <1>2 DEF Starts
<1>3. CASE sent = <<>>
  <2>1. Fresh(Begin(op, "done"), op, "done")
    BY <1>1, BeginType DEF Ops, Steps
  <2>2. call'.step = "done" /\ call'.ret = "fail" /\ call'.at = 0
    BY <1>a, <1>3, <2>1 DEF Calls, Fresh
  <2>3. CallInv'
    BY <2>2, QuietCall DEF Quiet
  <2> QED
    BY <1>1, <1>2, <2>3, StartType DEF IInv
<1>4. CASE sent # <<>>
  <2>1. Fresh(Begin(op, "send"), op, "send")
    BY <1>1, BeginType DEF Ops, Steps
  <2>2. /\ call'.step = "send" /\ call'.op = op /\ call'.at = 0
        /\ call'.batch = is /\ call'.sent = sent /\ call'.args = is /\ call'.out = <<>>
    BY <1>a, <1>4, <2>1 DEF Calls, Fresh
  <2>3. SendInv'
    BY <1>a, <2>2 DEF SendInv
  <2>4. CallInv'
    BY <2>2, <2>3 DEF CallInv, RevisionInv, PassInv, WritesAreReported, RevisionsAreSeen,
       PassIsExact,
                      Succeeded, Done
  <2> QED
    BY <1>1, <1>2, <2>4, StartType DEF IInv
<1> QED
  BY <1>3, <1>4

\* A call that sends nothing, or whose D-Bus call failed.
LEMMA RefusedKeeps ==
  ASSUME IInv, call.step = "send", Refused, UNCHANGED <<kind, connected, iterVars>>
  PROVE  IInv'
<1>1. TypeInv /\ call \in Calls /\ hist' = hist /\ History(hist)
  BY CallFacts DEF IInv, Refused
<1>2. call' = [call EXCEPT !.step = "done", !.ret = "fail"]
  BY DEF Refused, End
<1>3. /\ call' \in Calls /\ call'.step = "done" /\ call'.ret = "fail" /\ call'.start = call.start
      /\ call'.at = call.at
  BY <1>1, <1>2 DEF Calls, Steps
<1>4. call.at = 0
  BY DEF IInv, CallInv, SendInv
<1>5. Clock' = Clock
  BY <1>1 DEF Clock
<1>6. CallType'
  BY <1>1, <1>3, <1>5, CallStepType
<1>7. TypeInv'
  BY <1>1, <1>6, IterSame
<1>8. CallInv'
  BY <1>3, <1>4, QuietCall DEF Quiet
<1> QED
  BY <1>7, <1>8 DEF IInv

(* The server has written or removed, and the caller does not learn of it. *)
LEMMA LostKeeps ==
  ASSUME IInv, call.step = "send", Lost, UNCHANGED <<kind, connected, iterVars>>,
         hist' = Written(ToSet(call.sent)) \/ hist' = Dropped(ToSet(call.sent))
  PROVE  IInv'
<1>1. TypeInv /\ call \in Calls /\ History(hist) /\ Clock \in Nat
  BY CallFacts DEF IInv
<1>2. ToSet(call.sent) \subseteq Items
  BY DEF IInv, CallInv, SendInv
<1>3. /\ call' \in Calls /\ call'.step = "done" /\ call'.ret = "fail" /\ call'.failed
      /\ call'.start = call.start
  <2>1. Clock + 1 \in Nat /\ "done" \in Steps
    BY <1>1 DEF Steps
  <2> DEFINE c == End("fail")
  <2>2. c \in Calls /\ c.step = "done" /\ c.ret = "fail" /\ c.start = call.start
    BY <1>1, <2>1 DEF End, Calls
  <2>3. call' = [c EXCEPT !.at = Clock + 1, !.failed = TRUE]
    BY DEF Lost
  <2> HIDE DEF c
  <2> QED
    BY <2>1, <2>2, <2>3 DEF Calls
<1>4. History(hist') /\ Clock' = Clock + 1
  BY <1>1, <1>2, WriteFacts DEF Clock
<1>5. CallType'
  BY <1>1, <1>3, <1>4, CallStepType
<1>6. TypeInv'
  BY <1>1, <1>4, <1>5, IterSame
<1>7. CallInv'
  BY <1>3, QuietCall DEF Quiet
<1> QED
  BY <1>6, <1>7 DEF IInv

\* A batch that the server has taken.
LEMMA WroteKeeps ==
  ASSUME IInv, call.step = "send", call.op \in {"add", "modify"},
         hist' = Written(ToSet(call.sent)), UNCHANGED <<kind, connected, iterVars>>,
         call' = [call EXCEPT !.step = "revision", !.args = Wanted, !.at = Clock + 1]
  PROVE  IInv'
<1>1. /\ TypeInv /\ call \in Calls /\ History(hist) /\ Clock \in Nat
      /\ call.batch \in Seq(Items) /\ call.sent \in Seq(Items)
  BY CallFacts DEF IInv
<1>2. call.out = <<>> /\ ToSet(call.sent) \subseteq Items /\ Wanted \in Seq(Items)
  BY <1>1 DEF IInv, CallInv, SendInv, Wanted
<1>3. /\ call' \in Calls /\ call'.step = "revision" /\ call'.args = Wanted
      /\ call'.batch = call.batch /\ call'.sent = call.sent
      /\ call'.out = <<>> /\ call'.at = Clock + 1 /\ call'.start = call.start /\ call'.op = call.op
  <2>1. Clock + 1 \in Nat /\ Wanted \in Seq(Items) \cup Seq(Results) /\ "revision" \in Steps
    BY <1>1, <1>2 DEF Steps
  <2> QED
    BY <1>1, <1>2, <2>1 DEF Calls
<1>4. History(hist') /\ Clock' = Clock + 1
  BY <1>1, <1>2, WriteFacts DEF Clock
<1>5. CallType'
  BY <1>1, <1>2, <1>3, <1>4, CallStepType
<1>6. TypeInv'
  BY <1>1, <1>4, <1>5, IterSame
<1>7. Writing'
  <2>1. call'.at \in 1..Clock'
    BY <1>1, <1>3, <1>4
  <2>2. Wanted' = Wanted
    BY <1>3 DEF Wanted
  <2>3. Len(call'.out) = 0 /\ Len(call'.args) = Len(Wanted') /\ Len(Wanted') \in Nat
    BY <1>2, <1>3, <2>2
  <2>4. \A k \in 1..Len(call'.args) : call'.args[k] = Wanted'[Len(call'.out) + k]
    BY <1>3, <2>2, <2>3
  <2> QED
    BY <2>1, <2>3, <2>4 DEF Writing
<1>8. CallInv'
  BY <1>3, <1>7 DEF CallInv, SendInv, RevisionInv, PassInv, WritesAreReported, RevisionsAreSeen,
     PassIsExact,
                    Succeeded, Done
<1> QED
  BY <1>6, <1>8 DEF IInv

(* addContacts(), addObjects(), modifyContacts() and modifyObjects(), up   *)
(* to the answer of the server.                                            *)
LEMMA AddKeeps ==
  ASSUME IInv, AddContacts \/ AddObjects \/ Modification
  PROVE  IInv'
<1>1. call.step = "send" /\ call.op \in {"add", "modify"} /\ UNCHANGED <<kind, connected, iterVars>>
  BY DEF AddContacts, AddObjects, Modification, Sent
<1>2. CASE Refused
  BY <1>1, <1>2, RefusedKeeps
<1>3. CASE hist' = Written(ToSet(call.sent)) /\ Lost
  BY <1>1, <1>3, LostKeeps
<1>4. CASE AddContacts /\ ~Refused /\ ~Lost
  <2>1. /\ hist' = Written(ToSet(call.sent))
        /\ call' = [call EXCEPT !.step = "revision", !.args = call.sent, !.at = Clock + 1]
    BY <1>4 DEF AddContacts
  <2>2. Wanted = call.sent
    BY <1>4 DEF Wanted, AddContacts, Sent
  <2> QED
    BY <1>1, <2>1, <2>2, WroteKeeps
<1>5. CASE AddObjects /\ ~Refused /\ ~Lost
  <2>1. /\ hist' = Written(ToSet(call.sent))
        /\ call' = [call EXCEPT !.step = "revision", !.args = NewIds(NewUids), !.at = Clock + 1]
    BY <1>5 DEF AddObjects
  <2>2. call.sent \in Seq(Items) /\ IsInjective(call.sent)
    BY <1>1, CallFacts DEF IInv, CallInv, SendInv
  <2>3. NewIds(NewUids) = Wanted
    BY <1>5, <2>2, NewIdsFacts DEF Wanted, AddObjects, Sent
  <2> QED
    BY <1>1, <2>1, <2>3, WroteKeeps
<1>6. CASE Modification /\ ~Refused /\ ~Lost
  <2>1. /\ hist' = Written(ToSet(call.sent))
        /\ call' = [call EXCEPT !.step = "revision", !.at = Clock + 1]
    BY <1>6 DEF Modification
  <2>2. call.args = Wanted /\ call \in Calls
    BY <1>1, <1>6, CallFacts DEF Wanted, Modification, Sent, IInv, CallInv, SendInv
  <2>3. call' = [call EXCEPT !.step = "revision", !.args = Wanted, !.at = Clock + 1]
    BY <2>1, <2>2 DEF Calls
  <2> QED
    BY <1>1, <2>1, <2>3, WroteKeeps
<1> QED
  BY <1>2, <1>3, <1>4, <1>5, <1>6 DEF AddContacts, AddObjects, Modification

(* removeContacts() and removeObjects().                                   *)
LEMMA RemovalKeeps ==
  ASSUME IInv, Removal
  PROVE  IInv'
<1>1. call.step = "send" /\ call.op = "remove" /\ UNCHANGED <<kind, connected, iterVars>>
  BY DEF Removal, Sent
<1>2. CASE Refused
  BY <1>1, <1>2, RefusedKeeps
<1>3. CASE hist' = Dropped(ToSet(call.sent)) /\ Lost
  BY <1>1, <1>3, LostKeeps
<1>4. CASE hist' = Dropped(ToSet(call.sent)) /\ call' = [End("ok") EXCEPT !.at = Clock + 1]
  <2>1. TypeInv /\ call \in Calls /\ History(hist) /\ Clock \in Nat
    BY CallFacts DEF IInv
  <2>2. ToSet(call.sent) \subseteq Items
    BY <1>1 DEF IInv, CallInv, SendInv
  <2>3. /\ call' \in Calls /\ call'.step = "done" /\ call'.ret = "ok" /\ call'.op = "remove"
        /\ call'.start = call.start
    <3>1. Clock + 1 \in Nat /\ "done" \in Steps
      BY <2>1 DEF Steps
    <3> DEFINE c == End("ok")
    <3>2. c \in Calls /\ c.step = "done" /\ c.ret = "ok" /\ c.op = "remove" /\ c.start = call.start
      BY <1>1, <2>1, <3>1 DEF End, Calls
    <3>3. call' = [c EXCEPT !.at = Clock + 1]
      BY <1>4
    <3> HIDE DEF c
    <3> QED
      BY <3>1, <3>2, <3>3 DEF Calls
  <2>4. History(hist') /\ Clock' = Clock + 1
    BY <1>4, <2>1, <2>2, WriteFacts DEF Clock
  <2>5. CallType'
    BY <1>1, <2>1, <2>3, <2>4, CallStepType
  <2>6. TypeInv'
    BY <1>1, <2>1, <2>4, <2>5, IterSame
  <2>7. CallInv'
    BY <2>3, QuietCall DEF Quiet
  <2> QED
    BY <2>6, <2>7 DEF IInv
<1> QED
  BY <1>2, <1>3, <1>4 DEF Removal

(* One revision more is asked for: the item goes from the end of what is   *)
(* asked for to the end of the answers, with a revision it has now or an   *)
(* empty one.                                                              *)
LEMMA AskedKeeps ==
  ASSUME IInv, NEW rev, Asked(rev), Head(call.args) \in DOMAIN Now => rev = Stamps(Head(call.args))
  PROVE  IInv'
<1> DEFINE a == call.args
           o == call.out
           x == Head(a)
<1>1. TypeInv /\ call \in Calls /\ History(hist) /\ CallType /\ Clock \in Nat /\ o \in Seq(Results)
      /\ Wanted \in Seq(Items) /\ Len(Wanted) \in Nat
  BY CallFacts DEF IInv, Wanted
<1>2. /\ call.step = "revision" /\ a # <<>> /\ UNCHANGED <<kind, hist, connected, iterVars>>
      /\ \E r \in {<<>>} \cup IF x \in DOMAIN Now THEN {rev} ELSE {} :
           call' = [call EXCEPT !.args = Tail(a), !.out = Append(o, Result(x, r))]
  BY DEF Asked
<1>3. a \in Seq(Items)
  BY <1>1, <1>2 DEF CallType
<1>4. /\ x \in Items /\ x = a[1] /\ Len(Tail(a)) \in Nat /\ Tail(a) \in Seq(Items)
      /\ Len(a) = Len(Tail(a)) + 1
      /\ \A k \in 1..Len(Tail(a)) : Tail(a)[k] = a[k + 1] /\ k + 1 \in 1..Len(a)
  BY <1>2, <1>3, TailFacts
<1>5. PICK r : /\ r = <<>> \/ (x \in DOMAIN Now /\ r = Stamps(x))
               /\ call' = [call EXCEPT !.args = Tail(a), !.out = Append(o, Result(x, r))]
  BY <1>2
<1> DEFINE res == Result(x, r)
<1>6. res \in Results /\ res.id = x
  <2>1. CASE r = <<>>
    BY <1>4, <2>1 DEF Result, Results
  <2>2. CASE x \in DOMAIN Now /\ r = Stamps(x)
    BY <1>1, <2>2, StampsType DEF Result
  <2> QED
    BY <1>5, <2>1, <2>2
<1>7. ASSUME NEW t \in Nat, t \in 1..Clock
      PROVE  Seen(res, t..Clock)
  <2>1. Clock \in t..Clock
    BY <1>1, <1>7
  <2>2. r = <<>> => Seen(res, t..Clock)
    BY DEF Seen, Result
  <2>3. x \in DOMAIN Now /\ r = Stamps(x) => Seen(res, t..Clock)
    BY <2>1 DEF Seen, Result, Stamps, Now
  <2> QED
    BY <1>5, <2>2, <2>3
<1> HIDE DEF a, o, x, res
<1>8. /\ Append(o, res) \in Seq(Results) /\ Len(Append(o, res)) = Len(o) + 1 /\ Len(o) \in Nat
      /\ \A k \in 1..Len(o) : Append(o, res)[k] = o[k]
      /\ Append(o, res)[Len(o) + 1] = res
  BY <1>1, <1>6, AppendFacts
<1>9. /\ call' \in Calls /\ call'.step = "revision" /\ call'.start = call.start
      /\ call'.op = call.op
      /\ call'.at = call.at /\ Wanted' = Wanted /\ call'.args = Tail(a)
      /\ call'.out = Append(o, res)
  <2>1. call' = [call EXCEPT !.args = Tail(a), !.out = Append(o, res)]
    BY <1>5 DEF res, o, a, x
  <2>2. Tail(a) \in Seq(Items) \cup Seq(Results)
    BY <1>4
  <2> QED
    BY <1>1, <1>2, <1>8, <2>1, <2>2 DEF Calls, Wanted
<1>10. Clock' = Clock /\ History(hist') /\ UNCHANGED <<kind, hist>>
  BY <1>1, <1>2 DEF Clock
<1>11. CallType'
  BY <1>1, <1>2, <1>4, <1>9, <1>10, CallStepType
<1>12. TypeInv'
  BY <1>1, <1>2, <1>10, <1>11, IterSame
<1>13. call.op # "revisions" => Writing'
  <2> SUFFICES ASSUME call.op # "revisions" PROVE Writing'
    OBVIOUS
  <2>1. Writing
    BY <1>2 DEF IInv, CallInv, RevisionInv
  <2>2. /\ call.at \in 1..Clock /\ Len(o) + Len(a) = Len(Wanted)
        /\ \A k \in 1..Len(o) : o[k].id = Wanted[k] /\ Seen(o[k], call.at..Clock)
        /\ \A k \in 1..Len(a) : a[k] = Wanted[Len(o) + k]
    BY <2>1 DEF Writing, o, a
  <2>3. call.at \in Nat /\ Len(a) \in Nat /\ 1 \in 1..Len(a)
    BY <1>1, <1>4, <2>2
  <2>4. Seen(res, call.at..Clock)
    BY <1>7, <2>2, <2>3
  <2>5. res.id = Wanted[Len(o) + 1]
    BY <1>4, <1>6, <2>2, <2>3
  <2>6. \A k \in 1..Len(o) + 1 :
             Append(o, res)[k].id = Wanted[k] /\ Seen(Append(o, res)[k], call.at..Clock)
    <3> TAKE k \in 1..Len(o) + 1
    <3>1. CASE k = Len(o) + 1
      BY <1>8, <2>4, <2>5, <3>1
    <3>2. CASE k \in 1..Len(o)
      BY <1>8, <2>2, <3>2
    <3> QED
      BY <1>8, <3>1, <3>2
  <2>7. \A k \in 1..Len(Tail(a)) : Tail(a)[k] = Wanted[(Len(o) + 1) + k]
    <3> TAKE k \in 1..Len(Tail(a))
    <3>1. Tail(a)[k] = a[k + 1] /\ k + 1 \in 1..Len(a)
      BY <1>4
    <3>2. a[k + 1] = Wanted[Len(o) + (k + 1)]
      BY <2>2, <3>1
    <3>3. Len(o) + (k + 1) = (Len(o) + 1) + k
      BY <1>8
    <3> QED
      BY <3>1, <3>2, <3>3
  <2>8. (Len(o) + 1) + Len(Tail(a)) = Len(Wanted)
    <3>1. Len(o) + Len(a) = Len(Wanted) /\ Len(a) = Len(Tail(a)) + 1
      BY <1>4, <2>2
    <3>2. Len(o) \in Nat /\ Len(Tail(a)) \in Nat /\ Len(a) \in Nat /\ Len(Wanted) \in Nat
      BY <1>1, <1>4, <1>8, <2>3
    <3> DEFINE t == Len(Tail(a))
    <3>3. t \in Nat /\ Len(a) = t + 1
      BY <3>1, <3>2
    <3> HIDE DEF t
    <3>4. (Len(o) + 1) + t = Len(Wanted)
      BY <3>1, <3>2, <3>3
    <3> QED
      BY <3>4 DEF t
  <2>9. /\ call'.at \in 1..Clock' /\ Len(call'.out) + Len(call'.args) = Len(Wanted')
        /\ \A k \in 1..Len(call'.args) : call'.args[k] = Wanted'[Len(call'.out) + k]
    BY <1>8, <1>9, <1>10, <2>2, <2>7, <2>8, ZenonT(40)
  <2>10. \A k \in 1..Len(call'.out) :
              call'.out[k].id = Wanted'[k] /\ Seen(call'.out[k], call'.at..Clock')
    BY <1>8, <1>9, <1>10, <2>6
  <2>11. \A k \in 1..Len(call'.out) : Seen(call.out[k], call.at..Clock)'
    BY <1>10, <2>10 DEF Seen, SizeOf, Contacts
  <2> QED
    BY <2>9, <2>10, <2>11 DEF Writing
<1>14. call.op = "revisions" => Asking'
  <2> SUFFICES ASSUME call.op = "revisions" PROVE Asking'
    OBVIOUS
  <2>1. Asking
    BY <1>2 DEF IInv, CallInv, RevisionInv
  <2>2. /\ \A i \in DOMAIN hist[call.start] : \/ \E k \in 1..Len(o) : o[k].id = i
                                              \/ \E k \in 1..Len(a) : a[k] = i
        /\ \A k \in 1..Len(o) : Seen(o[k], call.start..Clock)
    BY <2>1 DEF Asking, o, a, During
  <2>3. call.start \in 1..Clock /\ call.start \in Nat
    BY <1>1, <1>2 DEF CallType
  <2>4. \A k \in 1..Len(o) + 1 : Seen(Append(o, res)[k], call.start..Clock)
    <3> TAKE k \in 1..Len(o) + 1
    <3>1. CASE k = Len(o) + 1
      BY <1>7, <1>8, <2>3, <3>1
    <3>2. CASE k \in 1..Len(o)
      BY <1>8, <2>2, <3>2
    <3> QED
      BY <1>8, <3>1, <3>2
  <2>5. ASSUME NEW i \in DOMAIN hist[call.start]
        PROVE  \/ \E k \in 1..Len(o) + 1 : Append(o, res)[k].id = i
               \/ \E k \in 1..Len(Tail(a)) : Tail(a)[k] = i
    <3>1. CASE \E k \in 1..Len(o) : o[k].id = i
      <4>1. PICK k \in 1..Len(o) : o[k].id = i
        BY <3>1
      <4>2. k \in 1..Len(o) + 1 /\ Append(o, res)[k] = o[k]
        BY <1>8
      <4> QED
        BY <4>1, <4>2
    <3>2. CASE \E k \in 1..Len(a) : a[k] = i
      <4>1. PICK k \in 1..Len(a) : a[k] = i
        BY <3>2
      <4>2. CASE k = 1
        <5>1. Len(o) + 1 \in 1..Len(o) + 1 /\ Append(o, res)[Len(o) + 1].id = i
          BY <1>4, <1>6, <1>8, <4>1, <4>2
        <5> QED
          BY <5>1
      <4>3. CASE k # 1
        <5>1. k - 1 \in 1..Len(Tail(a)) /\ (k - 1) + 1 = k
          BY <1>4, <4>3
        <5>2. Tail(a)[k - 1] = i
          BY <1>4, <4>1, <5>1
        <5> QED
          BY <5>1, <5>2
      <4> QED
        BY <4>2, <4>3
    <3> QED
      BY <2>2, <3>1, <3>2
  <2>6. \A k \in 1..Len(call'.out) : Seen(call'.out[k], call'.start..Clock')
    BY <1>8, <1>9, <1>10, <2>4
  <2>7. \A k \in 1..Len(call'.out) : Seen(call.out[k], During)'
    BY <1>10, <2>6 DEF Seen, SizeOf, Contacts, During
  <2>8. \A i \in DOMAIN hist'[call'.start] : \/ \E k \in 1..Len(call'.out) : call'.out[k].id = i
                                             \/ \E k \in 1..Len(call'.args) : call'.args[k] = i
    BY <1>8, <1>9, <1>10, <2>5
  <2> QED
    BY <2>7, <2>8 DEF Asking
<1>15. call.op \in {"add", "modify", "revisions"}
  BY <1>2 DEF IInv, CallInv, RevisionInv
<1>16. RevisionInv'
  BY <1>9, <1>13, <1>14, <1>15 DEF RevisionInv
<1>17. CallInv'
  BY <1>9, <1>16 DEF CallInv, SendInv, PassInv, WritesAreReported, RevisionsAreSeen, PassIsExact,
                     Succeeded, Done
<1> QED
  BY <1>12, <1>17 DEF IInv

(* getRevisions() has asked for all: what RevisionInv says of the answers  *)
(* is what the two properties say of them.                                 *)
LEMMA AnswerKeeps ==
  ASSUME IInv, Answer
  PROVE  IInv'
<1>1. TypeInv /\ call \in Calls /\ History(hist) /\ CallType /\ Clock \in Nat
      /\ call.out \in Seq(Results) /\ Wanted \in Seq(Items)
  BY CallFacts DEF IInv, Wanted
<1>2. call.step = "revision" /\ call.args = <<>> /\ UNCHANGED <<kind, hist, connected, iterVars>>
  BY DEF Answer
<1>3. call' = [call EXCEPT !.step = "done", !.ret = IF ObjectOfOne THEN "fail" ELSE "ok"]
  BY DEF Answer, End
<1>4. /\ call' \in Calls /\ call'.step = "done" /\ call'.ret = IF ObjectOfOne THEN "fail" ELSE "ok"
      /\ call'.op = call.op /\ call'.start = call.start /\ call'.at = call.at
      /\ call'.out = call.out /\ call'.failed = call.failed
      /\ call'.batch = call.batch /\ call'.sent = call.sent /\ call'.single = call.single
  BY <1>1, <1>3 DEF Calls, Steps
<1>5. Clock' = Clock /\ History(hist') /\ UNCHANGED <<kind, hist>>
  BY <1>1, <1>2 DEF Clock
<1>6. CallType'
  BY <1>1, <1>2, <1>4, <1>5, CallStepType
<1>7. TypeInv'
  BY <1>1, <1>2, <1>5, <1>6, IterSame
<1>8. RevisionInv /\ call.op \in {"add", "modify", "revisions"}
  BY <1>2 DEF IInv, CallInv, RevisionInv
<1>9. ObjectOfOne' <=> ObjectOfOne
  BY <1>4, <1>5 DEF ObjectOfOne, Contacts
<1>10. WritesAreReported'
  <2>1. CASE call.op = "revisions"
    BY <1>4, <2>1 DEF WritesAreReported, Succeeded, Done
  <2>2. CASE call.op # "revisions"
    <3>1. Writing
      BY <1>2, <1>8, <2>2 DEF RevisionInv
    <3> DEFINE o == call.out
    <3>2. /\ Len(o) + Len(call.args) = Len(Wanted)
          /\ \A k \in 1..Len(o) : o[k].id = Wanted[k] /\ Seen(o[k], call.at..Clock)
      BY <3>1 DEF Writing
    <3>3. o \in Seq(Results) /\ Len(o) \in Nat /\ DOMAIN o = 1..Len(o) /\ Len(call.args) = 0
      BY <1>1, <1>2
    <3>4. Len(o) = Len(Wanted)
      <4>1. Len(Wanted) \in Nat
        BY <1>1
      <4> QED
        BY <3>2, <3>3, <4>1
    <3> HIDE DEF o
    <3>5. [n \in DOMAIN o |-> o[n].id] = Wanted
      <4>1. DOMAIN o = 1..Len(o) /\ \A k \in 1..Len(o) : o[k].id = Wanted[k]
        BY <3>2, <3>3
      <4>2. Wanted \in [1..Len(o) -> Items]
        <5>1. Wanted \in Seq(Items) /\ Len(o) = Len(Wanted)
          BY <1>1, <3>4
        <5> QED
          BY <5>1
      <4> QED
        BY <4>1, <4>2
    <3>6. \A n \in DOMAIN call'.out : Seen(call'.out[n], call'.at..Clock')
      BY <1>4, <1>5, <3>2, <3>3 DEF o
    <3>7. \A n \in DOMAIN call'.out : Seen(call.out[n], call.at..Clock)'
      BY <1>5, <3>6 DEF Seen, SizeOf, Contacts
    <3>8. [n \in DOMAIN call'.out |-> call'.out[n].id] = Wanted'
      BY <1>4, <3>5 DEF o, Wanted
    <3>9. call'.ret = "fail" => ObjectOfOne'
      BY <1>4, <1>9
    <3> QED
      BY <3>7, <3>8, <3>9 DEF WritesAreReported, Wanted, Succeeded, Done
  <2> QED
    BY <2>1, <2>2
<1>11. RevisionsAreSeen'
  <2>1. CASE call.op # "revisions"
    BY <1>4, <2>1 DEF RevisionsAreSeen, Succeeded, Done
  <2>2. CASE call.op = "revisions"
    <3>1. Asking
      BY <1>2, <1>8, <2>2 DEF RevisionInv
    <3>2. /\ \A i \in DOMAIN hist[call.start] : \E k \in 1..Len(call.out) : call.out[k].id = i
          /\ \A k \in 1..Len(call.out) : Seen(call.out[k], call.start..Clock)
      BY <1>2, <3>1 DEF Asking, During
    <3>3. call.start \in During' /\ DOMAIN call.out = 1..Len(call.out)
      BY <1>1, <1>2, <1>4, <1>5 DEF CallType, During
    <3>4. ASSUME NEW i \in Items, \A n \in During' : i \in DOMAIN hist'[n]
          PROVE  \E n \in DOMAIN call'.out : call'.out[n].id = i
      <4>1. i \in DOMAIN hist[call.start]
        BY <1>5, <3>3, <3>4
      <4> QED
        BY <1>4, <3>2, <3>3, <4>1
    <3>5. \A n \in DOMAIN call'.out : Seen(call'.out[n], call'.start..Clock')
      BY <1>4, <1>5, <3>2, <3>3
    <3>6. \A n \in DOMAIN call'.out : Seen(call.out[n], During)'
      BY <1>5, <3>5 DEF Seen, SizeOf, Contacts, During
    <3> QED
      BY <3>4, <3>6 DEF RevisionsAreSeen
  <2> QED
    BY <2>1, <2>2
<1>12. PassIsExact'
  BY <1>4, <1>8 DEF PassIsExact, Succeeded, Done
<1>13. CallInv'
  BY <1>4, <1>10, <1>11, <1>12 DEF CallInv, SendInv, RevisionInv, PassInv
<1> QED
  BY <1>7, <1>13 DEF IInv

(* getContacts(), getEvents() and getTasks(), item by item.                *)
LEMMA GotKeeps ==
  ASSUME IInv, NEW rev, Got(rev), Head(call.args) \in DOMAIN Now => Result(Head(call.args), rev) \in Results
  PROVE  IInv'
<1> DEFINE a == call.args
           r == Result(Head(a), rev)
<1>1. /\ TypeInv /\ call \in Calls /\ History(hist) /\ CallType /\ Clock \in Nat
      /\ call.out \in Seq(Results)
  BY CallFacts DEF IInv
<1>2. call.step = "send" /\ call.op = "get" /\ UNCHANGED <<kind, hist, connected, iterVars>>
  BY DEF Got, Sent
<1>3. CASE call' = End("fail")
  BY <1>2, <1>3, RefusedKeeps DEF Refused
<1>4. CASE /\ Head(a) \in DOMAIN Now
           /\ call' = [call EXCEPT !.args = Tail(@), !.out = Append(@, r),
                                   !.step = IF Len(call.args) = 1 THEN "done" ELSE @]
  <2>1. /\ call.at = 0 /\ IsInjective(call.sent) /\ ToSet(call.sent) \subseteq Items /\ a # <<>>
        /\ a \in Seq(Items)
    BY <1>1, <1>2 DEF IInv, CallInv, SendInv, CallType
  <2>2. Tail(a) \in Seq(Items) /\ Len(a) = Len(Tail(a)) + 1 /\ Len(Tail(a)) \in Nat
    BY <2>1, TailFacts
  <2>3. Append(call.out, r) \in Seq(Results)
    BY <1>1, <1>4, AppendFacts
  <2>4. call' = [call EXCEPT !.args = Tail(a), !.out = Append(call.out, r),
                             !.step = IF Len(a) = 1 THEN "done" ELSE "send"]
    BY <1>1, <1>2, <1>4 DEF Calls
  <2> HIDE DEF a, r
  <2>5. /\ call' \in Calls /\ call'.args = Tail(a)
        /\ call'.step = IF Len(a) = 1 THEN "done" ELSE "send"
        /\ call'.op = call.op /\ call'.start = call.start /\ call'.at = call.at
        /\ call'.sent = call.sent
    <3>1. Tail(a) \in Seq(Items) \cup Seq(Results)
      BY <2>2
    <3> QED
      BY <1>1, <2>3, <2>4, <3>1 DEF Calls, Steps
  <2>6. Clock' = Clock /\ History(hist')
    BY <1>1, <1>2 DEF Clock
  <2>7. CallType'
    BY <1>1, <1>2, <2>2, <2>5, <2>6, CallStepType
  <2>8. TypeInv'
    BY <1>1, <1>2, <2>6, <2>7, IterSame
  <2>9. CASE Len(a) = 1
    <3>1. CallInv'
      BY <1>2, <2>1, <2>5, <2>9, QuietCall DEF Quiet
    <3> QED
      BY <2>8, <3>1 DEF IInv
  <2>10. CASE Len(a) # 1
    <3>1. Tail(a) # <<>>
      <4> DEFINE t == Tail(a)
      <4>1. t \in Seq(Items) /\ Len(a) = Len(t) + 1 /\ Len(t) \in Nat
        BY <2>2
      <4> HIDE DEF t
      <4>2. t = <<>> => Len(t) = 0
        OBVIOUS
      <4>3. t # <<>>
        BY <2>10, <4>1, <4>2
      <4> QED
        BY <4>3 DEF t
    <3>2. SendInv'
      BY <1>2, <2>1, <2>5, <2>10, <3>1 DEF SendInv
    <3>3. CallInv'
      BY <2>5, <2>10, <3>2 DEF CallInv, RevisionInv, PassInv, WritesAreReported, RevisionsAreSeen,
         PassIsExact,
                               Succeeded, Done
    <3> QED
      BY <2>8, <3>3 DEF IInv
  <2> QED
    BY <2>9, <2>10
<1> QED
  BY <1>3, <1>4 DEF Got

\* getRevisions() asks for every item there is.
LEMMA AskKeeps ==
  ASSUME IInv, NEW is \in Seq(Items), \A i \in DOMAIN Now : \E k \in 1..Len(is) : is[k] = i,
         UNCHANGED <<kind, hist, connected, iterVars>>,
         call' \in {[Begin("revisions", "revision") EXCEPT !.args = is],
                    [Begin("revisions", "done") EXCEPT !.ret = "fail"]}
  PROVE  IInv'
<1>1. TypeInv /\ History(hist) /\ Clock \in Nat /\ Clock \in 1..Clock
  BY CallFacts DEF IInv
<1>2. Clock' = Clock /\ History(hist')
  BY <1>1 DEF Clock
<1>3. CASE call' = [Begin("revisions", "done") EXCEPT !.ret = "fail"]
  <2>1. Fresh(Begin("revisions", "done"), "revisions", "done")
    BY <1>1, BeginType DEF Ops, Steps
  <2>2. /\ call' \in Calls /\ call'.step = "done" /\ call'.ret = "fail" /\ call'.at = 0
        /\ call'.start = Clock
    BY <1>3, <2>1 DEF Calls, Fresh
  <2>3. CallType'
    BY <1>1, <1>2, <2>2 DEF CallType
  <2>4. TypeInv'
    BY <1>1, <1>2, <2>3, IterSame
  <2>5. CallInv'
    BY <2>2, QuietCall DEF Quiet
  <2> QED
    BY <2>4, <2>5 DEF IInv
<1>4. CASE call' = [Begin("revisions", "revision") EXCEPT !.args = is]
  <2>1. Fresh(Begin("revisions", "revision"), "revisions", "revision")
    BY <1>1, BeginType DEF Ops, Steps
  <2>2. /\ call' \in Calls /\ call'.step = "revision" /\ call'.op = "revisions" /\ call'.args = is
        /\ call'.out = <<>> /\ call'.start = Clock
    BY <1>4, <2>1 DEF Calls, Fresh
  <2>3. CallType'
    BY <1>1, <1>2, <2>2 DEF CallType
  <2>4. TypeInv'
    BY <1>1, <1>2, <2>3, IterSame
  <2>5. Asking'
    <3>1. \A i \in DOMAIN hist'[call'.start] : \E k \in 1..Len(call'.args) : call'.args[k] = i
      BY <2>2 DEF Now
    <3>2. 1..Len(call'.out) = {}
      BY <2>2
    <3> QED
      BY <3>1, <3>2 DEF Asking
  <2>6. CallInv'
    BY <2>2, <2>5 DEF CallInv, SendInv, RevisionInv, PassInv, WritesAreReported, RevisionsAreSeen,
       PassIsExact,
                      Succeeded, Done
  <2> QED
    BY <2>4, <2>6 DEF IInv
<1> QED
  BY <1>3, <1>4

(* getRevisions() of the address book.                                     *)
LEMMA UidsKeeps ==
  ASSUME IInv, GetContactsUids
  PROVE  IInv'
<1>1. DOMAIN Now \subseteq Items
  BY CallFacts, HistoryFacts DEF IInv
<1> DEFINE is == Sorted(DOMAIN Now)
<1>2. is \in Seq(Items) /\ \A i \in DOMAIN Now : \E k \in 1..Len(is) : is[k] = i
  BY <1>1, OrderFacts
<1>3. /\ UNCHANGED <<kind, hist, connected, iterVars>>
      /\ call' \in {[Begin("revisions", "revision") EXCEPT !.args = is],
                    [Begin("revisions", "done") EXCEPT !.ret = "fail"]}
  BY DEF GetContactsUids
<1> HIDE DEF is
<1> QED
  BY <1>2, <1>3, AskKeeps

(* getRevisions() of the calendar: every item has an object in the file,   *)
(* so its UID is asked for.                                                *)
LEMMA ScanKeeps ==
  ASSUME IInv, ScanCalendarFile
  PROVE  IInv'
<1> DEFINE is == [n \in DOMAIN VObjects |-> VObjects[n].uid]
           item == Sorted(DOMAIN Now)
           m == Cardinality(DOMAIN Now)
<1>1. History(hist) /\ DOMAIN Now \subseteq Items
  BY CallFacts, HistoryFacts DEF IInv
<1>2. VObjects \in Seq(Objects) /\ Blocks(VObjects, 0, Now)
  BY <1>1, VObjectsFacts
<1>3. /\ is \in Seq(Items) /\ Len(is) = Len(VObjects)
      /\ \A k \in 1..Len(VObjects) : is[k] = VObjects[k].uid
  <2> DEFINE q == VObjects
  <2>1. q \in Seq(Objects)
    BY <1>2
  <2> HIDE DEF q
  <2>2. DOMAIN q = 1..Len(q) /\ Len(q) \in Nat /\ \A k \in 1..Len(q) : q[k].uid \in Items
    <3>1. DOMAIN q = 1..Len(q) /\ Len(q) \in Nat /\ \A k \in 1..Len(q) : q[k] \in Objects
      BY <2>1
    <3>2. \A z \in Objects : z.uid \in Items
      BY DEF Objects
    <3> QED
      BY <3>1, <3>2
  <2> DEFINE u == [n \in DOMAIN q |-> q[n].uid]
  <2>3. u \in Seq(Items) /\ Len(u) = Len(q) /\ \A k \in 1..Len(q) : u[k] = q[k].uid
    BY <2>2
  <2> QED
    BY <2>3 DEF q
<1>4. m \in Nat /\ \A i \in DOMAIN Now : \E k \in 1..m : item[k] = i
  BY <1>1, OrderFacts
<1>5. /\ UNCHANGED <<kind, hist, connected, iterVars>>
      /\ call' \in {[Begin("revisions", "revision") EXCEPT !.args = is],
                    [Begin("revisions", "done") EXCEPT !.ret = "fail"]}
  BY DEF ScanCalendarFile
<1> HIDE DEF is
<1>6. PICK off : /\ Offsets(off, m - 0, Sizes(0, Now)) /\ Len(VObjects) = off[m - 0]
                 /\ \A i \in 1..m - 0 : \A k \in 1..Parts[item[0 + i]] :
                      VObjects[off[i - 1] + k] = [uid |-> item[0 + i], stamp |-> Now[item[0 + i]]]
  BY <1>2 DEF Blocks
<1>7. m - 0 = m /\ \A i \in 1..m : 0 + i = i
  BY <1>4
<1> DEFINE c == Sizes(0, Now)
<1>8. c \in [1..m -> Nat] /\ \A i \in 1..m : c[i] = Parts[item[i]] /\ c[i] > 0
  <2>1. \A i \in 1..m : item[i] \in Items
    BY <1>1, OrderFacts
  <2>2. c = [i \in 1..m - 0 |-> Parts[item[0 + i]]]
    BY DEF Sizes
  <2>3. c = [i \in 1..m |-> Parts[item[i]]]
    BY <1>7, <2>2
  <2> HIDE DEF c, item, m
  <2> QED
    BY <2>1, <2>3, ItemFacts
<1> HIDE DEF c, item, m
<1>9. /\ Offsets(off, m, c) /\ Len(VObjects) = off[m]
      /\ \A i \in 1..m : \A k \in 1..Parts[item[i]] :
           VObjects[off[i - 1] + k] = [uid |-> item[i], stamp |-> Now[item[i]]]
  BY <1>6, <1>7 DEF c
<1>10. ASSUME NEW i \in DOMAIN Now PROVE \E k \in 1..Len(is) : is[k] = i
  <2>1. PICK j \in 1..m : item[j] = i
    BY <1>4
  <2>2. /\ off[j - 1] \in Nat /\ off[j] = off[j - 1] + c[j] /\ c[j] \in Nat /\ c[j] > 0
        /\ off[j] <= off[m] /\ off[m] \in Nat
    <3>1. j - 1 \in 0..m /\ j \in 0..m /\ m \in 0..m /\ j <= m
      BY <1>4
    <3>2. off \in [0..m -> Nat] /\ off[j] = off[j - 1] + c[j]
      BY <1>9, <2>1 DEF Offsets
    <3>3. off[j] <= off[m]
      BY <1>4, <1>8, <1>9, <3>1, OffsetFacts
    <3> QED
      BY <1>8, <3>1, <3>2, <3>3
  <2>3. off[j - 1] + 1 \in 1..Len(is) /\ 1 \in 1..Parts[item[j]]
    BY <1>3, <1>8, <1>9, <2>2
  <2>4. VObjects[off[j - 1] + 1] = [uid |-> item[j], stamp |-> Now[item[j]]]
    BY <1>9, <2>3
  <2>5. is[off[j - 1] + 1] = i
    BY <1>3, <2>1, <2>3, <2>4
  <2> QED
    BY <2>3, <2>5
<1> QED
  BY <1>3, <1>5, <1>10, AskKeeps

(* A call is over, and the history is forgotten.                           *)
LEMMA NewCallKeeps ==
  ASSUME IInv, NewCall, call' = NoCall
  PROVE  IInv'
<1>1. TypeInv /\ History(hist) /\ Now \in Databases /\ IterType
  BY CallFacts, HistoryFacts DEF IInv
<1>2. History(hist') /\ Clock' = 1
  BY <1>1, ForgottenFacts DEF NewCall, Clock
<1>3. cont' \in Seq(Results)
  <2>1. cont \in Seq(Results) /\ <<1>> \in Seq(Nat)
    BY <1>1 DEF IterType
  <2>2. /\ DOMAIN cont = 1..Len(cont) /\ Len(cont) \in Nat
        /\ \A n \in 1..Len(cont) : cont[n] \in Results
    BY <2>1
  <2>3. \A n \in 1..Len(cont) : Result(cont[n].id, <<1>>) \in Results
    BY <2>1, <2>2 DEF Results, Result
  <2> QED
    BY <2>2, <2>3 DEF NewCall
<1>4. IterType'
  <2>1. 0 \in 0..AtEnd /\ 0 \in 0..Cardinality(Items)
    BY ItemFacts
  <2>2. cursor' \in [Iters -> 0..AtEnd] /\ total' \in [Iters -> 0..Cardinality(Items)]
    BY <1>1, <2>1 DEF IterType, NewCall
  <2>3. <<>> \in Seq(Objects)
    OBVIOUS
  <2> QED
    BY <1>1, <1>3, <2>2, <2>3 DEF IterType, NewCall
<1>5. CallType'
  <2>1. <<>> \in Seq(Items) /\ <<>> \in Seq(Results)
    OBVIOUS
  <2>2. call' \in Calls /\ call'.step = "idle"
    BY <2>1 DEF NoCall, Calls, Ops, Steps
  <2> QED
    BY <2>2 DEF CallType
<1>6. TypeInv'
  BY <1>1, <1>2, <1>4, <1>5 DEF TypeInv, NewCall, History
<1>7. CallInv'
  BY QuietCall DEF Quiet, NoCall
<1> QED
  BY <1>6, <1>7 DEF IInv

\* What was seen stays seen when the history grows to h.
SeenIn(h, r, times) ==
  r.rev = <<>> \/ \E n \in times :
                    r.id \in DOMAIN h[n] /\ r.rev = [k \in 1..SizeOf(r.id) |-> h[n][r.id]]

(* What was seen during a call was seen during it, however long it goes    *)
(* on.                                                                     *)
LEMMA SeenGrows ==
  ASSUME History(hist), NEW h, \A n \in 1..Clock : h[n] = hist[n],
         NEW r, NEW t \in 1..Clock, Seen(r, t..Clock)
  PROVE  SeenIn(h, r, t..Clock + 1)
<1>1. Clock \in Nat /\ t \in Nat
  BY HistoryFacts
<1>2. CASE r.rev = <<>>
  BY <1>2 DEF SeenIn
<1>3. CASE r.rev # <<>>
  <2>1. PICK n \in t..Clock : r.id \in DOMAIN hist[n] /\ r.rev = [k \in 1..SizeOf(r.id) |-> hist[n][r.id]]
    BY <1>3 DEF Seen
  <2>2. n \in 1..Clock /\ n \in t..Clock + 1
    BY <1>1, <2>1
  <2>3. hist[n] = h[n]
    BY <2>2
  <2>4. r.id \in DOMAIN h[n] /\ r.rev = [k \in 1..SizeOf(r.id) |-> h[n][r.id]]
    BY <2>1, <2>3
  <2> QED
    BY <2>2, <2>4 DEF SeenIn
<1> QED
  BY <1>2, <1>3

(* Another program writes, between any two D-Bus calls: a write is only    *)
(* appended, and one that adds or removes no item leaves the order of the  *)
(* cursor as it is.                                                        *)
LEMMA OtherKeeps ==
  ASSUME IInv, OtherWrites
  PROVE  IInv'
<1>1. /\ TypeInv /\ History(hist) /\ Clock \in Nat /\ CallType /\ call.out \in Seq(Results)
      /\ call \in Calls
  BY CallFacts DEF IInv
<1>2. call.step # "done" /\ UNCHANGED <<kind, connected, iterVars, call>>
  BY DEF OtherWrites
<1>3. PICK i \in Items, add \in BOOLEAN :
        hist' = IF Idle THEN Forgotten(Last(IF add THEN Written({i}) ELSE Dropped({i})))
                ELSE IF add THEN Written({i}) ELSE Dropped({i})
  BY DEF OtherWrites
<1> DEFINE db == IF add THEN Written({i}) ELSE Dropped({i})
<1>4. History(db) /\ Len(db) = Clock + 1 /\ \A n \in 1..Clock : db[n] = hist[n]
  <2>1. {i} \in SUBSET Items
    OBVIOUS
  <2> QED
    BY <1>1, <2>1, WriteFacts
<1>5. hist' = IF Idle THEN Forgotten(Last(db)) ELSE db
  BY <1>3
<1> HIDE DEF db
<1>6. CASE Idle
  <2>1. Last(db) \in Databases
    <3>1. db \in Seq(Databases) /\ Len(db) \in 1..Len(db)
      BY <1>1, <1>4 DEF History
    <3> QED
      BY <3>1 DEF Last
  <2>2. History(hist')
    BY <1>5, <1>6, <2>1, ForgottenFacts
  <2>3. CallType'
    BY <1>1, <1>2, <1>6 DEF CallType, Idle
  <2>4. TypeInv'
    BY <1>1, <1>2, <2>2, <2>3, IterSame
  <2>5. CallInv'
    BY <1>2, <1>6, QuietCall DEF Quiet, Idle
  <2> QED
    BY <2>4, <2>5 DEF IInv
<1>7. CASE ~Idle
  <2>1. History(hist') /\ Clock' = Clock + 1 /\ \A n \in 1..Clock : hist'[n] = hist[n]
    BY <1>4, <1>5, <1>7 DEF Clock
  <2>2. call.step # "idle"
    BY <1>7 DEF Idle
  <2>3. CallType'
    BY <1>1, <1>2, <2>1, <2>2, CallStepType DEF CallType
  <2>4. TypeInv'
    BY <1>1, <1>2, <2>1, <2>3, IterSame
  <2>5. kind' = kind /\ call' = call /\ cursor' = cursor /\ total' = total /\ cont' = cont
        /\ file' = file /\ events' = events
    BY <1>2 DEF iterVars
  <2>6. call.start \in 1..Clock /\ call.start \in Nat
    BY <1>1, <2>2 DEF CallType
  <2>7. ASSUME NEW r, NEW t \in 1..Clock, Seen(r, t..Clock)
        PROVE  SeenIn(hist', r, t..Clock + 1)
    BY <1>1, <2>1, <2>7, SeenGrows
  <2>8. SendInv'
    BY <2>5 DEF IInv, CallInv, SendInv
  <2>9. ASSUME call.step = "revision" PROVE RevisionInv'
    <3>1. call.op \in {"add", "modify", "revisions"}
      BY <2>9 DEF IInv, CallInv, RevisionInv
    <3>2. CASE call.op = "revisions"
      <4>1. Asking
        BY <2>9, <3>2 DEF IInv, CallInv, RevisionInv
      <4>2. hist'[call'.start] = hist[call.start]
        BY <2>1, <2>5, <2>6
      <4>3. \A k \in 1..Len(call.out) : Seen(call.out[k], call.start..Clock)
        BY <4>1 DEF Asking, During
      <4>4. \A k \in 1..Len(call.out) : Seen(call.out[k], During)'
        <5>1. \A k \in 1..Len(call.out) : SeenIn(hist', call.out[k], call.start..Clock + 1)
          BY <2>6, <2>7, <4>3
        <5> QED
          BY <2>1, <2>5, <5>1 DEF Seen, SeenIn, SizeOf, Contacts, During
      <4>5. Asking'
        BY <2>5, <4>1, <4>2, <4>4 DEF Asking
      <4> QED
        BY <2>5, <3>2, <4>5 DEF RevisionInv
    <3>3. CASE call.op # "revisions"
      <4>1. Writing
        BY <2>9, <3>3 DEF IInv, CallInv, RevisionInv
      <4>2. call.at \in 1..Clock /\ \A k \in 1..Len(call.out) : Seen(call.out[k], call.at..Clock)
        BY <4>1 DEF Writing
      <4>3. \A k \in 1..Len(call.out) : Seen(call.out[k], call.at..Clock)'
        <5>1. \A k \in 1..Len(call.out) : SeenIn(hist', call.out[k], call.at..Clock + 1)
          BY <2>7, <4>2
        <5> QED
          BY <2>1, <2>5, <5>1 DEF Seen, SeenIn, SizeOf, Contacts
      <4>4. call.at \in 1..Clock'
        BY <1>1, <2>1, <4>2
      <4>5. Wanted' = Wanted
        BY <2>5 DEF Wanted
      <4>6. Writing'
        BY <2>5, <4>1, <4>3, <4>4, <4>5 DEF Writing
      <4> QED
        BY <2>5, <3>1, <3>3, <4>6 DEF RevisionInv
    <3> QED
      BY <3>2, <3>3
  <2>10. RevisionInv'
    BY <2>5, <2>9 DEF RevisionInv
  <2>11. ASSUME call.step \in {"next", "move"}, Contacts, call.fresh, Stable'
         PROVE  \E m \in 0..Count' : ContactPassAt(m)'
    <3>1. \A n \in call.start..Clock + 1 : DOMAIN hist'[n] = DOMAIN hist'[Clock + 1]
      BY <2>1, <2>5, <2>11 DEF Stable, During, Now
    <3>2. Clock \in call.start..Clock + 1 /\ Clock \in 1..Clock
      BY <1>1, <2>6
    <3>3. DOMAIN Now = DOMAIN hist'[Clock + 1]
      BY <2>1, <3>1, <3>2 DEF Now
    <3>4. Stable
      <4> SUFFICES ASSUME NEW n \in During PROVE DOMAIN hist[n] = DOMAIN Now
        BY DEF Stable
      <4>1. n \in 1..Clock /\ n \in call.start..Clock + 1
        BY <1>1, <2>6 DEF During
      <4> QED
        BY <2>1, <3>1, <3>3, <4>1
    <3>5. DOMAIN Now' = DOMAIN Now
      BY <2>1, <3>3 DEF Now
    <3>6. Count' = Count /\ InOrder' = InOrder
      BY <3>5 DEF Count, InOrder
    <3>7. PICK m \in 0..Count : ContactPassAt(m)
      BY <2>11, <3>4 DEF IInv, CallInv, PassInv
    <3>8. ASSUME NEW r, NEW j, Exact(r, j)
          PROVE  r.id = j /\ r.rev # <<>> /\ SeenIn(hist', r, call.start..Clock + 1)
      BY <2>6, <2>7, <3>8 DEF Exact, During
    <3>9. /\ \A k \in 1..Len(call.out) : Exact(call.out[k], InOrder[k])
          /\ \A k \in 1..Len(cont) : Exact(cont[k], InOrder[Len(call.out) + k])
      BY <3>7 DEF ContactPassAt
    <3>10. \A k \in 1..Len(call.out) : Exact(call.out[k], InOrder[k])'
      <4>1. \A k \in 1..Len(call.out) : /\ call.out[k].id = InOrder[k] /\ call.out[k].rev # <<>>
                                        /\ SeenIn(hist', call.out[k], call.start..Clock + 1)
        BY <3>8, <3>9
      <4> QED
        BY <2>1, <2>5, <3>6, <4>1 DEF Exact, Seen, SeenIn, SizeOf, Contacts, During
    <3>11. \A k \in 1..Len(cont) : Exact(cont[k], InOrder[Len(call.out) + k])'
      <4>1. \A k \in 1..Len(cont) : /\ cont[k].id = InOrder[Len(call.out) + k] /\ cont[k].rev # <<>>
                                    /\ SeenIn(hist', cont[k], call.start..Clock + 1)
        BY <3>8, <3>9
      <4> QED
        BY <2>1, <2>5, <3>6, <4>1 DEF Exact, Seen, SeenIn, SizeOf, Contacts, During
    <3>12. ASSUME call.step = "move"
           PROVE  \A k \in 1..Len(call.args) : Exact(call.args[k], InOrder[m + k])'
      <4>1. \A k \in 1..Len(call.args) : Exact(call.args[k], InOrder[m + k])
        BY <3>7, <3>12 DEF ContactPassAt
      <4>2. \A k \in 1..Len(call.args) :
                 /\ call.args[k].id = InOrder[m + k] /\ call.args[k].rev # <<>>
                                         /\ SeenIn(hist', call.args[k], call.start..Clock + 1)
        BY <3>8, <4>1
      <4> QED
        BY <2>1, <2>5, <3>6, <4>2 DEF Exact, Seen, SeenIn, SizeOf, Contacts, During
    <3>13. /\ total'[call'.op] = Count' /\ Len(call'.out) + Len(cont') = m
           /\ \/ cursor'[call'.op] = IF m = 0 THEN 0 ELSE InOrder'[m]
              \/ cursor'[call'.op] = AtEnd /\ m = Count'
           /\ call'.step = "move" => cont' = <<>> /\ m < Count' /\ Len(call'.args) = Smaller(Count' - m, FetchContactsSize)
      BY <2>5, <3>6, <3>7 DEF ContactPassAt
    <3>14. ContactPassAt(m)'
      BY <2>5, <3>6, <3>10, <3>11, <3>12, <3>13 DEF ContactPassAt
    <3> QED
      BY <3>6, <3>14
  <2>14. ASSUME call.step \in {"next", "move"}, ~Contacts
         PROVE  call.step = "next" /\ \E m \in 0..Cardinality(DOMAIN Then') : ObjectPassAt(m)'
    <3>1. Then' = Then
      BY <2>1, <2>5, <2>6 DEF Then
    <3>2. PICK m \in 0..Cardinality(DOMAIN Then) : ObjectPassAt(m)
      BY <2>14 DEF IInv, CallInv, PassInv
    <3>3. ObjectPassAt(m)'
      BY <2>5, <3>1, <3>2 DEF ObjectPassAt, Whole
    <3>4. call.step = "next"
      BY <2>14 DEF IInv, CallInv, PassInv
    <3> QED
      BY <3>1, <3>2, <3>3, <3>4
  <2>15. PassInv'
    <3>1. call.step \in {"next", "move"} => call.op \in Iters /\ call.at = 0
      BY DEF IInv, CallInv, PassInv
    <3> QED
      BY <2>5, <2>11, <2>14, <3>1 DEF PassInv, Contacts
  <2>12. WritesAreReported' /\ RevisionsAreSeen' /\ PassIsExact'
    BY <1>2 DEF WritesAreReported, RevisionsAreSeen, PassIsExact, Succeeded, Done
  <2>13. CallInv'
    BY <2>8, <2>10, <2>12, <2>15 DEF CallInv
  <2> QED
    BY <2>4, <2>13 DEF IInv
<1> QED
  BY <1>6, <1>7

\* A pass whose outcome is not what PassIsExact speaks of.
LEMMA PassBreaksKeeps ==
  ASSUME IInv, call.op \in Iters, call.step \in {"next", "move"}, PassBreaks,
         UNCHANGED <<kind, hist, connected, iterVars>>
  PROVE  IInv'
<1>1. TypeInv /\ call \in Calls /\ History(hist)
  BY CallFacts DEF IInv
<1>2. call' = [call EXCEPT !.step = "done", !.ret = "ok", !.failed = TRUE]
  <2> DEFINE c == [call EXCEPT !.step = "done", !.ret = "ok"]
  <2>1. c \in Calls /\ call' = [c EXCEPT !.failed = TRUE]
    BY <1>1 DEF PassBreaks, End, Calls, Steps
  <2> QED
    BY <1>1, <2>1 DEF Calls
<1>3. /\ call' \in Calls /\ call'.step = "done" /\ call'.op = call.op /\ call'.start = call.start
      /\ call'.failed = TRUE
  BY <1>1, <1>2 DEF Calls, Steps
<1>4. Clock' = Clock /\ History(hist')
  BY <1>1 DEF Clock
<1>5. CallType'
  BY <1>1, <1>3, <1>4, CallStepType
<1>6. TypeInv'
  BY <1>1, <1>4, <1>5, IterSame
<1>7. CallInv'
  BY <1>3, QuietCall DEF Quiet
<1> QED
  BY <1>6, <1>7 DEF IInv

\* The pass has handed out what is there.
ExactOut ==
  /\ Cardinality(DOMAIN Now) = Len(call.out)
  /\ {call.out[n].id : n \in DOMAIN call.out} = DOMAIN Now
  /\ \A n \in DOMAIN call.out : call.out[n].rev # <<>> /\ Seen(call.out[n], During)

(* A pass ends with everything that is there handed out.                   *)
LEMMA PassEndsKeeps ==
  ASSUME IInv, call.op \in Iters, call.step = "next", PassEnds, UNCHANGED <<kind, hist, connected,
                                                                            iterVars>>,
         call.fresh /\ Stable => ExactOut
  PROVE  IInv'
<1>1. TypeInv /\ call \in Calls /\ History(hist)
  BY CallFacts DEF IInv
<1>2. /\ call' \in Calls /\ call'.step = "done" /\ call'.ret = "ok" /\ call'.op = call.op
      /\ call'.start = call.start /\ call'.fresh = call.fresh /\ call'.out = call.out
  BY <1>1 DEF PassEnds, End, Calls, Steps
<1>3. Clock' = Clock /\ History(hist') /\ hist' = hist /\ kind' = kind
  BY <1>1 DEF Clock
<1>4. CallType'
  BY <1>1, <1>2, <1>3, CallStepType
<1>5. TypeInv'
  BY <1>1, <1>3, <1>4, IterSame
<1>6. PassIsExact'
  <2> SUFFICES ASSUME call.fresh, \A n \in During' : DOMAIN hist'[n] = DOMAIN Now'
               PROVE  ExactOut'
    BY <1>2 DEF PassIsExact, ExactOut
  <2>1. During' = During /\ Now' = Now
    BY <1>2, <1>3 DEF During, Now
  <2>2. Stable
    BY <1>3, <2>1 DEF Stable
  <2>3. ExactOut
    BY <2>2
  <2>4. /\ Cardinality(DOMAIN Now') = Len(call'.out)
        /\ {call'.out[n].id : n \in DOMAIN call'.out} = DOMAIN Now'
    BY <1>2, <2>1, <2>3 DEF ExactOut
  <2>5. \A n \in DOMAIN call'.out :
             call'.out[n].rev # <<>> /\ Seen(call'.out[n], call'.start..Clock')
    BY <1>2, <2>1, <2>3 DEF ExactOut, During
  <2>6. \A n \in DOMAIN call'.out : call'.out[n].rev # <<>> /\ Seen(call.out[n], During)'
    BY <1>3, <2>5 DEF Seen, SizeOf, Contacts, During
  <2> QED
    BY <2>4, <2>6 DEF ExactOut
<1>7. WritesAreReported' /\ RevisionsAreSeen'
  BY <1>2 DEF WritesAreReported, RevisionsAreSeen, Succeeded, Done, Iters
<1>8. CallInv'
  BY <1>2, <1>6, <1>7 DEF CallInv, SendInv, RevisionInv, PassInv
<1> QED
  BY <1>5, <1>8 DEF IInv

\* A list of the items in their order leaves none out.
LEMMA OutIsExact ==
  ASSUME TypeInv, Len(call.out) = Cardinality(DOMAIN Now),
         \A k \in 1..Len(call.out) : Exact(call.out[k], InOrder[k])
  PROVE  ExactOut
<1>1. /\ DOMAIN Now \subseteq Items /\ call.out \in Seq(Results) /\ Len(call.out) \in Nat
      /\ DOMAIN call.out = 1..Len(call.out)
  BY CallFacts, HistoryFacts
<1>2. /\ \A k \in 1..Len(call.out) : InOrder[k] \in DOMAIN Now
      /\ \A i \in DOMAIN Now : \E k \in 1..Len(call.out) : InOrder[k] = i
  BY <1>1, OrderFacts DEF InOrder
<1>3. \A k \in 1..Len(call.out) : /\ call.out[k].id = InOrder[k]
                                  /\ call.out[k].rev # <<>> /\ Seen(call.out[k], During)
  BY DEF Exact
<1>4. {call.out[n].id : n \in DOMAIN call.out} = DOMAIN Now
  <2> DEFINE o == call.out
             ids == {o[n].id : n \in DOMAIN o}
  <2>1. ASSUME NEW i \in DOMAIN Now PROVE i \in ids
    <3>1. PICK k \in DOMAIN o : InOrder[k] = i
      BY <1>1, <1>2
    <3>2. o[k].id = i
      BY <1>1, <1>3, <3>1
    <3> QED
      BY <3>2
  <2>2. ASSUME NEW i \in ids PROVE i \in DOMAIN Now
    <3>1. PICK k \in DOMAIN o : o[k].id = i
      OBVIOUS
    <3> QED
      BY <1>1, <1>2, <1>3, <3>1
  <2> HIDE DEF ids
  <2>3. ids = DOMAIN Now
    BY <2>1, <2>2
  <2> QED
    BY <2>3 DEF ids
<1> QED
  BY <1>1, <1>3, <1>4 DEF ExactOut

\* The types of the contacts' iterator, and of the call.
LEMMA ContactType ==
  ASSUME TypeInv, UNCHANGED <<kind, hist, connected, calendarVars>>,
         reader' \in BOOLEAN, cursor' \in [Iters -> 0..AtEnd], total' \in [Iters -> 0..Cardinality(Items)],
         cont' \in Seq(Results), CallType'
  PROVE  TypeInv'
BY DEF TypeInv, IterType, calendarVars, History

(* cursorInit(): a pass begins in front of the first contact.              *)
LEMMA CursorInitKeeps ==
  ASSUME IInv, NEW op \in Iters, ContactsCursorInit(op)
  PROVE  IInv'
<1>1. /\ TypeInv /\ IterType /\ Clock \in Nat /\ Clock \in 1..Clock /\ DOMAIN Now \subseteq Items
      /\ op \in Ops /\ Contacts
  BY CallFacts, HistoryFacts DEF IInv, Ops, ContactsCursorInit
<1>2. UNCHANGED <<kind, hist, connected, cont, calendarVars>> /\ reader' \in BOOLEAN
  BY <1>1 DEF ContactsCursorInit, IterType
<1>3. Clock' = Clock /\ hist' = hist /\ kind' = kind /\ cont' = cont
  BY <1>2 DEF Clock
<1>4. 0 \in 0..AtEnd /\ AtEnd \in 0..AtEnd
  BY ItemFacts
<1>5. Count \in 0..Cardinality(Items) /\ Count \in Nat
  <2>1. IsFiniteSet(Items) /\ Cardinality(Items) \in Nat
    BY EDSAssumption, ItemFacts
  <2>2. Cardinality(DOMAIN Now) <= Cardinality(Items) /\ Cardinality(DOMAIN Now) \in Nat
    BY <1>1, <2>1, FS_Subset, OrderFacts
  <2> QED
    BY <2>1, <2>2 DEF Count
<1>6. CASE /\ cursor' = [cursor EXCEPT ![op] = 0]
           /\ total' = [total EXCEPT ![op] = Cardinality(DOMAIN Now)]
           /\ call' = [Begin(op, "next") EXCEPT !.fresh = cont = <<>>]
  <2>1. Fresh(Begin(op, "next"), op, "next")
    BY <1>1, BeginType DEF Steps
  <2>2. /\ call' \in Calls /\ call'.step = "next" /\ call'.op = op /\ call'.start = Clock
        /\ call'.at = 0
        /\ call'.out = <<>> /\ call'.fresh = (cont = <<>>)
    BY <1>6, <2>1 DEF Calls, Fresh
  <2>3. CallType'
    BY <1>1, <1>3, <2>2 DEF CallType
  <2>4. /\ cursor' \in [Iters -> 0..AtEnd] /\ cursor'[op] = 0
        /\ total' \in [Iters -> 0..Cardinality(Items)] /\ total'[op] = Count
    BY <1>1, <1>4, <1>5, <1>6 DEF IterType, Count
  <2>5. TypeInv'
    BY <1>1, <1>2, <2>3, <2>4, ContactType DEF IterType
  <2>6. ASSUME call'.fresh PROVE ContactPassAt(0)'
    <3>1. cont' = <<>>
      BY <1>3, <2>2, <2>6
    <3>2. Count' = Count
      BY <1>3 DEF Count, Now
    <3>3. 1..Len(call'.out) = {} /\ 1..Len(cont') = {} /\ Len(call'.out) + Len(cont') = 0
      BY <2>2, <3>1
    <3> QED
      BY <2>2, <2>4, <3>2, <3>3 DEF ContactPassAt
  <2>7. 0 \in 0..Count'
    BY <1>3, <1>5 DEF Count, Now
  <2>8. Contacts'
    BY <1>1, <1>3 DEF Contacts
  <2>9. PassInv'
    BY <2>2, <2>6, <2>7, <2>8 DEF PassInv
  <2>10. CallInv'
    BY <2>2, <2>9 DEF CallInv, SendInv, RevisionInv, WritesAreReported, RevisionsAreSeen,
       PassIsExact, Succeeded, Done
  <2> QED
    BY <2>5, <2>10 DEF IInv
<1>7. CASE /\ cursor' = [cursor EXCEPT ![op] = AtEnd]
           /\ call' = [Begin(op, "done") EXCEPT !.failed = TRUE, !.ret = IF op = "read" THEN "ok" ELSE "fail"]
           /\ UNCHANGED total
  <2>1. Fresh(Begin(op, "done"), op, "done")
    BY <1>1, BeginType DEF Steps
  <2>2. /\ call' \in Calls /\ call'.step = "done" /\ call'.op = op /\ call'.start = Clock
        /\ call'.failed = TRUE
    BY <1>7, <2>1 DEF Calls, Fresh
  <2>3. CallType'
    BY <1>1, <1>3, <2>2 DEF CallType
  <2>4. cursor' \in [Iters -> 0..AtEnd] /\ total' \in [Iters -> 0..Cardinality(Items)]
    BY <1>1, <1>4, <1>7 DEF IterType
  <2>5. TypeInv'
    BY <1>1, <1>2, <2>3, <2>4, ContactType DEF IterType
  <2>6. CallInv'
    BY <2>2, QuietCall DEF Quiet
  <2> QED
    BY <2>5, <2>6 DEF IInv
<1> QED
  BY <1>6, <1>7 DEF ContactsCursorInit

(* getItem() goes on with a cursor of an earlier call.                     *)
LEMMA ReadOnKeeps ==
  ASSUME IInv, ReadOn
  PROVE  IInv'
<1>1. TypeInv /\ History(hist) /\ Clock \in Nat /\ Clock \in 1..Clock
  BY CallFacts DEF IInv
<1>2. /\ UNCHANGED <<kind, hist, connected, iterVars>> /\ Contacts
      /\ call' = [Begin("read", "next") EXCEPT !.fresh = FALSE]
  BY DEF ReadOn
<1>3. Clock' = Clock /\ History(hist') /\ Contacts'
  BY <1>1, <1>2 DEF Clock, Contacts
<1>4. Fresh(Begin("read", "next"), "read", "next")
  BY <1>1, BeginType DEF Steps, Ops, Iters
<1>5. /\ call' \in Calls /\ call'.step = "next" /\ call'.op = "read" /\ call'.start = Clock
      /\ call'.at = 0
      /\ call'.fresh = FALSE
  BY <1>2, <1>4 DEF Calls, Fresh
<1>6. CallType'
  BY <1>1, <1>3, <1>5 DEF CallType
<1>7. TypeInv'
  BY <1>1, <1>2, <1>3, <1>6, IterSame
<1>8. PassInv'
  BY <1>3, <1>5 DEF PassInv, Iters
<1>9. CallInv'
  BY <1>5, <1>8 DEF CallInv, SendInv, RevisionInv, WritesAreReported, RevisionsAreSeen,
     PassIsExact, Succeeded, Done
<1> QED
  BY <1>7, <1>9 DEF IInv

(* What is behind the cursor are items that are there.                     *)
LEMMA RestFacts ==
  ASSUME TypeInv, NEW c
  PROVE  /\ After(c) \in Seq(Items) /\ Len(After(c)) \in Nat
         /\ Len(After(c)) = Cardinality({i \in DOMAIN Now : i > c})
         /\ \A k \in 1..Len(After(c)) : After(c)[k] \in DOMAIN Now /\ After(c)[k] \in Items
<1> DEFINE X == {i \in DOMAIN Now : i > c}
<1>1. X \subseteq Items /\ X \subseteq DOMAIN Now
  BY CallFacts, HistoryFacts
<1>2. After(c) = Sorted(X)
  BY DEF After
<1> HIDE DEF X
<1>3. /\ Cardinality(X) \in Nat /\ Sorted(X) \in Seq(Items) /\ Len(Sorted(X)) = Cardinality(X)
      /\ \A k \in 1..Cardinality(X) : Sorted(X)[k] \in X /\ Sorted(X)[k] \in Items
  BY <1>1, OrderFacts
<1> QED
  BY <1>1, <1>2, <1>3 DEF X

\* What is behind the cursor after m contacts.
LEMMA RestOfPass ==
  ASSUME TypeInv, NEW m \in 0..Count, NEW c, c = IF m = 0 THEN 0 ELSE InOrder[m]
  PROVE  /\ Len(After(c)) = Count - m
         /\ \A k \in 1..Count - m : After(c)[k] = InOrder[m + k]
         /\ Position(c) = m
<1> DEFINE X == DOMAIN Now
           N == Cardinality(Items) + 1
<1>1. X \subseteq Items
  BY CallFacts, HistoryFacts
<1>2. N \in Nat /\ X \in SUBSET (0..N - 1) /\ 0 \notin X /\ AtEnd = N /\ AtEnd \notin X /\ AtEnd # 0
  BY <1>1, ItemFacts
<1>3. m \in 0..Cardinality(X) /\ c = IF m = 0 THEN 0 ELSE Sorted(X)[m]
  BY DEF Count, InOrder
<1>4. Cardinality(X) \in Nat /\ \A k \in 1..Cardinality(X) : Sorted(X)[k] \in X
  BY <1>1, OrderFacts
<1> HIDE DEF X, N
<1>5. /\ Sorted({i \in X : i > c}) = [k \in 1..Cardinality(X) - m |-> Sorted(X)[m + k]]
      /\ Cardinality({i \in X : i <= c}) = m
  BY <1>2, <1>3, AfterFacts
<1>6. c # AtEnd
  <2>1. CASE m = 0
    BY <1>2, <1>3, <2>1
  <2>2. CASE m # 0
    <3>1. m \in 1..Cardinality(X)
      BY <1>3, <1>4, <2>2
    <3> QED
      BY <1>2, <1>3, <1>4, <2>2, <3>1
  <2> QED
    BY <2>1, <2>2
<1>7. Position(c) = m
  BY <1>5, <1>6 DEF Position, X
<1>8. After(c) = [k \in 1..Cardinality(X) - m |-> Sorted(X)[m + k]]
  BY <1>5 DEF After, X
<1>9. Cardinality(X) - m \in Nat
  BY <1>3, <1>4
<1>10. /\ Len(After(c)) = Cardinality(X) - m
       /\ \A k \in 1..Cardinality(X) - m : After(c)[k] = Sorted(X)[m + k]
  BY <1>8, <1>9
<1> QED
  BY <1>7, <1>10 DEF Count, InOrder, X

\* The cursor at the end, or behind the m-th contact.
LEMMA CursorFacts ==
  ASSUME TypeInv, NEW m \in 0..Count, ContactPassAt(m)
  PROVE  LET c == cursor[call.op]
         IN  \/ /\ Len(After(c)) = Count - m /\ Position(c) = m
                /\ \A k \in 1..Count - m : After(c)[k] = InOrder[m + k]
             \/ c = AtEnd /\ m = Count /\ Position(c) = Count + 1 /\ Len(After(c)) = 0
<1> DEFINE c == cursor[call.op]
<1>1. (c = AtEnd /\ m = Count) \/ c = IF m = 0 THEN 0 ELSE InOrder[m]
  BY DEF ContactPassAt
<1>2. CASE c = AtEnd /\ m = Count
  <2>1. Position(c) = Count + 1
    BY <1>2 DEF Position, Count
  <2>2. {i \in DOMAIN Now : i > c} = {}
    <3>1. \A i \in DOMAIN Now : i \in 0..AtEnd
      BY CallFacts, HistoryFacts, ItemFacts
    <3>2. AtEnd \in Nat
      BY ItemFacts
    <3> QED
      BY <1>2, <3>1, <3>2
  <2>3. Len(After(c)) = 0
    BY <2>2, RestFacts, FS_EmptySet
  <2> QED
    BY <1>2, <2>1, <2>3
<1>3. CASE c = IF m = 0 THEN 0 ELSE InOrder[m]
  <2> HIDE DEF c
  <2>1. /\ Len(After(c)) = Count - m /\ Position(c) = m
        /\ \A k \in 1..Count - m : After(c)[k] = InOrder[m + k]
    BY <1>3, RestOfPass
  <2> QED
    BY <2>1 DEF c
<1> QED
  BY <1>1, <1>2, <1>3

(* A contact goes from the front of the static list to the end of what was *)
(* handed out.                                                             *)
LEMMA NextContactKeeps ==
  ASSUME IInv, NextContact
  PROVE  IInv'
<1> DEFINE o == call.out
           x == Head(cont)
<1>1. /\ TypeInv /\ IterType /\ call \in Calls /\ History(hist) /\ Clock \in Nat
      /\ o \in Seq(Results)
      /\ cont \in Seq(Results)
  BY CallFacts DEF IInv, IterType
<1>2. /\ call.step = "next" /\ call.op \in Iters /\ Contacts /\ cont # <<>>
      /\ call' = [call EXCEPT !.out = Append(o, x)] /\ cont' = Tail(cont)
      /\ UNCHANGED <<kind, hist, connected, reader, cursor, total, calendarVars>>
  BY <1>1 DEF NextContact, Passing, Iters, Calls
<1>3. /\ x \in Results /\ x = cont[1] /\ 1 \in 1..Len(cont)
      /\ Tail(cont) \in Seq(Results) /\ Len(cont) = Len(Tail(cont)) + 1 /\ Len(Tail(cont)) \in Nat
      /\ \A k \in 1..Len(Tail(cont)) : Tail(cont)[k] = cont[k + 1] /\ k + 1 \in 1..Len(cont)
  BY <1>1, <1>2, TailFacts
<1> HIDE DEF x
<1>4. /\ Append(o, x) \in Seq(Results) /\ Len(Append(o, x)) = Len(o) + 1 /\ Len(o) \in Nat
      /\ \A k \in 1..Len(o) : Append(o, x)[k] = o[k]
      /\ Append(o, x)[Len(o) + 1] = x
  BY <1>1, <1>3, AppendFacts
<1>5. /\ call' \in Calls /\ call'.step = "next" /\ call'.op = call.op /\ call'.start = call.start
      /\ call'.at = call.at
      /\ call'.fresh = call.fresh /\ call'.out = Append(o, x)
  BY <1>1, <1>2, <1>4 DEF Calls
<1>6. Clock' = Clock /\ hist' = hist /\ kind' = kind /\ Contacts' = Contacts
  BY <1>2 DEF Clock, Contacts
<1>7. CallType'
  BY <1>1, <1>2, <1>5, <1>6, CallStepType
<1>8. TypeInv'
  BY <1>1, <1>2, <1>3, <1>7, ContactType DEF IterType
<1>9. Count' = Count /\ InOrder' = InOrder /\ (Stable' <=> Stable)
  BY <1>5, <1>6 DEF Count, InOrder, Stable, During, Now
<1>10. ASSUME call.fresh, Stable
       PROVE  \E m \in 0..Count' : ContactPassAt(m)'
  <2>1. PICK m \in 0..Count : ContactPassAt(m)
    BY <1>2, <1>10 DEF IInv, CallInv, PassInv
  <2>2. /\ Len(o) + Len(cont) = m
        /\ \A k \in 1..Len(o) : Exact(o[k], InOrder[k])
        /\ \A k \in 1..Len(cont) : Exact(cont[k], InOrder[Len(o) + k])
    BY <2>1 DEF ContactPassAt
  <2> DEFINE t == Tail(cont)
             p == Append(o, x)
  <2>3. /\ Len(t) \in Nat /\ Len(cont) = Len(t) + 1
        /\ \A k \in 1..Len(t) : t[k] = cont[k + 1] /\ k + 1 \in 1..Len(cont)
        /\ Len(p) = Len(o) + 1 /\ Len(o) \in Nat /\ p[Len(o) + 1] = x
        /\ \A k \in 1..Len(o) : p[k] = o[k]
    BY <1>3, <1>4
  <2>4. cont' = t /\ call'.out = p
    BY <1>2, <1>5
  <2> HIDE DEF t, p
  <2>5. Len(p) + Len(t) = m
    <3>1. Len(o) + Len(cont) = m /\ Len(cont) = Len(t) + 1 /\ Len(p) = Len(o) + 1
      BY <2>2, <2>3
    <3>2. Len(o) \in Nat /\ Len(t) \in Nat /\ Len(cont) \in Nat /\ Len(p) \in Nat
      BY <1>1, <2>3
    <3> DEFINE lo == Len(o)
               lt == Len(t)
    <3>3. lo \in Nat /\ lt \in Nat /\ m = lo + (lt + 1) /\ Len(p) = lo + 1
      BY <3>1, <3>2
    <3> HIDE DEF lo, lt
    <3>4. Len(p) + lt = m
      BY <3>3
    <3> QED
      BY <3>4 DEF lt
  <2>6. \A k \in 1..Len(p) : Exact(p[k], InOrder[k])
    <3> TAKE k \in 1..Len(p)
    <3>1. CASE k = Len(o) + 1
      <4>1. Exact(cont[1], InOrder[Len(o) + 1])
        BY <1>3, <2>2
      <4> QED
        BY <1>3, <2>3, <3>1, <4>1
    <3>2. CASE k \in 1..Len(o)
      BY <2>2, <2>3, <3>2
    <3> QED
      BY <2>3, <3>1, <3>2
  <2>7. \A k \in 1..Len(t) : Exact(t[k], InOrder[Len(p) + k])
    <3> TAKE k \in 1..Len(t)
    <3>1. Exact(cont[k + 1], InOrder[Len(o) + (k + 1)]) /\ t[k] = cont[k + 1]
      BY <2>2, <2>3
    <3>2. Len(o) + (k + 1) = Len(p) + k
      <4>1. Len(p) = Len(o) + 1 /\ Len(o) \in Nat /\ Len(p) \in Nat /\ k \in Nat
        BY <2>3
      <4> DEFINE lo == Len(o)
      <4>2. lo \in Nat /\ k \in Nat /\ Len(p) = lo + 1
        BY <4>1
      <4> HIDE DEF lo
      <4>3. lo + (k + 1) = Len(p) + k
        BY <4>2
      <4> QED
        BY <4>3 DEF lo
    <3> QED
      BY <3>1, <3>2
  <2>8. \A k \in 1..Len(call'.out) : Exact(call.out[k], InOrder[k])'
    <3>1. \A k \in 1..Len(call'.out) : Exact(call'.out[k], InOrder'[k])
      BY <1>9, <2>4, <2>6
    <3> QED
      BY <1>5, <1>6, <3>1 DEF Exact, Seen, SizeOf, Contacts, During
  <2>9. \A k \in 1..Len(cont') : Exact(cont[k], InOrder[Len(call.out) + k])'
    <3>1. \A k \in 1..Len(cont') : Exact(cont'[k], InOrder'[Len(call'.out) + k])
      BY <1>9, <2>4, <2>7
    <3> QED
      BY <1>5, <1>6, <3>1, SMTT(30) DEF Exact, Seen, SizeOf, Contacts, During
  <2>10. /\ total[call.op] = Count
         /\ \/ cursor[call.op] = IF m = 0 THEN 0 ELSE InOrder[m]
            \/ cursor[call.op] = AtEnd /\ m = Count
    BY <2>1 DEF ContactPassAt
  <2>11. ContactPassAt(m)'
    BY <1>2, <1>5, <1>9, <2>4, <2>5, <2>8, <2>9, <2>10 DEF ContactPassAt
  <2> QED
    BY <1>9, <2>1, <2>11
<1>11. call.at = 0
  BY <1>2 DEF IInv, CallInv, PassInv
<1>12. PassInv'
  BY <1>2, <1>5, <1>6, <1>9, <1>10, <1>11 DEF PassInv
<1>13. CallInv'
  BY <1>5, <1>12 DEF CallInv, SendInv, RevisionInv, WritesAreReported, RevisionsAreSeen,
     PassIsExact, Succeeded, Done
<1> QED
  BY <1>8, <1>13 DEF IInv

\* What a fetch gives: the next contacts and their revisions.
Fetched(c) ==
  LET n == Smaller(Len(After(c)), FetchContactsSize)
  IN  [k \in 1..n |-> Result(After(c)[k], Stamps(After(c)[k]))]

(* The contacts of a fetch are the next ones, with the revisions of now.   *)
LEMMA FetchedFacts ==
  ASSUME TypeInv, call.step # "idle", NEW c
  PROVE  /\ Fetched(c) \in Seq(Results)
         /\ Len(Fetched(c)) = Smaller(Len(After(c)), FetchContactsSize)
         /\ \A k \in 1..Len(Fetched(c)) :
              k \in 1..Len(After(c)) /\ Exact(Fetched(c)[k], After(c)[k])
<1> DEFINE s == After(c)
           n == Smaller(Len(s), FetchContactsSize)
           f == [k \in 1..n |-> Result(s[k], Stamps(s[k]))]
<1>1. Len(s) \in Nat /\ \A k \in 1..Len(s) : s[k] \in DOMAIN Now
  BY RestFacts
<1>2. Fetched(c) = f
  BY DEF Fetched
<1> HIDE DEF s
<1>3. n \in Nat /\ \A k \in 1..n : k \in 1..Len(s)
  BY <1>1, ItemFacts DEF Smaller
<1> HIDE DEF n
<1>4. ASSUME NEW i \in DOMAIN Now
      PROVE  Result(i, Stamps(i)) \in Results /\ Exact(Result(i, Stamps(i)), i)
  <2>1. Stamps(i) # <<>> /\ Result(i, Stamps(i)) \in Results
    BY StampsType
  <2>2. Clock \in During
    <3>1. call.start \in 1..Clock /\ Clock \in Nat
      BY CallFacts DEF CallType
    <3> QED
      BY <3>1 DEF During
  <2>3. Seen(Result(i, Stamps(i)), During)
    BY <2>2 DEF Seen, Result, Stamps, Now
  <2> QED
    BY <2>1, <2>3 DEF Exact, Result
<1>5. \A k \in 1..n :
           Result(s[k], Stamps(s[k])) \in Results /\ Exact(Result(s[k], Stamps(s[k])), s[k])
  BY <1>1, <1>3, <1>4
<1>6. f \in Seq(Results) /\ Len(f) = n /\ \A k \in 1..n : f[k] = Result(s[k], Stamps(s[k]))
  BY <1>3, <1>5
<1> HIDE DEF f
<1>7. \A k \in 1..Len(f) : k \in 1..Len(s) /\ Exact(f[k], s[k])
  BY <1>3, <1>5, <1>6
<1> QED
  BY <1>2, <1>6, <1>7 DEF n, s

(* fetchContacts(), up to the step that fetches: the pass ends only behind *)
(* the last contact.                                                       *)
LEMMA FetchKeeps ==
  ASSUME IInv, FetchContacts
  PROVE  IInv'
<1> DEFINE c == cursor[call.op]
<1>1. /\ TypeInv /\ IterType /\ call \in Calls /\ History(hist) /\ Clock \in Nat
  BY CallFacts DEF IInv
<1>2. /\ call.step = "next" /\ call.op \in Iters /\ Contacts /\ cont = <<>>
      /\ UNCHANGED <<kind, hist, connected, iterVars>>
  BY DEF FetchContacts, Passing, Iters
<1>3. \/ (Position(c) > total[call.op] \/ Smaller(Len(After(c)), FetchContactsSize) = 0) /\ PassEnds
      \/ /\ Position(c) <= total[call.op] /\ Smaller(Len(After(c)), FetchContactsSize) > 0
         /\ call' = [call EXCEPT !.step = "move", !.args = Fetched(c)]
      \/ PassBreaks
  BY DEF FetchContacts, Fetched, Smaller
<1> HIDE DEF c
<1>4. ASSUME call.fresh, Stable
      PROVE  \E m \in 0..Count : ContactPassAt(m)
  BY <1>2, <1>4 DEF IInv, CallInv, PassInv
<1>5. Count \in Nat
  <2>1. DOMAIN Now \subseteq Items
    BY <1>1, HistoryFacts
  <2> QED
    BY <2>1, OrderFacts DEF Count
<1>6. Len(After(c)) \in Nat /\ FetchContactsSize \in Nat /\ FetchContactsSize > 0
  BY <1>1, RestFacts, ItemFacts
<1>7. CASE PassBreaks
  BY <1>2, <1>7, PassBreaksKeeps
<1>8. CASE (Position(c) > total[call.op] \/ Smaller(Len(After(c)), FetchContactsSize) = 0) /\ PassEnds
  <2>1. ASSUME call.fresh, Stable PROVE ExactOut
    <3>1. PICK m \in 0..Count : ContactPassAt(m)
      BY <1>4, <2>1
    <3>2. /\ total[call.op] = Count /\ Len(call.out) + Len(cont) = m
          /\ \A k \in 1..Len(call.out) : Exact(call.out[k], InOrder[k])
      BY <3>1 DEF ContactPassAt
    <3>3. m = Count
      <4>1. \/ Len(After(c)) = Count - m /\ Position(c) = m
            \/ m = Count
        BY <1>1, <3>1, CursorFacts DEF c
      <4>2. CASE Len(After(c)) = Count - m /\ Position(c) = m
        <5>1. ~(Position(c) > total[call.op])
          BY <1>5, <3>2, <4>2
        <5>2. Smaller(Len(After(c)), FetchContactsSize) = 0
          BY <1>8, <5>1
        <5>3. Len(After(c)) = 0
          BY <1>6, <5>2 DEF Smaller
        <5> QED
          BY <1>5, <4>2, <5>3
      <4> QED
        BY <4>1, <4>2
    <3>4. Len(call.out) = Cardinality(DOMAIN Now)
      <4>1. Len(call.out) \in Nat /\ Len(cont) = 0
        BY <1>1, <1>2, CallFacts
      <4> QED
        BY <3>2, <3>3, <4>1 DEF Count
    <3> QED
      BY <1>1, <3>2, <3>4, OutIsExact
  <2> QED
    BY <1>2, <1>8, <2>1, PassEndsKeeps
<1>9. CASE /\ Position(c) <= total[call.op] /\ Smaller(Len(After(c)), FetchContactsSize) > 0
           /\ call' = [call EXCEPT !.step = "move", !.args = Fetched(c)]
  <2>1. /\ Fetched(c) \in Seq(Results)
        /\ Len(Fetched(c)) = Smaller(Len(After(c)), FetchContactsSize)
        /\ \A k \in 1..Len(Fetched(c)) : k \in 1..Len(After(c)) /\ Exact(Fetched(c)[k], After(c)[k])
    BY <1>1, <1>2, FetchedFacts
  <2> DEFINE f == Fetched(c)
  <2> HIDE DEF f
  <2>2. /\ call' \in Calls /\ call'.step = "move" /\ call'.args = f /\ call'.op = call.op
        /\ call'.start = call.start
        /\ call'.at = call.at /\ call'.fresh = call.fresh /\ call'.out = call.out
    <3>1. f \in Seq(Items) \cup Seq(Results) /\ call' = [call EXCEPT !.step = "move", !.args = f]
      BY <1>9, <2>1 DEF f
    <3> QED
      BY <1>1, <3>1 DEF Calls, Steps
  <2>3. Clock' = Clock /\ hist' = hist /\ kind' = kind /\ History(hist') /\ Contacts' = Contacts
    BY <1>1, <1>2 DEF Clock, Contacts
  <2>4. f \in Seq(Results)
    BY <2>1 DEF f
  <2>5. CallType'
    BY <1>1, <1>2, <2>2, <2>3, <2>4, CallStepType
  <2>6. TypeInv'
    BY <1>1, <1>2, <2>3, <2>5, IterSame
  <2>7. Count' = Count /\ InOrder' = InOrder /\ (Stable' <=> Stable)
    BY <2>2, <2>3 DEF Count, InOrder, Stable, During, Now
  <2>8. ASSUME call.fresh, Stable
        PROVE  \E m \in 0..Count' : ContactPassAt(m)'
    <3>1. PICK m \in 0..Count : ContactPassAt(m)
      BY <1>4, <2>8
    <3>2. /\ total[call.op] = Count /\ Len(call.out) + Len(cont) = m
          /\ \A k \in 1..Len(call.out) : Exact(call.out[k], InOrder[k])
          /\ \/ cursor[call.op] = IF m = 0 THEN 0 ELSE InOrder[m]
             \/ cursor[call.op] = AtEnd /\ m = Count
      BY <3>1 DEF ContactPassAt
    <3>3. Len(After(c)) = Count - m /\ \A k \in 1..Count - m : After(c)[k] = InOrder[m + k]
      <4>1. \/ Len(After(c)) = Count - m /\ \A k \in 1..Count - m : After(c)[k] = InOrder[m + k]
            \/ Len(After(c)) = 0
        BY <1>1, <3>1, CursorFacts DEF c
      <4>2. Len(After(c)) # 0
        BY <1>6, <1>9 DEF Smaller
      <4> QED
        BY <4>1, <4>2
    <3>4. m < Count /\ Len(f) = Smaller(Count - m, FetchContactsSize)
      <4>1. Count - m # 0
        BY <1>6, <1>9, <3>3 DEF Smaller
      <4>2. m < Count
        BY <1>5, <4>1
      <4> QED
        BY <2>1, <3>3, <4>2 DEF f
    <3>5. \A k \in 1..Len(f) : Exact(f[k], InOrder[m + k])
      BY <2>1, <3>3 DEF f
    <3>6. \A k \in 1..Len(call'.out) : Exact(call.out[k], InOrder[k])'
      BY <2>2, <2>3, <2>7, <3>2 DEF Exact, Seen, SizeOf, Contacts, During
    <3>7. \A k \in 1..Len(call'.args) : Exact(call.args[k], InOrder[m + k])'
      BY <2>2, <2>3, <2>7, <3>5 DEF Exact, Seen, SizeOf, Contacts, During
    <3>8. cont' = cont /\ total' = total /\ cursor' = cursor /\ Len(cont') = 0
      BY <1>2 DEF iterVars
    <3>9. \A k \in 1..Len(cont') : Exact(cont[k], InOrder[Len(call.out) + k])'
      BY <3>8
    <3>10. ContactPassAt(m)'
      BY <1>2, <2>2, <2>7, <3>2, <3>4, <3>6, <3>7, <3>8, <3>9 DEF ContactPassAt
    <3> QED
      BY <2>7, <3>1, <3>10
  <2>9. call.at = 0
    BY <1>2 DEF IInv, CallInv, PassInv
  <2>10. PassInv'
    BY <1>2, <2>2, <2>3, <2>7, <2>8, <2>9 DEF PassInv
  <2>11. CallInv'
    BY <2>2, <2>10 DEF CallInv, SendInv, RevisionInv, WritesAreReported, RevisionsAreSeen,
       PassIsExact, Succeeded, Done
  <2> QED
    BY <2>6, <2>11 DEF IInv
<1> QED
  BY <1>3, <1>7, <1>8, <1>9

(* The cursor moves behind the contacts that were fetched.                 *)
LEMMA MoveKeeps ==
  ASSUME IInv, MoveCursor
  PROVE  IInv'
<1> DEFINE c == cursor[call.op]
           s == After(c)
           d == IF Len(s) < FetchContactsSize THEN AtEnd ELSE s[FetchContactsSize]
<1>1. /\ TypeInv /\ IterType /\ CallType /\ call \in Calls /\ History(hist) /\ Clock \in Nat
      /\ call.out \in Seq(Results)
  BY CallFacts DEF IInv
<1>2. /\ call.step = "move" /\ call.op \in Iters
      /\ UNCHANGED <<kind, hist, connected, reader, total, calendarVars>>
  BY DEF MoveCursor, Passing, Iters
<1>3. \/ /\ cursor' = [cursor EXCEPT ![call.op] = d] /\ cont' = call.args
         /\ call' = [call EXCEPT !.step = "next", !.args = <<>>]
      \/ PassBreaks /\ UNCHANGED <<cursor, cont>>
  BY DEF MoveCursor
<1>4. /\ Len(s) \in Nat
      /\ (\A k \in 1..Len(s) : s[k] \in Items) /\ FetchContactsSize \in Nat /\ FetchContactsSize > 0
  BY <1>1, RestFacts, ItemFacts
<1>5. call.args \in Seq(Results)
  BY <1>1, <1>2 DEF CallType
<1> HIDE DEF s
<1>6. d \in 0..AtEnd
  <2>1. CASE Len(s) < FetchContactsSize
    BY <2>1, ItemFacts
  <2>2. CASE ~(Len(s) < FetchContactsSize)
    <3>1. FetchContactsSize \in 1..Len(s)
      BY <1>4, <2>2
    <3>2. s[FetchContactsSize] \in 0..AtEnd
      BY <1>4, <3>1, ItemFacts
    <3> QED
      BY <2>2, <3>2
  <2> QED
    BY <2>1, <2>2
<1>7. CASE PassBreaks /\ UNCHANGED <<cursor, cont>>
  <2>1. UNCHANGED <<kind, hist, connected, iterVars>>
    BY <1>2, <1>7 DEF iterVars, calendarVars
  <2> QED
    BY <1>2, <1>7, <2>1, PassBreaksKeeps
<1>8. CASE /\ cursor' = [cursor EXCEPT ![call.op] = d] /\ cont' = call.args
           /\ call' = [call EXCEPT !.step = "next", !.args = <<>>]
  <2> HIDE DEF d
  <2>1. /\ call' \in Calls /\ call'.step = "next" /\ call'.op = call.op /\ call'.start = call.start
        /\ call'.at = call.at /\ call'.fresh = call.fresh /\ call'.out = call.out
    <3>1. <<>> \in Seq(Items)
      OBVIOUS
    <3> QED
      BY <1>1, <1>8, <3>1 DEF Calls, Steps
  <2>2. Clock' = Clock /\ hist' = hist /\ kind' = kind /\ Contacts' = Contacts
    BY <1>2 DEF Clock, Contacts
  <2>3. CallType'
    BY <1>1, <1>2, <2>1, <2>2, CallStepType
  <2>4. cursor' \in [Iters -> 0..AtEnd] /\ cursor'[call.op] = d
    BY <1>1, <1>2, <1>6, <1>8 DEF IterType
  <2>5. TypeInv'
    BY <1>1, <1>2, <1>5, <1>8, <2>3, <2>4, ContactType DEF IterType
  <2>6. Count' = Count /\ InOrder' = InOrder /\ (Stable' <=> Stable)
    BY <2>1, <2>2 DEF Count, InOrder, Stable, During, Now
  <2>7. Count \in Nat
    <3>1. DOMAIN Now \subseteq Items
      BY <1>1, HistoryFacts
    <3> QED
      BY <3>1, OrderFacts DEF Count
  <2>8. ASSUME Contacts, call.fresh, Stable
        PROVE  \E m \in 0..Count' : ContactPassAt(m)'
    <3>1. PICK m \in 0..Count : ContactPassAt(m)
      BY <1>2, <2>8 DEF IInv, CallInv, PassInv
    <3> DEFINE a == call.args
               n == Len(a)
               F == FetchContactsSize
    <3>2. /\ total[call.op] = Count /\ Len(call.out) + Len(cont) = m
          /\ \A k \in 1..Len(call.out) : Exact(call.out[k], InOrder[k])
      BY <3>1 DEF ContactPassAt
    <3>3. /\ cont = <<>> /\ m < Count /\ n = Smaller(Count - m, F)
          /\ \A k \in 1..n : Exact(a[k], InOrder[m + k])
      BY <1>2, <3>1 DEF ContactPassAt
    <3>4. /\ Len(s) = Count - m
          /\ \A k \in 1..Count - m : s[k] = InOrder[m + k]
      <4>1. \/ Len(s) = Count - m /\ \A k \in 1..Count - m : s[k] = InOrder[m + k]
            \/ m = Count
        BY <1>1, <3>1, CursorFacts DEF s
      <4> QED
        BY <2>7, <3>3, <4>1
    <3>5. Len(call.out) = m /\ n \in Nat /\ m \in Nat /\ n <= Count - m /\ m + n \in 0..Count
      <4>1. Len(cont) = 0 /\ Len(call.out) \in Nat /\ Len(a) \in Nat
        BY <1>1, <1>5, <3>3
      <4>2. Len(call.out) = m /\ m \in Nat
        BY <2>7, <3>2, <4>1
      <4>3. n <= Count - m
        BY <1>4, <2>7, <3>3 DEF Smaller
      <4> QED
        BY <2>7, <4>1, <4>2, <4>3
    <3>6. \/ d = IF m + n = 0 THEN 0 ELSE InOrder[m + n]
          \/ d = AtEnd /\ m + n = Count
      <4>1. CASE Count - m < F
        <5>1. n = Count - m
          BY <3>3, <4>1 DEF Smaller
        <5> QED
          BY <2>7, <3>4, <3>5, <4>1, <5>1 DEF d
      <4>2. CASE ~(Count - m < F)
        <5>1. n = F
          BY <3>3, <4>2 DEF Smaller
        <5>2. F \in 1..Count - m
          BY <1>4, <2>7, <3>5, <4>2
        <5>3. d = s[F] /\ s[F] = InOrder[m + F]
          BY <3>4, <4>2, <5>2 DEF d
        <5>4. m + n # 0
          BY <1>4, <3>5, <5>1
        <5> QED
          BY <5>1, <5>3, <5>4
      <4> QED
        BY <4>1, <4>2
    <3>7. \A k \in 1..Len(call'.out) : Exact(call.out[k], InOrder[k])'
      BY <2>1, <2>2, <2>6, <3>2 DEF Exact, Seen, SizeOf, Contacts, During
    <3>8. \A k \in 1..Len(cont') : Exact(cont[k], InOrder[Len(call.out) + k])'
      <4>1. \A k \in 1..Len(cont') : Exact(cont'[k], InOrder'[Len(call'.out) + k])
        BY <1>8, <2>1, <2>6, <3>3, <3>5
      <4> SUFFICES ASSUME NEW k \in 1..Len(cont') PROVE Exact(cont[k], InOrder[Len(call.out) + k])'
        OBVIOUS
      <4>2. Exact(cont'[k], InOrder'[Len(call'.out) + k])
        BY <4>1
      <4>3. kind' = kind /\ hist' = hist /\ Clock' = Clock /\ call'.start = call.start
        BY <2>1, <2>2
      <4> QED
        BY <4>2, <4>3, ZenonT(40) DEF Exact, Seen, SizeOf, Contacts, During
    <3>9. Len(call'.out) + Len(cont') = m + n
      BY <1>8, <2>1, <3>5
    <3>10. total' = total
      BY <1>2
    <3> HIDE DEF n
    <3>11. PICK j \in 0..Count : j = m + n
      BY <3>5
    <3> HIDE DEF n
    <3>12. \/ cursor'[call'.op] = IF j = 0 THEN 0 ELSE InOrder'[j]
           \/ cursor'[call'.op] = AtEnd /\ j = Count'
      BY <2>1, <2>4, <2>6, <3>6, <3>11
    <3>13. total'[call'.op] = Count' /\ Len(call'.out) + Len(cont') = j /\ call'.step # "move"
      BY <2>1, <2>6, <3>2, <3>9, <3>10, <3>11
    <3>14. ContactPassAt(j)'
      BY <3>7, <3>8, <3>12, <3>13 DEF ContactPassAt
    <3> QED
      BY <2>6, <3>14
  <2>9. call.at = 0 /\ Contacts
    BY <1>2 DEF IInv, CallInv, PassInv
  <2>10. PassInv'
    BY <1>2, <2>1, <2>2, <2>6, <2>8, <2>9 DEF PassInv
  <2>11. CallInv'
    BY <2>1, <2>10 DEF CallInv, SendInv, RevisionInv, WritesAreReported, RevisionsAreSeen,
       PassIsExact, Succeeded, Done
  <2> QED
    BY <2>5, <2>11 DEF IInv
<1> QED
  BY <1>3, <1>7, <1>8

\* The types of the calendar's iterator, and of the call.
LEMMA CalendarType ==
  ASSUME TypeInv, UNCHANGED <<kind, hist, connected, reader, cursor, total, cont>>,
         file' \in Seq(Objects), events' \in Seq(Objects), CallType'
  PROVE  TypeInv'
BY DEF TypeInv, IterType, History

(* newStorageItemIterator() of the calendar: the file holds the objects of *)
(* all items.                                                              *)
LEMMA CalendarInitKeeps ==
  ASSUME IInv, NEW op \in Iters, CalendarCursorInit(op)
  PROVE  IInv'
<1>1. /\ TypeInv /\ IterType /\ History(hist) /\ Clock \in Nat /\ Clock \in 1..Clock
      /\ DOMAIN Now \subseteq Items
      /\ op \in Ops /\ ~Contacts
  BY CallFacts, HistoryFacts DEF IInv, Ops, CalendarCursorInit
<1>2. events' = <<>> /\ UNCHANGED <<kind, hist, connected, reader, cursor, total, cont>>
  BY DEF CalendarCursorInit
<1>3. Clock' = Clock /\ hist' = hist /\ ~Contacts'
  BY <1>1, <1>2 DEF Clock, Contacts
<1>4. CASE file' = VObjects /\ call' = Begin(op, "next")
  <2>1. Fresh(Begin(op, "next"), op, "next")
    BY <1>1, BeginType DEF Steps
  <2>2. /\ call' \in Calls /\ call'.step = "next" /\ call'.op = op /\ call'.start = Clock
        /\ call'.at = 0
        /\ call'.out = <<>>
    BY <1>4, <2>1 DEF Fresh
  <2>3. CallType'
    BY <1>1, <1>3, <2>2 DEF CallType
  <2> DEFINE q == VObjects
  <2>4. q \in Seq(Objects) /\ Blocks(q, 0, Now)
    BY <1>1, VObjectsFacts
  <2>5. file' = q
    BY <1>4
  <2> HIDE DEF q
  <2>6. events' \in Seq(Objects) /\ file' \in Seq(Objects) /\ events' \o file' = q
    BY <1>2, <2>4, <2>5
  <2>7. TypeInv'
    BY <1>1, <1>2, <2>3, <2>6, CalendarType
  <2>8. Then' = Now /\ Cardinality(DOMAIN Now) \in Nat
    BY <1>1, <1>3, <2>2, OrderFacts DEF Then, Now
  <2>9. ObjectPassAt(0)'
    <3>1. Len(call'.out) = 0 /\ 1..0 = {}
      BY <2>2
    <3> QED
      BY <2>4, <2>6, <2>8, <3>1 DEF ObjectPassAt
  <2>10. 0 \in 0..Cardinality(DOMAIN Then')
    BY <2>8
  <2>11. PassInv'
    BY <1>3, <2>2, <2>9, <2>10 DEF PassInv
  <2>12. CallInv'
    BY <2>2, <2>11 DEF CallInv, SendInv, RevisionInv, WritesAreReported, RevisionsAreSeen,
       PassIsExact, Succeeded, Done
  <2> QED
    BY <2>7, <2>12 DEF IInv
<1>5. CASE call' = [Begin(op, "done") EXCEPT !.failed = TRUE, !.ret = "fail"] /\ UNCHANGED file
  <2>1. Fresh(Begin(op, "done"), op, "done")
    BY <1>1, BeginType DEF Steps
  <2>2. /\ call' \in Calls /\ call'.step = "done" /\ call'.op = op /\ call'.start = Clock
        /\ call'.failed = TRUE
    BY <1>5, <2>1 DEF Calls, Fresh
  <2>3. CallType'
    BY <1>1, <1>3, <2>2 DEF CallType
  <2>4. file' \in Seq(Objects) /\ events' \in Seq(Objects)
    BY <1>1, <1>2, <1>5 DEF IterType
  <2>5. TypeInv'
    BY <1>1, <1>2, <2>3, <2>4, CalendarType
  <2>6. CallInv'
    BY <2>2, QuietCall DEF Quiet
  <2> QED
    BY <2>5, <2>6 DEF IInv
<1> QED
  BY <1>4, <1>5 DEF CalendarCursorInit

\* When the file is used up, every item was handed out as it was.
LEMMA ObjectsExact ==
  ASSUME TypeInv, call.step # "idle", ~Contacts, Stable, ObjectPassAt(Cardinality(DOMAIN Then))
  PROVE  ExactOut
<1>1. call.start \in 1..Clock /\ Clock \in Nat /\ History(hist)
  BY CallFacts DEF CallType
<1>2. call.start \in During
  BY <1>1 DEF During
<1>3. DOMAIN Then = DOMAIN Now /\ DOMAIN Now \subseteq Items
  BY <1>1, <1>2, HistoryFacts DEF Stable, Then
<1>4. ASSUME NEW i \in DOMAIN Now PROVE Exact(Whole(i), i)
  <2>1. Parts[i] \in Nat /\ Parts[i] > 0 /\ SizeOf(i) = Parts[i]
    BY <1>3, ItemFacts DEF SizeOf
  <2>2. Whole(i).id = i /\ Whole(i).rev = [k \in 1..Parts[i] |-> hist[call.start][i]]
    BY DEF Whole, Result, Then
  <2>3. Whole(i).rev # <<>>
    <3>1. hist[call.start][i] \in Nat
      BY <1>1, <1>3, HistoryFacts DEF Then
    <3> DEFINE w == [k \in 1..Parts[i] |-> hist[call.start][i]]
    <3>2. w \in Seq(Nat) /\ Len(w) = Parts[i]
      BY <2>1, <3>1
    <3> HIDE DEF w
    <3>3. w # <<>>
      BY <2>1, <3>2
    <3> QED
      BY <2>2, <3>3 DEF w
  <2>4. Whole(i).rev = [k \in 1..SizeOf(i) |-> hist[call.start][i]]
    BY <2>1, <2>2
  <2>5. i \in DOMAIN hist[call.start]
    BY <1>3 DEF Then
  <2>6. Seen(Whole(i), During)
    BY <1>2, <2>2, <2>4, <2>5 DEF Seen
  <2> QED
    BY <2>2, <2>3, <2>6 DEF Exact
<1>5. /\ Len(call.out) = Cardinality(DOMAIN Now)
      /\ \A k \in 1..Len(call.out) : call.out[k] = Whole(InOrder[k])
  BY <1>3 DEF ObjectPassAt, InOrder
<1>6. \A k \in 1..Len(call.out) : InOrder[k] \in DOMAIN Now
  BY <1>3, <1>5, OrderFacts DEF InOrder
<1>7. \A k \in 1..Len(call.out) : Exact(call.out[k], InOrder[k])
  BY <1>4, <1>5, <1>6
<1> QED
  BY <1>5, <1>7, OutIsExact

(* next() of the calendar's iterator.                                      *)
LEMMA NextObjectKeeps ==
  ASSUME IInv, NextObject
  PROVE  IInv'
<1>1. /\ TypeInv /\ IterType /\ CallType /\ call \in Calls /\ History(hist) /\ Clock \in Nat
      /\ call.out \in Seq(Results)
  BY CallFacts DEF IInv
<1>2. /\ call.step = "next" /\ call.op \in Iters /\ ~Contacts
      /\ UNCHANGED <<kind, hist, connected, reader, cursor, total, cont>>
  BY DEF NextObject, Passing, Iters
<1>3. PICK m \in 0..Cardinality(DOMAIN Then) : ObjectPassAt(m)
  BY <1>2 DEF IInv, CallInv, PassInv
<1>4. PICK x : x = Sorted(DOMAIN Then)[m + 1]
  OBVIOUS
<1>5. \/ m = Cardinality(DOMAIN Then) /\ PassEnds /\ UNCHANGED calendarVars
      \/ /\ m + 1 \in 1..Cardinality(DOMAIN Then) /\ Whole(x) \in Results
         /\ call' = [call EXCEPT !.out = Append(@, Whole(x))]
         /\ events' \in Seq(Objects) /\ file' \in Seq(Objects)
         /\ Blocks(events' \o file', m + 1, Then)
  BY <1>1, <1>3, <1>4, TakeObject
<1>6. CASE m = Cardinality(DOMAIN Then) /\ PassEnds /\ UNCHANGED calendarVars
  <2>1. UNCHANGED <<kind, hist, connected, iterVars>>
    BY <1>2, <1>6 DEF iterVars, calendarVars
  <2>2. Stable => ExactOut
    BY <1>1, <1>2, <1>3, <1>6, ObjectsExact
  <2> QED
    BY <1>2, <1>6, <2>1, <2>2, PassEndsKeeps
<1>7. CASE /\ m + 1 \in 1..Cardinality(DOMAIN Then) /\ Whole(x) \in Results
           /\ call' = [call EXCEPT !.out = Append(@, Whole(x))]
           /\ events' \in Seq(Objects) /\ file' \in Seq(Objects)
           /\ Blocks(events' \o file', m + 1, Then)
  <2> DEFINE o == call.out
             w == Whole(x)
  <2>1. PICK j \in 0..Cardinality(DOMAIN Then) : j = m + 1
    BY <1>7
  <2>2. Len(o) = m /\ \A k \in 1..m : o[k] = Whole(Sorted(DOMAIN Then)[k])
    BY <1>3 DEF ObjectPassAt
  <2>3. w = Whole(Sorted(DOMAIN Then)[j]) /\ w \in Results
    BY <1>4, <1>7, <2>1
  <2> HIDE DEF w
  <2>4. /\ Append(o, w) \in Seq(Results) /\ Len(Append(o, w)) = Len(o) + 1 /\ Len(o) \in Nat
        /\ \A k \in 1..Len(o) : Append(o, w)[k] = o[k]
        /\ Append(o, w)[Len(o) + 1] = w
    BY <1>1, <2>3, AppendFacts
  <2>5. /\ call' \in Calls /\ call'.step = "next" /\ call'.op = call.op /\ call'.start = call.start
        /\ call'.at = call.at /\ call'.out = Append(o, w)
    <3>1. call' = [call EXCEPT !.out = Append(o, w)]
      BY <1>1, <1>7 DEF w, Calls
    <3> QED
      BY <1>1, <1>2, <2>4, <3>1 DEF Calls
  <2>6. Clock' = Clock /\ hist' = hist /\ ~Contacts'
    BY <1>2 DEF Clock, Contacts
  <2>7. CallType'
    BY <1>1, <1>2, <2>5, <2>6, CallStepType
  <2>8. TypeInv'
    BY <1>1, <1>2, <1>7, <2>7, CalendarType
  <2>9. Then' = Then
    BY <2>5, <2>6 DEF Then
  <2>10. \A k \in 1..j : Append(o, w)[k] = Whole(Sorted(DOMAIN Then)[k])
    <3> TAKE k \in 1..j
    <3>1. m \in Nat /\ j = Len(o) + 1 /\ Len(o) = m
      BY <2>1, <2>2, <2>4
    <3>2. CASE k = j
      BY <2>3, <2>4, <3>1, <3>2
    <3>3. CASE k # j
      <4>1. k \in 1..Len(o) /\ k \in 1..m
        BY <3>1, <3>3
      <4> QED
        BY <2>2, <2>4, <4>1
    <3> QED
      BY <3>2, <3>3
  <2>11. ObjectPassAt(j)'
    <3>1. Len(call'.out) = j
      BY <2>1, <2>2, <2>4, <2>5
    <3>2. \A k \in 1..j : call'.out[k] = Whole(Sorted(DOMAIN Then)[k])'
      BY <2>5, <2>9, <2>10 DEF Whole
    <3>3. Blocks(events' \o file', j, Then')
      BY <1>7, <2>1, <2>9
    <3> QED
      BY <2>9, <3>1, <3>2, <3>3 DEF ObjectPassAt
  <2>12. call.at = 0
    BY <1>2 DEF IInv, CallInv, PassInv
  <2>13. PassInv'
    BY <1>2, <2>5, <2>6, <2>9, <2>11, <2>12 DEF PassInv
  <2>14. CallInv'
    BY <2>5, <2>13 DEF CallInv, SendInv, RevisionInv, WritesAreReported, RevisionsAreSeen,
       PassIsExact, Succeeded, Done
  <2> QED
    BY <2>8, <2>14 DEF IInv
<1> QED
  BY <1>5, <1>6, <1>7

-----------------------------------------------------------------------------
(* The theorems.                                                           *)

(* The inductive invariant holds in the beginning.                         *)
LEMMA InitInv ==
  ASSUME Init
  PROVE  IInv
<1>1. kind \in {"contacts", "event", "task"} /\ connected = FALSE
  BY DEF Init
<1>2. PICK there \in SUBSET Items : hist = <<[i \in there |-> 1]>>
  BY DEF Init
<1>3. History(hist)
  <2> DEFINE db == [i \in there |-> 1]
  <2>1. db \in Databases /\ \A i \in DOMAIN db : db[i] = 1
    BY DEF Databases
  <2> HIDE DEF db
  <2>2. hist = <<db>>
    BY <1>2 DEF db
  <2> QED
    BY <2>1, <2>2 DEF History
<1>4. IterType
  <2>1. 0 \in 0..AtEnd /\ 0 \in 0..Cardinality(Items)
    BY ItemFacts
  <2>2. cursor \in [Iters -> 0..AtEnd] /\ total \in [Iters -> 0..Cardinality(Items)]
    BY <2>1 DEF Init, Iters
  <2>3. /\ cont \in Seq(Results) /\ file \in Seq(Objects) /\ events \in Seq(Objects)
        /\ reader \in BOOLEAN
    <3>1. cont = <<>> /\ file = <<>> /\ events = <<>> /\ reader = FALSE
      BY DEF Init
    <3>2. <<>> \in Seq(Results) /\ <<>> \in Seq(Objects)
      OBVIOUS
    <3> QED
      BY <3>1, <3>2
  <2> QED
    BY <2>2, <2>3 DEF IterType
<1>5. call \in Calls /\ call.step = "idle"
  BY DEF Init, NoCall, Calls, Ops, Steps
<1>6. TypeInv
  BY <1>1, <1>3, <1>4, <1>5 DEF TypeInv, CallType
<1>7. CallInv
  BY <1>5 DEF CallInv, SendInv, RevisionInv, PassInv, WritesAreReported, RevisionsAreSeen,
     PassIsExact,
              Succeeded, Done
<1> QED
  BY <1>6, <1>7 DEF IInv

(* Every step keeps the inductive invariant.                               *)
LEMMA NextInv ==
  ASSUME IInv, [Next]_vars
  PROVE  IInv'
<1>1. CASE UNCHANGED vars
  <2>1. /\ kind' = kind /\ hist' = hist /\ connected' = connected /\ reader' = reader
        /\ cursor' = cursor
        /\ total' = total /\ cont' = cont /\ file' = file /\ events' = events /\ call' = call
    BY <1>1 DEF vars, iterVars
  <2>2. TypeInv'
    BY <2>1 DEF IInv, TypeInv, History, IterType, CallType, Clock
  <2>3. SendInv'
    BY <2>1 DEF IInv, CallInv, SendInv
  <2>4. RevisionInv'
    <3>1. Asking => Asking'
      BY <2>1 DEF Asking, Seen, SizeOf, Contacts, During, Clock
    <3>2. Writing => Writing'
      <4> SUFFICES ASSUME Writing PROVE Writing'
        OBVIOUS
      <4>0. Wanted' = Wanted
        BY <2>1 DEF Wanted
      <4>1. call.at \in 1..Clock /\ Len(call.out) + Len(call.args) = Len(Wanted)
            /\ \A k \in 1..Len(call.args) : call.args[k] = Wanted[Len(call.out) + k]
        BY DEF Writing
      <4>2. \A k \in 1..Len(call.out) :
                 call.out[k].id = Wanted[k] /\ Seen(call.out[k], call.at..Clock)
        BY DEF Writing
      <4>3. \A k \in 1..Len(call'.out) :
                 call'.out[k].id = Wanted'[k] /\ Seen(call.out[k], call.at..Clock)'
        <5>1. \A k \in 1..Len(call'.out) : call'.out[k].id = Wanted'[k]
          BY <2>1, <4>0, <4>2
        <5>2. \A k \in 1..Len(call'.out) : Seen(call.out[k], call.at..Clock)'
          BY <2>1, <4>2 DEF Seen, SizeOf, Contacts, Clock
        <5> QED
          BY <5>1, <5>2
      <4>4. /\ call'.at \in 1..Clock' /\ Len(call'.out) + Len(call'.args) = Len(Wanted')
            /\ \A k \in 1..Len(call'.args) : call'.args[k] = Wanted'[Len(call'.out) + k]
        BY <2>1, <4>0, <4>1 DEF Clock
      <4> QED
        BY <4>3, <4>4 DEF Writing
    <3> QED
      BY <2>1, <3>1, <3>2 DEF IInv, CallInv, RevisionInv
  <2>5. WritesAreReported'
    BY <2>1 DEF IInv, CallInv, WritesAreReported, Succeeded, Done, Seen, SizeOf, Contacts, Clock,
       ObjectOfOne
  <2>6. RevisionsAreSeen'
    BY <2>1 DEF IInv, CallInv, RevisionsAreSeen, Succeeded, Done, Seen, SizeOf, Contacts, During,
       Clock
  <2>7. PassIsExact'
    <3>1. ExactOut => ExactOut'
      <4>1. Now' = Now
        BY <2>1 DEF Now, Clock
      <4>2. (\A n \in DOMAIN call.out : call.out[n].rev # <<>> /\ Seen(call.out[n], During))
            => \A n \in DOMAIN call'.out : call'.out[n].rev # <<>> /\ Seen(call.out[n], During)'
        BY <2>1 DEF Seen, SizeOf, Contacts, During, Clock
      <4> QED
        BY <2>1, <4>1, <4>2 DEF ExactOut
    <3>2. Stable' => Stable
      BY <2>1 DEF Stable, During, Now, Clock
    <3>3. PassIsExact
      BY DEF IInv, CallInv
    <3>4. (Succeeded("iterate") \/ Succeeded("read")) /\ call.fresh /\ ~call.failed /\ Stable => ExactOut
      BY <3>3 DEF PassIsExact, ExactOut, Stable
    <3>5. ((Succeeded("iterate") \/ Succeeded("read")) /\ call.fresh /\ ~call.failed /\ Stable => ExactOut)'
      BY <2>1, <3>1, <3>2, <3>4 DEF Succeeded, Done
    <3> QED
      BY <3>5 DEF PassIsExact, ExactOut, Stable
  <2>8. PassInv'
    <3>1. (Contacts' <=> Contacts) /\ (Stable' <=> Stable) /\ Count' = Count /\ InOrder' = InOrder /\ Then' = Then
      BY <2>1 DEF Contacts, Stable, Count, InOrder, During, Now, Clock, Then
    <3>2. ASSUME NEW m, ContactPassAt(m) PROVE ContactPassAt(m)'
      BY <2>1, <3>1, <3>2 DEF ContactPassAt, Exact, Seen, SizeOf, Contacts, During, Clock
    <3>3. ASSUME NEW m, ObjectPassAt(m) PROVE ObjectPassAt(m)'
      BY <2>1, <3>1, <3>3 DEF ObjectPassAt, Whole
    <3> QED
      BY <2>1, <3>1, <3>2, <3>3 DEF IInv, CallInv, PassInv
  <2> QED
    BY <2>2, <2>3, <2>4, <2>5, <2>6, <2>7, <2>8 DEF IInv, CallInv
<1>2. CASE Begins
  <2>1. CASE InitContacts \/ InitCalendar
    BY <2>1, InitKeeps
  <2>2. CASE \E op \in {"add", "modify", "remove", "get"} : StartContacts(op) \/ StartObjects(op)
    BY <2>2, StartKeeps
  <2>3. CASE GetContactsUids
    BY <2>3, UidsKeeps
  <2>4. CASE ScanCalendarFile
    BY <2>4, ScanKeeps
  <2>5. CASE \E op \in {"iterate", "read"} : ContactsCursorInit(op) \/ CalendarCursorInit(op)
    BY <2>5, CursorInitKeeps, CalendarInitKeeps DEF Iters
  <2>6. CASE ReadOn
    BY <2>6, ReadOnKeeps
  <2> QED
    BY <1>2, <2>1, <2>2, <2>3, <2>4, <2>5, <2>6 DEF Begins
<1>3. CASE Step
  <2>1. CASE AddContacts \/ AddObjects \/ ModifyContacts \/ ModifyObjects
    BY <2>1, AddKeeps DEF ModifyContacts, ModifyObjects
  <2>2. CASE RemoveContacts \/ RemoveObjects
    BY <2>2, RemovalKeeps DEF RemoveContacts, RemoveObjects
  <2>3. CASE GetContactRevision \/ GetObjectRevision
    <3>1. Asked(Stamps(Head(call.args)))
      BY <2>3 DEF GetContactRevision, GetObjectRevision
    <3> QED
      BY <3>1, AskedKeeps
  <2>4. CASE Answer
    BY <2>4, AnswerKeeps
  <2>5. CASE GetContact \/ GetEvent \/ GetTask
    <3>1. PICK rev \in {Stamps(Head(call.args)), <<Now[Head(call.args)]>>} : Got(rev)
      BY <2>5 DEF GetContact, GetEvent, GetTask
    <3>2. TypeInv
      BY DEF IInv
    <3>3. Head(call.args) \in DOMAIN Now => Result(Head(call.args), rev) \in Results
      BY <3>1, <3>2, StampsType
    <3> QED
      BY <3>1, <3>3, GotKeeps
  <2>6. CASE NextContact
    BY <2>6, NextContactKeeps
  <2>7. CASE FetchContacts
    BY <2>7, FetchKeeps
  <2>8. CASE MoveCursor
    BY <2>8, MoveKeeps
  <2>9. CASE NextObject
    BY <2>9, NextObjectKeeps
  <2> QED
    BY <1>3, <2>1, <2>2, <2>3, <2>4, <2>5, <2>6, <2>7, <2>8, <2>9 DEF Step
<1>4. CASE Abandon \/ Take
  BY <1>4, NewCallKeeps DEF Abandon, Take
<1>5. CASE OtherWrites
  BY <1>5, OtherKeeps
<1> QED
  BY <1>1, <1>2, <1>3, <1>4, <1>5 DEF Next

(* TypeOK is a part of it.                                                 *)
LEMMA TypesImply ==
  ASSUME TypeInv
  PROVE  TypeOK
<1>1. /\ kind \in {"contacts", "event", "task"} /\ connected \in BOOLEAN /\ IterType
      /\ call \in Calls
      /\ History(hist)
  BY CallFacts DEF TypeInv
<1>2. \A n \in 1..Clock :
           DOMAIN hist[n] \subseteq Items /\ \A i \in DOMAIN hist[n] : hist[n][i] \in 1..n
  BY <1>1, HistoryFacts
<1>3. \A op \in {"iterate", "read"} : cursor[op] \in 0..AtEnd /\ total[op] \in 0..Cardinality(Items)
  BY <1>1 DEF IterType, Iters
<1>4. /\ call.step \in {"idle", "done", "send", "revision", "next", "move"}
      /\ call.ret \in {"ok", "fail"}
  BY <1>1 DEF Calls, Steps
<1>5. \A n \in DOMAIN cont : cont[n].id \in Items
  <2>1. cont \in Seq(Results)
    BY <1>1 DEF IterType
  <2>2. \A n \in DOMAIN cont : cont[n] \in Results
    BY <2>1
  <2> QED
    BY <2>2 DEF Results
<1>6. \A n \in DOMAIN (events \o file) : (events \o file)[n].uid \in Items
  <2> DEFINE q == events \o file
  <2>1. q \in Seq(Objects)
    BY <1>1, ConcatFacts DEF IterType
  <2> HIDE DEF q
  <2>2. \A n \in DOMAIN q : q[n] \in Objects
    BY <2>1
  <2>3. \A n \in DOMAIN q : q[n].uid \in Items
    BY <2>2 DEF Objects
  <2> QED
    BY <2>3 DEF q
<1>7. reader \in BOOLEAN
  BY <1>1 DEF IterType
<1> QED
  BY <1>1, <1>2, <1>3, <1>4, <1>5, <1>6, <1>7 DEF TypeOK

(* The invariant from which the properties follow.                         *)
THEOREM Inductive == Spec => []IInv
<1>1. Init => IInv
  BY InitInv
<1>2. IInv /\ [Next]_vars => IInv'
  BY NextInv
<1> QED
  BY <1>1, <1>2, PTL DEF Spec

(* The state of the storage, the database and the running call is well     *)
(* formed in every behaviour: no write is newer than the history, and only *)
(* items that exist are cached (EDSContactsStorageItemIterator.cpp:20,     *)
(* EDSCalendarStorageItemIterator.cpp:81).                                 *)
THEOREM TypeCorrect == Spec => []TypeOK
<1>1. IInv => TypeOK
  BY TypesImply DEF IInv
<1> QED
  BY <1>1, Inductive, PTL

(* Of a batch that was added, every item that was sent is reported, in the *)
(* order of the batch and once each; of one that was changed, every item;  *)
(* with no revision older than the write, for any batch, any texts without *)
(* an object, any number of objects of an item and any writes of other     *)
(* programs in between (EDSContactsStorage.cpp, EDSCalendarStorage.cpp:    *)
(* addObjects, "do not duplicate UID").  A batch that failed has written   *)
(* nothing, but for a lost answer and for addObject() and modifyObject().  *)
THEOREM WritesReported == Spec => []WritesAreReported
<1>1. IInv => WritesAreReported
  BY DEF IInv, CallInv
<1> QED
  BY <1>1, Inductive, PTL

(* getRevisions() leaves out no item that was there all the time, and      *)
(* reports no revision an item never had, whatever other programs write    *)
(* between its D-Bus calls (EDSContactsStorage.cpp:400,                    *)
(* EDSCalendarStorage.cpp:550).                                            *)
THEOREM RevisionsSeen == Spec => []RevisionsAreSeen
<1>1. IInv => RevisionsAreSeen
  BY DEF IInv, CallInv
<1> QED
  BY <1>1, Inductive, PTL

(* A pass that met no error hands out each item exactly once with all its  *)
(* objects, for any FETCH_CONTACTS_SIZE, FETCH_EVENTS_SIZE and number of   *)
(* objects of an item (EDSContactsStorageItemIterator.cpp:88,              *)
(* EDSCalendarStorageItemIterator.cpp:81).                                 *)
THEOREM PassExact == Spec => []PassIsExact
<1>1. IInv => PassIsExact
  BY DEF IInv, CallInv
<1> QED
  BY <1>1, Inductive, PTL
=============================================================================
