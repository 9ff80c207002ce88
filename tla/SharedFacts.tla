----------------------------- MODULE SharedFacts ----------------------------
(***************************************************************************)
(* Facts that the proofs of several components need: about the two ends of *)
(* a queue; induction over the natural numbers without an operator         *)
(* parameter, over a set of numbers, from the well-foundedness of < on Nat;*)
(* and from that what the models' operators on sets and sequences of       *)
(* numbers compute.                                                        *)
(***************************************************************************)
EXTENDS Integers, Sequences, FiniteSetTheorems, WellFoundedInduction, TLAPS

(* An element is taken from the front of a queue, or put at its end.       *)

THEOREM TailFacts ==
  ASSUME NEW S, NEW s \in Seq(S), s # <<>>
  PROVE  /\ Head(s) \in S /\ Head(s) = s[1] /\ 1 \in 1..Len(s) /\ Len(Tail(s)) \in Nat
         /\ Tail(s) \in Seq(S) /\ Len(s) = Len(Tail(s)) + 1
         /\ \A k \in 1..Len(Tail(s)) : Tail(s)[k] = s[k + 1] /\ k + 1 \in 1..Len(s)
  OBVIOUS

THEOREM AppendFacts ==
  ASSUME NEW S, NEW s \in Seq(S), NEW e \in S
  PROVE  /\ Append(s, e) \in Seq(S) /\ Len(Append(s, e)) = Len(s) + 1
         /\ \A k \in 1..Len(s) : Append(s, e)[k] = s[k]
         /\ Append(s, e)[Len(s) + 1] = e
  OBVIOUS

-----------------------------------------------------------------------------

(* A nonempty set of natural numbers has a least element.                  *)
THEOREM LeastNatural ==
  ASSUME NEW T, T \subseteq Nat, T # {}
  PROVE  \E x \in T : \A y \in T : x <= y
<1> DEFINE R == OpToRel(<, Nat)
<1>1. IsWellFoundedOn(R, Nat)
  BY NatLessThanWellFounded
<1>2. \A x, y \in Nat : y < x => <<y, x>> \in R
  BY DEF OpToRel
<1> HIDE DEF R
<1>3. PICK x \in T : \A y \in T : <<y, x>> \notin R
  BY <1>1, WFMin
<1>4. \A y \in T : ~(y < x)
  BY <1>2, <1>3, Zenon
<1> QED
  BY <1>4

(* A set that holds 0 and is closed under + 1 holds every natural number.  *)
THEOREM NatSetInduction ==
  ASSUME NEW S, 0 \in S, \A n \in Nat : n \in S => n + 1 \in S
  PROVE  Nat \subseteq S
<1> DEFINE T == Nat \ S
<1>1. SUFFICES ASSUME T # {} PROVE FALSE
  OBVIOUS
<1>2. PICK x \in T : \A y \in T : x <= y
  <2>1. T \subseteq Nat
    OBVIOUS
  <2> HIDE DEF T
  <2> QED
    BY <1>1, <2>1, LeastNatural
<1>3. x \in Nat /\ x # 0
  BY <1>2
<1>4. x - 1 \in Nat /\ ~(x <= x - 1) /\ (x - 1) + 1 = x
  BY <1>3
<1>5. x - 1 \in S
  BY <1>2, <1>4
<1> QED
  BY <1>2, <1>4, <1>5
(* A finite set of numbers has an increasing enumeration.                  *)
THEOREM Enumeration ==
  ASSUME NEW n \in Nat, NEW X \in SUBSET (0..n - 1)
  PROVE  \E m \in Nat : \E s \in [1..m -> X] :
           (\A j, k \in DOMAIN s : j < k => s[j] < s[k]) /\ \A x \in X : \E k \in 1..m : s[k] = x
<1> DEFINE Enum(Y) == \E m \in Nat : \E s \in [1..m -> Y] :
                        (\A j, k \in DOMAIN s : j < k => s[j] < s[k]) /\ \A x \in Y : \E k \in 1..m : s[k] = x
           E == {i \in Nat : \A Y \in SUBSET (0..i - 1) : Enum(Y)}
<1>1. 0 \in E
  <2> SUFFICES ASSUME NEW Y \in SUBSET (0..0 - 1) PROVE Enum(Y)
    OBVIOUS
  <2>1. Y = {}
    OBVIOUS
  <2>2. [k \in 1..0 |-> 0] \in [1..0 -> Y]
    OBVIOUS
  <2> QED
    BY <2>1, <2>2
<1>2. ASSUME NEW i \in Nat, i \in E PROVE i + 1 \in E
  <2> SUFFICES ASSUME NEW Y \in SUBSET (0..i + 1 - 1) PROVE Enum(Y)
    OBVIOUS
  <2>1. Y \ {i} \in SUBSET (0..i - 1)
    <3>1. i + 1 - 1 = i
      OBVIOUS
    <3>3. \A y \in Y : y \in 0..i
      BY <3>1, Zenon
    <3>2. \A y \in 0..i : y # i => y \in 0..i - 1
      OBVIOUS
    <3> QED
      BY <3>2, <3>3
  <2>2. PICK m \in Nat :
          \E s \in [1..m -> Y \ {i}] :
            (\A j, k \in DOMAIN s : j < k => s[j] < s[k]) /\ \A x \in Y \ {i} : \E k \in 1..m : s[k] = x
    BY <1>2, <2>1
  <2>s. PICK s \in [1..m -> Y \ {i}] :
          (\A j, k \in DOMAIN s : j < k => s[j] < s[k]) /\ \A x \in Y \ {i} : \E k \in 1..m : s[k] = x
    BY <2>2
  <2>3. CASE i \notin Y
    <3>1. Y \ {i} = Y
      BY <2>3
    <3> QED
      BY <2>s, <3>1
  <2>4. CASE i \in Y
    <3> DEFINE t == [k \in 1..m + 1 |-> IF k = m + 1 THEN i ELSE s[k]]
    <3>1. t \in [1..m + 1 -> Y]
      BY <2>4
    <3>2. \A k \in 1..m : s[k] < i
      <4>1. \A y \in Y \ {i} : y < i
        BY <2>1
      <4>2. \A k \in 1..m : s[k] \in Y \ {i}
        BY <2>s
      <4> QED
        BY <4>1, <4>2
    <3>3. \A j, k \in DOMAIN t : j < k => t[j] < t[k]
      BY <2>s, <3>2
    <3>4. \A x \in Y : \E k \in 1..m + 1 : t[k] = x
      <4> TAKE x \in Y
      <4>1. CASE x = i
        <5>1. m + 1 \in 1..m + 1 /\ t[m + 1] = i
          OBVIOUS
        <5> QED
          BY <4>1, <5>1
      <4>2. CASE x # i
        <5>1. PICK k \in 1..m : s[k] = x
          BY <2>s, <4>2
        <5>2. k \in 1..m + 1 /\ t[k] = x
          BY <5>1
        <5> QED
          BY <5>2
      <4> QED
        BY <4>1, <4>2
    <3> HIDE DEF t
    <3> QED
      BY <3>1, <3>3, <3>4
  <2> QED
    BY <2>3, <2>4
<1>3. Nat \subseteq E
  <2> HIDE DEF E
  <2> QED
    BY <1>1, <1>2, NatSetInduction
<1> QED
  BY <1>3

(* An increasing sequence of as many members of a set as it has is an      *)
(* enumeration of the set, and there is one.                               *)
THEOREM IncreasingEnumeration ==
  ASSUME NEW n \in Nat, NEW X \in SUBSET (0..n - 1)
  PROVE  /\ Cardinality(X) \in Nat
         /\ \E s \in [1..Cardinality(X) -> X] : \A j, k \in DOMAIN s : j < k => s[j] < s[k]
         /\ \A s \in [1..Cardinality(X) -> X] :
              (\A j, k \in DOMAIN s : j < k => s[j] < s[k]) => \A x \in X : \E k \in DOMAIN s : s[k] = x
<1> DEFINE Up(s) == \A j, k \in DOMAIN s : j < k => s[j] < s[k]
<1>i. \A x \in X : x \in Int
  OBVIOUS
<1>inj. ASSUME NEW m \in Nat, NEW s \in [1..m -> X], Up(s)
        PROVE  \A j, k \in 1..m : s[j] = s[k] => j = k
  <2>1. \A k \in 1..m : s[k] \in Int
    BY <1>i
  <2> QED
    BY <1>inj, <2>1
<1>e. PICK m \in Nat : \E s \in [1..m -> X] : Up(s) /\ \A x \in X : \E k \in 1..m : s[k] = x
  BY Enumeration
<1>s. PICK s \in [1..m -> X] : Up(s) /\ \A x \in X : \E k \in 1..m : s[k] = x
  BY <1>e
<1>m. IsFiniteSet(1..m) /\ Cardinality(1..m) = m
  BY FS_Interval
<1>1. Cardinality(X) = m /\ IsFiniteSet(X)
  <2>1. s \in Bijection(1..m, X)
    BY <1>s, <1>inj DEF Bijection, Injection, Surjection, IsInjective
  <2>2. ExistsBijection(1..m, X)
    BY <2>1 DEF ExistsBijection
  <2> QED
    BY <1>m, <2>2, FS_Bijection
<1>2. ASSUME NEW a \in [1..m -> X], Up(a) PROVE \A x \in X : \E k \in 1..m : a[k] = x
  <2> DEFINE I == {a[k] : k \in 1..m}
  <2>1. \A j, k \in 1..m : a[j] = a[k] => j = k
    BY <1>2, <1>inj
  <2>2. a \in Bijection(1..m, I)
    BY <2>1 DEF Bijection, Injection, Surjection, IsInjective
  <2>3. ExistsBijection(1..m, I)
    BY <2>2 DEF ExistsBijection
  <2>4. Cardinality(I) = m
    BY <1>m, <2>3, FS_Bijection
  <2>5. I \subseteq X
    OBVIOUS
  <2>6. I = X
    BY <1>1, <2>4, <2>5, FS_Subset
  <2> QED
    BY <2>6
<1> QED
  BY <1>1, <1>2, <1>s

(* The values of an increasing sequence are as far apart as the positions. *)
THEOREM IncreasingBound ==
  ASSUME NEW m \in Nat, NEW b \in Int, NEW s \in [1..m -> Int],
         \A j, k \in DOMAIN s : j < k => s[j] < s[k],
         \A k \in 1..m : b <= s[k]
  PROVE  \A k \in 1..m : b + k - 1 <= s[k]
<1> DEFINE B == {i \in Nat : i \in 1..m => b + i - 1 <= s[i]}
<1>1. 0 \in B
  OBVIOUS
<1>2. ASSUME NEW i \in Nat, i \in B PROVE i + 1 \in B
  <2> SUFFICES ASSUME i + 1 \in 1..m PROVE b + (i + 1) - 1 <= s[i + 1]
    OBVIOUS
  <2>1. CASE i = 0
    BY <2>1
  <2>2. CASE i # 0
    <3>1. i \in 1..m /\ s[i] < s[i + 1] /\ b + i - 1 <= s[i]
      BY <1>2, <2>2
    <3> QED
      BY <3>1
  <2> QED
    BY <2>1, <2>2
<1>3. Nat \subseteq B
  <2> HIDE DEF B
  <2> QED
    BY <1>1, <1>2, NatSetInduction
<1> QED
  BY <1>3

(* A function that is defined by adding up is what its definition says.    *)
THEOREM PrefixSums ==
  ASSUME NEW n \in Nat, NEW c \in [1..n -> Nat], NEW f,
         f = CHOOSE g : g = [i \in 0..n |-> IF i = 0 THEN 0 ELSE g[i - 1] + c[i]]
  PROVE  /\ f \in [0..n -> Nat] /\ f[0] = 0
         /\ \A i \in 1..n : f[i] = f[i - 1] + c[i]
         /\ \A i \in 0..n : f[i] <= f[n]
<1> DEFINE Adds(m, g) == g[0] = 0 /\ \A i \in 1..m : g[i] = g[i - 1] + c[i]
           Exists(m) == \E g \in [0..m -> Nat] : Adds(m, g)
           E == {m \in Nat : m <= n => Exists(m)}
<1>1. 0 \in E
  <2>1. [i \in 0..0 |-> 0] \in [0..0 -> Nat] /\ Adds(0, [i \in 0..0 |-> 0])
    OBVIOUS
  <2> QED
    BY <2>1
<1>2. ASSUME NEW m \in Nat, m \in E PROVE m + 1 \in E
  <2> SUFFICES ASSUME m + 1 <= n PROVE Exists(m + 1)
    <3> HIDE DEF Exists
    <3> QED
      OBVIOUS
  <2>0. Exists(m)
    <3> HIDE DEF Exists
    <3> QED
      BY <1>2
  <2>1. PICK g \in [0..m -> Nat] : Adds(m, g)
    BY <2>0
  <2> DEFINE h == [i \in 0..m + 1 |-> IF i = m + 1 THEN g[m] + c[m + 1] ELSE g[i]]
  <2>2. g[m] \in Nat /\ c[m + 1] \in Nat
    OBVIOUS
  <2>3. h \in [0..m + 1 -> Nat]
    BY <2>2
  <2>4. h[0] = 0 /\ h[m + 1] = h[m] + c[m + 1]
    BY <2>1
  <2>5. \A i \in 1..m : h[i] = h[i - 1] + c[i]
    BY <2>1
  <2>6. \A i \in 1..m + 1 : i \in 1..m \/ (i = m + 1 /\ i - 1 = m)
    OBVIOUS
  <2> HIDE DEF h
  <2>7. \A i \in 1..m + 1 : h[i] = h[i - 1] + c[i]
    BY <2>4, <2>5, <2>6
  <2> QED
    BY <2>3, <2>4, <2>7
<1>3. Exists(n)
  <2> HIDE DEF Exists
  <2>1. Nat \subseteq E
    <3> HIDE DEF E
    <3> QED
      BY <1>1, <1>2, NatSetInduction
  <2> QED
    BY <2>1
<1>4. PICK g \in [0..n -> Nat] : Adds(n, g)
  BY <1>3
<1>5. g = [i \in 0..n |-> IF i = 0 THEN 0 ELSE g[i - 1] + c[i]]
  BY <1>4
<1>6. f = [i \in 0..n |-> IF i = 0 THEN 0 ELSE f[i - 1] + c[i]]
  BY <1>5
<1>7. DOMAIN f = 0..n /\ f[0] = 0 /\ \A i \in 1..n : f[i] = f[i - 1] + c[i]
  <2> DEFINE e == [i \in 0..n |-> IF i = 0 THEN 0 ELSE f[i - 1] + c[i]]
  <2>1. DOMAIN e = 0..n /\ e[0] = 0
    OBVIOUS
  <2>2. \A i \in 1..n : i \in 0..n /\ i # 0
    OBVIOUS
  <2>3. \A i \in 1..n : e[i] = f[i - 1] + c[i]
    BY <2>2
  <2>4. f = e
    BY <1>6
  <2> HIDE DEF e
  <2> QED
    BY <2>1, <2>3, <2>4
<1> HIDE DEF E
<1>8. \A i \in 0..n : f[i] \in Nat
  <2> DEFINE F == {i \in Nat : i <= n => f[i] \in Nat}
  <2>1. 0 \in F
    BY <1>7
  <2>2. \A i \in Nat : i \in F => i + 1 \in F
    <3> SUFFICES ASSUME NEW i \in Nat, i \in F, i + 1 <= n PROVE f[i + 1] \in Nat
      OBVIOUS
    <3>0. i + 1 \in 1..n /\ (i + 1) - 1 = i
      OBVIOUS
    <3>1. f[i + 1] = f[i] + c[i + 1]
      BY <1>7, <3>0
    <3>2. f[i] \in Nat /\ c[i + 1] \in Nat
      BY <3>0
    <3> QED
      BY <3>1, <3>2
  <2> HIDE DEF F
  <2>3. Nat \subseteq F
    BY <2>1, <2>2, NatSetInduction
  <2> QED
    BY <2>3 DEF F
<1>9. \A i \in 0..n : f[i] <= f[n]
  <2> DEFINE F == {i \in Nat : i <= n => f[n - i] <= f[n]}
  <2>1. 0 \in F
    BY <1>8, n - 0 = n
  <2>2. \A i \in Nat : i \in F => i + 1 \in F
    <3> SUFFICES ASSUME NEW i \in Nat, i \in F, i + 1 <= n PROVE f[n - (i + 1)] <= f[n]
      OBVIOUS
    <3>1. n - i \in 1..n /\ (n - i) - 1 = n - (i + 1) /\ n - (i + 1) \in 0..n /\ n - i \in 0..n /\ n \in 0..n
      OBVIOUS
    <3>2. f[n - i] = f[n - (i + 1)] + c[n - i] /\ c[n - i] \in Nat
      BY <1>7, <3>1
    <3>3. f[n - i] <= f[n]
      OBVIOUS
    <3>4. f[n - i] \in Nat /\ f[n - (i + 1)] \in Nat /\ f[n] \in Nat
      BY <1>8, <3>1
    <3> HIDE DEF F
    <3> QED
      BY <3>2, <3>3, <3>4, SMTT(30)
  <2> HIDE DEF F
  <2>3. Nat \subseteq F
    BY <2>1, <2>2, NatSetInduction
  <2>4. \A i \in 0..n : n - i \in F
    BY <2>3
  <2> QED
    BY <2>4 DEF F
<1> QED
  BY <1>6, <1>7, <1>8, <1>9
=============================================================================
