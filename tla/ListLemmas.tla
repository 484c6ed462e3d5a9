----------------------------- MODULE ListLemmas -----------------------------
(***************************************************************************)
(* Sequences that grow by a row at a time, and whose rows are rewritten:   *)
(* what the proofs about records, trials and rungs need of them.           *)
(***************************************************************************)
EXTENDS Sequences, FiniteSets, SequenceTheorems, FiniteSetTheorems, WellFoundedInduction, TLAPS

(* A sequence of whatever it holds. *)
IsList(s) == s \in Seq({s[k] : k \in DOMAIN s})

(* A sequence is one over any set that has its elements. *)
LEMMA SeqOver ==
    ASSUME NEW S, NEW R, NEW t \in Seq(S), \A k \in DOMAIN t : t[k] \in R
    PROVE  t \in Seq(R)
<1>1. Len(t) \in Nat /\ DOMAIN t = 1..Len(t) /\ t \in [1..Len(t) -> S]
  BY ElementOfSeq, LenProperties
<1>2. t \in [1..Len(t) -> R]
  BY <1>1
<1>3. Seq(R) = UNION {[1..n -> R] : n \in Nat}
  BY SeqDef
<1> QED BY <1>1, <1>2, <1>3, Zenon

(* Append on a sequence of whatever it holds. *)
LEMMA Appended ==
    ASSUME NEW s, NEW e, IsList(s)
    PROVE  /\ IsList(Append(s, e))
           /\ Len(s) \in Nat /\ DOMAIN s = 1..Len(s)
           /\ Len(Append(s, e)) = Len(s) + 1 /\ DOMAIN Append(s, e) = 1..(Len(s) + 1)
           /\ \A k \in DOMAIN s : Append(s, e)[k] = s[k]
           /\ Append(s, e)[Len(s) + 1] = e
<1> DEFINE S == {s[k] : k \in DOMAIN s} \cup {e}
           t == Append(s, e)
<1>1. s \in Seq(S)
  <2>1. s \in Seq({s[k] : k \in DOMAIN s})
    BY DEF IsList
  <2> QED BY <2>1
<1>2. /\ Len(s) \in Nat /\ DOMAIN s = 1..Len(s)
      /\ t \in Seq(S) /\ Len(t) = Len(s) + 1 /\ DOMAIN t = 1..(Len(s) + 1)
      /\ \A k \in DOMAIN s : t[k] = s[k]
      /\ t[Len(s) + 1] = e
  BY <1>1
<1>3. t \in Seq({t[k] : k \in DOMAIN t})
  <2> DEFINE R == {t[k] : k \in DOMAIN t}
  <2> HIDE DEF S, t
  <2>1. \A k \in DOMAIN t : t[k] \in R
    OBVIOUS
  <2> HIDE DEF R
  <2>2. t \in Seq(R)
    BY <1>2, <2>1, SeqOver
  <2> QED BY <2>2 DEF R
<1> QED BY <1>2, <1>3 DEF IsList

(* Replacing an element of one. *)
LEMMA ListExcept ==
    ASSUME NEW s, NEW i \in DOMAIN s, NEW e, IsList(s)
    PROVE  IsList([s EXCEPT ![i] = e])
<1> DEFINE S == {s[k] : k \in DOMAIN s} \cup {e}
           t == [s EXCEPT ![i] = e]
<1>1. s \in Seq(S)
  <2>1. s \in Seq({s[k] : k \in DOMAIN s})
    BY DEF IsList
  <2> QED BY <2>1
<1>2. t \in Seq(S)
  <2> e \in S
    OBVIOUS
  <2> HIDE DEF S
  <2> QED BY <1>1, ExceptSeq, LenProperties
<1>3. t \in Seq({t[k] : k \in DOMAIN t})
  <2> DEFINE R == {t[k] : k \in DOMAIN t}
  <2> HIDE DEF S, t
  <2>1. \A k \in DOMAIN t : t[k] \in R
    OBVIOUS
  <2> HIDE DEF R
  <2>2. t \in Seq(R)
    BY <1>2, <2>1, SeqOver
  <2> QED BY <2>2 DEF R
<1> QED BY <1>3 DEF IsList

-----------------------------------------------------------------------------
(* A set of numbers that has the first one, and with each the next. *)
LEMMA SetInduction ==
    ASSUME NEW S, 0 \in S, \A k \in Nat : k \in S => k + 1 \in S
    PROVE  \A k \in Nat : k \in S
<1>1. SUFFICES ASSUME NEW z \in Nat, z \notin S PROVE FALSE
  OBVIOUS
<1> DEFINE U == {k \in Nat : k \notin S}
<1>2. PICK u \in U : \A k \in U : <<k, u>> \notin OpToRel(<, Nat)
  <2>1. IsWellFoundedOn(OpToRel(<, Nat), Nat)
    BY NatLessThanWellFounded
  <2>2. U \subseteq Nat /\ U # {}
    BY <1>1
  <2> QED BY <2>1, <2>2, WFMin
<1>3. u \in Nat /\ u # 0 /\ u - 1 \in Nat
  OBVIOUS
<1>4. <<u - 1, u>> \in OpToRel(<, Nat)
  BY <1>3 DEF OpToRel
<1>5. u - 1 \in S
  BY <1>2, <1>3, <1>4
<1> QED BY <1>3, <1>5

(* f starts at a, and each element is what the rule g makes of its place and of
   the element before. *)
Follows(f, n, X, a, g) ==
    f \in [0..n -> X] /\ f[0] = a /\ \A k \in 1..n : f[k] = g[<<k, f[k - 1]>>]

LEMMA RecursionExists ==
    ASSUME NEW n \in Nat, NEW X, NEW a \in X, NEW g \in [(1..n) \X X -> X]
    PROVE  \E f : Follows(f, n, X, a, g)
<1> DEFINE Upto(m) == \E f \in [0..m -> X] : f[0] = a /\ \A k \in 1..m : f[k] = g[<<k, f[k - 1]>>]
           S == {m \in Nat : m <= n => Upto(m)}
<1>1. 0 \in S
  <2>1. [k \in 0..0 |-> a] \in [0..0 -> X] /\ [k \in 0..0 |-> a][0] = a
    OBVIOUS
  <2>2. \A k \in 1..0 : FALSE
    OBVIOUS
  <2>3. Upto(0)
    BY <2>1, <2>2
  <2> QED BY <2>3
<1>2. ASSUME NEW m \in Nat, m \in S PROVE m + 1 \in S
  <2>1. SUFFICES ASSUME m + 1 <= n PROVE Upto(m + 1)
    OBVIOUS
  <2>2. PICK f \in [0..m -> X] : f[0] = a /\ \A k \in 1..m : f[k] = g[<<k, f[k - 1]>>]
    BY <1>2, <2>1
  <2> DEFINE h == [k \in 0..(m + 1) |-> IF k = m + 1 THEN g[<<m + 1, f[m]>>] ELSE f[k]]
  <2>3. f[m] \in X /\ m + 1 \in 1..n
    BY <2>1, <2>2
  <2>4. g[<<m + 1, f[m]>>] \in X
    BY <2>3
  <2>5. h \in [0..(m + 1) -> X] /\ h[0] = a
    BY <2>2, <2>4
  <2>6. ASSUME NEW k \in 1..(m + 1) PROVE h[k] = g[<<k, h[k - 1]>>]
    <3>1. k - 1 \in 0..m /\ h[k - 1] = f[k - 1]
      OBVIOUS
    <3>2. CASE k = m + 1
      BY <3>1, <3>2
    <3>3. CASE k # m + 1
      <4>1. k \in 1..m /\ h[k] = f[k]
        BY <3>3
      <4> QED BY <2>2, <3>1, <4>1
    <3> QED BY <3>2, <3>3
  <2> QED BY <2>5, <2>6
<1>3. \A m \in Nat : m \in S
  <2> HIDE DEF S
  <2> QED BY <1>1, <1>2, SetInduction
<1> QED BY <1>3 DEF Follows

(* What follows such a rule stays where the rule leads. *)
LEMMA RecursionType ==
    ASSUME NEW n \in Nat, NEW X, NEW h, h[0] \in X,
           \A k \in 1..n : h[k - 1] \in X => h[k] \in X
    PROVE  \A k \in 0..n : h[k] \in X
<1> DEFINE S == {k \in Nat : k <= n => h[k] \in X}
<1>1. 0 \in S
  OBVIOUS
<1>2. ASSUME NEW k \in Nat, k \in S PROVE k + 1 \in S
  <2>1. SUFFICES ASSUME k + 1 <= n PROVE h[k + 1] \in X
    OBVIOUS
  <2>2. h[k] \in X /\ k + 1 \in 1..n /\ (k + 1) - 1 = k
    BY <1>2, <2>1
  <2> QED BY <2>2
<1>3. \A k \in Nat : k \in S
  <2> HIDE DEF S
  <2> QED BY <1>1, <1>2, SetInduction
<1> QED BY <1>3

-----------------------------------------------------------------------------
(* Places.                                                                 *)

LEMMA PlacesAreFinite ==
    ASSUME NEW n \in Nat
    PROVE  IsFiniteSet(1..n) /\ Cardinality(1..n) = n
<1>1. n \in Int /\ 1 \in Int
  OBVIOUS
<1>2. IsFiniteSet(1..n) /\ Cardinality(1..n) = IF 1 > n THEN 0 ELSE n - 1 + 1
  BY <1>1, FS_Interval
<1> QED BY <1>2

(* A strict total order of S, as the set of its pairs, and what is below k. *)
IsOrder(S, R) ==
    /\ \A i \in S : <<i, i>> \notin R
    /\ \A i, j \in S : i # j => <<i, j>> \in R \/ <<j, i>> \in R
    /\ \A i, j, k \in S : <<i, j>> \in R /\ <<j, k>> \in R => <<i, k>> \in R
Below(S, R, k) == {j \in S : <<j, k>> \in R}

(* The first m of an order are m. *)
LEMMA FirstOfOrder ==
    ASSUME NEW S, IsFiniteSet(S), NEW R, IsOrder(S, R), NEW m \in Nat, m <= Cardinality(S)
    PROVE  LET first == {k \in S : Cardinality(Below(S, R, k)) < m}
           IN  IsFiniteSet(first) /\ Cardinality(first) = m
<1> DEFINE n == Cardinality(S)
           rank == [k \in S |-> Cardinality(Below(S, R, k))]
           first == {k \in S : Cardinality(Below(S, R, k)) < m}
<1>1. n \in Nat
  BY FS_CardinalityType
<1>2. ASSUME NEW k \in S
      PROVE  /\ IsFiniteSet(Below(S, R, k)) /\ Cardinality(Below(S, R, k)) \in Nat
             /\ Cardinality(Below(S, R, k)) <= n - 1
  <2>1. IsFiniteSet(S \ {k}) /\ Cardinality(S \ {k}) = n - 1
    BY FS_RemoveElement
  <2>2. Below(S, R, k) \subseteq S \ {k}
    BY DEF Below, IsOrder
  <2>3. IsFiniteSet(Below(S, R, k)) /\ Cardinality(Below(S, R, k)) <= Cardinality(S \ {k})
    BY <2>1, <2>2, FS_Subset
  <2> QED BY <2>1, <2>3, FS_CardinalityType
<1>3. rank \in [S -> 0..(n - 1)]
  BY <1>1, <1>2
<1>4. ASSUME NEW i \in S, NEW j \in S, <<i, j>> \in R PROVE rank[i] # rank[j]
  <2>1. Below(S, R, i) \subseteq Below(S, R, j) /\ i \in Below(S, R, j) /\ i \notin Below(S, R, i)
    BY <1>4 DEF IsOrder, Below
  <2>2. Cardinality(Below(S, R, j)) # Cardinality(Below(S, R, i))
    BY <1>2, <2>1, FS_Subset
  <2> QED BY <2>2
<1>5. rank \in Injection(S, 0..(n - 1))
  <2>1. \A i, j \in S : rank[i] = rank[j] => i = j
    <3> HIDE DEF rank
    <3> QED BY <1>4 DEF IsOrder
  <2> HIDE DEF rank
  <2> QED BY <1>3, <2>1 DEF Injection, IsInjective
<1>6. rank \in Surjection(S, 0..(n - 1))
  <2>1. IsFiniteSet(0..(n - 1)) /\ Cardinality(0..(n - 1)) = n
    <3>1. 0 \in Int /\ n - 1 \in Int
      BY <1>1
    <3>2. IsFiniteSet(0..(n - 1)) /\ Cardinality(0..(n - 1)) = IF 0 > n - 1 THEN 0 ELSE (n - 1) - 0 + 1
      BY <3>1, FS_Interval
    <3> QED BY <1>1, <3>2
  <2> HIDE DEF rank
  <2> QED BY <1>5, <2>1, FS_Injection
<1> DEFINE g == [k \in first |-> rank[k]]
<1>7. g \in Bijection(first, 0..(m - 1))
  <2>1. g \in [first -> 0..(m - 1)]
    BY <1>2
  <2>2. \A i, j \in first : g[i] = g[j] => i = j
    <3>1. \A i, j \in S : rank[i] = rank[j] => i = j
      BY <1>5 DEF Injection, IsInjective
    <3> HIDE DEF rank
    <3> QED BY <3>1
  <2>3. ASSUME NEW v \in 0..(m - 1) PROVE \E k \in first : g[k] = v
    <3>1. v \in 0..(n - 1)
      BY <1>1
    <3>2. PICK k \in S : rank[k] = v
      BY <1>6, <3>1 DEF Surjection
    <3>3. k \in first
      BY <3>2
    <3> QED BY <3>2, <3>3
  <2> HIDE DEF g, first
  <2> QED BY <2>1, <2>2, <2>3 DEF Bijection, Injection, Surjection, IsInjective
<1>8. IsFiniteSet(first)
  BY FS_Subset
<1>9. Cardinality(0..(m - 1)) = m
  <2>1. 0 \in Int /\ m - 1 \in Int
    OBVIOUS
  <2>2. Cardinality(0..(m - 1)) = IF 0 > m - 1 THEN 0 ELSE (m - 1) - 0 + 1
    BY <2>1, FS_Interval
  <2> QED BY <2>2
<1>10. Cardinality(first) = m
  <2> HIDE DEF first, g
  <2>1. ExistsBijection(first, 0..(m - 1))
    BY <1>7 DEF ExistsBijection
  <2> QED BY <1>8, <1>9, <2>1, FS_Bijection
<1> QED BY <1>8, <1>10

(* What a function takes different values on is as many as its values. *)
LEMMA AsManyValues ==
    ASSUME NEW S, IsFiniteSet(S), NEW f, \A i, j \in S : f[i] = f[j] => i = j
    PROVE  IsFiniteSet({f[k] : k \in S}) /\ Cardinality({f[k] : k \in S}) = Cardinality(S)
<1> DEFINE V == {f[k] : k \in S}
           g == [k \in S |-> f[k]]
<1>1. g \in Bijection(S, V)
  <2>1. g \in [S -> V] /\ (\A i, j \in S : g[i] = g[j] => i = j) /\ \A v \in V : \E k \in S : g[k] = v
    OBVIOUS
  <2> HIDE DEF g, V
  <2> QED BY <2>1 DEF Bijection, Injection, Surjection, IsInjective
<1> HIDE DEF g, V
<1>2. ExistsBijection(S, V)
  BY <1>1 DEF ExistsBijection
<1>3. IsFiniteSet(V) /\ Cardinality(V) = Cardinality(S)
  BY <1>2, FS_Bijection
<1> QED BY <1>3 DEF V

(* A sequence of numbers has a largest and a smallest one. *)
LEMMA HasExtremes ==
    ASSUME NEW n \in Nat, n > 0, NEW f, \A k \in 1..n : f[k] \in Int
    PROVE  /\ \E m \in 1..n : \A k \in 1..n : f[k] <= f[m]
           /\ \E m \in 1..n : \A k \in 1..n : f[m] <= f[k]
<1> DEFINE S == {l \in Nat : 1 <= l /\ l <= n => /\ \E m \in 1..l : \A k \in 1..l : f[k] <= f[m]
                                               /\ \E m \in 1..l : \A k \in 1..l : f[m] <= f[k]}
<1>1. 0 \in S
  OBVIOUS
<1>2. ASSUME NEW l \in Nat, l \in S PROVE l + 1 \in S
  <2>1. SUFFICES ASSUME l + 1 <= n
                 PROVE  /\ \E m \in 1..(l + 1) : \A k \in 1..(l + 1) : f[k] <= f[m]
                        /\ \E m \in 1..(l + 1) : \A k \in 1..(l + 1) : f[m] <= f[k]
    OBVIOUS
  <2>2. CASE l = 0
    <3>1. 1..(l + 1) = {1} /\ 1 \in 1..n
      BY <2>2
    <3> QED BY <3>1
  <2>3. CASE l > 0
    <3>1. PICK hi \in 1..l : \A k \in 1..l : f[k] <= f[hi]
      BY <1>2, <2>1, <2>3
    <3>2. PICK lo \in 1..l : \A k \in 1..l : f[lo] <= f[k]
      BY <1>2, <2>1, <2>3
    <3>3. /\ hi \in 1..(l + 1) /\ lo \in 1..(l + 1) /\ l + 1 \in 1..(l + 1)
          /\ f[hi] \in Int /\ f[lo] \in Int /\ f[l + 1] \in Int
          /\ \A k \in 1..(l + 1) : (k \in 1..l \/ k = l + 1) /\ f[k] \in Int
      BY <2>1
    <3>4. \E m \in 1..(l + 1) : \A k \in 1..(l + 1) : f[k] <= f[m]
      <4>1. CASE f[l + 1] <= f[hi]
        BY <3>1, <3>3, <4>1
      <4>2. CASE f[hi] <= f[l + 1]
        BY <3>1, <3>3, <4>2
      <4> QED BY <3>3, <4>1, <4>2
    <3>5. \E m \in 1..(l + 1) : \A k \in 1..(l + 1) : f[m] <= f[k]
      <4>1. CASE f[lo] <= f[l + 1]
        BY <3>2, <3>3, <4>1
      <4>2. CASE f[l + 1] <= f[lo]
        BY <3>2, <3>3, <4>2
      <4> QED BY <3>3, <4>1, <4>2
    <3> QED BY <3>4, <3>5
  <2> QED BY <2>2, <2>3
<1>3. \A l \in Nat : l \in S
  <2> HIDE DEF S
  <2> QED BY <1>1, <1>2, SetInduction
<1> QED BY <1>3
=============================================================================
