------------------------------ MODULE SumLemmas ------------------------------
(***************************************************************************)
(* Sums over finite sets, which the invariants of the event pipeline and   *)
(* of the books are about. Total is MapThenSumSet of the community         *)
(* modules; its recursion is not taken apart with an induction theorem,    *)
(* whose predicates the provers cannot instantiate, but with induction     *)
(* over a set of numbers and a set of subsets.                             *)
(***************************************************************************)
EXTENDS Naturals, FiniteSets, FiniteSetsExt, FiniteSetTheorems, WellFoundedInduction, TLAPS

-----------------------------------------------------------------------------
(* Induction. *)

\* A set of numbers has a least.
LEMMA LeastOne ==
    ASSUME NEW W, W \subseteq Nat, W # {}
    PROVE  \E w \in W : \A x \in W : w <= x
<1>1. PICK R : R = OpToRel(<, Nat)
  OBVIOUS
<1>2. IsWellFoundedOn(R, Nat)
  BY <1>1, NatLessThanWellFounded
<1>3. PICK w \in W : \A x \in W : ~ (<<x, w>> \in R)
  BY <1>2, WFMin
<1>4. R = {ss \in Nat \X Nat : ss[1] < ss[2]}
  BY <1>1 DEF OpToRel
<1>5. ASSUME NEW x \in W PROVE w <= x
  <2>1. x \in Nat /\ w \in Nat
    OBVIOUS
  <2>2. x < w => <<x, w>> \in R
    <3>1. <<x, w>> \in Nat \X Nat /\ <<x, w>>[1] = x /\ <<x, w>>[2] = w
      BY <2>1
    <3> QED BY <1>4, <3>1
  <2> QED BY <1>3, <2>1, <2>2
<1> QED BY <1>5

\* Induction over the numbers, for a set of them instead of a predicate.
LEMMA EveryNumber ==
    ASSUME NEW S, 0 \in S, \A n \in Nat : n \in S => n + 1 \in S
    PROVE  Nat \subseteq S
<1>1. SUFFICES ASSUME NEW W, W = {n \in Nat : n \notin S}, W # {} PROVE FALSE
  OBVIOUS
<1>2. PICK w \in W : \A x \in W : w <= x
  BY <1>1, LeastOne
<1>3. w \in Nat /\ w # 0
  BY <1>1
<1>4. w - 1 \in Nat /\ w - 1 \notin W
  BY <1>2, <1>3
<1> QED BY <1>1, <1>3, <1>4

\* Induction over the finite subsets of a set, by their size.
LEMMA EverySubset ==
    ASSUME NEW S, IsFiniteSet(S), NEW G, {} \in G,
           \A s \in SUBSET S : s # {} /\ s \ {CHOOSE x \in s : TRUE} \in G => s \in G
    PROVE  SUBSET S \subseteq G
<1> DEFINE Small == {n \in Nat : \A s \in SUBSET S : Cardinality(s) <= n => s \in G}
<1>1. \A s \in SUBSET S : IsFiniteSet(s) /\ Cardinality(s) \in Nat
  BY FS_Subset, FS_CardinalityType
<1>2. 0 \in Small
  <2>1. ASSUME NEW s \in SUBSET S, Cardinality(s) <= 0 PROVE s = {}
    <3>1. Cardinality(s) = 0
      BY <1>1, <2>1
    <3> QED BY <1>1, <3>1, FS_EmptySet
  <2> QED BY <2>1
<1>3. ASSUME NEW n \in Nat, n \in Small PROVE n + 1 \in Small
  <2>1. SUFFICES ASSUME NEW s \in SUBSET S, Cardinality(s) <= n + 1, s # {} PROVE s \in G
    OBVIOUS
  <2>2. PICK x \in s : x = CHOOSE y \in s : TRUE
    BY <2>1
  <2>3. Cardinality(s \ {x}) = Cardinality(s) - 1
    BY <1>1, <2>2, FS_RemoveElement
  <2>4. s \ {x} \in SUBSET S /\ Cardinality(s \ {x}) <= n
    BY <1>1, <2>1, <2>3
  <2>5. s \ {x} \in G
    BY <1>3, <2>4
  <2> QED BY <2>1, <2>2, <2>5
<1> HIDE DEF Small
<1>4. Nat \subseteq Small
  BY <1>2, <1>3, EveryNumber
<1> USE DEF Small
<1>5. ASSUME NEW s \in SUBSET S PROVE s \in G
  <2>1. PICK n \in Nat : n = Cardinality(s)
    BY <1>1
  <2>2. n \in Small
    BY <1>4
  <2> QED BY <2>1, <2>2
<1> QED BY <1>5

-----------------------------------------------------------------------------
(* Sums. *)

\* The sums of v over the subsets of S, each by way of a smaller one.
SumsOf(g, v, S) ==
    g = [s \in SUBSET S |-> IF s = {} THEN 0
             ELSE v[CHOOSE x \in s : TRUE] + g[s \ {CHOOSE x \in s : TRUE}]]

\* The sum of v over S.
Total(v, S) == MapThenSumSet(LAMBDA e : v[e], S)

\* A function of sums, at the empty set and at any other.
LEMMA SumsAt ==
    ASSUME NEW S, NEW v, NEW g, SumsOf(g, v, S)
    PROVE  /\ g[{}] = 0
           /\ \A s \in SUBSET S : s # {} =>
                 \E x \in s : /\ x = (CHOOSE y \in s : TRUE)
                              /\ s \ {x} \in SUBSET S
                              /\ g[s] = v[x] + g[s \ {x}]
<1>1. g[{}] = 0
  BY DEF SumsOf
<1>2. ASSUME NEW s \in SUBSET S, s # {}
      PROVE  \E x \in s : /\ x = (CHOOSE y \in s : TRUE)
                          /\ s \ {x} \in SUBSET S
                          /\ g[s] = v[x] + g[s \ {x}]
  <2>1. PICK x \in s : x = CHOOSE y \in s : TRUE
    BY <1>2
  <2>2. g[s] = v[x] + g[s \ {x}]
    BY <1>2, <2>1 DEF SumsOf
  <2> QED BY <2>1, <2>2
<1> QED BY <1>1, <1>2

\* Sums of numbers are numbers.
LEMMA SumsAreNumbers ==
    ASSUME NEW S, IsFiniteSet(S), NEW v, \A x \in S : v[x] \in Nat, NEW g, SumsOf(g, v, S)
    PROVE  \A s \in SUBSET S : g[s] \in Nat
<1> DEFINE G == {s \in SUBSET S : g[s] \in Nat}
<1>1. {} \in G
  BY SumsAt
<1>2. ASSUME NEW s \in SUBSET S, s # {}, s \ {CHOOSE x \in s : TRUE} \in G PROVE s \in G
  <2>1. PICK x \in s : /\ x = (CHOOSE y \in s : TRUE)
                       /\ g[s] = v[x] + g[s \ {x}]
    BY <1>2, SumsAt
  <2> QED BY <1>2, <2>1
<1> HIDE DEF G
<1>3. SUBSET S \subseteq G
  BY <1>1, <1>2, EverySubset
<1> QED BY <1>3 DEF G

\* There is one function of sums.
LEMMA SumsAreUnique ==
    ASSUME NEW S, IsFiniteSet(S), NEW v, NEW g, NEW h, SumsOf(g, v, S), SumsOf(h, v, S)
    PROVE  g = h
<1> DEFINE G == {s \in SUBSET S : g[s] = h[s]}
<1>1. {} \in G
  BY SumsAt
<1>2. ASSUME NEW s \in SUBSET S, s # {}, s \ {CHOOSE x \in s : TRUE} \in G PROVE s \in G
  <2>1. PICK x \in s : /\ x = (CHOOSE y \in s : TRUE)
                       /\ g[s] = v[x] + g[s \ {x}]
    BY <1>2, SumsAt
  <2>2. h[s] = v[x] + h[s \ {x}]
    <3>1. PICK y \in s : y = (CHOOSE z \in s : TRUE) /\ h[s] = v[y] + h[s \ {y}]
      BY <1>2, SumsAt
    <3> QED BY <2>1, <3>1
  <2> QED BY <1>2, <2>1, <2>2
<1> HIDE DEF G
<1>3. SUBSET S \subseteq G
  BY <1>1, <1>2, EverySubset
<1>4. \A s \in SUBSET S : g[s] = h[s]
  BY <1>3 DEF G
<1>5. DOMAIN g = SUBSET S /\ DOMAIN h = SUBSET S /\ g = [s \in DOMAIN g |-> g[s]] /\ h = [s \in DOMAIN h |-> h[s]]
  BY DEF SumsOf
<1> QED BY <1>4, <1>5

\* There is one for every finite set.
LEMMA SumsExist ==
    ASSUME NEW S, IsFiniteSet(S), NEW v
    PROVE  \E g : SumsOf(g, v, S)
<1> DEFINE Upto(n) == {s \in SUBSET S : Cardinality(s) <= n}
           Sums(g, n) == g = [s \in Upto(n) |-> IF s = {} THEN 0
                            ELSE v[CHOOSE x \in s : TRUE] + g[s \ {CHOOSE x \in s : TRUE}]]
           Have == {n \in Nat : \E g : Sums(g, n)}
<1>1. \A s \in SUBSET S : IsFiniteSet(s) /\ Cardinality(s) \in Nat
  BY FS_Subset, FS_CardinalityType
<1>2. 0 \in Have
  <2>1. Upto(0) = {{}}
    <3>1. ASSUME NEW s \in SUBSET S, Cardinality(s) <= 0 PROVE s = {}
      <4>1. Cardinality(s) = 0
        BY <1>1, <3>1
      <4> QED BY <1>1, <4>1, FS_EmptySet
    <3>2. Cardinality({}) <= 0
      BY FS_EmptySet
    <3> QED BY <3>1, <3>2
  <2>2. Sums([s \in Upto(0) |-> 0], 0)
    BY <2>1
  <2> QED BY <2>2
<1>3. ASSUME NEW n \in Nat, n \in Have PROVE n + 1 \in Have
  <2>1. PICK g : Sums(g, n)
    BY <1>3
  <2> DEFINE At(s) == IF s \in Upto(n) THEN g[s]
                      ELSE v[CHOOSE x \in s : TRUE] + g[s \ {CHOOSE x \in s : TRUE}]
  <2>0. PICK h : h = [s \in Upto(n + 1) |-> At(s)]
    OBVIOUS
  <2>2. ASSUME NEW s \in Upto(n + 1), s # {}
        PROVE  /\ s \ {CHOOSE x \in s : TRUE} \in Upto(n)
               /\ s \ {CHOOSE x \in s : TRUE} \in Upto(n + 1)
    <3>1. PICK x \in s : x = CHOOSE y \in s : TRUE
      BY <2>2
    <3>2. Cardinality(s \ {x}) = Cardinality(s) - 1
      BY <1>1, <3>1, FS_RemoveElement
    <3>3. s \ {x} \in SUBSET S /\ Cardinality(s \ {x}) <= n /\ Cardinality(s \ {x}) <= n + 1
      BY <1>1, <3>2
    <3> QED BY <3>1, <3>3
  <2>3. ASSUME NEW s \in Upto(n + 1)
        PROVE  At(s) = IF s = {} THEN 0
                       ELSE v[CHOOSE x \in s : TRUE] + h[s \ {CHOOSE x \in s : TRUE}]
    <3>1. CASE s = {}
      <4>1. s \in Upto(n)
        BY <3>1, FS_EmptySet
      <4> QED BY <2>1, <3>1, <4>1
    <3>2. CASE s # {}
      <4>1. PICK t : t = s \ {CHOOSE x \in s : TRUE}
        OBVIOUS
      <4>2. t \in Upto(n) /\ t \in Upto(n + 1)
        BY <2>2, <3>2, <4>1
      <4>3. h[t] = g[t]
        BY <2>0, <4>2
      <4>4. At(s) = v[CHOOSE x \in s : TRUE] + g[t]
        BY <2>1, <3>2, <4>1
      <4> QED BY <3>2, <4>1, <4>3, <4>4
    <3> QED BY <3>1, <3>2
  <2>4. Sums(h, n + 1)
    <3> HIDE DEF At, Upto
    <3> QED BY <2>0, <2>3
  <2>5. n + 1 \in Nat
    OBVIOUS
  <2> HIDE DEF Sums
  <2> QED BY <2>4, <2>5
<1> HIDE DEF Have
<1>4. Nat \subseteq Have
  BY <1>2, <1>3, EveryNumber
<1> USE DEF Have
<1>5. PICK n \in Nat : n = Cardinality(S)
  BY FS_CardinalityType
<1>6. Upto(n) = SUBSET S
  BY <1>1, <1>5, FS_Subset
<1>7. PICK g : Sums(g, n)
  BY <1>4
<1> QED BY <1>6, <1>7 DEF SumsOf

\* What MapThenSumSet of a function is.
LEMMA TotalIs ==
    ASSUME NEW S, IsFiniteSet(S), NEW v, NEW g, SumsOf(g, v, S)
    PROVE  Total(v, S) = g[S]
<1>1. \A h : SumsOf(h, v, S) => h = g
  BY SumsAreUnique
<1> QED BY <1>1 DEF Total, MapThenSumSet, MapThenFoldSet, SumsOf

\* A sum of numbers is a number.
LEMMA TotalIsNat ==
    ASSUME NEW S, IsFiniteSet(S), NEW v, \A x \in S : v[x] \in Nat
    PROVE  Total(v, S) \in Nat
<1>1. PICK g : SumsOf(g, v, S)
  BY SumsExist
<1> QED BY <1>1, TotalIs, SumsAreNumbers

\* A sum of zeros is zero.
LEMMA TotalOfZeros ==
    ASSUME NEW S, IsFiniteSet(S), NEW v, \A x \in S : v[x] = 0
    PROVE  Total(v, S) = 0
<1>1. PICK g : SumsOf(g, v, S)
  BY SumsExist
<1> DEFINE G == {s \in SUBSET S : g[s] = 0}
<1>2. {} \in G
  BY <1>1, SumsAt
<1>3. ASSUME NEW s \in SUBSET S, s # {}, s \ {CHOOSE x \in s : TRUE} \in G PROVE s \in G
  <2>1. PICK x \in s : /\ x = (CHOOSE y \in s : TRUE)
                       /\ g[s] = v[x] + g[s \ {x}]
    BY <1>1, <1>3, SumsAt
  <2> QED BY <1>3, <2>1
<1> HIDE DEF G
<1>4. SUBSET S \subseteq G
  BY <1>2, <1>3, EverySubset
<1> QED BY <1>1, <1>4, TotalIs DEF G

\* The same function on S has the same sum.
LEMMA TotalOfSame ==
    ASSUME NEW S, IsFiniteSet(S), NEW v, NEW w, \A x \in S : v[x] = w[x]
    PROVE  Total(v, S) = Total(w, S)
<1>1. PICK g : SumsOf(g, v, S)
  BY SumsExist
<1>2. SumsOf(g, w, S)
  <2>1. \A s \in SUBSET S : s # {} => v[CHOOSE x \in s : TRUE] = w[CHOOSE x \in s : TRUE]
    OBVIOUS
  <2> QED BY <1>1, <2>1 DEF SumsOf
<1> QED BY <1>1, <1>2, TotalIs

\* One number changes.
THEOREM TotalChanges ==
    ASSUME NEW S, IsFiniteSet(S), NEW v, NEW w, NEW k \in S,
           \A x \in S : v[x] \in Nat /\ w[x] \in Nat,
           \A x \in S : x # k => w[x] = v[x]
    PROVE  Total(w, S) + v[k] = Total(v, S) + w[k]
<1>1. PICK g : SumsOf(g, v, S)
  BY SumsExist
<1>2. PICK h : SumsOf(h, w, S)
  BY SumsExist
<1>3. \A s \in SUBSET S : g[s] \in Nat /\ h[s] \in Nat
  BY <1>1, <1>2, SumsAreNumbers
<1> DEFINE G == {s \in SUBSET S : IF k \in s THEN h[s] + v[k] = g[s] + w[k] ELSE h[s] = g[s]}
<1>4. {} \in G
  BY <1>1, <1>2, SumsAt
<1>5. ASSUME NEW s \in SUBSET S, s # {}, s \ {CHOOSE x \in s : TRUE} \in G PROVE s \in G
  <2>1. PICK x \in s : /\ x = (CHOOSE y \in s : TRUE)
                       /\ s \ {x} \in SUBSET S
                       /\ g[s] = v[x] + g[s \ {x}]
    BY <1>1, <1>5, SumsAt
  <2>2. h[s] = w[x] + h[s \ {x}]
    <3>1. PICK y \in s : y = (CHOOSE z \in s : TRUE) /\ h[s] = w[y] + h[s \ {y}]
      BY <1>2, <1>5, SumsAt
    <3> QED BY <2>1, <3>1
  <2>3. /\ x \in S /\ v[x] \in Nat /\ w[x] \in Nat /\ v[k] \in Nat /\ w[k] \in Nat
        /\ g[s \ {x}] \in Nat /\ h[s \ {x}] \in Nat
    BY <2>1, <1>3
  <2>4. s \ {x} \in G
    BY <1>5, <2>1
  <2>5. CASE x = k
    <3>1. k \in s /\ k \notin s \ {x}
      BY <2>5
    <3>2. h[s \ {x}] = g[s \ {x}]
      BY <2>4, <3>1
    <3>3. PICK t : t = s \ {x}
      OBVIOUS
    <3>4. PICK m \in Nat : m = g[t] /\ m = h[t]
      BY <2>3, <3>2, <3>3
    <3>5. h[s] = w[k] + m /\ g[s] = v[k] + m
      BY <2>1, <2>2, <2>5, <3>3, <3>4
    <3>6. h[s] + v[k] = g[s] + w[k]
      BY <2>3, <3>5
    <3> QED BY <3>1, <3>6
  <2>6. CASE x # k
    <3>1. w[x] = v[x] /\ (k \in s \ {x} <=> k \in s)
      BY <2>3, <2>6
    <3> QED BY <2>1, <2>2, <2>3, <2>4, <3>1
  <2> QED BY <2>5, <2>6
<1> HIDE DEF G
<1>6. SUBSET S \subseteq G
  BY <1>4, <1>5, EverySubset
<1>7. h[S] + v[k] = g[S] + w[k]
  BY <1>6 DEF G
<1> QED BY <1>1, <1>2, <1>7, TotalIs

\* No number grows but one, and that by d at most.
LEMMA TotalGrows ==
    ASSUME NEW S, IsFiniteSet(S), NEW v, NEW w, NEW k, NEW d \in Nat,
           \A x \in S : v[x] \in Nat /\ w[x] \in Nat,
           \A x \in S : x # k => w[x] <= v[x],
           k \in S => w[k] <= v[k] + d
    PROVE  Total(w, S) <= Total(v, S) + d
<1>1. PICK g : SumsOf(g, v, S)
  BY SumsExist
<1>2. PICK h : SumsOf(h, w, S)
  BY SumsExist
<1>3. \A s \in SUBSET S : g[s] \in Nat /\ h[s] \in Nat
  BY <1>1, <1>2, SumsAreNumbers
<1> DEFINE G == {s \in SUBSET S : /\ h[s] <= g[s] + d
                                  /\ k \notin s => h[s] <= g[s]}
<1>4. {} \in G
  BY <1>1, <1>2, SumsAt
<1>5. ASSUME NEW s \in SUBSET S, s # {}, s \ {CHOOSE x \in s : TRUE} \in G PROVE s \in G
  <2>1. PICK x \in s : /\ x = (CHOOSE y \in s : TRUE)
                       /\ s \ {x} \in SUBSET S
                       /\ g[s] = v[x] + g[s \ {x}]
    BY <1>1, <1>5, SumsAt
  <2>2. h[s] = w[x] + h[s \ {x}]
    <3>1. PICK y \in s : y = (CHOOSE z \in s : TRUE) /\ h[s] = w[y] + h[s \ {y}]
      BY <1>2, <1>5, SumsAt
    <3> QED BY <2>1, <3>1
  <2>3. PICK t \in SUBSET S : t = s \ {x}
    BY <2>1
  <2>4. PICK m \in Nat : m = g[t]
    BY <1>3
  <2>5. PICK n \in Nat : n = h[t]
    BY <1>3
  <2>6. PICK a \in Nat : a = v[x]
    BY <2>1
  <2>7. PICK b \in Nat : b = w[x]
    BY <2>1
  <2>8. g[s] = a + m /\ h[s] = b + n
    BY <2>1, <2>2, <2>3, <2>4, <2>5, <2>6, <2>7
  <2>9. n <= m + d /\ (k \notin t => n <= m)
    BY <1>5, <2>1, <2>3, <2>4, <2>5
  <2>10. CASE x = k
    <3>1. k \notin t /\ b <= a + d
      BY <2>1, <2>3, <2>6, <2>7, <2>10
    <3> QED BY <2>8, <2>9, <2>10, <3>1
  <2>11. CASE x # k
    <3>1. b <= a /\ (k \notin s => k \notin t)
      BY <2>1, <2>3, <2>6, <2>7, <2>11
    <3> QED BY <2>8, <2>9, <3>1
  <2> QED BY <2>10, <2>11
<1> HIDE DEF G
<1>6. SUBSET S \subseteq G
  BY <1>4, <1>5, EverySubset
<1>7. h[S] <= g[S] + d
  BY <1>6 DEF G
<1> QED BY <1>1, <1>2, <1>7, TotalIs

=============================================================================
