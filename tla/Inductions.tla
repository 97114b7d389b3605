----------------------------- MODULE Inductions -----------------------------
(***************************************************************************)
(* Facts about numbers and finite orders that the proofs about components  *)
(* share.  Each is an induction, and argued from the least number at which *)
(* it would fail: that a list can be walked to its end (UpTo), that a      *)
(* recursive function exists (Iterated), that in a finite order every rank *)
(* is that of one element (Ranking) and one element is the last (Topmost), *)
(* that no fact of a list is in two of its clusters (ClustersAre).         *)
(***************************************************************************)
EXTENDS Clustering, FiniteSetTheorems, WellFoundedInduction, TLAPS

(* Every nonempty set of natural numbers has a least one. *)
LEMMA Least ==
    ASSUME NEW T \in SUBSET Nat, T # {}
    PROVE  \E x \in T : \A y \in T : x <= y
<1> DEFINE R == {ss \in Nat \X Nat : ss[1] < ss[2]}
<1>1. IsWellFoundedOn(R, Nat)
  BY NatLessThanWellFounded DEF OpToRel
<1> HIDE DEF R
<1>2. PICK x \in T : \A y \in T : <<y, x>> \notin R
  BY <1>1, WFMin
<1>3. ASSUME NEW y \in T
      PROVE  x <= y
  <2>1. <<y, x>> \in Nat \X Nat /\ ~(y < x)
    BY <1>2 DEF R
  <2> QED  BY <2>1
<1> QED  BY <1>3

(* What holds at 0 and, where it holds, of the next number, holds up to n.  *)
LEMMA UpTo ==
    ASSUME NEW n \in Nat, NEW T \in SUBSET (0..n), 0 \in T,
           \A k \in 0..n : k \in T /\ k # n => k + 1 \in T
    PROVE  T = 0..n
<1>1. SUFFICES ASSUME (0..n) \ T # {}  PROVE FALSE
  OBVIOUS
<1>2. PICK x \in (0..n) \ T : \A y \in (0..n) \ T : x <= y
  <2>1. (0..n) \ T \in SUBSET Nat
    OBVIOUS
  <2> QED  BY <1>1, <2>1, Least
<1>3. x # 0 /\ x - 1 \in 0..n /\ x - 1 \in T /\ x - 1 # n
  BY <1>2
<1> QED  BY <1>2, <1>3

(* A function that is defined from its value at the number before.         *)
Iterates(f, n, X, x, step) ==
    /\ f \in [0..n -> X]
    /\ f[0] = x
    /\ \A k \in 1..n : f[k] = step[k][f[k - 1]]

LEMMA Iterated ==
    ASSUME NEW X, NEW x \in X, NEW n \in Nat, NEW step \in [1..n -> [X -> X]]
    PROVE  \E f : Iterates(f, n, X, x, step)
<1> DEFINE Good(f, m) == f \in [0..m -> X] /\ f[0] = x /\ \A k \in 1..m : f[k] = step[k][f[k - 1]]
           T == {m \in 0..n : \E f : Good(f, m)}
<1>1. 0 \in T
  <2>1. Good([k \in 0..0 |-> x], 0)
    OBVIOUS
  <2> HIDE DEF Good
  <2> QED  BY <2>1
<1>2. ASSUME NEW m \in 0..n, m \in T, m # n
      PROVE  m + 1 \in T
  <2>1. PICK f : Good(f, m)
    BY <1>2
  <2>2. m + 1 \in 1..n /\ m + 1 \in 0..n /\ m \in 0..m /\ m \in Nat
    BY <1>2
  <2>3. PICK y : y = step[m + 1][f[m]] /\ y \in X
    BY <2>1, <2>2
  <2>4. PICK h : h = [k \in 0..(m + 1) |-> IF k = m + 1 THEN y ELSE f[k]]
    OBVIOUS
  <2>5. h[m + 1] = y /\ \A k \in 0..m : h[k] = f[k]
    BY <2>2, <2>4
  <2>6. h \in [0..(m + 1) -> X]
    <3>1. \A k \in 0..(m + 1) : k = m + 1 \/ k \in 0..m
      BY <2>2
    <3> QED  BY <2>1, <2>3, <2>4, <3>1
  <2>7. ASSUME NEW k \in 1..(m + 1)
        PROVE  h[k] = step[k][h[k - 1]]
    <3>1. CASE k = m + 1
      <4>1. k - 1 = m
        BY <2>2, <3>1
      <4> QED  BY <2>2, <2>3, <2>5, <3>1, <4>1
    <3>2. CASE k \in 1..m
      <4>1. k \in 0..m /\ k - 1 \in 0..m
        BY <2>2, <3>2
      <4>2. f[k] = step[k][f[k - 1]]
        BY <2>1, <3>2
      <4> QED  BY <2>5, <4>1, <4>2
    <3> QED  BY <2>2, <3>1, <3>2
  <2>8. Good(h, m + 1)
    <3>1. 0 \in 0..m
      BY <2>2
    <3> QED  BY <2>1, <2>5, <2>6, <2>7, <3>1
  <2> HIDE DEF Good
  <2> QED  BY <2>2, <2>8
<1> HIDE DEF Good
<1>3. T = 0..n
  <2> HIDE DEF T
  <2>1. T \in SUBSET (0..n)
    BY DEF T
  <2> QED  BY <1>1, <1>2, <2>1, UpTo
<1>4. \E f : Good(f, n)
  <2> HIDE DEF T
  <2>1. n \in T
    BY <1>3
  <2> QED  BY <2>1 DEF T
<1> QED  BY <1>4 DEF Good, Iterates

(* In a finite set with a strict order, every rank is that of an element. *)
LEMMA Ranking ==
    ASSUME NEW S, IsFiniteSet(S), NEW below,
           \A k \in S : below[k] \subseteq S \ {k},
           \A k, l \in S : k # l => k \in below[l] \/ l \in below[k],
           \A k, l \in S : k \in below[l] => below[k] \subseteq below[l]
    PROVE  /\ Cardinality(S) \in Nat
           /\ \A i \in 0..(Cardinality(S) - 1) : \E k \in S : Cardinality(below[k]) = i
           /\ \A k \in S : Cardinality(below[k]) \in 0..(Cardinality(S) - 1)
           /\ \A k, l \in S : k \in below[l] => Cardinality(below[k]) < Cardinality(below[l])
<1> DEFINE n == Cardinality(S)
           T == 0..(n - 1)
           f == [k \in S |-> Cardinality(below[k])]
<1>1. n \in Nat
  BY FS_CardinalityType
<1>2. ASSUME NEW k \in S
      PROVE  IsFiniteSet(below[k]) /\ Cardinality(below[k]) \in T
  <2>1. IsFiniteSet(S \ {k}) /\ Cardinality(S \ {k}) = n - 1
    BY FS_RemoveElement
  <2>2. IsFiniteSet(below[k]) /\ Cardinality(below[k]) <= n - 1
    BY <2>1, FS_Subset
  <2>3. Cardinality(below[k]) \in Nat
    BY <2>2, FS_CardinalityType
  <2> QED  BY <1>1, <2>2, <2>3
<1>3. ASSUME NEW k \in S, NEW l \in S, k \in below[l]
      PROVE  Cardinality(below[k]) < Cardinality(below[l])
  <2>1. k \notin below[k] /\ below[k] \cup {k} \subseteq below[l]
    BY <1>3
  <2>2. Cardinality(below[k] \cup {k}) = Cardinality(below[k]) + 1
    BY <1>2, <2>1, FS_AddElement
  <2>3. Cardinality(below[k] \cup {k}) <= Cardinality(below[l])
    BY <1>2, <2>1, FS_Subset
  <2>4. Cardinality(below[k]) \in Nat /\ Cardinality(below[l]) \in Nat
    BY <1>2, FS_CardinalityType
  <2> QED  BY <2>2, <2>3, <2>4
<1>4. f \in Injection(S, T)
  <2>1. f \in [S -> T]
    BY <1>2
  <2>2. ASSUME NEW k \in S, NEW l \in S, f[k] = f[l]
        PROVE  k = l
    <3>1. Cardinality(below[k]) = Cardinality(below[l])
      BY <2>2
    <3>2. Cardinality(below[k]) \in Nat
      BY <1>2, FS_CardinalityType
    <3>3. k \notin below[l] /\ l \notin below[k]
      BY <1>3, <3>1, <3>2
    <3> QED  BY <3>3
  <2> QED  BY <2>1, <2>2 DEF Injection, IsInjective
<1>5. IsFiniteSet(T) /\ Cardinality(T) = n
  <2>1. n - 1 \in Int /\ 0 \in Int
    BY <1>1
  <2>2. IsFiniteSet(0..(n - 1))
        /\ Cardinality(0..(n - 1)) = IF 0 <= n - 1 THEN ((n - 1) - 0) + 1 ELSE 0
    BY <2>1, FS_Interval
  <2> QED  BY <1>1, <2>2
<1> HIDE DEF f, T
<1>6. f \in Surjection(S, T)
  BY <1>4, <1>5, FS_Injection
<1>7. ASSUME NEW i \in T
      PROVE  \E k \in S : Cardinality(below[k]) = i
  <2>1. PICK k \in S : f[k] = i
    BY <1>6 DEF Surjection
  <2> QED  BY <2>1 DEF f
<1> QED  BY <1>1, <1>2, <1>3, <1>7 DEF T

(* The order of numbers is one. *)
LEMMA RankIn ==
    ASSUME NEW P \in SUBSET Nat, IsFiniteSet(P)
    PROVE  /\ Cardinality(P) \in Nat
           /\ \A i \in 0..(Cardinality(P) - 1) :
                 \E k \in P : Cardinality({l \in P : l < k}) = i
<1> DEFINE below == [k \in P |-> {l \in P : l < k}]
<1>1. \A k \in P : below[k] = {l \in P : l < k} /\ k \in Nat
  OBVIOUS
<1> HIDE DEF below
<1>2. /\ \A k \in P : below[k] \subseteq P \ {k}
      /\ \A k, l \in P : k # l => k \in below[l] \/ l \in below[k]
      /\ \A k, l \in P : k \in below[l] => below[k] \subseteq below[l]
  <2>1. \A k \in P : below[k] \subseteq P \ {k}
    BY <1>1
  <2>2. ASSUME NEW k \in P, NEW l \in P, k # l
        PROVE  k \in below[l] \/ l \in below[k]
    <3>1. k < l \/ l < k
      BY <1>1, <2>2
    <3> QED  BY <1>1, <3>1
  <2>3. ASSUME NEW k \in P, NEW l \in P, k \in below[l]
        PROVE  below[k] \subseteq below[l]
    <3>1. k < l
      BY <1>1, <2>3
    <3>2. ASSUME NEW j \in below[k]
          PROVE  j \in below[l]
      <4>1. j \in P /\ j < k
        BY <1>1, <3>2
      <4>2. j < l
        BY <1>1, <3>1, <4>1
      <4> QED  BY <1>1, <4>1, <4>2
    <3> QED  BY <3>2
  <2> QED  BY <2>1, <2>2, <2>3
<1>3. /\ Cardinality(P) \in Nat
      /\ \A i \in 0..(Cardinality(P) - 1) : \E k \in P : Cardinality(below[k]) = i
  BY <1>2, Ranking
<1> QED  BY <1>1, <1>3

(* So a nonempty finite set of numbers has a greatest.                     *)
LEMMA Topmost ==
    ASSUME NEW S \in SUBSET Nat, IsFiniteSet(S), S # {}
    PROVE  \E x \in S : \A y \in S : y <= x
<1> DEFINE below == [k \in S |-> {l \in S : l < k}]
<1>1. \A k \in S : below[k] = {l \in S : l < k} /\ k \in Nat
  OBVIOUS
<1> HIDE DEF below
<1>2. PICK n \in Nat : n = Cardinality(S) /\ n # 0
  BY FS_CardinalityType, FS_EmptySet
<1>3. PICK x \in S : Cardinality(below[x]) = n - 1
  <2>1. \A i \in 0..(Cardinality(S) - 1) : \E k \in S : Cardinality({l \in S : l < k}) = i
    BY RankIn
  <2>2. n - 1 \in 0..(Cardinality(S) - 1)
    BY <1>2
  <2> QED  BY <1>1, <2>1, <2>2
<1>4. ASSUME NEW y \in S
      PROVE  y <= x
  <2>1. SUFFICES ASSUME x < y  PROVE FALSE
    OBVIOUS
  <2>2. x # y /\ y \notin below[x] /\ x \notin below[x] /\ below[x] \cup {x} \subseteq S \ {y}
    <3>1. /\ below[x] = {l \in S : l < x} /\ x \in Nat /\ y \in Nat
      BY <1>1
    <3>2. ~(y < x) /\ ~(x < x) /\ x # y
      BY <2>1, <3>1
    <3>3. below[x] \subseteq S /\ x \notin below[x] /\ y \notin below[x]
      BY <3>1, <3>2
    <3> QED  BY <3>2, <3>3
  <2>3. /\ IsFiniteSet(below[x]) /\ IsFiniteSet(S \ {y}) /\ Cardinality(S \ {y}) = n - 1
    <3>1. below[x] \subseteq S
      BY <1>1
    <3> QED  BY <1>2, <3>1, FS_Subset, FS_RemoveElement
  <2>4. Cardinality(below[x] \cup {x}) = (n - 1) + 1
    BY <1>3, <2>2, <2>3, FS_AddElement
  <2>5. Cardinality(below[x] \cup {x}) <= n - 1
    BY <2>2, <2>3, FS_Subset
  <2> QED  BY <1>2, <2>4, <2>5
<1> QED  BY <1>4

-----------------------------------------------------------------------------
(* A fact that is added is the only change: it is in one cluster, and what *)
(* was clustered stays where it was.                                       *)
Placed(J, C, f, m) ==
    \A l \in DOMAIN J : \A i \in DOMAIN J[l] :
        \/ l \in DOMAIN C /\ i \in DOMAIN C[l] /\ J[l][i] = C[l][i]
        \/ l = m /\ J[l][i] = f

LEMMA JoinedIs ==
    ASSUME NEW F, NEW C \in Seq(Seq(F)), NEW f \in F
    PROVE  /\ Joined(C, f) \in Seq(Seq(F))
           /\ \E m : Placed(Joined(C, f), C, f, m)
<1> DEFINE fit == {n \in DOMAIN C : \E k \in DOMAIN C[n] : C[n][k].id \in f.alike}
           first == CHOOSE n \in fit : \A m \in fit : n <= m
           J == Joined(C, f)
<1>0. DOMAIN C = 1..Len(C) /\ Len(C) \in Nat /\ \A n \in DOMAIN C : C[n] \in Seq(F)
  OBVIOUS
<1>1. CASE fit = {}
  <2>1. PICK one : one = <<f>>
    OBVIOUS
  <2>2. one \in Seq(F) /\ DOMAIN one = {1} /\ one[1] = f
    BY <2>1
  <2>3. J = Append(C, one)
    BY <1>1, <2>1 DEF Joined
  <2> HIDE DEF J
  <2>4. /\ J \in Seq(Seq(F)) /\ DOMAIN J = 1..(Len(C) + 1)
        /\ J[Len(C) + 1] = one /\ \A l \in DOMAIN C : J[l] = C[l]
    BY <1>0, <2>2, <2>3
  <2>5. \A l \in DOMAIN J : l \in DOMAIN C \/ l = Len(C) + 1
    BY <1>0, <2>4
  <2>6. \A l \in DOMAIN J : \A i \in DOMAIN J[l] :
           \/ l \in DOMAIN C /\ i \in DOMAIN C[l] /\ J[l][i] = C[l][i]
           \/ l = Len(C) + 1 /\ J[l][i] = f
    BY <2>2, <2>4, <2>5
  <2>7. Placed(J, C, f, Len(C) + 1)
    BY <2>6 DEF Placed
  <2> QED  BY <2>4, <2>7 DEF J
<1>2. CASE fit # {}
  <2>1. fit \in SUBSET Nat
    BY <1>0
  <2>2. \E n \in fit : \A m \in fit : n <= m
    <3> HIDE DEF fit
    <3> QED  BY <1>2, <2>1, Least
  <2>3. first \in DOMAIN C
    BY <2>2
  <2>4. PICK m \in DOMAIN C : m = first
    BY <2>3
  <2>5. J = [C EXCEPT ![first] = Append(@, f)]
    BY <1>2 DEF Joined
  <2> HIDE DEF first, fit, J
  <2>6. PICK row : row = Append(C[m], f)
    OBVIOUS
  <2>7. /\ row \in Seq(F) /\ DOMAIN row = 1..(Len(C[m]) + 1) /\ row[Len(C[m]) + 1] = f
        /\ DOMAIN C[m] = 1..Len(C[m]) /\ Len(C[m]) \in Nat
        /\ \A i \in DOMAIN C[m] : row[i] = C[m][i]
    <3>1. C[m] \in Seq(F)
      BY <1>0
    <3> QED  BY <2>6, <3>1
  <2>8. J = [C EXCEPT ![m] = row]
    BY <2>4, <2>5, <2>6
  <2>9. DOMAIN J = DOMAIN C /\ J[m] = row /\ \A l \in DOMAIN C : l # m => J[l] = C[l]
    BY <2>8
  <2>10. J \in Seq(Seq(F))
    <3>1. PICK X : X = Seq(F)
      OBVIOUS
    <3>2. C \in Seq(X) /\ row \in X
      BY <2>7, <3>1
    <3>3. J \in Seq(X)
      BY <2>8, <3>2
    <3> QED  BY <3>1, <3>3
  <2>11. \A i \in DOMAIN row : i \in DOMAIN C[m] \/ i = Len(C[m]) + 1
    BY <2>7
  <2>12. ASSUME NEW l \in DOMAIN J, NEW i \in DOMAIN J[l]
         PROVE  \/ l \in DOMAIN C /\ i \in DOMAIN C[l] /\ J[l][i] = C[l][i]
                \/ l = m /\ J[l][i] = f
    <3>1. CASE l # m
      BY <2>9, <2>12, <3>1
    <3>2. CASE l = m
      BY <2>7, <2>9, <2>11, <2>12, <3>2
    <3> QED  BY <3>1, <3>2
  <2>13. Placed(J, C, f, m)
    BY <2>12 DEF Placed
  <2> QED  BY <2>10, <2>13 DEF J
<1> QED  BY <1>1, <1>2

LEMMA ClustersExist ==
    ASSUME NEW F, NEW facts \in Seq(F)
    PROVE  /\ Clusters(facts) \in [0..Len(facts) -> Seq(Seq(F))]
           /\ Clusters(facts)[0] = <<>>
           /\ \A k \in 1..Len(facts) :
                 Clusters(facts)[k] = Joined(Clusters(facts)[k - 1], facts[k])
<1> DEFINE n == Len(facts)
           step == [k \in 1..n |-> [C \in Seq(Seq(F)) |-> Joined(C, facts[k])]]
           after == CHOOSE f : f = [k \in 0..n |-> IF k = 0 THEN <<>> ELSE Joined(f[k - 1], facts[k])]
<1>1. n \in Nat /\ \A k \in 1..n : facts[k] \in F
  OBVIOUS
<1>2. PICK X, x : X = Seq(Seq(F)) /\ x = <<>>
  OBVIOUS
<1>3. PICK f : f \in [0..n -> X] /\ f[0] = x /\ \A k \in 1..n : f[k] = Joined(f[k - 1], facts[k])
  <2> HIDE DEF n
  <2>1. /\ step \in [1..n -> [X -> X]] /\ x \in X
        /\ \A k \in 1..n : \A C \in X : step[k][C] = Joined(C, facts[k])
    <3>1. \A k \in 1..n : \A C \in X : Joined(C, facts[k]) \in X
      BY <1>1, <1>2, JoinedIs
    <3>2. x \in X
      BY <1>2
    <3> QED  BY <1>2, <3>1, <3>2
  <2> HIDE DEF step
  <2>2. \E f : Iterates(f, n, X, x, step)
    BY <1>1, <2>1, Iterated
  <2>3. PICK f : f \in [0..n -> X] /\ f[0] = x /\ \A k \in 1..n : f[k] = step[k][f[k - 1]]
    BY <2>2 DEF Iterates
  <2>4. ASSUME NEW k \in 1..n
        PROVE  f[k] = Joined(f[k - 1], facts[k])
    <3>1. k - 1 \in 0..n
      BY <1>1
    <3>2. f[k - 1] \in X
      BY <2>3, <3>1
    <3> QED  BY <2>1, <2>3, <3>2
  <2> QED  BY <2>3, <2>4
<1>4. \A g : g = [k \in 0..n |-> IF k = 0 THEN <<>> ELSE Joined(g[k - 1], facts[k])]
         => g[0] = x /\ \A k \in 1..n : g[k] = Joined(g[k - 1], facts[k])
  <2>1. 0 \in 0..n /\ \A k \in 1..n : k \in 0..n /\ k # 0
    BY <1>1
  <2> HIDE DEF n
  <2> QED  BY <1>2, <2>1
<1>5. f = [k \in 0..n |-> IF k = 0 THEN <<>> ELSE Joined(f[k - 1], facts[k])]
  <2> HIDE DEF n
  <2>1. ASSUME NEW k \in 0..n
        PROVE  f[k] = IF k = 0 THEN <<>> ELSE Joined(f[k - 1], facts[k])
    <3>1. k = 0 \/ (k \in 1..n /\ k # 0)
      BY <1>1
    <3> QED  BY <1>2, <1>3, <3>1
  <2>2. f = [k \in 0..n |-> f[k]]
    BY <1>3
  <2> QED  BY <2>1, <2>2
<1>6. after = [k \in 0..n |-> IF k = 0 THEN <<>> ELSE Joined(after[k - 1], facts[k])]
  BY <1>5
<1>7. Clusters(facts) = after
  BY DEF Clusters
<1> HIDE DEF n, after
<1>8. after[0] = x /\ \A k \in 1..n : after[k] = Joined(after[k - 1], facts[k])
  BY <1>4, <1>6
<1>9. after \in [0..n -> X]
  <2> DEFINE T == {k \in 0..n : after[k] \in X}
  <2>1. 0 \in T
    BY <1>1, <1>3, <1>8
  <2>2. ASSUME NEW k \in 0..n, k \in T, k # n
        PROVE  k + 1 \in T
    <3>1. k + 1 \in 1..n /\ k + 1 \in 0..n /\ (k + 1) - 1 = k
      BY <1>1, <2>2
    <3>2. after[k + 1] = Joined(after[k], facts[k + 1]) /\ after[k] \in X
      BY <1>8, <2>2, <3>1
    <3>3. after[k + 1] \in X
      BY <1>1, <1>2, <3>1, <3>2, JoinedIs
    <3> QED  BY <3>1, <3>3
  <2> HIDE DEF T
  <2>3. T = 0..n
    <3>1. T \in SUBSET (0..n)
      BY DEF T
    <3> QED  BY <1>1, <2>1, <2>2, <3>1, UpTo
  <2>4. \A k \in 0..n : after[k] \in X
    BY <2>3 DEF T
  <2>5. after = [k \in 0..n |-> after[k]]
    BY <1>6
  <2> QED  BY <2>4, <2>5
<1> QED  BY <1>2, <1>7, <1>8, <1>9 DEF n

LEMMA ClustersAre ==
    ASSUME NEW F, NEW facts \in Seq(F),
           \A j, k \in 1..Len(facts) : facts[j].id = facts[k].id => j = k
    PROVE  /\ \A l \in DOMAIN Clustered(facts) : \A i \in DOMAIN Clustered(facts)[l] :
                 \E j \in 1..Len(facts) : Clustered(facts)[l][i] = facts[j]
           /\ \A l, m \in DOMAIN Clustered(facts) :
                 \A i \in DOMAIN Clustered(facts)[l], j \in DOMAIN Clustered(facts)[m] :
                    Clustered(facts)[l][i].id = Clustered(facts)[m][j].id => l = m
<1> DEFINE n == Len(facts)
           after == Clusters(facts)
           Given(C, k) == \A l \in DOMAIN C : \A i \in DOMAIN C[l] : \E j \in 1..k : C[l][i] = facts[j]
           Unshared(C) == \A l, m \in DOMAIN C : \A i \in DOMAIN C[l], j \in DOMAIN C[m] :
                          C[l][i] = C[m][j] => l = m
           T == {k \in 0..n : Given(after[k], k) /\ Unshared(after[k])}
<1>1. n \in Nat /\ \A k \in 1..n : facts[k] \in F
  OBVIOUS
<1>2. /\ \A k \in 0..n : after[k] \in Seq(Seq(F))
      /\ after[0] = <<>>
      /\ \A k \in 1..n : after[k] = Joined(after[k - 1], facts[k])
  BY ClustersExist
<1>3. Clustered(facts) = after[n]
  BY DEF Clustered
<1>4. \A j, k \in 1..n : facts[j] = facts[k] => j = k
  OBVIOUS
<1> HIDE DEF n, after
<1>5. 0 \in T
  <2>1. DOMAIN after[0] = {} /\ 0 \in 0..n
    BY <1>1, <1>2
  <2> QED  BY <2>1
<1>6. ASSUME NEW k \in 0..n, k \in T, k # n
      PROVE  k + 1 \in T
  <2>1. k + 1 \in 1..n /\ k + 1 \in 0..n /\ (k + 1) - 1 = k /\ k \in Nat
    BY <1>1, <1>6
  <2>2. PICK C, J, f : C = after[k] /\ J = after[k + 1] /\ f = facts[k + 1]
    OBVIOUS
  <2>3. C \in Seq(Seq(F)) /\ f \in F /\ J = Joined(C, f) /\ Given(C, k) /\ Unshared(C)
    <3>1. C \in Seq(Seq(F)) /\ f \in F /\ J = Joined(C, f)
      BY <1>1, <1>2, <2>1, <2>2
    <3>2. Given(C, k) /\ Unshared(C)
      <4> HIDE DEF Given, Unshared
      <4> QED  BY <1>6, <2>2
    <3> QED  BY <3>1, <3>2
  <2>4. PICK m : \A l \in DOMAIN J : \A i \in DOMAIN J[l] :
                     \/ l \in DOMAIN C /\ i \in DOMAIN C[l] /\ J[l][i] = C[l][i]
                     \/ l = m /\ J[l][i] = f
    <3>1. \E m : Placed(J, C, f, m)
      BY <2>3, JoinedIs
    <3> QED  BY <3>1 DEF Placed
  <2>5. \A l \in DOMAIN C : \A i \in DOMAIN C[l] : C[l][i] # f
    <3>1. ASSUME NEW l \in DOMAIN C, NEW i \in DOMAIN C[l], C[l][i] = f
          PROVE  FALSE
      <4>1. PICK j \in 1..k : C[l][i] = facts[j]
        BY <2>3, <3>1
      <4>2. j \in 1..n /\ j # k + 1
        BY <1>1, <2>1
      <4> QED  BY <1>4, <2>1, <2>2, <3>1, <4>1, <4>2
    <3> QED  BY <3>1
  <2>6. Given(J, k + 1)
    <3>1. ASSUME NEW l \in DOMAIN J, NEW i \in DOMAIN J[l]
          PROVE  \E j \in 1..(k + 1) : J[l][i] = facts[j]
      <4>1. CASE l \in DOMAIN C /\ i \in DOMAIN C[l] /\ J[l][i] = C[l][i]
        <5>1. PICK j \in 1..k : C[l][i] = facts[j]
          BY <2>3, <4>1
        <5>2. j \in 1..(k + 1)
          BY <2>1
        <5> QED  BY <4>1, <5>1, <5>2
      <4>2. CASE J[l][i] = f
        <5>1. k + 1 \in 1..(k + 1)
          BY <2>1
        <5> QED  BY <2>2, <4>2, <5>1
      <4> QED  BY <2>4, <4>1, <4>2
    <3> QED  BY <3>1
  <2>7. Unshared(J)
    <3> SUFFICES ASSUME NEW l \in DOMAIN J, NEW p \in DOMAIN J, NEW i \in DOMAIN J[l],
                        NEW j \in DOMAIN J[p], J[l][i] = J[p][j]
                 PROVE  l = p
      OBVIOUS
    <3>1. CASE J[l][i] = f
      <4>1. l = m
        BY <2>4, <2>5, <3>1, Zenon
      <4>2. p = m
        BY <2>4, <2>5, <3>1, Zenon
      <4> QED  BY <4>1, <4>2
    <3>2. CASE J[l][i] # f
      <4>1. /\ l \in DOMAIN C /\ i \in DOMAIN C[l] /\ J[l][i] = C[l][i]
            /\ p \in DOMAIN C /\ j \in DOMAIN C[p] /\ J[p][j] = C[p][j]
        BY <2>4, <3>2, Zenon
      <4>2. C[l][i] = C[p][j]
        BY <4>1
      <4> QED  BY <2>3, <4>1, <4>2, Zenon
    <3> QED  BY <3>1, <3>2
  <2> HIDE DEF Given, Unshared
  <2> QED  BY <2>1, <2>2, <2>6, <2>7
<1>7. n \in T
  <2> HIDE DEF T
  <2>1. T \in SUBSET (0..n)
    BY DEF T
  <2>2. T = 0..n
    BY <1>1, <1>5, <1>6, <2>1, UpTo
  <2> QED  BY <1>1, <2>2
<1>8. PICK C : C = Clustered(facts)
  OBVIOUS
<1>9. Given(C, n) /\ Unshared(C)
  BY <1>3, <1>7, <1>8
<1>10. ASSUME NEW l \in DOMAIN C, NEW m \in DOMAIN C, NEW i \in DOMAIN C[l], NEW j \in DOMAIN C[m],
              C[l][i].id = C[m][j].id
       PROVE  l = m
  <2>1. PICK a \in 1..n, b \in 1..n : C[l][i] = facts[a] /\ C[m][j] = facts[b]
    BY <1>9
  <2>2. a = b
    BY <1>10, <2>1 DEF n
  <2> QED  BY <1>9, <2>1, <2>2
<1> QED  BY <1>8, <1>9, <1>10 DEF n
=============================================================================
