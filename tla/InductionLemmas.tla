---------------------------- MODULE InductionLemmas ----------------------------
(***************************************************************************)
(* Facts about natural numbers that proofs of several modules need and     *)
(* that take induction: a set of numbers with 0 and all successors has all *)
(* of them, because the subsets of a finite set are well-founded; what a   *)
(* loop over a sequence selects; two sequences joined; powers of two;      *)
(* largest elements.                                                       *)
(***************************************************************************)
EXTENDS Integers, Sequences, Selections, FiniteSetTheorems, SequenceTheorems, TLAPS

(* Induction over the natural numbers, with a set for the predicate.       *)
LEMMA LeastExists ==
  ASSUME NEW T \in SUBSET Nat, T # {}
  PROVE  \E x \in T : \A y \in T : x <= y
<1> PICK n \in T : TRUE
  OBVIOUS
<1> DEFINE S == 0..n
           F == {0..x : x \in {t \in T : t <= n}}
<1>1. F \subseteq SUBSET S /\ F # {}
  OBVIOUS
<1>2. FiniteSubsetsOf(S) = SUBSET S
  <2>1. IsFiniteSet(S)
    BY FS_Interval
  <2> HIDE DEF S
  <2> QED BY <2>1, FS_FiniteSubsetsOfFinite
<1>3. \E X \in F : \A Y \in F : <<Y, X>> \notin StrictSubsetOrdering(S)
  <2> HIDE DEF S, F
  <2> QED BY <1>1, <1>2, FS_StrictSubsetOrderingWellFounded, WFMin
<1>4. PICK X \in F : \A Y \in F : <<Y, X>> \notin StrictSubsetOrdering(S)
  BY <1>3
<1>5. PICK x \in T : x <= n /\ X = 0..x
  BY <1>4
<1>6. ASSUME NEW y \in T, y < x PROVE FALSE
  <2>1. 0..y \in F /\ 0..y \in SUBSET S /\ X \in SUBSET S
    BY <1>5, <1>6
  <2>2. 0..y \subseteq X /\ 0..y # X
    BY <1>5, <1>6
  <2> QED BY <2>1, <2>2, <1>4 DEF StrictSubsetOrdering
<1> QED BY <1>5, <1>6

LEMMA Induction ==
  ASSUME NEW T \in SUBSET Nat, 0 \in T, \A n \in T : n + 1 \in T
  PROVE  T = Nat
<1>1. SUFFICES ASSUME Nat \ T # {} PROVE FALSE
  OBVIOUS
<1>2. PICK x \in Nat \ T : \A y \in Nat \ T : x <= y
  BY <1>1, LeastExists
<1>3. x # 0 /\ x - 1 \in Nat /\ x - 1 \notin T
  BY <1>2
<1> QED BY <1>2, <1>3

LEMMA SelectedUnfolds ==
  ASSUME NEW s, Len(s) \in Nat, NEW S
  PROVE  \E upTo :
           /\ Selected(s, S) = upTo[Len(s)]
           /\ \A n \in 0..Len(s) :
                upTo[n] = IF n = 0 THEN <<>>
                          ELSE IF s[n] \in S THEN Append(upTo[n - 1], s[n]) ELSE upTo[n - 1]
<1> DEFINE Step(f, n) == IF n = 0 THEN <<>> ELSE IF s[n] \in S THEN Append(f[n - 1], s[n]) ELSE f[n - 1]
           Solves(f, m) == f = [n \in 0..m |-> Step(f, n)]
           T == {m \in Nat : \E f : Solves(f, m)}
<1>1. 0 \in T
  <2> DEFINE f == [n \in 0..0 |-> <<>>]
  <2>1. Solves(f, 0)
    OBVIOUS
  <2> QED BY <2>1
<1>2. ASSUME NEW m \in T PROVE m + 1 \in T
  <2>1. PICK f : Solves(f, m)
    OBVIOUS
  <2> DEFINE g == [n \in 0..m + 1 |-> IF n = m + 1 THEN Step(f, n) ELSE f[n]]
  <2>2. \A n \in 0..m : f[n] = Step(f, n)
    BY <2>1
  <2>3. \A n \in 0..m + 1 : n # 0 => g[n - 1] = f[n - 1]
    OBVIOUS
  <2>4. \A n \in 0..m + 1 : g[n] = Step(g, n)
    BY <2>2, <2>3
  <2>5. Solves(g, m + 1)
    BY <2>4
  <2> HIDE DEF g, Solves
  <2>6. \E h : Solves(h, m + 1)
    BY <2>5
  <2> QED BY <2>6
<1>3. Len(s) \in T
  <2> HIDE DEF T
  <2>1. T \subseteq Nat
    BY DEF T
  <2> QED BY <1>1, <1>2, <2>1, Induction
<1> DEFINE upTo == CHOOSE f : f = [n \in 0..Len(s) |-> Step(f, n)]
<1>4. upTo = [n \in 0..Len(s) |-> Step(upTo, n)]
  BY <1>3
<1>5. Selected(s, S) = upTo[Len(s)]
  BY DEF Selected
<1>6. \A n \in 0..Len(s) : upTo[n] = Step(upTo, n)
  BY <1>4
<1> HIDE DEF upTo
<1> QED BY <1>5, <1>6

LEMMA SelectedIsASequence ==
  ASSUME NEW A, NEW s \in Seq(A), NEW S
  PROVE  Selected(s, S) \in Seq(A \cap S)
<1>1. PICK upTo : /\ Selected(s, S) = upTo[Len(s)]
                  /\ \A n \in 0..Len(s) :
                       upTo[n] = IF n = 0 THEN <<>>
                                 ELSE IF s[n] \in S THEN Append(upTo[n - 1], s[n]) ELSE upTo[n - 1]
  BY SelectedUnfolds
<1> DEFINE T == {n \in Nat : n <= Len(s) => upTo[n] \in Seq(A \cap S)}
<1>2. 0 \in T
  <2>1. upTo[0] = <<>>
    <3>1. 0 \in 0..Len(s)
      OBVIOUS
    <3> QED BY <1>1, <3>1
  <2>2. <<>> \in Seq(A \cap S)
    OBVIOUS
  <2> QED BY <2>1, <2>2
<1>3. ASSUME NEW n \in T PROVE n + 1 \in T
  <2> SUFFICES ASSUME n + 1 <= Len(s) PROVE upTo[n + 1] \in Seq(A \cap S)
    OBVIOUS
  <2>1. upTo[n] \in Seq(A \cap S) /\ s[n + 1] \in A
    OBVIOUS
  <2>2. upTo[n + 1] = IF s[n + 1] \in S THEN Append(upTo[n], s[n + 1]) ELSE upTo[n]
    BY <1>1
  <2> QED BY <2>1, <2>2
<1>4. T = Nat
  BY <1>2, <1>3, Induction
<1> QED BY <1>1, <1>4

-------------------------------------------------------------------------------
(* Powers of two, which count the subsets of a finite set.                 *)
LEMMA PowerOfZero == 2^0 = 1
<1>1. IsFiniteSet({}) /\ Cardinality({}) = 0
  BY FS_EmptySet
<1>2. Cardinality(SUBSET {}) = 2^Cardinality({})
  BY <1>1, FS_SUBSET
<1>3. SUBSET {} = {{}} /\ Cardinality({{}}) = 1
  BY FS_Singleton
<1> QED BY <1>1, <1>2, <1>3

LEMMA PowerOfNext ==
  ASSUME NEW n \in Nat
  PROVE  2^n \in Nat /\ 2^(n + 1) = 2 * 2^n
<1> DEFINE S == 1..n
           X == n + 1
           A == SUBSET S
           B == {s \cup {X} : s \in A}
           f == [s \in A |-> s \cup {X}]
<1>1. IsFiniteSet(S) /\ Cardinality(S) = n /\ IsFiniteSet(1..X) /\ Cardinality(1..X) = n + 1
  BY FS_Interval
<1>2. 1..X = S \cup {X} /\ X \notin S
  OBVIOUS
<1> HIDE DEF S, X
<1>3. /\ IsFiniteSet(A) /\ Cardinality(A) = 2^n
      /\ IsFiniteSet(SUBSET (1..X)) /\ Cardinality(SUBSET (1..X)) = 2^(n + 1)
  BY <1>1, FS_SUBSET
<1>4. SUBSET (1..X) = A \cup B
  <2>1. ASSUME NEW s \in SUBSET (1..X), X \in s PROVE s \in B
    <3>1. s \ {X} \in A /\ s = (s \ {X}) \cup {X}
      BY <2>1, <1>2
    <3> QED BY <3>1
  <2>2. ASSUME NEW s \in SUBSET (1..X), X \notin s PROVE s \in A
    BY <2>2, <1>2
  <2>3. A \cup B \subseteq SUBSET (1..X)
    BY <1>2
  <2> QED BY <2>1, <2>2, <2>3
<1>5. A \cap B = {}
  BY <1>2
<1>6. ExistsBijection(A, B)
  <2>1. f \in [A -> B] /\ \A b \in B : \E s \in A : f[s] = b
    OBVIOUS
  <2>2. ASSUME NEW s \in A, NEW t \in A, f[s] = f[t] PROVE s = t
    <3>1. s \cup {X} = t \cup {X}
      BY <2>2
    <3> QED BY <3>1, <1>2
  <2> HIDE DEF A, B, f
  <2>3. f \in Injection(A, B)
    BY <2>1, <2>2 DEF Injection, IsInjective
  <2>4. f \in Surjection(A, B)
    BY <2>1 DEF Surjection
  <2>5. f \in Bijection(A, B)
    BY <2>3, <2>4 DEF Bijection
  <2> QED BY <2>5 DEF ExistsBijection
<1> HIDE DEF A, B, f
<1>7. IsFiniteSet(B) /\ Cardinality(B) = Cardinality(A)
  BY <1>3, <1>6, FS_Bijection
<1>8. Cardinality(A \cup B) = Cardinality(A) + Cardinality(B) - Cardinality({})
  BY <1>3, <1>5, <1>7, FS_Union
<1>9. Cardinality({}) = 0 /\ Cardinality(A) \in Nat
  BY <1>3, FS_EmptySet, FS_CardinalityType
<1>10. 2^n = Cardinality(A) /\ 2^(n + 1) = Cardinality(A) + Cardinality(A) - 0
  BY <1>3, <1>4, <1>7, <1>8, <1>9
<1> QED BY <1>9, <1>10

LEMMA PowersGrow ==
  ASSUME NEW m \in Nat, NEW n \in Nat, m <= n
  PROVE  2^m \in Nat /\ 2^n \in Nat /\ 1 <= 2^m /\ 2^m <= 2^n /\ (m < n => 2 * 2^m <= 2^n)
<1>1. \A k \in Nat : 2^k \in Nat /\ 2^(k + 1) = 2 * 2^k
  BY PowerOfNext
<1> DEFINE P == [k \in Nat |-> 2^k]
<1>2. P[0] = 1 /\ \A k \in Nat : P[k] \in Nat /\ P[k + 1] = 2 * P[k] /\ P[k] = 2^k
  <2>1. \A k \in Nat : P[k] = 2^k
    OBVIOUS
  <2>2. P[0] = 1
    BY <2>1, PowerOfZero
  <2> HIDE DEF P
  <2>3. ASSUME NEW k \in Nat PROVE P[k] \in Nat /\ P[k + 1] = 2 * P[k]
    <3>1. P[k] = 2^k /\ P[k + 1] = 2^(k + 1)
      BY <2>1
    <3>2. 2^k \in Nat /\ 2^(k + 1) = 2 * 2^k
      BY <1>1
    <3> QED BY <3>1, <3>2
  <2> QED BY <2>1, <2>2, <2>3
<1> HIDE DEF P
<1> DEFINE T == {k \in Nat : 1 <= P[k]}
           U == {k \in Nat : P[m] <= P[m + k] /\ (k > 0 => 2 * P[m] <= P[m + k])}
<1>3. T = Nat
  <2>1. 0 \in T
    BY <1>2
  <2>2. ASSUME NEW k \in T PROVE k + 1 \in T
    BY <1>2
  <2> HIDE DEF T
  <2>3. T \subseteq Nat
    BY DEF T
  <2> QED BY <2>1, <2>2, <2>3, Induction
<1>4. U = Nat
  <2>1. 0 \in U
    BY <1>2
  <2>2. ASSUME NEW k \in U PROVE k + 1 \in U
    <3>1. P[m + (k + 1)] = 2 * P[m + k] /\ P[m + k] \in Nat /\ P[m] \in Nat /\ P[m] <= P[m + k]
      <4>1. m + k \in Nat /\ m + (k + 1) = (m + k) + 1
        OBVIOUS
      <4> QED BY <4>1, <1>2
    <3> QED BY <3>1
  <2> HIDE DEF U
  <2>3. U \subseteq Nat
    BY DEF U
  <2> QED BY <2>1, <2>2, <2>3, Induction
<1>5. n - m \in U /\ m \in T /\ m + (n - m) = n
  <2>1. n - m \in Nat /\ m + (n - m) = n
    OBVIOUS
  <2> HIDE DEF T, U
  <2> QED BY <2>1, <1>3, <1>4
<1>6. 1 <= P[m] /\ P[m] <= P[n] /\ (n - m > 0 => 2 * P[m] <= P[n])
  BY <1>5
<1> QED BY <1>2, <1>6

-------------------------------------------------------------------------------
(* A set of integers with an upper bound has a largest element, one with a *)
(* lower bound a smallest.                                                 *)
LEMMA LargestExists ==
  ASSUME NEW S \in SUBSET Int, S # {}, NEW bound \in Int, \A x \in S : x <= bound
  PROVE  \E x \in S : \A y \in S : y <= x
<1> DEFINE T == {bound - x : x \in S}
<1>1. T \in SUBSET Nat /\ T # {}
  <2>1. \A x \in S : x \in Int /\ bound - x \in Nat
    OBVIOUS
  <2> QED BY <2>1
<1>2. PICK t \in T : \A u \in T : t <= u
  BY <1>1, LeastExists
<1>3. PICK x \in S : t = bound - x
  BY <1>2
<1>4. ASSUME NEW y \in S PROVE y <= x
  <2>1. bound - y \in T
    OBVIOUS
  <2>2. bound - x <= bound - y
    BY <2>1, <1>2, <1>3
  <2> QED BY <2>2
<1> QED BY <1>4

LEMMA SmallestExists ==
  ASSUME NEW S \in SUBSET Int, S # {}, NEW bound \in Int, \A x \in S : bound <= x
  PROVE  \E x \in S : \A y \in S : x <= y
<1> DEFINE T == {x - bound : x \in S}
<1>1. T \in SUBSET Nat /\ T # {}
  <2>1. \A x \in S : x \in Int /\ x - bound \in Nat
    OBVIOUS
  <2> QED BY <2>1
<1>2. PICK t \in T : \A u \in T : t <= u
  BY <1>1, LeastExists
<1>3. PICK x \in S : t = x - bound
  BY <1>2
<1>4. ASSUME NEW y \in S PROVE x <= y
  <2>1. y - bound \in T
    OBVIOUS
  <2>2. x - bound <= y - bound
    BY <2>1, <1>2, <1>3
  <2> QED BY <2>2
<1> QED BY <1>4

(* Selected, its elements, when all or none are selected.                   *)
LEMMA SelectedHas ==
  ASSUME NEW A, NEW s \in Seq(A), NEW S
  PROVE  \A x : x \in Range(Selected(s, S)) <=> x \in Range(s) /\ x \in S
<1>1. PICK upTo : /\ Selected(s, S) = upTo[Len(s)]
                  /\ \A n \in 0..Len(s) :
                       upTo[n] = IF n = 0 THEN <<>>
                                 ELSE IF s[n] \in S THEN Append(upTo[n - 1], s[n]) ELSE upTo[n - 1]
  BY SelectedUnfolds
<1> DEFINE Good(n) == /\ upTo[n] \in Seq(A)
                      /\ \A x : (\E i \in 1..Len(upTo[n]) : x = upTo[n][i]) <=> (x \in S /\ \E i \in 1..n : x = s[i])
           T == {n \in Nat : n <= Len(s) => Good(n)}
<1>2. 0 \in T
  <2> DEFINE u == upTo[0]
  <2>1. 0 \in 0..Len(s)
    OBVIOUS
  <2>2. u = <<>>
    BY <1>1, <2>1
  <2> SUFFICES u \in Seq(A) /\ \A x : (\E i \in 1..Len(u) : x = u[i]) <=> (x \in S /\ \E i \in 1..0 : x = s[i])
    OBVIOUS
  <2> HIDE DEF u
  <2>3. u \in Seq(A) /\ Len(u) = 0
    BY <2>2
  <2> QED BY <2>3
<1>3. ASSUME NEW n \in T PROVE n + 1 \in T
  <2> SUFFICES ASSUME n + 1 <= Len(s) PROVE Good(n + 1)
    OBVIOUS
  <2>1. n \in Nat /\ n \in 0..Len(s) /\ n + 1 \in 0..Len(s) /\ n + 1 # 0 /\ (n + 1) - 1 = n
    OBVIOUS
  <2>2. Good(n)
    BY <2>1
  <2>3. upTo[n + 1] = IF s[n + 1] \in S THEN Append(upTo[n], s[n + 1]) ELSE upTo[n]
    BY <1>1, <2>1
  <2> DEFINE u == upTo[n]
             v == upTo[n + 1]
             e == s[n + 1]
  <2>4. u \in Seq(A) /\ e \in A
    BY <2>1, <2>2
  <2>5. \A x : (\E i \in 1..Len(u) : x = u[i]) <=> (x \in S /\ \E i \in 1..n : x = s[i])
    BY <2>2
  <2>6. v = IF e \in S THEN Append(u, e) ELSE u
    BY <2>3
  <2>7. \A x : (\E i \in 1..n + 1 : x = s[i]) <=> ((\E i \in 1..n : x = s[i]) \/ x = e)
    BY <2>1
  <2> SUFFICES v \in Seq(A) /\ \A x : (\E i \in 1..Len(v) : x = v[i]) <=> (x \in S /\ \E i \in 1..n + 1 : x = s[i])
    OBVIOUS
  <2> HIDE DEF u, v, e, Good, T
  <2>8. CASE e \in S
    <3>1. v = Append(u, e)
      BY <2>6, <2>8
    <3>2. \A x : (\E i \in 1..Len(v) : x = v[i]) <=> ((\E i \in 1..Len(u) : x = u[i]) \/ x = e)
      BY <3>1, <2>4
    <3>3. v \in Seq(A)
      BY <3>1, <2>4
    <3> QED BY <3>2, <3>3, <2>5, <2>7, <2>8
  <2>9. CASE e \notin S
    <3>1. v = u
      BY <2>6, <2>9
    <3>2. ASSUME NEW x
          PROVE  (\E i \in 1..Len(v) : x = v[i]) <=> (x \in S /\ \E i \in 1..n + 1 : x = s[i])
      <4>1. (\E i \in 1..Len(v) : x = v[i]) <=> (x \in S /\ \E i \in 1..n : x = s[i])
        BY <3>1, <2>5
      <4>2. (\E i \in 1..n + 1 : x = s[i]) <=> ((\E i \in 1..n : x = s[i]) \/ x = e)
        BY <2>7
      <4> QED BY <4>1, <4>2, <2>9
    <3> QED BY <3>1, <3>2, <2>4
  <2> QED BY <2>8, <2>9
<1>4. T = Nat
  <2> HIDE DEF T
  <2>1. T \in SUBSET Nat
    BY DEF T
  <2> QED BY <2>1, <1>2, <1>3, Induction
<1>5. Good(Len(s))
  <2>1. Len(s) \in Nat /\ Len(s) <= Len(s)
    OBVIOUS
  <2> HIDE DEF Good
  <2> QED BY <2>1, <1>4
<1> DEFINE u == Selected(s, S)
<1>6. u \in Seq(A) /\ \A x : (\E i \in 1..Len(u) : x = u[i]) <=> (x \in S /\ \E i \in 1..Len(s) : x = s[i])
  BY <1>1, <1>5
<1> SUFFICES \A x : x \in Range(u) <=> x \in Range(s) /\ x \in S
  OBVIOUS
<1> HIDE DEF u, Good, T
<1>7. DOMAIN u = 1..Len(u) /\ DOMAIN s = 1..Len(s)
  BY <1>6
<1>8. \A x : /\ x \in Range(u) <=> \E i \in 1..Len(u) : x = u[i]
             /\ x \in Range(s) <=> \E i \in 1..Len(s) : x = s[i]
  BY <1>7 DEF Range
<1> QED BY <1>6, <1>8

LEMMA AllSelected ==
  ASSUME NEW A, NEW s \in Seq(A), NEW S, \A i \in 1..Len(s) : s[i] \in S
  PROVE  Selected(s, S) = s
<1>1. PICK upTo : /\ Selected(s, S) = upTo[Len(s)]
                  /\ \A n \in 0..Len(s) :
                       upTo[n] = IF n = 0 THEN <<>>
                                 ELSE IF s[n] \in S THEN Append(upTo[n - 1], s[n]) ELSE upTo[n - 1]
  BY SelectedUnfolds
<1> DEFINE Begins(u, n) == u \in Seq(A) /\ Len(u) = n /\ \A i \in 1..n : u[i] = s[i]
           T == {n \in Nat : n <= Len(s) => Begins(upTo[n], n)}
<1>2. 0 \in T
  <2>1. 0 \in 0..Len(s)
    OBVIOUS
  <2>2. upTo[0] = <<>>
    BY <1>1, <2>1
  <2>3. ASSUME NEW u, u = <<>> PROVE Begins(u, 0)
    BY <2>3
  <2> HIDE DEF Begins
  <2> QED BY <2>2, <2>3
<1>3. ASSUME NEW n \in T PROVE n + 1 \in T
  <2> SUFFICES ASSUME n + 1 <= Len(s) PROVE Begins(upTo[n + 1], n + 1)
    OBVIOUS
  <2>1. n \in Nat /\ n + 1 \in 0..Len(s) /\ n + 1 \in 1..Len(s) /\ (n + 1) - 1 = n /\ n + 1 # 0 /\ n <= Len(s)
    OBVIOUS
  <2>2. upTo[n + 1] = Append(upTo[n], s[n + 1]) /\ s[n + 1] \in A
    <3>1. upTo[n + 1] = IF n + 1 = 0 THEN <<>>
                        ELSE IF s[n + 1] \in S THEN Append(upTo[(n + 1) - 1], s[n + 1]) ELSE upTo[(n + 1) - 1]
      <4> HIDE DEF T, Begins
      <4> QED BY <1>1, <2>1
    <3>2. s[n + 1] \in A /\ s[n + 1] \in S
      BY <2>1
    <3> QED BY <2>1, <3>1, <3>2
  <2>3. Begins(upTo[n], n)
    BY <2>1
  <2>4. ASSUME NEW u, NEW e \in A, Begins(u, n), e = s[n + 1] PROVE Begins(Append(u, e), n + 1)
    BY <2>1, <2>4
  <2> HIDE DEF Begins, T
  <2> QED BY <2>2, <2>3, <2>4
<1>4. T = Nat
  <2> HIDE DEF T
  <2>1. T \in SUBSET Nat
    BY DEF T
  <2> QED BY <2>1, <1>2, <1>3, Induction
<1>5. Begins(upTo[Len(s)], Len(s))
  <2>1. Len(s) \in Nat /\ Len(s) <= Len(s)
    OBVIOUS
  <2> HIDE DEF Begins
  <2> QED BY <2>1, <1>4
<1>6. ASSUME NEW u, Begins(u, Len(s)) PROVE u = s
  BY <1>6
<1> HIDE DEF Begins
<1> QED BY <1>1, <1>5, <1>6

LEMMA NoneSelected ==
  ASSUME NEW A, NEW s \in Seq(A), NEW S, \A i \in 1..Len(s) : s[i] \notin S
  PROVE  Selected(s, S) = <<>>
<1> DEFINE u == Selected(s, S)
<1>1. \A x : x \in Range(u) <=> x \in Range(s) /\ x \in S
  BY SelectedHas
<1>2. \A x \in Range(s) : x \notin S
  BY DEF Range
<1>3. u \in Seq(A \cap S)
  BY SelectedIsASequence
<1> HIDE DEF u
<1>4. \A i \in 1..Len(u) : u[i] \in Range(u)
  BY <1>3 DEF Range
<1>5. Len(u) = 0
  BY <1>1, <1>2, <1>3, <1>4
<1>6. u = <<>>
  BY <1>3, <1>5
<1> QED BY <1>6 DEF u

(* Two sequences joined.                                                    *)
LEMMA JoinedIs ==
  ASSUME NEW X, NEW x \in Seq(X), NEW Y, NEW y \in Seq(Y), NEW k, k = Len(x), NEW l, l = Len(y)
  PROVE  /\ DOMAIN (x \o y) = 1..k + l /\ Len(x \o y) = k + l
         /\ \A i \in 1..k : (x \o y)[i] = x[i]
         /\ \A i \in 1..l : (x \o y)[k + i] = y[i]
<1> DEFINE z == x \o y
<1>1. x \in Seq(X \cup Y) /\ y \in Seq(X \cup Y) /\ k \in Nat /\ l \in Nat
  OBVIOUS
<1>2. /\ z \in Seq(X \cup Y) /\ Len(z) = k + l
      /\ \A i \in 1..k + l : z[i] = IF i <= k THEN x[i] ELSE y[i - k]
  BY <1>1, ConcatProperties
<1> HIDE DEF z
<1>3. DOMAIN z = 1..k + l
  BY <1>2
<1>4. \A i \in 1..k : i \in 1..k + l /\ i <= k
  BY <1>1
<1>5. \A i \in 1..l : k + i \in 1..k + l /\ ~(k + i <= k) /\ (k + i) - k = i
  BY <1>1
<1>6. \A i \in 1..k : z[i] = x[i]
  BY <1>2, <1>4
<1>7. ASSUME NEW i \in 1..l PROVE z[k + i] = y[i]
  <2> DEFINE j == k + i
  <2>1. j \in 1..k + l /\ ~(j <= k) /\ j - k = i
    BY <1>5
  <2> HIDE DEF j
  <2>2. z[j] = y[j - k]
    BY <1>2, <2>1
  <2> QED BY <2>1, <2>2 DEF j
<1> QED BY <1>2, <1>3, <1>6, <1>7 DEF z

===============================================================================
