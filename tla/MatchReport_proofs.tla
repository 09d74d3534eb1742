------------------------ MODULE MatchReport_proofs ------------------------
(***************************************************************************)
(* The match's report, proved for updates of any number of players and     *)
(* any numbers: the logs tell the match, and everybody has one result.     *)
(***************************************************************************)
EXTENDS MatchReport, FiniteSetTheorems, FunctionTheorems, SequenceTheorems,
        WellFoundedInduction, TLAPS

-----------------------------------------------------------------------------
(***************************************************************************)
(* Induction, with a set in the place of the predicate.                    *)
(***************************************************************************)
LEMMA LeastInSet ==
  ASSUME NEW S \in SUBSET Nat, S # {}
  PROVE  \E n \in S : \A m \in S : n <= m
<1> DEFINE R == OpToRel(<, Nat)
<1>1. IsWellFoundedOn(R, Nat)
  BY NatLessThanWellFounded
<1>2. \A m, n \in Nat : m < n => <<m, n>> \in R
  BY DEF OpToRel
<1> HIDE DEF R
<1>3. PICK n \in S : \A m \in S : ~ (<<m, n>> \in R)
  BY <1>1, WFMin
<1>4. ASSUME NEW m \in S PROVE n <= m
  <2>1. ~(m < n)
    BY <1>2, <1>3
  <2> QED
    BY <2>1
<1> QED
  BY <1>4

LEMMA InductionInSet ==
  ASSUME NEW S \in SUBSET Nat, 0 \in S, \A n \in S : n + 1 \in S
  PROVE  S = Nat
<1> SUFFICES ASSUME S # Nat PROVE FALSE
  OBVIOUS
<1> DEFINE T == Nat \ S
<1>1. T # {}
  OBVIOUS
<1>2. PICK n \in T : \A m \in T : n <= m
  BY <1>1, LeastInSet
<1>3. n # 0 /\ n - 1 \in Nat /\ n - 1 \notin T
  BY <1>2
<1> QED
  BY <1>3

-----------------------------------------------------------------------------
(***************************************************************************)
(* Sums over finite sets.  SumFunction takes the elements in the order     *)
(* that CHOOSE has; the sum does not depend on it.                         *)
(***************************************************************************)
Some(T) == CHOOSE x \in T : TRUE

IsSum(g, f, S) ==
  \A T \in SUBSET S : g[T] = IF T = {} THEN 0 ELSE f[Some(T)] + g[T \ {Some(T)}]

IsNatSum(g, f, S) ==
  f \in [S -> Nat] /\ g \in [SUBSET S -> Nat] /\ IsSum(g, f, S)

(* Any element may be taken first.                                         *)
AnyFirst(g, f, S) == \A T \in SUBSET S : \A x \in T : g[T] = f[x] + g[T \ {x}]

Additive(g, S) ==
  \A A, B \in SUBSET S : A \cap B = {} => g[A \cup B] = g[A] + g[B]

LEMMA SomeIsIn == \A T : T # {} => Some(T) \in T
BY DEF Some

LEMMA FiniteSubset ==
  ASSUME NEW S, IsFiniteSet(S)
  PROVE  /\ \A T \in SUBSET S : IsFiniteSet(T) /\ Cardinality(T) \in Nat
         /\ \A T \in SUBSET S : \A x \in T :
              Cardinality(T) # 0 /\ Cardinality(T \ {x}) = Cardinality(T) - 1
<1>1. \A T \in SUBSET S : IsFiniteSet(T) /\ Cardinality(T) \in Nat
  BY FS_Subset, FS_CardinalityType
<1> QED
  BY <1>1, FS_RemoveElement, FS_EmptySet

(* The function that SumFunction defines is there.                         *)
LEMMA SumExists ==
  ASSUME NEW S, IsFiniteSet(S), NEW f \in [S -> Nat]
  PROVE  \E g \in [SUBSET S -> Nat] : IsSum(g, f, S)
<1> DEFINE Sums(n, g) ==
             \A T \in SUBSET S : Cardinality(T) <= n =>
               g[T] = IF T = {} THEN 0 ELSE f[Some(T)] + g[T \ {Some(T)}]
           N == {n \in Nat : \E g \in [SUBSET S -> Nat] : Sums(n, g)}
<1>1. 0 \in N
  <2>1. [T \in SUBSET S |-> 0] \in [SUBSET S -> Nat]
    OBVIOUS
  <2>2. \A T \in SUBSET S : Cardinality(T) <= 0 => T = {}
    BY FiniteSubset, FS_EmptySet
  <2>3. Sums(0, [T \in SUBSET S |-> 0])
    BY <2>2
  <2> QED
    BY <2>1, <2>3
<1>2. ASSUME NEW n \in N PROVE n + 1 \in N
  <2>1. PICK g \in [SUBSET S -> Nat] : Sums(n, g)
    OBVIOUS
  <2> DEFINE h == [T \in SUBSET S |->
                     IF Cardinality(T) = n + 1 THEN f[Some(T)] + g[T \ {Some(T)}] ELSE g[T]]
  <2>2. \A T \in SUBSET S : T # {} =>
          /\ Some(T) \in S /\ T \ {Some(T)} \in SUBSET S
          /\ Cardinality(T \ {Some(T)}) = Cardinality(T) - 1
    BY FiniteSubset, SomeIsIn
  <2>3. \A T \in SUBSET S : Cardinality(T) \in Nat /\ (Cardinality(T) = n + 1 => T # {})
    BY FiniteSubset, FS_EmptySet
  <2>4. h \in [SUBSET S -> Nat]
    BY <2>2, <2>3
  <2>5. Sums(n + 1, h)
    <3> SUFFICES ASSUME NEW T \in SUBSET S, Cardinality(T) <= n + 1
                 PROVE  h[T] = IF T = {} THEN 0 ELSE f[Some(T)] + h[T \ {Some(T)}]
      OBVIOUS
    <3>1. T # {} => h[T \ {Some(T)}] = g[T \ {Some(T)}]
      BY <2>2, <2>3
    <3>2. CASE Cardinality(T) = n + 1
      BY <2>3, <3>1, <3>2
    <3>3. CASE Cardinality(T) <= n
      BY <2>1, <2>3, <3>1, <3>3
    <3> QED
      BY <2>3, <3>2, <3>3
  <2> HIDE DEF h, Sums
  <2>6. n + 1 \in Nat
    OBVIOUS
  <2> QED
    BY <2>4, <2>5, <2>6
<1>3. N \in SUBSET Nat
  OBVIOUS
<1> HIDE DEF N
<1>4. N = Nat
  BY <1>1, <1>2, <1>3, InductionInSet
<1>5. Cardinality(S) \in N
  BY <1>4, FS_CardinalityType
<1>6. PICK g \in [SUBSET S -> Nat] : Sums(Cardinality(S), g)
  BY <1>5 DEF N
<1>7. \A T \in SUBSET S : Cardinality(T) <= Cardinality(S)
  BY FS_Subset
<1> QED
  BY <1>6, <1>7 DEF IsSum

LEMMA SumDefined ==
  ASSUME NEW S, IsFiniteSet(S), NEW f \in [S -> Nat]
  PROVE  \E g : IsSum(g, f, S) /\ SumFunction(f) = g[S]
<1> DEFINE Step(g) == [T \in SUBSET S |->
                         IF T = {} THEN 0 ELSE f[Some(T)] + g[T \ {Some(T)}]]
           sum == CHOOSE g : g = Step(g)
<1>1. PICK g \in [SUBSET S -> Nat] : IsSum(g, f, S)
  BY SumExists
<1>2. g = Step(g)
  BY <1>1 DEF IsSum
<1>3. SumFunction(f) = sum[S]
  BY DEF SumFunction, SumFunctionOnSet, FoldFunctionOnSet, MapThenFoldSet, Some
<1>4. sum = Step(sum)
  <2> HIDE DEF Step
  <2> QED
    BY <1>2
<1> HIDE DEF sum
<1>5. IsSum(sum, f, S)
  BY <1>4 DEF IsSum
<1> QED
  BY <1>3, <1>5

(* Two such functions agree where what they sum does.                      *)
LEMMA SumAgrees ==
  ASSUME NEW S, IsFiniteSet(S), NEW f, NEW g, NEW R \in SUBSET S, NEW e, NEW h,
         IsSum(g, f, S), IsSum(h, e, R), \A x \in R : e[x] = f[x]
  PROVE  h[R] = g[R]
<1> DEFINE N == {n \in Nat : \A T \in SUBSET R : Cardinality(T) = n => h[T] = g[T]}
<1>1. \A T \in SUBSET R : T \in SUBSET S
  OBVIOUS
<1>2. 0 \in N
  <2>1. \A T \in SUBSET R : Cardinality(T) = 0 => T = {}
    BY <1>1, FiniteSubset, FS_EmptySet
  <2>2. h[{}] = 0 /\ g[{}] = 0
    BY DEF IsSum
  <2> QED
    BY <2>1, <2>2
<1>3. ASSUME NEW n \in N PROVE n + 1 \in N
  <2>1. \A T \in SUBSET R : Cardinality(T) = n => h[T] = g[T]
    OBVIOUS
  <2> SUFFICES ASSUME NEW T \in SUBSET R, Cardinality(T) = n + 1
               PROVE  h[T] = g[T]
    OBVIOUS
  <2>2. T # {}
    <3>1. n \in Nat /\ T \in SUBSET S
      OBVIOUS
    <3> QED
      BY <3>1, FiniteSubset, FS_EmptySet
  <2>3. /\ Some(T) \in R /\ T \ {Some(T)} \in SUBSET R
        /\ Cardinality(T \ {Some(T)}) = n
    BY <1>1, <2>2, FiniteSubset, SomeIsIn
  <2>4. /\ h[T] = e[Some(T)] + h[T \ {Some(T)}]
        /\ g[T] = f[Some(T)] + g[T \ {Some(T)}]
    BY <1>1, <2>2 DEF IsSum
  <2> QED
    BY <2>1, <2>3, <2>4
<1>4. N \in SUBSET Nat
  OBVIOUS
<1> HIDE DEF N
<1>5. N = Nat
  BY <1>2, <1>3, <1>4, InductionInSet
<1>6. Cardinality(R) \in N
  BY <1>5, FiniteSubset
<1> QED
  BY <1>6 DEF N

LEMMA SumAnyFirst ==
  ASSUME NEW S, IsFiniteSet(S), NEW f, NEW g, IsNatSum(g, f, S)
  PROVE  AnyFirst(g, f, S)
<1>0. f \in [S -> Nat] /\ g \in [SUBSET S -> Nat] /\ IsSum(g, f, S)
  BY DEF IsNatSum
<1> DEFINE N == {n \in Nat : \A T \in SUBSET S : Cardinality(T) = n =>
                    \A x \in T : g[T] = f[x] + g[T \ {x}]}
<1>1. 0 \in N
  BY FiniteSubset
<1>2. ASSUME NEW n \in N PROVE n + 1 \in N
  <2>1. \A T \in SUBSET S : Cardinality(T) = n => \A x \in T : g[T] = f[x] + g[T \ {x}]
    OBVIOUS
  <2> SUFFICES ASSUME NEW T \in SUBSET S, Cardinality(T) = n + 1, NEW x \in T
               PROVE  g[T] = f[x] + g[T \ {x}]
    BY <1>0
  <2> DEFINE c == Some(T)
  <2>2. c \in T /\ g[T] = f[c] + g[T \ {c}]
    BY <1>0, SomeIsIn DEF IsSum
  <2> HIDE DEF c
  <2>3. CASE x # c
    <3>1. /\ T \ {c} \in SUBSET S /\ Cardinality(T \ {c}) = n /\ x \in T \ {c}
          /\ T \ {x} \in SUBSET S /\ Cardinality(T \ {x}) = n /\ c \in T \ {x}
      BY <2>2, <2>3, FiniteSubset
    <3>2. (T \ {c}) \ {x} = (T \ {x}) \ {c} /\ (T \ {c}) \ {x} \in SUBSET S
      OBVIOUS
    <3>3. /\ g[T \ {c}] = f[x] + g[(T \ {c}) \ {x}]
          /\ g[T \ {x}] = f[c] + g[(T \ {x}) \ {c}]
      BY <2>1, <3>1
    <3>4. f[x] \in Nat /\ f[c] \in Nat /\ g[(T \ {c}) \ {x}] \in Nat
      BY <1>0, <2>2, <3>2
    <3> DEFINE r == g[(T \ {c}) \ {x}]
    <3>5. g[T \ {c}] = f[x] + r /\ g[T \ {x}] = f[c] + r
      BY <3>2, <3>3
    <3> HIDE DEF r
    <3>6. r \in Nat
      BY <3>4 DEF r
    <3> QED
      BY <2>2, <3>4, <3>5, <3>6
  <2> QED
    BY <2>2, <2>3
<1>3. N \in SUBSET Nat
  OBVIOUS
<1> HIDE DEF N
<1>4. N = Nat
  BY <1>1, <1>2, <1>3, InductionInSet
<1>5. \A T \in SUBSET S : Cardinality(T) \in N
  BY <1>4, FiniteSubset
<1> QED
  BY <1>0, <1>5 DEF N, AnyFirst

LEMMA SumOfParts ==
  ASSUME NEW S, IsFiniteSet(S), NEW f, NEW g, IsNatSum(g, f, S)
  PROVE  Additive(g, S)
<1> SUFFICES ASSUME NEW A \in SUBSET S
             PROVE  \A B \in SUBSET S : A \cap B = {} => g[A \cup B] = g[A] + g[B]
  BY DEF Additive, IsNatSum
<1>9. AnyFirst(g, f, S)
  BY SumAnyFirst
<1>0. f \in [S -> Nat] /\ g \in [SUBSET S -> Nat] /\ IsSum(g, f, S)
  BY DEF IsNatSum
<1> DEFINE N == {n \in Nat : \A B \in SUBSET S :
                    Cardinality(B) = n /\ A \cap B = {} => g[A \cup B] = g[A] + g[B]}
<1>1. 0 \in N
  <2>1. \A B \in SUBSET S : Cardinality(B) = 0 => B = {}
    BY FiniteSubset, FS_EmptySet
  <2>2. g[{}] = 0 /\ A \cup {} = A /\ g[A] \in Nat
    BY <1>0 DEF IsSum
  <2>3. g[A \cup {}] = g[A] + g[{}]
    BY <2>2
  <2> QED
    BY <2>1, <2>3
<1>2. ASSUME NEW n \in N PROVE n + 1 \in N
  <2>1. \A B \in SUBSET S :
          Cardinality(B) = n /\ A \cap B = {} => g[A \cup B] = g[A] + g[B]
    OBVIOUS
  <2> SUFFICES ASSUME NEW B \in SUBSET S, Cardinality(B) = n + 1, A \cap B = {}
               PROVE  g[A \cup B] = g[A] + g[B]
    BY <1>0
  <2>2. PICK x : x \in B
    <3>1. n \in Nat
      OBVIOUS
    <3>2. B # {}
      BY <3>1, FiniteSubset, FS_EmptySet
    <3> QED
      BY <3>2
  <2>3. /\ B \ {x} \in SUBSET S /\ Cardinality(B \ {x}) = n /\ A \cap (B \ {x}) = {}
        /\ A \cup B \in SUBSET S /\ x \in A \cup B
        /\ (A \cup B) \ {x} = A \cup (B \ {x})
    BY <2>2, FiniteSubset
  <2>4. g[A \cup (B \ {x})] = g[A] + g[B \ {x}]
    BY <2>1, <2>3
  <2>5. /\ g[A \cup B] = f[x] + g[A \cup (B \ {x})]
        /\ g[B] = f[x] + g[B \ {x}]
    <3>1. g[A \cup B] = f[x] + g[(A \cup B) \ {x}]
      BY <1>0, <1>9, <2>3 DEF AnyFirst
    <3>2. g[B] = f[x] + g[B \ {x}]
      BY <1>0, <1>9, <2>2 DEF AnyFirst
    <3>3. g[(A \cup B) \ {x}] = g[A \cup (B \ {x})]
      BY <2>3
    <3> QED
      BY <3>1, <3>2, <3>3
  <2>6. f[x] \in Nat /\ g[A] \in Nat /\ g[B \ {x}] \in Nat
    BY <1>0, <2>2, <2>3
  <2> QED
    BY <2>4, <2>5, <2>6
<1>3. N \in SUBSET Nat
  OBVIOUS
<1> HIDE DEF N
<1>4. N = Nat
  BY <1>1, <1>2, <1>3, InductionInSet
<1>5. \A B \in SUBSET S : Cardinality(B) \in N
  BY <1>4, FiniteSubset
<1> QED
  BY <1>0, <1>5 DEF N

LEMMA SumSplits ==
  ASSUME NEW A, IsFiniteSet(A), NEW B, IsFiniteSet(B), A \cap B = {},
         NEW f \in [A \cup B -> Nat]
  PROVE  SumFunction(f) =
           SumFunction([x \in A |-> f[x]]) + SumFunction([x \in B |-> f[x]])
<1> DEFINE S == A \cup B
<1>1. IsFiniteSet(S)
  BY FS_Union
<1>2. A \in SUBSET S /\ B \in SUBSET S /\ S \in SUBSET S
  OBVIOUS
<1>3. PICK g \in [SUBSET S -> Nat] : IsSum(g, f, S)
  BY <1>1, SumExists
<1>4. ASSUME NEW R \in SUBSET S, NEW e \in [R -> Nat], \A x \in R : e[x] = f[x]
      PROVE  SumFunction(e) = g[R]
  <2>1. IsFiniteSet(R)
    BY <1>1, FS_Subset
  <2>2. PICK h : IsSum(h, e, R) /\ SumFunction(e) = h[R]
    BY <2>1, SumDefined
  <2>3. h[R] = g[R]
    BY <1>1, <1>3, <1>4, <2>2, SumAgrees
  <2> QED
    BY <2>2, <2>3
<1>5. SumFunction(f) = g[S]
  BY <1>2, <1>4
<1>6. SumFunction([x \in A |-> f[x]]) = g[A]
  <2>1. [x \in A |-> f[x]] \in [A -> Nat] /\ \A y \in A : [x \in A |-> f[x]][y] = f[y]
    OBVIOUS
  <2> QED
    BY <1>2, <1>4, <2>1
<1>7. SumFunction([x \in B |-> f[x]]) = g[B]
  <2>1. [x \in B |-> f[x]] \in [B -> Nat] /\ \A y \in B : [x \in B |-> f[x]][y] = f[y]
    OBVIOUS
  <2> QED
    BY <1>2, <1>4, <2>1
<1>8. g[S] = g[A] + g[B]
  <2>1. IsNatSum(g, f, S)
    BY <1>3 DEF IsNatSum
  <2>2. Additive(g, S)
    <3> HIDE DEF S
    <3> QED
      BY <1>1, <2>1, SumOfParts
  <2> QED
    BY <1>2, <1>3, <2>2 DEF Additive
<1> QED
  BY <1>5, <1>6, <1>7, <1>8

-----------------------------------------------------------------------------
(* The greatest of finitely many numbers.                                  *)
LEMMA GreatestExists ==
  ASSUME NEW T \in SUBSET Int, IsFiniteSet(T), T # {}
  PROVE  \E m \in T : \A t \in T : m >= t
<1> DEFINE N == {n \in Nat : \A S \in SUBSET T :
                    Cardinality(S) = n + 1 => \E m \in S : \A t \in S : m >= t}
<1>1. 0 \in N
  <2> SUFFICES ASSUME NEW S \in SUBSET T, Cardinality(S) = 1
               PROVE  \E m \in S : \A t \in S : m >= t
    OBVIOUS
  <2>1. PICK x : S = {x}
    BY FiniteSubset, FS_Singleton
  <2>2. x \in Int
    BY <2>1
  <2> QED
    BY <2>1, <2>2
<1>2. ASSUME NEW n \in N PROVE n + 1 \in N
  <2>1. n \in Nat
    OBVIOUS
  <2> SUFFICES ASSUME NEW S \in SUBSET T, Cardinality(S) = n + 1 + 1
               PROVE  \E m \in S : \A t \in S : m >= t
    BY <2>1
  <2>2. PICK x : x \in S
    <3>1. S # {}
      BY <2>1, FiniteSubset, FS_EmptySet
    <3> QED
      BY <3>1
  <2>3. S \ {x} \in SUBSET T /\ Cardinality(S \ {x}) = n + 1
    <3>1. Cardinality(S \ {x}) = Cardinality(S) - 1
      BY <2>2, FiniteSubset
    <3>2. Cardinality(S \ {x}) = n + 1
      BY <2>1, <3>1
    <3> QED
      BY <3>2
  <2>4. PICK m \in S \ {x} : \A t \in S \ {x} : m >= t
    BY <2>3
  <2>5. \A t \in S : t = x \/ t \in S \ {x}
    OBVIOUS
  <2>6. m \in Int /\ x \in Int /\ \A t \in S : t \in Int
    BY <2>2
  <2>7. CASE m >= x
    BY <2>4, <2>5, <2>7
  <2>8. CASE x > m
    BY <2>2, <2>4, <2>5, <2>6, <2>8
  <2> QED
    BY <2>6, <2>7, <2>8
<1>3. N \in SUBSET Nat
  OBVIOUS
<1> HIDE DEF N
<1>4. N = Nat
  BY <1>1, <1>2, <1>3, InductionInSet
<1>5. Cardinality(T) \in Nat /\ Cardinality(T) # 0
  BY FS_CardinalityType, FS_EmptySet
<1>6. Cardinality(T) - 1 \in N /\ Cardinality(T) - 1 + 1 = Cardinality(T)
  BY <1>4, <1>5
<1> QED
  BY <1>6 DEF N

LEMMA MaxFacts ==
  ASSUME NEW T \in SUBSET Int, IsFiniteSet(T), T # {}
  PROVE  Max(T) \in T /\ \A t \in T : Max(T) >= t
<1>1. PICK m \in T : \A t \in T : m >= t
  BY GreatestExists
<1> QED
  BY <1>1 DEF Max

-----------------------------------------------------------------------------
(* An update's lists, and what the transformer makes of one.               *)
LEMMA ListFacts ==
  ASSUME NEW list \in Lists
  PROVE  \E n \in 0..MaxEntries :
           list \in [1..n -> Entries] /\ DOMAIN list = 1..n /\ DOMAIN list \subseteq 1..MaxEntries
<1>1. MaxEntries \in Nat
  BY ReportAssumption
<1>2. PICK n \in 0..MaxEntries : list \in [1..n -> Entries]
  BY DEF Lists
<1> QED
  BY <1>1, <1>2

(* The entries of list that have numbers, and of which none is replaced.   *)
Kept(list) == {i \in DOMAIN list : list[i].stats # Nothing}

Stands(list, i) ==
  /\ i \in Kept(list)
  /\ \A j \in DOMAIN list : j > i /\ Who(list[j]) = Who(list[i]) => list[j].stats = Nothing

LEMMA TelemetryFacts ==
  ASSUME NEW list \in Lists
  PROVE  /\ DOMAIN Telemetry(list) = {Who(list[i]) : i \in Kept(list)}
         /\ \A who \in DOMAIN Telemetry(list) :
              \E i \in Kept(list) : /\ Stands(list, i) /\ Who(list[i]) = who
                                    /\ Telemetry(list)[who] = list[i].stats
<1>1. DOMAIN Telemetry(list) = {Who(list[i]) : i \in Kept(list)}
  BY DEF Telemetry, Kept
<1>2. ASSUME NEW who \in DOMAIN Telemetry(list)
      PROVE  \E i \in Kept(list) : /\ Stands(list, i) /\ Who(list[i]) = who
                                   /\ Telemetry(list)[who] = list[i].stats
  <2> DEFINE T == {i \in Kept(list) : Who(list[i]) = who}
  <2>1. Telemetry(list)[who] = list[Max(T)].stats
    BY <1>1, <1>2 DEF Telemetry, Kept
  <2>2. T # {}
    BY <1>1
  <2>3. PICK n \in 0..MaxEntries : DOMAIN list = 1..n
    BY ListFacts
  <2>4. n \in Int /\ \A k \in DOMAIN list : k \in Int
    BY <2>3, ReportAssumption
  <2>5. T \in SUBSET Int /\ T \in SUBSET (1..n)
    BY <2>3, <2>4 DEF Kept
  <2>6. IsFiniteSet(T)
    BY <2>4, <2>5, FS_Interval, FS_Subset
  <2>7. Max(T) \in T /\ \A t \in T : Max(T) >= t
    <3> HIDE DEF T
    <3> QED
      BY <2>2, <2>5, <2>6, MaxFacts
  <2>8. Stands(list, Max(T))
    <3>1. Max(T) \in Kept(list) /\ Who(list[Max(T)]) = who /\ Max(T) \in Int
      BY <2>5, <2>7
    <3>2. ASSUME NEW j \in DOMAIN list, j > Max(T), Who(list[j]) = who,
                 list[j].stats # Nothing
          PROVE  FALSE
      <4>1. j \in T
        BY <3>2 DEF Kept
      <4>2. Max(T) >= j /\ j \in Int
        BY <2>4, <2>7, <4>1
      <4> HIDE DEF T
      <4> QED
        BY <3>1, <3>2, <4>2
    <3> HIDE DEF T
    <3> QED
      BY <3>1, <3>2 DEF Stands
  <2> QED
    BY <2>1, <2>7, <2>8
<1> QED
  BY <1>1, <1>2

-----------------------------------------------------------------------------
(***************************************************************************)
(* The invariant of the live actor's cache: who is in it, and what of      *)
(* whom, is what the updates since the boundary have told last.            *)
(***************************************************************************)
Fields == {"shots", "score", "team"}

IsLast(m, who, f) ==
  m \in Mentions(who, f) /\ \A n \in Mentions(who, f) : n[1] <= m[1]

(* What the cache has of who's f, if anything.                             *)
Cached(who, f) ==
  IF Has(who, f)
  THEN \E m \in Mentions(who, f) :
         IsLast(m, who, f) /\ board.players[who][f] = reported[m[1]][m[2]].stats[f]
  ELSE Mentions(who, f) = {}

GoalsOK ==
  DOMAIN board.goals \subseteq Sides /\ \A s \in DOMAIN board.goals : board.goals[s] \in Nat

ReportInv ==
  /\ reported \in Seq(Lists)
  /\ GoalsOK
  /\ Players = {Who(reported[m[1]][m[2]]) : m \in Told}
  /\ \A who \in Players, f \in Fields : Cached(who, f)

LEMMA NothingFacts == Nothing = <<>> /\ DOMAIN Nothing = {}
<1>1. <<>> \in Seq(Nat) /\ Len(<<>>) = 0
  BY EmptySeq
<1>2. DOMAIN <<>> = 1..Len(<<>>)
  BY <1>1, LenProperties
<1> QED
  BY <1>1, <1>2 DEF Nothing

IsOver(h, f, g) ==
  /\ DOMAIN h = DOMAIN f \cup DOMAIN g
  /\ \A x \in DOMAIN f : h[x] = f[x]
  /\ \A x \in DOMAIN g \ DOMAIN f : h[x] = g[x]

LEMMA OverFacts == \A f, g : IsOver(Over(f, g), f, g)
BY DEF IsOver, Over, Field

(* Of an update, one entry tells who's f, at most.                         *)
LEMMA TellsOnce ==
  ASSUME NEW list \in Lists, NEW who, NEW f, NEW i, NEW j,
         Tells(list, i, who, f), Tells(list, j, who, f)
  PROVE  i = j
<1>1. i \in DOMAIN list /\ j \in DOMAIN list
  BY DEF Tells
<1>2. i \in Int /\ j \in Int
  BY <1>1, ListFacts
<1>3. list[i].stats # Nothing /\ list[j].stats # Nothing
  BY NothingFacts DEF Tells
<1>4. ~(i > j) /\ ~(j > i)
  BY <1>1, <1>3 DEF Tells
<1> QED
  BY <1>2, <1>4

LEMMA MentionOnce ==
  ASSUME reported \in Seq(Lists), NEW who, NEW f,
         NEW m \in Mentions(who, f), NEW n \in Mentions(who, f), m[1] = n[1]
  PROVE  m = n
<1>1. /\ m \in (DOMAIN reported) \X (1..MaxEntries) /\ n \in (DOMAIN reported) \X (1..MaxEntries)
      /\ Tells(reported[m[1]], m[2], who, f) /\ Tells(reported[m[1]], n[2], who, f)
  BY DEF Mentions
<1>2. reported[m[1]] \in Lists
  BY <1>1, ElementOfSeq, LenProperties
<1>3. m[2] = n[2]
  BY <1>1, <1>2, TellsOnce
<1> QED
  BY <1>1, <1>3

(* Hence what was told last is well-defined.                               *)
LEMMA LastIsTold ==
  ASSUME reported \in Seq(Lists), NEW who, NEW f, NEW m, IsLast(m, who, f)
  PROVE  LastTold(who, f) = reported[m[1]][m[2]].stats[f]
<1> DEFINE last == CHOOSE k \in Mentions(who, f) : \A n \in Mentions(who, f) : n[1] <= k[1]
<1>1. m \in Mentions(who, f) /\ \A n \in Mentions(who, f) : n[1] <= m[1]
  BY DEF IsLast
<1>2. last \in Mentions(who, f) /\ \A n \in Mentions(who, f) : n[1] <= last[1]
  BY <1>1
<1>3. LastTold(who, f) = reported[last[1]][last[2]].stats[f]
  BY <1>1 DEF LastTold
<1> HIDE DEF last
<1>4. last[1] = m[1]
  <2>1. last[1] \in Nat /\ m[1] \in Nat
    BY <1>1, <1>2, LenProperties DEF Mentions
  <2> QED
    BY <1>1, <1>2, <2>1
<1>5. last = m
  BY <1>1, <1>2, <1>4, MentionOnce
<1> QED
  BY <1>3, <1>5

-----------------------------------------------------------------------------
(* A step keeps the invariant.                                             *)
LEMMA UpdateInv ==
  ASSUME ReportInv, NEW list \in Lists, NEW goals \in Scores, Update(list, goals)
  PROVE  ReportInv'
<1> DEFINE T == Telemetry(list)
<1>0. PICK n : n = Len(reported)
  OBVIOUS
<1>1. /\ n \in Nat /\ DOMAIN reported = 1..n
      /\ reported' = Append(reported, list) /\ reported' \in Seq(Lists)
      /\ DOMAIN reported' = 1..n + 1
      /\ \A i \in 1..n : reported'[i] = reported[i] /\ reported[i] \in Lists
      /\ reported'[n + 1] = list
  <2>1. reported \in Seq(Lists) /\ reported' = Append(reported, list)
    BY DEF ReportInv, Update
  <2>2. /\ Append(reported, list) \in Seq(Lists)
        /\ Len(Append(reported, list)) = Len(reported) + 1
        /\ \A i \in 1..Len(reported) : Append(reported, list)[i] = reported[i]
        /\ Append(reported, list)[Len(reported) + 1] = list
    BY <2>1, AppendProperties
  <2> QED
    BY <1>0, <2>1, <2>2, LenProperties, ElementOfSeq
<1>2. /\ board'.goals = Over(goals, board.goals)
      /\ DOMAIN board'.players = DOMAIN T \cup Players
      /\ \A who \in DOMAIN T \cup Players :
           board'.players[who] = Over(Field(T, who, Nothing), Field(board.players, who, Nothing))
  BY DEF Update, Merge, LiveState, Players
<1>3. MaxEntries \in Nat /\ DOMAIN list \subseteq 1..MaxEntries
  BY ReportAssumption, ListFacts
<1> HIDE DEF T
<1>4. GoalsOK'
  <2>1. PICK told \in SUBSET Sides : goals \in [told -> Goals]
    BY DEF Scores
  <2>2. DOMAIN goals \subseteq Sides /\ \A s \in DOMAIN goals : goals[s] \in Nat
    BY <2>1, ReportAssumption
  <2> QED
    <3>1. DOMAIN board.goals \subseteq Sides /\ \A s \in DOMAIN board.goals : board.goals[s] \in Nat
      BY DEF ReportInv, GoalsOK
    <3> DEFINE g == Over(goals, board.goals)
    <3>2. /\ DOMAIN g = DOMAIN goals \cup DOMAIN board.goals
          /\ \A s \in DOMAIN goals : g[s] = goals[s]
          /\ \A s \in DOMAIN board.goals \ DOMAIN goals : g[s] = board.goals[s]
      <4>1. IsOver(g, goals, board.goals)
        BY OverFacts
      <4> QED
        BY <4>1 DEF IsOver
    <3> HIDE DEF g
    <3>3. DOMAIN g \subseteq Sides /\ \A s \in DOMAIN g : g[s] \in Nat
      BY <2>2, <3>1, <3>2
    <3>4. board'.goals = g
      BY <1>2 DEF g
    <3> QED
      BY <3>3, <3>4 DEF GoalsOK
<1>5. Players' = {Who(reported[m[1]][m[2]]) : m \in Told}'
  <2>1. Told' = Told \cup {<<n + 1, i>> : i \in Kept(list)}
    <3>1. ASSUME NEW m \in Told' PROVE m \in Told \cup {<<n + 1, i>> : i \in Kept(list)}
      <4>1. /\ m \in (1..n + 1) \X (1..MaxEntries) /\ m[2] \in DOMAIN reported'[m[1]]
            /\ reported'[m[1]][m[2]].stats # Nothing
        BY <1>1 DEF Told
      <4>2. CASE m[1] \in 1..n
        BY <1>1, <4>1, <4>2 DEF Told
      <4>3. CASE m[1] = n + 1
        BY <1>1, <4>1, <4>3 DEF Kept
      <4> QED
        BY <1>1, <4>1, <4>2, <4>3
    <3>2. ASSUME NEW m \in Told PROVE m \in Told'
      BY <1>1, <3>2 DEF Told
    <3>3. ASSUME NEW i \in Kept(list) PROVE <<n + 1, i>> \in Told'
      BY <1>1, <1>3, <3>3 DEF Told, Kept
    <3> QED
      BY <3>1, <3>2, <3>3
  <2>2. \A m \in Told : reported'[m[1]] = reported[m[1]]
    BY <1>1 DEF Told
  <2>3. {Who(reported'[m[1]][m[2]]) : m \in Told'} =
          {Who(reported[m[1]][m[2]]) : m \in Told} \cup {Who(list[i]) : i \in Kept(list)}
    <3>1. \A m \in Told : m \in Told' /\ Who(reported'[m[1]][m[2]]) = Who(reported[m[1]][m[2]])
      BY <2>1, <2>2
    <3>2. \A i \in Kept(list) : /\ <<n + 1, i>> \in Told'
                                /\ Who(reported'[<<n + 1, i>>[1]][<<n + 1, i>>[2]]) = Who(list[i])
      BY <1>1, <2>1
    <3>3. \A m \in Told' : m \in Told \/ \E i \in Kept(list) : m = <<n + 1, i>>
      BY <2>1
    <3> DEFINE now == {Who(reported'[m[1]][m[2]]) : m \in Told'}
               then == {Who(reported[m[1]][m[2]]) : m \in Told}
               new == {Who(list[i]) : i \in Kept(list)}
    <3>4. \A x \in now : x \in then \cup new
      BY <3>1, <3>2, <3>3
    <3>5. \A x \in then : x \in now
      BY <3>1
    <3>6. \A x \in new : x \in now
      BY <3>2
    <3> HIDE DEF now, then, new
    <3>7. now = then \cup new
      BY <3>4, <3>5, <3>6
    <3> QED
      BY <3>7 DEF now, then, new
  <2>4. Players = {Who(reported[m[1]][m[2]]) : m \in Told}
    BY DEF ReportInv
  <2>5. DOMAIN T = {Who(list[i]) : i \in Kept(list)}
    BY TelemetryFacts DEF T
  <2>6. Players' = DOMAIN T \cup Players
    BY <1>2 DEF Players
  <2> QED
    BY <2>3, <2>4, <2>5, <2>6
<1>6. ASSUME NEW who, NEW f
      PROVE  Mentions(who, f)' =
               Mentions(who, f) \cup {<<n + 1, i>> : i \in {j \in 1..MaxEntries : Tells(list, j, who, f)}}
  <2>1. ASSUME NEW m \in Mentions(who, f)'
        PROVE  m \in Mentions(who, f)
                      \cup {<<n + 1, i>> : i \in {j \in 1..MaxEntries : Tells(list, j, who, f)}}
    <3>1. m \in (1..n + 1) \X (1..MaxEntries) /\ Tells(reported'[m[1]], m[2], who, f)
      BY <1>1 DEF Mentions
    <3>2. CASE m[1] \in 1..n
      BY <1>1, <3>1, <3>2 DEF Mentions
    <3>3. CASE m[1] = n + 1
      BY <1>1, <3>1, <3>3
    <3> QED
      BY <1>1, <3>1, <3>2, <3>3
  <2>2. ASSUME NEW m \in Mentions(who, f) PROVE m \in Mentions(who, f)'
    BY <1>1, <2>2 DEF Mentions
  <2>3. ASSUME NEW i \in 1..MaxEntries, Tells(list, i, who, f)
        PROVE  <<n + 1, i>> \in Mentions(who, f)'
    BY <1>1, <2>3 DEF Mentions
  <2> QED
    BY <2>1, <2>2, <2>3
<1>7. ASSUME NEW who \in Players', NEW f \in Fields
      PROVE  Cached(who, f)'
  <2>1. \A m \in Mentions(who, f) : m[1] \in 1..n /\ reported'[m[1]] = reported[m[1]]
    BY <1>1 DEF Mentions
  <2>2. /\ who \in DOMAIN T \cup Players
        /\ board'.players[who] = Over(Field(T, who, Nothing), Field(board.players, who, Nothing))
    BY <1>2, <1>7 DEF Players
  <2> DEFINE new == Field(T, who, Nothing)
             old == Field(board.players, who, Nothing)
             both == board'.players[who]
  <2>5. /\ DOMAIN both = DOMAIN new \cup DOMAIN old
        /\ \A x \in DOMAIN new : both[x] = new[x]
        /\ \A x \in DOMAIN old \ DOMAIN new : both[x] = old[x]
    <3>1. both = Over(new, old)
      BY <2>2
    <3> HIDE DEF new, old, both
    <3>2. IsOver(both, new, old)
      BY <3>1, OverFacts
    <3> QED
      BY <3>2 DEF IsOver
  <2>6. Has(who, f)' <=> f \in DOMAIN both
    BY DEF Has
  <2>7. /\ who \in DOMAIN T => new = T[who]
        /\ who \notin DOMAIN T => new = Nothing
        /\ who \in Players => old = board.players[who]
        /\ who \notin Players => old = Nothing
    BY DEF Field, Players
  <2> HIDE DEF new, old
  <2>3. CASE who \in DOMAIN T /\ f \in DOMAIN T[who]
    <3>1. PICK i \in Kept(list) :
            Stands(list, i) /\ Who(list[i]) = who /\ T[who] = list[i].stats
      BY <2>3, TelemetryFacts DEF T
    <3>2. i \in 1..MaxEntries /\ Tells(list, i, who, f)
      BY <1>3, <2>3, <3>1 DEF Kept, Stands, Tells
    <3>3. Has(who, f)' /\ board'.players[who][f] = list[i].stats[f]
      BY <2>3, <2>5, <2>6, <2>7, <3>1
    <3>4. <<n + 1, i>> \in Mentions(who, f)'
      BY <1>6, <3>2
    <3>5. \A m \in Mentions(who, f)' : m[1] <= n + 1
      BY <1>1, <1>6, <2>1
    <3>6. IsLast(<<n + 1, i>>, who, f)'
      BY <3>4, <3>5 DEF IsLast
    <3>7. reported'[<<n + 1, i>>[1]][<<n + 1, i>>[2]].stats[f] = list[i].stats[f]
      BY <1>1
    <3> QED
      BY <3>3, <3>4, <3>6, <3>7 DEF Cached
  <2>4. CASE ~(who \in DOMAIN T /\ f \in DOMAIN T[who])
    <3>1. ASSUME NEW j \in 1..MaxEntries, Tells(list, j, who, f) PROVE FALSE
      <4>1. j \in Kept(list) /\ Who(list[j]) = who /\ f \in DOMAIN list[j].stats
        BY <3>1, NothingFacts DEF Tells, Kept
      <4>2. who \in DOMAIN T
        BY <4>1, TelemetryFacts DEF T
      <4>3. PICK i \in Kept(list) :
              Stands(list, i) /\ Who(list[i]) = who /\ T[who] = list[i].stats
        BY <4>2, TelemetryFacts DEF T
      <4>4. i \in Int /\ j \in Int /\ i \in DOMAIN list /\ j \in DOMAIN list
        BY <1>3, <4>1, <4>3 DEF Kept
      <4>5. list[i].stats # Nothing /\ list[j].stats # Nothing
        BY <4>1, <4>3 DEF Kept
      <4>6. ~(j > i)
        BY <4>1, <4>3, <4>4, <4>5 DEF Stands
      <4>7. ~(i > j)
        BY <3>1, <4>3, <4>4, <4>5 DEF Tells
      <4>8. i = j
        BY <4>4, <4>6, <4>7
      <4> QED
        BY <2>4, <4>1, <4>2, <4>3, <4>8
    <3>2. Mentions(who, f)' = Mentions(who, f)
      BY <1>6, <3>1
    <3>3. f \notin DOMAIN new
      BY <2>4, <2>7, NothingFacts
    <3>4. CASE who \in Players /\ Has(who, f)
      <4>1. Cached(who, f)
        BY <3>4 DEF ReportInv
      <4>2. Has(who, f)' /\ board'.players[who][f] = board.players[who][f]
        BY <2>5, <2>6, <2>7, <3>3, <3>4 DEF Has
      <4>3. PICK m \in Mentions(who, f) :
              IsLast(m, who, f) /\ board.players[who][f] = reported[m[1]][m[2]].stats[f]
        BY <3>4, <4>1 DEF Cached
      <4>4. IsLast(m, who, f)' /\ reported'[m[1]] = reported[m[1]]
        BY <2>1, <3>2, <4>3 DEF IsLast
      <4> QED
        BY <3>2, <4>2, <4>3, <4>4 DEF Cached
    <3>5. CASE ~(who \in Players /\ Has(who, f))
      <4>1. ~Has(who, f)'
        BY <2>5, <2>6, <2>7, <3>3, <3>5, NothingFacts DEF Has
      <4>2. CASE who \in Players
        <5>1. Cached(who, f)
          BY <4>2 DEF ReportInv
        <5> QED
          BY <3>2, <3>5, <4>1, <4>2, <5>1 DEF Cached
      <4>3. CASE who \notin Players
        <5>1. ASSUME NEW m \in Mentions(who, f) PROVE FALSE
          <6>1. m \in Told /\ Who(reported[m[1]][m[2]]) = who
            BY <5>1, NothingFacts DEF Mentions, Told, Tells
          <6> QED
            BY <4>3, <6>1 DEF ReportInv
        <5> QED
          BY <3>2, <4>1, <5>1 DEF Cached
      <4> QED
        BY <4>2, <4>3
    <3> QED
      BY <3>4, <3>5
  <2> QED
    BY <2>3, <2>4
<1> QED
  BY <1>1, <1>4, <1>5, <1>7 DEF ReportInv

LEMMA BoundaryInv ==
  ASSUME Boundary
  PROVE  ReportInv'
<1>1. /\ reported' = <<>> /\ board'.players = Nothing
      /\ board'.goals = [s \in Sides |-> 0]
  BY DEF Boundary
<1>2. reported' \in Seq(Lists) /\ DOMAIN reported' = {} /\ DOMAIN board'.players = {}
  BY <1>1, NothingFacts, EmptySeq
<1>3. GoalsOK'
  BY <1>1 DEF GoalsOK
<1>4. Told' = {} /\ Players' = {}
  BY <1>2 DEF Told, Players
<1> QED
  BY <1>2, <1>3, <1>4 DEF ReportInv

LEMMA InitInv == Init => ReportInv
<1> SUFFICES ASSUME Init PROVE ReportInv
  OBVIOUS
<1>1. reported = <<>> /\ board.players = Nothing /\ board.goals = Nothing
  BY DEF Init
<1>2. /\ reported \in Seq(Lists) /\ DOMAIN reported = {}
      /\ DOMAIN board.players = {} /\ DOMAIN board.goals = {}
  BY <1>1, NothingFacts, EmptySeq
<1>3. GoalsOK
  BY <1>2 DEF GoalsOK
<1>4. Told = {} /\ Players = {}
  BY <1>2 DEF Told, Players
<1> QED
  BY <1>2, <1>3, <1>4 DEF ReportInv

LEMMA UnchangedInv == ReportInv /\ UNCHANGED vars => ReportInv'
<1> SUFFICES ASSUME ReportInv, UNCHANGED vars PROVE ReportInv'
  OBVIOUS
<1>1. UNCHANGED <<reported, board>>
  BY DEF vars
<1>2. Told' = Told /\ Players' = Players /\ (GoalsOK <=> GoalsOK')
  BY <1>1 DEF Told, Players, GoalsOK
<1> QED
  BY <1>1, <1>2 DEF ReportInv, Cached, Has, Mentions, IsLast

THEOREM ReportInvariant == Spec => []ReportInv
<1>1. ReportInv /\ [Next]_vars => ReportInv'
  BY UpdateInv, BoundaryInv, UnchangedInv DEF Next
<1> QED
  BY <1>1, InitInv, PTL DEF Spec

-----------------------------------------------------------------------------
(* What the invariant says of the players' numbers.                        *)
LEMMA ImageIsFinite ==
  ASSUME NEW S, IsFiniteSet(S), NEW f, NEW T, T = {f[x] : x \in S}
  PROVE  IsFiniteSet(T)
<1> DEFINE g == [x \in S |-> f[x]]
<1>1. g \in Surjection(S, T)
  BY DEF Surjection
<1> HIDE DEF g
<1> QED
  BY <1>1, FS_Surjection

LEMMA PlayersAreFinite ==
  ASSUME ReportInv
  PROVE  IsFiniteSet(Players)
<1>1. IsFiniteSet(DOMAIN reported)
  <2>1. reported \in Seq(Lists)
    BY DEF ReportInv
  <2>2. DOMAIN reported = 1..Len(reported) /\ Len(reported) \in Int
    BY <2>1, LenProperties
  <2> QED
    BY <2>2, FS_Interval
<1>2. IsFiniteSet(1..MaxEntries)
  <2>1. MaxEntries \in Int
    BY ReportAssumption
  <2> QED
    BY <2>1, FS_Interval
<1>3. IsFiniteSet((DOMAIN reported) \X (1..MaxEntries))
  BY <1>1, <1>2, FS_Product
<1>4. IsFiniteSet(Told)
  <2>1. Told \in SUBSET ((DOMAIN reported) \X (1..MaxEntries))
    BY DEF Told
  <2> QED
    BY <1>3, <2>1, FS_Subset
<1> DEFINE f == [m \in Told |-> Who(reported[m[1]][m[2]])]
<1>5. Players = {f[m] : m \in Told}
  BY DEF ReportInv
<1> HIDE DEF f
<1> QED
  BY <1>4, <1>5, ImageIsFinite

LEMMA NumbersAreLast ==
  ASSUME ReportInv, NEW who \in Players, NEW f \in Fields
  PROVE  /\ Number(who, f) = LastTold(who, f)
         /\ Has(who, f) <=> Mentions(who, f) # {}
<1>1. Cached(who, f) /\ reported \in Seq(Lists)
  BY DEF ReportInv
<1>2. CASE Has(who, f)
  <2>1. PICK m \in Mentions(who, f) :
          IsLast(m, who, f) /\ board.players[who][f] = reported[m[1]][m[2]].stats[f]
    BY <1>1, <1>2 DEF Cached
  <2>2. LastTold(who, f) = reported[m[1]][m[2]].stats[f]
    BY <1>1, <2>1, LastIsTold
  <2> QED
    BY <1>2, <2>1, <2>2 DEF Number, Has, Field
<1>3. CASE ~Has(who, f)
  <2>1. Mentions(who, f) = {}
    BY <1>1, <1>3 DEF Cached
  <2>2. LastTold(who, f) = 0
    BY <2>1 DEF LastTold
  <2> QED
    BY <1>3, <2>1, <2>2 DEF Number, Has, Field
<1> QED
  BY <1>2, <1>3

LEMMA NumberTypes ==
  ASSUME ReportInv, NEW who \in Players
  PROVE  Number(who, "shots") \in Nat /\ Number(who, "score") \in Int
<1>1. ASSUME NEW f \in Fields, Has(who, f)
      PROVE  \E e \in Entries : f \in DOMAIN e.stats /\ Number(who, f) = e.stats[f]
  <2>1. Cached(who, f) /\ reported \in Seq(Lists)
    BY DEF ReportInv
  <2>2. PICK m \in Mentions(who, f) : board.players[who][f] = reported[m[1]][m[2]].stats[f]
    BY <1>1, <2>1 DEF Cached
  <2>3. /\ m[1] \in DOMAIN reported /\ m[2] \in DOMAIN reported[m[1]]
        /\ f \in DOMAIN reported[m[1]][m[2]].stats
    BY DEF Mentions, Tells
  <2>4. reported[m[1]] \in Lists
    BY <2>1, <2>3, ElementOfSeq, LenProperties
  <2>5. reported[m[1]][m[2]] \in Entries
    BY <2>3, <2>4, ListFacts
  <2> QED
    BY <1>1, <2>2, <2>3, <2>5 DEF Number, Field, Has
<1>2. "shots" \in Fields /\ "score" \in Fields
  BY DEF Fields
<1>3. \A f : ~Has(who, f) => Number(who, f) = 0
  BY DEF Number, Field, Has
<1> QED
  BY <1>1, <1>2, <1>3, ReportAssumption

-----------------------------------------------------------------------------
(* The logs.                                                               *)
LEMMA LogsTell == ReportInv => LogsTellTheMatch
<1> SUFFICES ASSUME ReportInv PROVE LogsTellTheMatch
  OBVIOUS
<1>1. Players = {Who(reported[m[1]][m[2]]) : m \in Told}
  BY DEF ReportInv
<1>2. ASSUME NEW who \in Players, \A w \in Players \ {who} : Key(w) # Key(who),
             NEW f \in {"shots", "score"}
      PROVE  LogFor(who)[f] = LastTold(who, f)
  <2>1. LogFor(who) = Log(who)
    BY <1>2 DEF LogFor
  <2>2. f \in Fields
    BY DEF Fields
  <2> QED
    BY <2>1, <2>2, NumbersAreLast DEF Log
<1>3. SideShots(Blue) + SideShots(Orange) =
        SumFunction([who \in OnASide |-> LastTold(who, "shots")])
  <2> DEFINE A == On(Blue)
             B == On(Orange)
             f == [who \in A \cup B |-> Number(who, "shots")]
  <2>1. "shots" \in Fields /\ "team" \in Fields /\ Blue # Orange
    BY DEF Fields, Blue, Orange
  <2>2. OnASide = A \cup B
    BY <2>1, NumbersAreLast DEF OnASide, On, Sides
  <2>3. A \subseteq Players /\ B \subseteq Players /\ A \cap B = {}
    BY <2>1 DEF On
  <2>4. IsFiniteSet(A) /\ IsFiniteSet(B)
    <3> HIDE DEF A, B
    <3> QED
      BY <2>3, PlayersAreFinite, FS_Subset
  <2>5. f \in [A \cup B -> Nat]
    BY <2>3, NumberTypes
  <2>6. [who \in OnASide |-> LastTold(who, "shots")] = f
    BY <2>1, <2>2, <2>3, NumbersAreLast
  <2>7. /\ [who \in A |-> Number(who, "shots")] = [x \in A |-> f[x]]
        /\ [who \in B |-> Number(who, "shots")] = [x \in B |-> f[x]]
    OBVIOUS
  <2>8. SideShots(Blue) = SumFunction([x \in A |-> f[x]])
    BY <2>7 DEF SideShots
  <2>9. SideShots(Orange) = SumFunction([x \in B |-> f[x]])
    BY <2>7 DEF SideShots
  <2>10. SumFunction(f) = SumFunction([x \in A |-> f[x]]) + SumFunction([x \in B |-> f[x]])
    <3> HIDE DEF A, B, f
    <3> QED
      BY <2>3, <2>4, <2>5, SumSplits
  <2> QED
    BY <2>6, <2>8, <2>9, <2>10
<1> QED
  BY <1>1, <1>2, <1>3 DEF LogsTellTheMatch

THEOREM LogsTellTheMatchAlways == Spec => []LogsTellTheMatch
BY ReportInvariant, LogsTell, PTL

-----------------------------------------------------------------------------
(* The results.                                                            *)
LEMMA ScoredType == ReportInv => Scored(Blue) \in Nat /\ Scored(Orange) \in Nat
BY DEF ReportInv, GoalsOK, Scored, Field

(* One side has won, if any has.                                           *)
LEMMA WinnerIs ==
  ASSUME ReportInv
  PROVE  Winners = {} \/ Winners = {Blue} \/ Winners = {Orange}
<1>1. Scored(Blue) \in Nat /\ Scored(Orange) \in Nat
  BY ScoredType
<1>2. ~(Blue \in Winners /\ Orange \in Winners)
  <2> SUFFICES ASSUME Blue \in Winners, Orange \in Winners PROVE FALSE
    OBVIOUS
  <2>1. Orange \in Sides \ {Blue} /\ Blue \in Sides \ {Orange}
    BY DEF Sides, Blue, Orange
  <2>2. Scored(Blue) > Scored(Orange) /\ Scored(Orange) > Scored(Blue)
    BY <2>1 DEF Winners
  <2> QED
    BY <1>1, <2>2
<1>3. Winners \subseteq {Blue, Orange}
  BY DEF Winners, Sides
<1> QED
  BY <1>2, <1>3

LEMMA WonOrLost ==
  ASSUME ReportInv, Winners # {}, NEW side \in Sides, NEW who \in Players, who \in On(side)
  PROVE  PlayerResult(who) \ {"mvp"} = SideResult(side)
<1>1. Has(who, "team") /\ Number(who, "team") = side /\ Blue # Orange
  BY DEF On, Blue, Orange
<1>2. PlayerResult(who) \ {"mvp"} = IF who \in OnWinners THEN {"win"} ELSE {"loss"}
  BY <1>1 DEF PlayerResult
<1>3. who \in OnWinners <=> side \in Winners
  BY <1>1 DEF OnWinners, On
<1>4. side = Blue \/ side = Orange
  BY DEF Sides
<1>5. SideResult(side) = IF side \in Winners THEN {"win"} ELSE {"loss"}
  BY <1>1, <1>4, WinnerIs DEF SideResult, BlueWon
<1> QED
  BY <1>2, <1>3, <1>5

LEMMA MvpIsBest ==
  ASSUME ReportInv, Winners # {}, NEW who \in Players
  PROVE  "mvp" \in PlayerResult(who) <=>
           /\ "win" \in PlayerResult(who) /\ Has(who, "score")
           /\ \A w \in Players :
                "win" \in PlayerResult(w) /\ Has(w, "score")
                => Number(w, "score") <= Number(who, "score")
<1>1. \A w : w \in OnWinners => w \in Players /\ Has(w, "team")
  BY DEF OnWinners, On
<1>2. \A w : "win" \in PlayerResult(w) <=> w \in OnWinners
  BY <1>1 DEF PlayerResult
<1>3. "mvp" \in PlayerResult(who) <=> IsMvp(who)
  BY <1>1 DEF PlayerResult, IsMvp
<1> DEFINE W == {w \in OnWinners : Has(w, "score")}
           f == [w \in W |-> Number(w, "score")]
<1>4. BestScores = {f[w] : w \in W}
  BY DEF BestScores
<1>5. \A w \in W : f[w] = Number(w, "score") /\ Number(w, "score") \in Int
  BY <1>1, NumberTypes
<1>6. IsFiniteSet(BestScores) /\ BestScores \in SUBSET Int
  <2>1. W \in SUBSET Players
    BY <1>1
  <2> HIDE DEF W
  <2>2. IsFiniteSet(W)
    BY <2>1, PlayersAreFinite, FS_Subset
  <2>3. BestScores \in SUBSET Int
    BY <1>4, <1>5
  <2> HIDE DEF f
  <2> QED
    BY <1>4, <2>2, <2>3, ImageIsFinite
<1>7. CASE who \in W
  <2>1. Number(who, "score") \in BestScores
    BY <1>4, <1>5, <1>7
  <2>2. Max(BestScores) \in BestScores /\ \A t \in BestScores : Max(BestScores) >= t
    BY <1>6, <2>1, MaxFacts
  <2>3. Number(who, "score") = Max(BestScores) <=>
          \A w \in W : Number(w, "score") <= Number(who, "score")
    <3>1. PICK v \in W : Max(BestScores) = Number(v, "score")
      BY <1>4, <1>5, <2>2
    <3>2. \A w \in W : Number(v, "score") >= Number(w, "score")
      BY <1>4, <1>5, <2>2, <3>1
    <3>3. \A w \in W : Number(w, "score") \in Int
      BY <1>5
    <3> HIDE DEF W, f
    <3> QED
      BY <1>7, <3>1, <3>2, <3>3
  <2>4. who \in OnWinners /\ Has(who, "score")
    BY <1>7
  <2>5. \A w : w \in W <=> w \in Players /\ w \in OnWinners /\ Has(w, "score")
    BY <1>1
  <2> HIDE DEF W, f
  <2> QED
    BY <1>2, <1>3, <2>3, <2>4, <2>5 DEF IsMvp
<1>8. CASE who \notin W
  BY <1>2, <1>3, <1>8 DEF IsMvp
<1> QED
  BY <1>7, <1>8

LEMMA ResultsAgree == ReportInv => OneResult
BY WonOrLost, MvpIsBest DEF OneResult

THEOREM OneResultAlways == Spec => []OneResult
BY ReportInvariant, ResultsAgree, PTL

=============================================================================
