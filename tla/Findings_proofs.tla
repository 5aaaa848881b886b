--------------------------- MODULE Findings_proofs ---------------------------
(* Proofs about what becomes of a finding: in the memory (EpisodicMemory),   *)
(* in the report made from it (AuditReport) and in the queue that tries to   *)
(* prove it (PocRunner), for any number of records, files and torn appends,  *)
(* of payloads, of findings, texts, bases, attempts, runs and deaths.  The   *)
(* lemmas on the functions of a graph and the lines of a file, of any size,  *)
(* come first: a set of natural numbers has a least element, so that what    *)
(* holds of a beginning and is kept by each step holds of the whole.         *)
EXTENDS AuditReport, PocRunner, FiniteSetTheorems, SequenceTheorems, WellFoundedInduction, TLAPS

(***************************************************************************)
(* Induction.                                                              *)
(***************************************************************************)
LEMMA LessThan == ASSUME NEW m \in Nat, NEW n \in Nat PROVE <<m, n>> \in OpToRel(<, Nat) <=> m < n
BY DEF OpToRel

LEMMA Least == ASSUME NEW T, T \subseteq Nat, T # {} PROVE \E m \in T : \A n \in T : m <= n
<1>1. PICK x \in T : \A y \in T : ~ (<<y, x>> \in OpToRel(<, Nat))
  BY NatLessThanWellFounded, WFMin
<1>2. \A y \in T : ~ (y < x)
  BY <1>1, LessThan
<1>3. QED
  BY <1>2

LEMMA Induction ==
    ASSUME NEW T, 0 \in T, \A n \in Nat : n \in T => n + 1 \in T
    PROVE  Nat \subseteq T
<1> SUFFICES ASSUME Nat \ T # {} PROVE FALSE
  OBVIOUS
<1>1. PICK m \in Nat \ T : \A n \in Nat \ T : m <= n
  BY Least
<1>2. m # 0 /\ m - 1 \in Nat
  BY <1>1
<1>3. m - 1 \in T /\ m - 1 + 1 = m
  BY <1>1, <1>2
<1>4. QED
  BY <1>1, <1>2, <1>3

(* The same up to a bound.                                                   *)
LEMMA InductionTo ==
    ASSUME NEW n \in Nat, NEW T, 0 \in T, \A i \in 1..n : i - 1 \in T => i \in T
    PROVE  0..n \subseteq T
<1> DEFINE S == {k \in Nat : k <= n => k \in T}
<1>1. 0 \in S
  OBVIOUS
<1>2. ASSUME NEW k \in Nat, k \in S PROVE k + 1 \in S
  <2> SUFFICES ASSUME k + 1 <= n PROVE k + 1 \in T
    OBVIOUS
  <2>1. k \in T
    BY <1>2
  <2>2. k + 1 \in 1..n /\ (k + 1) - 1 = k
    OBVIOUS
  <2>3. QED
    BY <2>1, <2>2
<1> HIDE DEF S
<1>3. Nat \subseteq S
  BY <1>1, <1>2, Induction
<1>4. QED
  BY <1>3 DEF S

LEMMA InductionFrom ==
    ASSUME NEW i \in Nat \ {0}, NEW n \in Nat, NEW T, i - 1 \in T, \A j \in i..n : j - 1 \in T => j \in T
    PROVE  (i - 1)..n \subseteq T
<1> SUFFICES ASSUME i <= n PROVE (i - 1)..n \subseteq T
  OBVIOUS
<1> DEFINE S == {k \in Nat : (i - 1) + k \in T}
<1>1. n - (i - 1) \in Nat /\ (i - 1) + 0 = i - 1
  OBVIOUS
<1>2. 0 \in S
  BY <1>1
<1>3. ASSUME NEW k \in 1..(n - (i - 1)), k - 1 \in S PROVE k \in S
  <2>1. (i - 1) + k \in i..n /\ ((i - 1) + k) - 1 = (i - 1) + (k - 1)
    OBVIOUS
  <2>2. ((i - 1) + k) - 1 \in T
    BY <1>3, <2>1
  <2>3. QED
    BY <2>1, <2>2
<1>4. 0..(n - (i - 1)) \subseteq S
  <2> HIDE DEF S
  <2>1. QED
    BY <1>1, <1>2, <1>3, InductionTo
<1>5. ASSUME NEW j \in (i - 1)..n PROVE j \in T
  <2>1. j - (i - 1) \in 0..(n - (i - 1)) /\ (i - 1) + (j - (i - 1)) = j
    OBVIOUS
  <2>2. j - (i - 1) \in S
    BY <1>4, <2>1
  <2>3. QED
    BY <2>1, <2>2
<1>6. QED
  BY <1>5

(* A finite set of numbers has a greatest element.                           *)
LEMMA Greatest ==
    ASSUME NEW n \in Nat, NEW T \in SUBSET (1..n), T # {}
    PROVE  \E m \in T : \A k \in T : k <= m
<1> DEFINE S == {n - k : k \in T}
<1>1. S \subseteq Nat /\ S # {}
  <2>1. \A k \in T : n - k \in Nat
    OBVIOUS
  <2>2. QED
    BY <2>1
<1>2. PICK m \in S : \A k \in S : m <= k
  BY <1>1, Least
<1>3. PICK t \in T : m = n - t
  OBVIOUS
<1>4. \A k \in T : n - t <= n - k
  BY <1>2, <1>3
<1>5. \A k \in T : k <= t
  BY <1>4
<1>6. QED
  BY <1>5

LEMMA MaxOfTop ==
    ASSUME NEW n \in Nat, NEW T \in SUBSET (1..n), NEW m \in T, \A k \in T : k <= m
    PROVE  Max(T) = m
<1>1. \A x \in T : (\A y \in T : x >= y) <=> x = m
  OBVIOUS
<1>2. QED
  BY <1>1 DEF Max

(***************************************************************************)
(* Recursive functions: a step on values of a set V gives one.             *)
(***************************************************************************)
Repeats(f, V, base, h) ==
    f \in [Nat -> V] /\ f[0] = base /\ \A k \in Nat \ {0} : f[k] = h[f[k - 1]]

LEMMA RecursionExists ==
    ASSUME NEW V, NEW base \in V, NEW h \in [V -> V]
    PROVE  \E f : Repeats(f, V, base, h)
<1> DEFINE Upto(k) == {f \in [0..k -> V] : f[0] = base /\ \A i \in 1..k : f[i] = h[f[i - 1]]}
           S == {k \in Nat : \E f : f \in Upto(k)}
<1>1. 0 \in S
  <2> DEFINE f == [i \in 0..0 |-> base]
  <2>1. f \in Upto(0)
    OBVIOUS
  <2>2. QED
    BY <2>1
<1>2. ASSUME NEW k \in Nat, k \in S PROVE k + 1 \in S
  <2>1. PICK f : f \in Upto(k)
    BY <1>2
  <2> DEFINE g == [i \in 0..(k + 1) |-> IF i = k + 1 THEN h[f[k]] ELSE f[i]]
  <2>2. f[k] \in V /\ g \in [0..(k + 1) -> V]
    BY <2>1
  <2>3. g[0] = base
    BY <2>1
  <2>4. ASSUME NEW i \in 1..(k + 1) PROVE g[i] = h[g[i - 1]]
    <3>1. CASE i = k + 1
      <4>1. g[i] = h[f[k]] /\ g[i - 1] = f[k]
        BY <3>1
      <4>2. QED
        BY <4>1
    <3>2. CASE i # k + 1
      <4>1. i \in 1..k /\ g[i] = f[i] /\ g[i - 1] = f[i - 1]
        BY <3>2
      <4>2. QED
        BY <2>1, <4>1
    <3>3. QED
      BY <3>1, <3>2
  <2>5. g \in Upto(k + 1)
    BY <2>2, <2>3, <2>4
  <2>6. QED
    BY <2>5
<1>3. \A k \in Nat : k \in S
  <2> HIDE DEF S
  <2>1. QED
    BY <1>1, <1>2, Induction
<1>4. ASSUME NEW k \in Nat, NEW m \in Nat, k <= m, NEW f \in Upto(k), NEW g \in Upto(m)
      PROVE  f[k] = g[k]
  <2> DEFINE T == {i \in 0..k : f[i] = g[i]}
  <2>1. 0 \in T
    OBVIOUS
  <2>2. ASSUME NEW i \in 1..k, i - 1 \in T PROVE i \in T
    <3>1. f[i] = h[f[i - 1]] /\ g[i] = h[g[i - 1]] /\ i \in 0..k
      BY <1>4
    <3>2. QED
      BY <2>2, <3>1
  <2> HIDE DEF T
  <2>3. 0..k \subseteq T
    BY <2>1, <2>2, InductionTo
  <2>4. k \in T
    BY <2>3
  <2>5. QED
    BY <2>4 DEF T
<1> DEFINE of == [k \in Nat |-> CHOOSE f : f \in Upto(k)]
           F == [k \in Nat |-> of[k][k]]
<1>5. \A k \in Nat : of[k] \in Upto(k)
  BY <1>3
<1> HIDE DEF of
<1>6. F \in [Nat -> V]
  BY <1>5
<1>7. F[0] = base
  BY <1>5
<1>8. ASSUME NEW k \in Nat \ {0} PROVE F[k] = h[F[k - 1]]
  <2>1. k - 1 \in Nat /\ k \in Nat /\ k - 1 <= k /\ k \in 1..k
    OBVIOUS
  <2>2. of[k][k] = h[of[k][k - 1]]
    BY <1>5, <2>1
  <2>3. of[k - 1][k - 1] = of[k][k - 1]
    <3> HIDE DEF Upto
    <3>1. of[k - 1] \in Upto(k - 1) /\ of[k] \in Upto(k)
      BY <1>5, <2>1
    <3>2. QED
      BY <1>4, <2>1, <3>1
  <2>4. QED
    BY <2>1, <2>2, <2>3
<1> HIDE DEF F
<1>9. QED
  BY <1>6, <1>7, <1>8 DEF Repeats

(***************************************************************************)
(* Folds: a step on values of a set V and places of a sequence gives one.  *)
(***************************************************************************)
Folds(it, V, base, h, n) ==
    /\ it \in [SUBSET (1..n) -> V] /\ it[{}] = base
    /\ \A s \in SUBSET (1..n) : s # {} => it[s] = h[<<it[s \ {Max(s)}], Max(s)>>]

LEMMA MaxIsIn ==
    ASSUME NEW n \in Nat, NEW s \in SUBSET (1..n), s # {}
    PROVE  Max(s) \in s /\ \A k \in s : k <= Max(s)
<1>1. PICK m \in s : \A k \in s : k <= m
  BY Greatest
<1>2. Max(s) = m
  BY <1>1, MaxOfTop
<1>3. QED
  BY <1>1, <1>2

LEMMA FoldExists ==
    ASSUME NEW V, NEW n \in Nat, NEW base \in V, NEW h \in [V \X (1..n) -> V]
    PROVE  \E it : Folds(it, V, base, h, n)
<1> DEFINE T == {k \in 0..n : \E it : Folds(it, V, base, h, k)}
<1>1. 0 \in T
  <2> DEFINE it == [s \in SUBSET (1..0) |-> base]
  <2>1. \A s \in SUBSET (1..0) : s = {}
    OBVIOUS
  <2>2. Folds(it, V, base, h, 0)
    BY <2>1 DEF Folds
  <2>3. QED
    BY <2>2
<1>2. ASSUME NEW k \in 1..n, k - 1 \in T PROVE k \in T
  <2>1. PICK it : Folds(it, V, base, h, k - 1)
    BY <1>2
  <2> DEFINE new == [s \in SUBSET (1..k) |-> IF k \in s THEN h[<<it[s \ {k}], k>>] ELSE it[s]]
  <2>2. \A s \in SUBSET (1..k) : s \ {k} \in SUBSET (1..(k - 1)) /\ (k \in s => Max(s) = k)
    <3>1. ASSUME NEW s \in SUBSET (1..k), k \in s PROVE Max(s) = k
      BY <3>1, MaxOfTop
    <3>2. QED
      BY <3>1
  <2>3. \A s \in SUBSET (1..k) : k \notin s => s \in SUBSET (1..(k - 1))
    BY <2>2
  <2>4. it \in [SUBSET (1..(k - 1)) -> V]
    BY <2>1 DEF Folds
  <2>5. new \in [SUBSET (1..k) -> V]
    <3>1. ASSUME NEW s \in SUBSET (1..k), k \in s PROVE new[s] \in V
      <4>1. it[s \ {k}] \in V
        BY <2>2, <2>4
      <4>2. QED
        BY <3>1, <4>1
    <3>2. ASSUME NEW s \in SUBSET (1..k), k \notin s PROVE new[s] \in V
      BY <2>3, <2>4, <3>2
    <3>3. QED
      BY <3>1, <3>2
  <2>6. new[{}] = base
    BY <2>1 DEF Folds
  <2>7. ASSUME NEW s \in SUBSET (1..k), s # {}
        PROVE  new[s] = h[<<new[s \ {Max(s)}], Max(s)>>]
    <3>1. CASE k \in s
      <4>1. Max(s) = k /\ new[s \ {k}] = it[s \ {k}] /\ new[s] = h[<<it[s \ {k}], k>>]
        BY <2>2, <3>1
      <4>2. QED
        BY <4>1
    <3>2. CASE k \notin s
      <4>1. s \in SUBSET (1..(k - 1))
        BY <2>3, <3>2
      <4>2. it[s] = h[<<it[s \ {Max(s)}], Max(s)>>]
        BY <2>1, <2>7, <4>1 DEF Folds
      <4>3. new[s] = it[s] /\ new[s \ {Max(s)}] = it[s \ {Max(s)}]
        BY <3>2
      <4>4. QED
        BY <4>2, <4>3
    <3>3. QED
      BY <3>1, <3>2
  <2>8. Folds(new, V, base, h, k)
    <3> HIDE DEF new
    <3>1. QED
      BY <2>5, <2>6, <2>7 DEF Folds
  <2>9. QED
    BY <2>8
<1>3. n \in T
  <2> HIDE DEF T
  <2>1. QED
    BY <1>1, <1>2, InductionTo
<1>4. QED
  BY <1>3

LEMMA MaxOfBeginning ==
    ASSUME NEW n \in Nat, NEW i \in 1..n
    PROVE  Max(1..i) = i /\ (1..i) \ {Max(1..i)} = 1..(i - 1) /\ 1..i \in SUBSET (1..n) /\ 1..i # {}
<1>1. Max(1..i) = i
  <2>1. i \in Nat /\ 1..i \in SUBSET (1..i) /\ i \in 1..i /\ \A k \in 1..i : k <= i
    OBVIOUS
  <2>2. QED
    BY <2>1, MaxOfTop
<1>2. (1..i) \ {i} = 1..(i - 1) /\ 1..i \in SUBSET (1..n) /\ 1..i # {}
  OBVIOUS
<1>3. QED
  BY <1>1, <1>2

(***************************************************************************)
(* Which functions a function calls, through others or not.                *)
(***************************************************************************)
CallsWithin(functions, n) == Calls(functions, n) \cap NamesOf(functions)
IsClosed(functions, names) == \A n \in names : CallsWithin(functions, n) \subseteq names
Tree(functions, n) ==
    {m \in NamesOf(functions) :
        \A names \in SUBSET NamesOf(functions) : IsClosed(functions, names) /\ n \in names => m \in names}

LEMMA NamesAreFinite ==
    ASSUME NEW S, NEW functions \in Seq(S)
    PROVE  IsFiniteSet(NamesOf(functions)) /\ Cardinality(NamesOf(functions)) \in Nat
<1> DEFINE f == [i \in 1..Len(functions) |-> functions[i].name]
<1>1. IsFiniteSet(1..Len(functions))
  BY FS_Interval
<1>2. f \in Surjection(1..Len(functions), NamesOf(functions))
  <2>1. NamesOf(functions) = {functions[i].name : i \in 1..Len(functions)}
    BY DEF NamesOf
  <2>2. f \in [1..Len(functions) -> NamesOf(functions)]
    BY <2>1
  <2>3. \A m \in NamesOf(functions) : \E i \in 1..Len(functions) : f[i] = m
    BY <2>1
  <2>4. QED
    BY <2>2, <2>3 DEF Surjection
<1>3. IsFiniteSet(NamesOf(functions))
  BY <1>1, <1>2, FS_Surjection
<1>4. QED
  BY <1>3, FS_CardinalityType

LEMMA CallsAreOfNodes ==
    ASSUME NEW functions, NEW n, NEW m \in Calls(functions, n)
    PROVE  n \in NamesOf(functions)
BY DEF Calls, NodesNamed, NamesOf, Range

LEMMA TreeIsClosed ==
    ASSUME NEW functions, NEW n \in NamesOf(functions)
    PROVE  n \in Tree(functions, n) /\ IsClosed(functions, Tree(functions, n))
<1>1. n \in Tree(functions, n)
  BY DEF Tree
<1>2. ASSUME NEW c \in Tree(functions, n), NEW m \in CallsWithin(functions, c)
      PROVE  m \in Tree(functions, n)
  <2>1. m \in NamesOf(functions)
    BY <1>2 DEF CallsWithin
  <2>2. ASSUME NEW names \in SUBSET NamesOf(functions), IsClosed(functions, names), n \in names
        PROVE  m \in names
    BY <1>2, <2>2 DEF Tree, IsClosed
  <2>3. QED
    BY <2>1, <2>2 DEF Tree
<1>3. QED
  BY <1>1, <1>2 DEF IsClosed

LEMMA TreesNest ==
    ASSUME NEW functions, NEW n \in NamesOf(functions), NEW c \in Tree(functions, n)
    PROVE  Tree(functions, c) \subseteq Tree(functions, n)
<1>1. Tree(functions, n) \in SUBSET NamesOf(functions) /\ IsClosed(functions, Tree(functions, n))
  BY TreeIsClosed DEF Tree
<1>2. QED
  BY <1>1 DEF Tree

(* What the rounds of Reachable have found after k of them.                  *)
IsWithin(functions, n, within) ==
    /\ within[0] = Calls(functions, n)
    /\ \A k \in Nat : within[k + 1] = within[k] \cup UNION {Calls(functions, c) : c \in within[k]}

LEMMA ReachableByRounds ==
    ASSUME NEW functions \in Seq(SourceFunctions), NEW n
    PROVE  \E within : /\ IsWithin(functions, n, within)
                       /\ Reachable(functions, n) = within[Cardinality(NamesOf(functions))]
<1> DEFINE V == SUBSET UNION {Calls(functions, c) : c \in NamesOf(functions)}
           h == [called \in V |-> called \cup UNION {Calls(functions, c) : c \in called}]
           Is(w) == w = [k \in Nat |-> IF k = 0 THEN Calls(functions, n)
                                       ELSE w[k - 1] \cup UNION {Calls(functions, c) : c \in w[k - 1]}]
           within == CHOOSE w : Is(w)
<1>1. \A c : Calls(functions, c) \in V
  BY CallsAreOfNodes
<1>2. h \in [V -> V]
  BY <1>1
<1>3. PICK w \in [Nat -> V] : w[0] = Calls(functions, n) /\ \A k \in Nat \ {0} : w[k] = h[w[k - 1]]
  <2> DEFINE base == Calls(functions, n)
  <2>1. base \in V
    BY <1>1
  <2> HIDE DEF V, h, base
  <2>2. PICK w : Repeats(w, V, base, h)
    BY <1>2, <2>1, RecursionExists
  <2>3. QED
    BY <2>2 DEF base, Repeats
<1>4. Is(w)
  <2>1. ASSUME NEW k \in Nat \ {0}
        PROVE  w[k] = w[k - 1] \cup UNION {Calls(functions, c) : c \in w[k - 1]}
    <3>1. k - 1 \in Nat
      OBVIOUS
    <3>2. w[k - 1] \in V
      BY <1>3, <3>1
    <3>3. QED
      BY <1>3, <3>2
  <2>2. w = [k \in Nat |-> w[k]]
    BY <1>3
  <2>3. QED
    BY <1>3, <2>1, <2>2
<1>5. Is(within)
  BY <1>4
<1>6. Reachable(functions, n) = within[Cardinality(NamesOf(functions))]
  BY DEF Reachable
<1>7. IsWithin(functions, n, within)
  <2> HIDE DEF within
  <2>1. within[0] = Calls(functions, n)
    BY <1>5
  <2>2. ASSUME NEW k \in Nat
        PROVE  within[k + 1] = within[k] \cup UNION {Calls(functions, c) : c \in within[k]}
    <3>1. k + 1 \in Nat /\ k + 1 # 0 /\ (k + 1) - 1 = k
      OBVIOUS
    <3>2. QED
      BY <1>5, <3>1
  <2>3. QED
    BY <2>1, <2>2 DEF IsWithin
<1>8. QED
  BY <1>6, <1>7

(* As many rounds as there are functions find all that is called: a round    *)
(* that finds no new function is the last that could.                        *)
LEMMA RoundsSuffice ==
    ASSUME NEW functions \in Seq(SourceFunctions), NEW n, NEW within, IsWithin(functions, n, within)
    PROVE  IsClosed(functions, within[Cardinality(NamesOf(functions))] \cap NamesOf(functions))
<1> DEFINE names == NamesOf(functions)
           found(k) == within[k] \cap names
           T == {k \in Nat : IsClosed(functions, found(k)) \/ Cardinality(found(k)) >= k + 1}
<1>1. \A k : IsFiniteSet(found(k)) /\ Cardinality(found(k)) \in Nat /\ Cardinality(found(k)) <= Cardinality(names)
  BY NamesAreFinite, FS_Subset, FS_CardinalityType
<1>2. \A k \in Nat : found(k + 1) = found(k) \cup UNION {CallsWithin(functions, c) : c \in found(k)}
  BY CallsAreOfNodes DEF IsWithin, CallsWithin
<1>3. 0 \in T
  <2>1. CASE found(0) = {}
    <3>1. IsClosed(functions, found(0))
      BY <2>1 DEF IsClosed
    <3>2. QED
      BY <3>1
  <2>2. CASE found(0) # {}
    <3>1. IsFiniteSet(found(0)) /\ Cardinality(found(0)) \in Nat
      BY <1>1
    <3>2. Cardinality(found(0)) # 0
      BY <2>2, <3>1, FS_EmptySet
    <3>3. Cardinality(found(0)) >= 0 + 1
      BY <3>1, <3>2
    <3>4. QED
      BY <3>3
  <2>3. QED
    BY <2>1, <2>2
<1>4. ASSUME NEW k \in Nat, k \in T PROVE k + 1 \in T
  <2> HIDE DEF found
  <2>1. CASE IsClosed(functions, found(k))
    <3>1. \A c \in found(k) : CallsWithin(functions, c) \subseteq found(k)
      BY <2>1 DEF IsClosed
    <3>2. UNION {CallsWithin(functions, c) : c \in found(k)} \subseteq found(k)
      BY <3>1
    <3>3. found(k + 1) = found(k)
      BY <1>2, <3>2
    <3>4. QED
      BY <2>1, <3>3
  <2>2. CASE ~IsClosed(functions, found(k))
    <3>1. PICK c \in found(k) : ~(CallsWithin(functions, c) \subseteq found(k))
      BY <2>2 DEF IsClosed
    <3>2. found(k) \in SUBSET found(k + 1) /\ found(k) # found(k + 1)
      BY <1>2, <3>1
    <3>3. Cardinality(found(k)) <= Cardinality(found(k + 1)) /\ Cardinality(found(k)) # Cardinality(found(k + 1))
      BY <1>1, <3>2, FS_Subset
    <3>4. Cardinality(found(k)) >= k + 1
      BY <1>4, <2>2
    <3>5. Cardinality(found(k + 1)) >= (k + 1) + 1
      BY <1>1, <3>3, <3>4
    <3>6. QED
      BY <3>5
  <2>3. QED
    BY <2>1, <2>2
<1>5. Cardinality(names) \in T
  <2> HIDE DEF T
  <2>1. QED
    BY <1>3, <1>4, Induction, NamesAreFinite
<1>6. ~(Cardinality(found(Cardinality(names))) >= Cardinality(names) + 1)
  BY <1>1, NamesAreFinite
<1>7. QED
  BY <1>5, <1>6

(* The search along calls (sig.py, _reachable) finds what a function calls,  *)
(* through others or not, and nothing else: the least set of functions that  *)
(* has the function and whatever its members call.                           *)
THEOREM ReachableIsTree ==
    ASSUME NEW functions \in Seq(SourceFunctions), NEW n \in NamesOf(functions)
    PROVE  (Reachable(functions, n) \cap NamesOf(functions)) \cup {n} = Tree(functions, n)
<1> DEFINE names == NamesOf(functions)
           found(within, k) == within[k] \cap names
<1>1. PICK within : /\ IsWithin(functions, n, within)
                    /\ Reachable(functions, n) = within[Cardinality(names)]
  BY ReachableByRounds
<1>2. Cardinality(names) \in Nat
  BY NamesAreFinite
<1> DEFINE T == {k \in Nat : found(within, k) \subseteq Tree(functions, n) /\ CallsWithin(functions, n) \subseteq found(within, k)}
<1>3. 0 \in T
  BY <1>1, TreeIsClosed DEF IsWithin, CallsWithin, IsClosed
<1>4. ASSUME NEW k \in Nat, k \in T PROVE k + 1 \in T
  <2>1. found(within, k + 1) = found(within, k) \cup UNION {CallsWithin(functions, c) : c \in found(within, k)}
    BY <1>1, CallsAreOfNodes DEF IsWithin, CallsWithin
  <2>2. UNION {CallsWithin(functions, c) : c \in found(within, k)} \subseteq Tree(functions, n)
    BY <1>4, TreeIsClosed DEF IsClosed
  <2> HIDE DEF found
  <2>3. QED
    BY <1>4, <2>1, <2>2
<1>5. Cardinality(names) \in T
  <2> HIDE DEF T
  <2>1. QED
    BY <1>2, <1>3, <1>4, Induction
<1> DEFINE all == found(within, Cardinality(names)) \cup {n}
<1>6. all \in SUBSET names /\ IsClosed(functions, all)
  BY <1>1, <1>5, RoundsSuffice DEF IsClosed
<1>7. Tree(functions, n) \subseteq all
  BY <1>6 DEF Tree
<1>8. all \subseteq Tree(functions, n)
  BY <1>5, TreeIsClosed
<1>9. QED
  BY <1>1, <1>7, <1>8

(***************************************************************************)
(* What a function touches, itself or through the functions it calls.      *)
(***************************************************************************)
Touched(functions, n) == {f \in Range(functions) : f.name \in Tree(functions, n)}
Reads(functions, n) == UNION {f.reads : f \in Touched(functions, n)}
Writes(functions, n) == UNION {f.writes : f \in Touched(functions, n)}

(* An entry holds its own function's edges, and none but its tree's.         *)
Signatures(functions) == [NamesOf(functions) -> [reads : SUBSET STRING, writes : SUBSET STRING]]

IsPartial(functions, sig) ==
    /\ sig \in Signatures(functions)
    /\ \A n \in NamesOf(functions) :
          /\ Merged(functions)[n].reads \subseteq sig[n].reads /\ sig[n].reads \subseteq Reads(functions, n)
          /\ Merged(functions)[n].writes \subseteq sig[n].writes /\ sig[n].writes \subseteq Writes(functions, n)

IsWhole(functions, sig, n) == sig[n].reads = Reads(functions, n) /\ sig[n].writes = Writes(functions, n)

LEMMA TouchedNests ==
    ASSUME NEW functions, NEW n \in NamesOf(functions), NEW c \in Tree(functions, n)
    PROVE  Reads(functions, c) \subseteq Reads(functions, n) /\ Writes(functions, c) \subseteq Writes(functions, n)
BY TreesNest DEF Reads, Writes, Touched

LEMMA MergedIsPartial ==
    ASSUME NEW functions \in Seq(SourceFunctions)
    PROVE  IsPartial(functions, Merged(functions))
<1>1. \A n \in NamesOf(functions) : NodesNamed(functions, n) \subseteq Touched(functions, n)
  BY TreeIsClosed DEF NodesNamed, Touched
<1>2. Merged(functions) \in Signatures(functions)
  <2>1. \A n : NodesNamed(functions, n) \subseteq SourceFunctions
    BY DEF NodesNamed, Range
  <2>2. \A n : UNION {f.reads : f \in NodesNamed(functions, n)} \subseteq STRING
    BY <2>1 DEF SourceFunctions
  <2>3. \A n : UNION {f.writes : f \in NodesNamed(functions, n)} \subseteq STRING
    BY <2>1 DEF SourceFunctions
  <2>4. QED
    BY <2>2, <2>3 DEF Merged, Signatures
<1>3. QED
  BY <1>1, <1>2 DEF Merged, IsPartial, Reads, Writes

LEMMA BothFieldsSet ==
    ASSUME NEW sig, NEW n \in DOMAIN sig, sig[n] = [reads |-> sig[n].reads, writes |-> sig[n].writes],
           NEW reads, NEW writes, NEW new, new = [sig EXCEPT ![n].reads = reads, ![n].writes = writes]
    PROVE  /\ DOMAIN new = DOMAIN sig /\ \A m \in DOMAIN sig : m # n => new[m] = sig[m]
           /\ new[n] = [reads |-> reads, writes |-> writes]
<1> DEFINE a == sig[n].reads
           b == sig[n].writes
<1>1. sig[n] = [reads |-> a, writes |-> b]
  OBVIOUS
<1> HIDE DEF a, b
<1>2. [sig[n] EXCEPT !.reads = reads] = [reads |-> reads, writes |-> b]
  BY <1>1
<1>3. [[reads |-> reads, writes |-> b] EXCEPT !.writes = writes] = [reads |-> reads, writes |-> writes]
  OBVIOUS
<1>4. QED
  BY <1>2, <1>3

LEMMA InheritKeeps ==
    ASSUME NEW functions \in Seq(SourceFunctions), NEW sig, IsPartial(functions, sig), NEW n \in NamesOf(functions)
    PROVE  /\ IsPartial(functions, Inherit(functions, sig, n))
           /\ IsWhole(functions, Inherit(functions, sig, n), n)
           /\ \A m \in NamesOf(functions) : m # n => Inherit(functions, sig, n)[m] = sig[m]
<1> DEFINE new == Inherit(functions, sig, n)
           callees == (Reachable(functions, n) \cap DOMAIN sig) \ {n}
<1>1. callees \cup {n} = Tree(functions, n)
  BY ReachableIsTree DEF IsPartial, Signatures
<1> DEFINE reads == sig[n].reads \cup UNION {sig[c].reads : c \in callees}
           writes == sig[n].writes \cup UNION {sig[c].writes : c \in callees}
<1>2. new = [sig EXCEPT ![n].reads = reads, ![n].writes = writes]
  BY DEF Inherit
<1>3. /\ DOMAIN new = NamesOf(functions) /\ \A m \in NamesOf(functions) : m # n => new[m] = sig[m]
      /\ new[n] = [reads |-> reads, writes |-> writes]
  <2> HIDE DEF new, reads, writes
  <2>1. DOMAIN sig = NamesOf(functions) /\ sig[n] = [reads |-> sig[n].reads, writes |-> sig[n].writes]
    BY DEF IsPartial, Signatures
  <2>2. QED
    BY <1>2, <2>1, BothFieldsSet
<1> HIDE DEF callees, new
<1>4. new[n].reads = sig[n].reads \cup UNION {sig[c].reads : c \in callees}
  BY <1>3
<1>5. new[n].writes = sig[n].writes \cup UNION {sig[c].writes : c \in callees}
  BY <1>3
<1>6. new[n].reads = Reads(functions, n)
  <2>1. \A c \in callees \cup {n} : sig[c].reads \subseteq Reads(functions, n)
    BY <1>1, TouchedNests DEF IsPartial, Tree
  <2>2. ASSUME NEW f \in Touched(functions, n) PROVE f.reads \subseteq sig[f.name].reads
    <3>1. f.name \in NamesOf(functions) /\ f \in NodesNamed(functions, f.name)
      BY DEF Touched, Tree, NodesNamed
    <3>2. f.reads \subseteq Merged(functions)[f.name].reads
      BY <3>1 DEF Merged
    <3>3. QED
      BY <3>1, <3>2 DEF IsPartial
  <2>3. \A f \in Touched(functions, n) : f.name \in callees \cup {n}
    BY <1>1 DEF Touched
  <2>4. QED
    BY <1>4, <2>1, <2>2, <2>3 DEF Reads
<1>7. new[n].writes = Writes(functions, n)
  <2>1. \A c \in callees \cup {n} : sig[c].writes \subseteq Writes(functions, n)
    BY <1>1, TouchedNests DEF IsPartial, Tree
  <2>2. ASSUME NEW f \in Touched(functions, n) PROVE f.writes \subseteq sig[f.name].writes
    <3>1. f.name \in NamesOf(functions) /\ f \in NodesNamed(functions, f.name)
      BY DEF Touched, Tree, NodesNamed
    <3>2. f.writes \subseteq Merged(functions)[f.name].writes
      BY <3>1 DEF Merged
    <3>3. QED
      BY <3>1, <3>2 DEF IsPartial
  <2>3. \A f \in Touched(functions, n) : f.name \in callees \cup {n}
    BY <1>1 DEF Touched
  <2>4. QED
    BY <1>5, <2>1, <2>2, <2>3 DEF Writes
<1>8. IsPartial(functions, new)
  <2>1. new \in Signatures(functions)
    <3>1. Reads(functions, n) \subseteq STRING /\ Writes(functions, n) \subseteq STRING
      <4>1. Touched(functions, n) \subseteq SourceFunctions
        BY DEF Touched, Range
      <4>2. QED
        BY <4>1 DEF Reads, Writes, SourceFunctions
    <3>2. new[n] \in [reads : SUBSET STRING, writes : SUBSET STRING]
      BY <1>3, <1>6, <1>7, <3>1
    <3>3. new = [m \in NamesOf(functions) |-> new[m]]
      BY <1>2 DEF IsPartial, Signatures
    <3>4. QED
      BY <1>3, <3>2, <3>3 DEF IsPartial, Signatures
  <2>2. Merged(functions)[n].reads \subseteq new[n].reads /\ Merged(functions)[n].writes \subseteq new[n].writes
    BY <1>4, <1>5 DEF IsPartial
  <2>3. QED
    BY <1>3, <1>6, <1>7, <2>1, <2>2 DEF IsPartial
<1>9. QED
  BY <1>3, <1>6, <1>7, <1>8 DEF IsWhole, new

(* The graph as it is after the first i functions of the text.               *)
LEMMA BuildByFunctions ==
    ASSUME NEW functions \in Seq(SourceFunctions)
    PROVE  \E sig :
              /\ sig[0] = Merged(functions)
              /\ \A i \in 1..Len(functions) :
                    sig[i] = IF \A j \in 1..(i - 1) : functions[j].name # functions[i].name
                             THEN Inherit(functions, sig[i - 1], functions[i].name) ELSE sig[i - 1]
              /\ BuildSigFromSmartgraphical(functions) = sig[Len(functions)]
<1> DEFINE n == Len(functions)
           V == {sig \in Signatures(functions) : IsPartial(functions, sig)}
           firsts == {i \in DOMAIN functions : \A j \in 1..(i - 1) : functions[j].name # functions[i].name}
           Step(sig, i) == IF i \in firsts THEN Inherit(functions, sig, functions[i].name) ELSE sig
           h == [v \in V \X (1..n) |-> Step(v[1], v[2])]
           places == [i \in DOMAIN functions |-> i]
           Is(it) == it = [s \in SUBSET DOMAIN places |->
                              IF s = {} THEN Merged(functions)
                              ELSE LET x == Max(s) IN Step(it[s \ {x}], places[x])]
           it == CHOOSE it : Is(it)
<1>1. BuildSigFromSmartgraphical(functions) = it[DOMAIN places]
  BY DEF BuildSigFromSmartgraphical, FoldLeft, MapThenFoldSet
<1>2. DOMAIN places = 1..n /\ n \in Nat /\ \A i \in 1..n : places[i] = i
  OBVIOUS
<1>3. Merged(functions) \in V
  BY MergedIsPartial DEF IsPartial
<1>4. ASSUME NEW sig \in V, NEW i \in 1..n PROVE Step(sig, i) \in V
  <2>1. functions[i].name \in NamesOf(functions)
    BY DEF NamesOf
  <2>2. QED
    BY <2>1, InheritKeeps DEF IsPartial
<1> HIDE DEF V, Step, places
<1>5. h \in [V \X (1..n) -> V] /\ \A sig \in V, i \in 1..n : h[<<sig, i>>] = Step(sig, i)
  BY <1>4
<1> HIDE DEF h
<1>6. PICK f : Folds(f, V, Merged(functions), h, n)
  BY <1>2, <1>3, <1>5, FoldExists
<1>7. Is(f)
  <2>1. \A s \in SUBSET (1..n) : s # {} => f[s] = Step(f[s \ {Max(s)}], places[Max(s)])
    <3> SUFFICES ASSUME NEW s \in SUBSET (1..n), s # {}
                 PROVE  f[s] = Step(f[s \ {Max(s)}], places[Max(s)])
      OBVIOUS
    <3>1. Max(s) \in 1..n
      BY <1>2, MaxIsIn
    <3>2. f[s \ {Max(s)}] \in V
      BY <1>6 DEF Folds
    <3>3. QED
      BY <1>2, <1>5, <1>6, <3>1, <3>2 DEF Folds
  <2>2. f = [s \in SUBSET (1..n) |-> f[s]] /\ f[{}] = Merged(functions)
    BY <1>6 DEF Folds
  <2>3. QED
    BY <1>2, <2>1, <2>2
<1>8. Is(it)
  BY <1>7
<1> HIDE DEF it
<1> DEFINE sig == [i \in 0..n |-> it[1..i]]
<1>9. sig[0] = Merged(functions) /\ sig[n] = it[DOMAIN places]
  <2>1. 1..0 = {}
    OBVIOUS
  <2>2. QED
    BY <1>2, <1>8, <2>1
<1>10. ASSUME NEW i \in 1..n PROVE sig[i] = Step(sig[i - 1], i)
  <2>1. it[1..i] = Step(it[1..(i - 1)], places[i])
    BY <1>2, <1>8, MaxOfBeginning
  <2>2. QED
    BY <1>2, <2>1
<1>11. ASSUME NEW i \in 1..n
       PROVE  i \in firsts <=> \A j \in 1..(i - 1) : functions[j].name # functions[i].name
  OBVIOUS
<1> HIDE DEF sig, firsts
<1>12. ASSUME NEW i \in 1..n
       PROVE  sig[i] = IF \A j \in 1..(i - 1) : functions[j].name # functions[i].name
                       THEN Inherit(functions, sig[i - 1], functions[i].name) ELSE sig[i - 1]
  BY <1>10, <1>11 DEF Step
<1>13. QED
  BY <1>1, <1>9, <1>12

(* A graph that is finished holds for each function the edges of its tree.   *)
LEMMA GraphIsWhole ==
    ASSUME NEW functions \in Seq(SourceFunctions)
    PROVE  /\ IsPartial(functions, BuildSigFromSmartgraphical(functions))
           /\ \A n \in NamesOf(functions) : IsWhole(functions, BuildSigFromSmartgraphical(functions), n)
<1>1. PICK sig :
              /\ sig[0] = Merged(functions)
              /\ \A i \in 1..Len(functions) :
                    sig[i] = IF \A j \in 1..(i - 1) : functions[j].name # functions[i].name
                             THEN Inherit(functions, sig[i - 1], functions[i].name) ELSE sig[i - 1]
              /\ BuildSigFromSmartgraphical(functions) = sig[Len(functions)]
  BY BuildByFunctions
<1> DEFINE T == {i \in 0..Len(functions) :
                    /\ IsPartial(functions, sig[i])
                    /\ \A j \in 1..i : IsWhole(functions, sig[i], functions[j].name)}
<1>2. 0 \in T
  BY <1>1, MergedIsPartial
<1>3. ASSUME NEW i \in 1..Len(functions), i - 1 \in T PROVE i \in T
  <2>1. /\ IsPartial(functions, sig[i - 1])
        /\ \A j \in 1..(i - 1) : IsWhole(functions, sig[i - 1], functions[j].name)
    BY <1>3
  <2>2. \A j \in 1..i : functions[j].name \in NamesOf(functions) /\ (j = i \/ j \in 1..(i - 1))
    BY DEF NamesOf
  <2>3. CASE \A j \in 1..(i - 1) : functions[j].name # functions[i].name
    <3>1. sig[i] = Inherit(functions, sig[i - 1], functions[i].name)
      BY <1>1, <2>3
    <3>2. /\ IsPartial(functions, sig[i]) /\ IsWhole(functions, sig[i], functions[i].name)
          /\ \A m \in NamesOf(functions) : m # functions[i].name => sig[i][m] = sig[i - 1][m]
      BY <2>1, <2>2, <3>1, InheritKeeps
    <3>3. QED
      BY <2>1, <2>2, <2>3, <3>2 DEF IsWhole
  <2>4. CASE \E j \in 1..(i - 1) : functions[j].name = functions[i].name
    <3>1. sig[i] = sig[i - 1]
      BY <1>1, <2>4
    <3>2. QED
      BY <2>1, <2>2, <2>4, <3>1
  <2>5. QED
    BY <2>3, <2>4
<1>4. Len(functions) \in T
  <2> HIDE DEF T
  <2>1. Len(functions) \in Nat
    OBVIOUS
  <2>2. 0..Len(functions) \subseteq T
    BY <1>2, <1>3, <2>1, InductionTo
  <2>3. QED
    BY <2>1, <2>2
<1>5. QED
  BY <1>1, <1>4 DEF NamesOf

(***************************************************************************)
(* The graphs of stage 3 against the reference.                            *)
(***************************************************************************)
LEMMA TouchingIsTouched ==
    ASSUME NEW file \in Files, Graphs[file] # <<>>, NEW n \in NamesOf(Graphs[file])
    PROVE  Touching(file, n) = Touched(Graphs[file], n)
<1>1. CallTree[file][n] = Tree(Graphs[file], n)
  BY DEF CallTree, FunctionsOf, Callees, Closed, Tree, IsClosed, CallsWithin
<1>2. QED
  BY <1>1 DEF Touching, Touched, FunctionsOf

LEMMA TextTouches ==
    ASSUME NEW file \in Files, Graphs[file] = <<>>, NEW n \in NamesOf(Code[file])
    PROVE  NodesNamed(Code[file], n) \subseteq Touching(file, n)
<1>1. n \in CallTree[file][n]
  BY DEF CallTree, FunctionsOf
<1>2. QED
  BY <1>1 DEF Touching, NodesNamed, FunctionsOf

LEMMA LastIsOfTheName ==
    ASSUME NEW functions \in Seq(SourceFunctions), NEW n \in NamesOf(functions)
    PROVE  LastNamed(functions, n) \in NodesNamed(functions, n)
<1> DEFINE at == {i \in DOMAIN functions : functions[i].name = n}
<1>1. at \in SUBSET (1..Len(functions)) /\ at # {} /\ Len(functions) \in Nat
  BY DEF NamesOf
<1>2. \E i \in at : \A j \in at : j <= i
  <2> HIDE DEF at
  <2>1. QED
    BY <1>1, Greatest
<1>3. PICK i \in at : LastNamed(functions, n) = functions[i]
  <2> DEFINE last == CHOOSE i \in at : \A j \in at : j <= i
  <2>1. last \in at
    BY <1>2
  <2>2. LastNamed(functions, n) = functions[last]
    BY DEF LastNamed
  <2>3. QED
    BY <2>1, <2>2
<1>4. QED
  BY <1>3 DEF NodesNamed, Range

(* Although state is propagated in place, node after node, two functions of  *)
(* SmartGraphical's graph interfere exactly if what they touch, themselves   *)
(* or through what they call, overlaps in something one of them writes: the  *)
(* order of the nodes and cycles among them make no difference               *)
(* (build_sig_from_smartgraphical).                                          *)
THEOREM GraphShowsSharing ==
    ASSUME NEW file \in Files, Graphs[file] # <<>>, NEW m, NEW n
    PROVE  Interferes(Sigs[file], m, n) <=> <<m, n>> \in Shared[file]
<1> DEFINE functions == Graphs[file]
           sig == BuildSigFromSmartgraphical(functions)
<1>1. functions \in Seq(SourceFunctions) /\ Sigs[file] = sig /\ FunctionsOf(file) = functions
  BY SynthesisAssumption DEF Sigs, FunctionsOf
<1>2. DOMAIN sig = NamesOf(functions)
  BY <1>1, GraphIsWhole DEF IsPartial, Signatures
<1>3. <<m, n>> \in Shared[file] <=> {m, n} \subseteq NamesOf(functions) /\ ShareState(file, m, n)
  BY <1>1 DEF Shared
<1> SUFFICES ASSUME {m, n} \subseteq NamesOf(functions)
             PROVE  Interferes(sig, m, n) <=> ShareState(file, m, n)
  BY <1>1, <1>2, <1>3 DEF Interferes
<1>4. ASSUME NEW k \in {m, n}
      PROVE  /\ sig[k].reads = UNION {f.reads : f \in Touching(file, k)}
             /\ sig[k].writes = UNION {f.writes : f \in Touching(file, k)}
  <2>1. Touching(file, k) = Touched(functions, k)
    BY TouchingIsTouched
  <2>2. IsWhole(functions, sig, k)
    BY <1>1, GraphIsWhole
  <2>3. QED
    BY <2>1, <2>2 DEF IsWhole, Reads, Writes
<1> HIDE DEF sig, functions
<1>5. QED
  BY <1>2, <1>4 DEF Interferes, ShareState

LEMMA TextShowsNoMore ==
    ASSUME NEW file \in Files, Graphs[file] = <<>>, NEW m, NEW n, Interferes(Sigs[file], m, n)
    PROVE  <<m, n>> \in Shared[file]
<1> DEFINE functions == Code[file]
           sig == BuildSig(file)
<1>1. functions \in Seq(SourceFunctions) /\ Sigs[file] = sig /\ FunctionsOf(file) = functions
  BY SynthesisAssumption DEF Sigs, FunctionsOf
<1>2. {m, n} \subseteq NamesOf(functions) /\ Interferes(sig, m, n)
  BY <1>1 DEF Interferes, BuildSig
<1>3. ASSUME NEW k \in {m, n}
      PROVE  \E f \in Touching(file, k) : sig[k].reads \subseteq f.reads /\ sig[k].writes \subseteq f.writes
  <2>1. LastNamed(functions, k) \in Touching(file, k)
    BY <1>1, <1>2, LastIsOfTheName, TextTouches
  <2>2. sig[k].reads \subseteq LastNamed(functions, k).reads /\ sig[k].writes \subseteq LastNamed(functions, k).writes
    BY <1>2 DEF BuildSig
  <2>3. QED
    BY <2>1, <2>2
<1>4. PICK f \in Touching(file, m), g \in Touching(file, n) :
         /\ sig[m].reads \subseteq f.reads /\ sig[m].writes \subseteq f.writes
         /\ sig[n].reads \subseteq g.reads /\ sig[n].writes \subseteq g.writes
  BY <1>3
<1> HIDE DEF sig, functions
<1>5. ShareState(file, m, n)
  BY <1>2, <1>4 DEF Interferes, ShareState
<1>6. QED
  BY <1>1, <1>2, <1>5 DEF Shared

(***************************************************************************)
(* A sequence of sequences, one after the other.                           *)
(***************************************************************************)
IsFlat(f, s, n) ==
    \A i \in 1..n : f[i] = IF i = 1 THEN s[1] ELSE f[i - 1] \o s[i]

LEMMA FlatExists ==
    ASSUME NEW S, NEW s \in Seq(Seq(S)), NEW n \in 0..Len(s)
    PROVE  \E f : f \in [1..n -> Seq(S)] /\ IsFlat(f, s, n)
<1> DEFINE T == {k \in 0..Len(s) : \E f : f \in [1..k -> Seq(S)] /\ IsFlat(f, s, k)}
<1>1. Len(s) \in Nat /\ \A i \in 1..Len(s) : s[i] \in Seq(S)
  OBVIOUS
<1>2. 0 \in T
  <2> DEFINE f == [i \in 1..0 |-> <<>>]
  <2>1. f \in [1..0 -> Seq(S)] /\ IsFlat(f, s, 0)
    BY DEF IsFlat
  <2> HIDE DEF f
  <2>2. 0 \in 0..Len(s)
    BY <1>1
  <2>3. QED
    BY <2>1, <2>2
<1>3. ASSUME NEW k \in 1..Len(s), k - 1 \in T PROVE k \in T
  <2>1. PICK f : f \in [1..(k - 1) -> Seq(S)] /\ IsFlat(f, s, k - 1)
    BY <1>3
  <2> DEFINE last == IF k = 1 THEN s[1] ELSE f[k - 1] \o s[k]
             g == [i \in 1..k |-> IF i = k THEN last ELSE f[i]]
  <2>2. last \in Seq(S)
    <3>1. CASE k = 1
      BY <1>1, <3>1
    <3>2. CASE k # 1
      <4>1. f[k - 1] \in Seq(S) /\ s[k] \in Seq(S)
        BY <1>1, <2>1, <3>2
      <4>2. QED
        BY <3>2, <4>1, ConcatProperties
    <3>3. QED
      BY <3>1, <3>2
  <2> HIDE DEF last
  <2>3. g \in [1..k -> Seq(S)]
    BY <2>1, <2>2
  <2>4. ASSUME NEW i \in 1..k PROVE g[i] = IF i = 1 THEN s[1] ELSE g[i - 1] \o s[i]
    <3>1. CASE i = k
      <4>1. g[i] = last /\ (k # 1 => g[i - 1] = f[k - 1])
        BY <3>1
      <4>2. QED
        BY <3>1, <4>1 DEF last
    <3>2. CASE i # k
      <4>1. i \in 1..(k - 1) /\ g[i] = f[i] /\ (i # 1 => g[i - 1] = f[i - 1])
        BY <3>2
      <4>2. f[i] = IF i = 1 THEN s[1] ELSE f[i - 1] \o s[i]
        BY <2>1, <4>1 DEF IsFlat
      <4> HIDE DEF g
      <4>3. QED
        BY <4>1, <4>2
    <3>3. QED
      BY <3>1, <3>2
  <2>5. IsFlat(g, s, k)
    <3> HIDE DEF g
    <3>1. QED
      BY <2>4 DEF IsFlat
  <2> HIDE DEF g
  <2>6. QED
    BY <2>3, <2>5
<1>4. n \in T
  <2> HIDE DEF T
  <2>1. 0..Len(s) \subseteq T
    BY <1>1, <1>2, <1>3, InductionTo
  <2>2. QED
    BY <2>1
<1>5. QED
  BY <1>4

LEMMA FlattenIs ==
    ASSUME NEW S, NEW s \in Seq(Seq(S)), Len(s) # 0
    PROVE  \E f : f \in [1..Len(s) -> Seq(S)] /\ IsFlat(f, s, Len(s)) /\ FlattenSeq(s) = f[Len(s)]
<1> DEFINE n == Len(s)
           Is(f) == f = [i \in 1..n |-> IF i = 1 THEN s[i] ELSE f[i - 1] \o s[i]]
           flatten == CHOOSE f : Is(f)
<1>1. n \in Nat /\ n \in 0..Len(s) /\ FlattenSeq(s) = flatten[n]
  BY DEF FlattenSeq
<1>2. PICK f : f \in [1..n -> Seq(S)] /\ IsFlat(f, s, n)
  BY <1>1, FlatExists
<1>3. Is(f)
  <2>1. f = [i \in 1..n |-> f[i]]
    BY <1>2
  <2>2. QED
    BY <1>2, <2>1 DEF IsFlat
<1>4. Is(flatten)
  BY <1>3
<1> HIDE DEF flatten
<1>5. IsFlat(flatten, s, n)
  BY <1>4 DEF IsFlat
<1>6. flatten \in [1..n -> Seq(S)]
  <2> DEFINE T == {i \in 0..n : i # 0 => flatten[i] = f[i]}
  <2>1. 0 \in T
    BY <1>1
  <2>2. ASSUME NEW i \in 1..n, i - 1 \in T PROVE i \in T
    <3>1. i # 1 => flatten[i - 1] = f[i - 1]
      BY <2>2
    <3>2. flatten[i] = f[i]
      BY <1>2, <1>5, <3>1 DEF IsFlat
    <3>3. QED
      BY <1>1, <3>2
  <2> HIDE DEF T
  <2>3. 0..n \subseteq T
    BY <1>1, <2>1, <2>2, InductionTo
  <2>4. \A i \in 1..n : flatten[i] = f[i]
    BY <2>3 DEF T
  <2>5. flatten = [i \in 1..n |-> flatten[i]]
    BY <1>4
  <2>6. QED
    BY <1>2, <2>4, <2>5
<1>7. QED
  BY <1>1, <1>5, <1>6

(* All but the last, then the last.                                          *)
LEMMA FlattenLast ==
    ASSUME NEW S, NEW s \in Seq(Seq(S)), NEW t \in Seq(Seq(S)), Len(s) = Len(t) + 1,
           \A i \in 1..Len(t) : t[i] = s[i]
    PROVE  /\ FlattenSeq(s) = FlattenSeq(t) \o s[Len(s)]
           /\ FlattenSeq(s) \in Seq(S) /\ FlattenSeq(t) \in Seq(S)
<1> DEFINE n == Len(t)
<1>1. n \in Nat /\ Len(s) # 0 /\ Len(s) = n + 1 /\ s[n + 1] \in Seq(S)
  OBVIOUS
<1>2. PICK f : f \in [1..Len(s) -> Seq(S)] /\ IsFlat(f, s, Len(s)) /\ FlattenSeq(s) = f[Len(s)]
  BY <1>1, FlattenIs
<1>3. CASE n = 0
  <2>1. t = <<>> /\ FlattenSeq(t) = <<>>
    BY <1>3 DEF FlattenSeq
  <2>2. FlattenSeq(s) = s[1]
    BY <1>1, <1>2, <1>3 DEF IsFlat
  <2>3. s[1] \in Seq(S) /\ Len(s) = 1
    BY <1>1, <1>3
  <2>4. <<>> \o s[1] = s[1] /\ <<>> \in Seq(S)
    BY <2>3, ConcatEmptySeq, EmptySeq
  <2>5. QED
    BY <2>1, <2>2, <2>3, <2>4
<1>4. CASE n # 0
  <2>1. PICK g : g \in [1..n -> Seq(S)] /\ IsFlat(g, t, n) /\ FlattenSeq(t) = g[n]
    BY <1>1, <1>4, FlattenIs
  <2> DEFINE T == {i \in 0..n : i # 0 => f[i] = g[i]}
  <2>2. 0 \in T
    BY <1>1
  <2>3. ASSUME NEW i \in 1..n, i - 1 \in T PROVE i \in T
    <3>1. g[i] = IF i = 1 THEN s[1] ELSE g[i - 1] \o s[i]
      BY <1>1, <2>1 DEF IsFlat
    <3>2. f[i] = IF i = 1 THEN s[1] ELSE f[i - 1] \o s[i]
      <4>1. i \in 1..Len(s)
        BY <1>1
      <4>2. QED
        BY <1>2, <4>1 DEF IsFlat
    <3>3. i # 1 => f[i - 1] = g[i - 1]
      BY <2>3
    <3>4. f[i] = g[i]
      BY <3>1, <3>2, <3>3
    <3>5. QED
      BY <1>1, <3>4
  <2> HIDE DEF T
  <2>4. 0..n \subseteq T
    BY <1>1, <2>2, <2>3, InductionTo
  <2>5. f[n] = g[n]
    <3>1. n \in 0..n
      BY <1>1
    <3>2. n \in T
      BY <2>4, <3>1
    <3>3. QED
      BY <1>4, <3>2 DEF T
  <2>6. f[n + 1] = f[n] \o s[n + 1] /\ f[n + 1] \in Seq(S) /\ f[n] \in Seq(S)
    <3>1. n + 1 \in 1..Len(s) /\ n \in 1..Len(s) /\ n + 1 # 1 /\ (n + 1) - 1 = n
      BY <1>1, <1>4
    <3> HIDE DEF n
    <3>2. QED
      BY <1>2, <3>1 DEF IsFlat
  <2>7. QED
    BY <1>1, <1>2, <2>1, <2>5, <2>6
<1>5. QED
  BY <1>3, <1>4

(* The i-th to the j-th of them.                                             *)
Part(s, i, j) == FlattenSeq(SubSeq(s, i, j))

LEMMA FlattenNone == FlattenSeq(<<>>) = <<>>
<1>1. Len(<<>>) = 0
  OBVIOUS
<1>2. QED
  BY <1>1 DEF FlattenSeq

LEMMA PartNone ==
    ASSUME NEW s, NEW i \in Int, NEW j \in Int, j < i
    PROVE  Part(s, i, j) = <<>>
<1>1. SubSeq(s, i, j) = <<>>
  BY SubSeqEmpty
<1>2. QED
  BY <1>1, FlattenNone DEF Part

LEMMA PartLast ==
    ASSUME NEW S, NEW s \in Seq(Seq(S)), NEW i \in 1..Len(s), NEW j \in i..Len(s)
    PROVE  /\ Part(s, i, j) = Part(s, i, j - 1) \o s[j]
           /\ Part(s, i, j) \in Seq(S) /\ Part(s, i, j - 1) \in Seq(S)
<1> DEFINE a == SubSeq(s, i, j)
           b == SubSeq(s, i, j - 1)
<1>1. Len(s) \in Nat /\ i \in Int /\ j \in Int /\ j - 1 \in Int /\ \A k \in i..j : s[k] \in Seq(S)
  OBVIOUS
<1>2. /\ a \in Seq(Seq(S)) /\ Len(a) = j - i + 1
      /\ \A k \in 1..(j - i + 1) : a[k] = s[i + k - 1]
  BY <1>1, SubSeqProperties
<1>3. /\ b \in Seq(Seq(S)) /\ Len(b) = j - i
      /\ \A k \in 1..(j - i) : b[k] = s[i + k - 1]
  <2>1. \A k \in i..(j - 1) : s[k] \in Seq(S)
    BY <1>1
  <2>2. /\ b \in Seq(Seq(S)) /\ Len(b) = IF i <= j - 1 THEN (j - 1) - i + 1 ELSE 0
        /\ \A k \in 1..((j - 1) - i + 1) : b[k] = s[i + k - 1]
    BY <1>1, <2>1, SubSeqProperties
  <2>3. QED
    BY <1>1, <2>2
<1> HIDE DEF a, b
<1>4. Len(a) = Len(b) + 1 /\ \A k \in 1..Len(b) : b[k] = a[k]
  BY <1>2, <1>3
<1>5. a[Len(a)] = s[j]
  BY <1>2
<1>6. FlattenSeq(a) = FlattenSeq(b) \o a[Len(a)] /\ FlattenSeq(a) \in Seq(S) /\ FlattenSeq(b) \in Seq(S)
  BY <1>2, <1>3, <1>4, FlattenLast
<1>7. QED
  BY <1>5, <1>6 DEF Part, a, b

LEMMA PartType ==
    ASSUME NEW S, NEW s \in Seq(Seq(S)), NEW i \in 1..(Len(s) + 1), NEW j \in 0..Len(s)
    PROVE  Part(s, i, j) \in Seq(S)
<1>1. Len(s) \in Nat
  OBVIOUS
<1>2. CASE j < i
  <2>1. Part(s, i, j) = <<>>
    BY <1>1, <1>2, PartNone
  <2>2. QED
    BY <2>1, EmptySeq
<1>3. CASE i <= j
  <2>1. i \in 1..Len(s) /\ j \in i..Len(s)
    BY <1>1, <1>3
  <2>2. QED
    BY <2>1, PartLast
<1>4. QED
  BY <1>1, <1>2, <1>3

LEMMA PartAll ==
    ASSUME NEW S, NEW s \in Seq(Seq(S))
    PROVE  Part(s, 1, Len(s)) = FlattenSeq(s) /\ FlattenSeq(s) \in Seq(S)
<1>1. Part(s, 1, Len(s)) = FlattenSeq(s)
  BY SubSeqFull DEF Part
<1>2. Len(s) \in Nat /\ 1 \in 1..(Len(s) + 1) /\ Len(s) \in 0..Len(s)
  OBVIOUS
<1>3. QED
  BY <1>1, <1>2, PartType

LEMMA PartSame ==
    ASSUME NEW S, NEW s \in Seq(Seq(S)), NEW t \in Seq(Seq(S)), NEW i \in Nat \ {0}, NEW j \in Nat,
           j <= Len(s), j <= Len(t), \A k \in i..j : s[k] = t[k]
    PROVE  Part(s, i, j) = Part(t, i, j)
<1>1. Len(s) \in Nat /\ Len(t) \in Nat /\ \A k \in i..j : s[k] \in Seq(S) /\ t[k] \in Seq(S)
  OBVIOUS
<1>2. SubSeq(s, i, j) = SubSeq(t, i, j)
  <2>1. /\ SubSeq(s, i, j) \in Seq(Seq(S)) /\ Len(SubSeq(s, i, j)) = IF i <= j THEN j - i + 1 ELSE 0
        /\ \A k \in 1..(j - i + 1) : SubSeq(s, i, j)[k] = s[i + k - 1]
    BY <1>1, SubSeqProperties
  <2>2. /\ SubSeq(t, i, j) \in Seq(Seq(S)) /\ Len(SubSeq(t, i, j)) = IF i <= j THEN j - i + 1 ELSE 0
        /\ \A k \in 1..(j - i + 1) : SubSeq(t, i, j)[k] = t[i + k - 1]
    BY <1>1, SubSeqProperties
  <2>3. \A k \in 1..Len(SubSeq(s, i, j)) : SubSeq(s, i, j)[k] = SubSeq(t, i, j)[k]
    <3>1. \A k \in 1..(j - i + 1) : i + k - 1 \in i..j
      OBVIOUS
    <3>2. \A k \in 1..Len(SubSeq(s, i, j)) : k \in 1..(j - i + 1)
      BY <2>1
    <3>3. QED
      BY <2>1, <2>2, <3>1, <3>2
  <2>4. QED
    BY <2>1, <2>2, <2>3, SeqEqual
<1>3. QED
  BY <1>2 DEF Part

LEMMA PartJoin ==
    ASSUME NEW S, NEW s \in Seq(Seq(S)), NEW i \in 1..(Len(s) + 1),
           NEW j \in (i - 1)..Len(s), NEW k \in j..Len(s)
    PROVE  Part(s, i, k) = Part(s, i, j) \o Part(s, j + 1, k)
<1> DEFINE T == {m \in 0..(Len(s) - j) : Part(s, i, j + m) = Part(s, i, j) \o Part(s, j + 1, j + m)}
<1>1. /\ Len(s) \in Nat /\ i \in Nat /\ j \in Nat /\ k \in Nat /\ j \in 0..Len(s)
      /\ Len(s) - j \in Nat /\ k - j \in 0..(Len(s) - j) /\ j + (k - j) = k
  OBVIOUS
<1>2. Part(s, i, j) \in Seq(S)
  BY <1>1, PartType
<1>3. 0 \in T
  <2>1. Part(s, j + 1, j + 0) = <<>>
    BY <1>1, PartNone
  <2>2. Part(s, i, j + 0) = Part(s, i, j)
    BY <1>1
  <2>3. Part(s, i, j) = Part(s, i, j) \o <<>>
    BY <1>2, ConcatEmptySeq
  <2> HIDE DEF Part
  <2>4. Part(s, i, j + 0) = Part(s, i, j) \o Part(s, j + 1, j + 0)
    BY <2>1, <2>2, <2>3
  <2>5. 0 \in 0..(Len(s) - j)
    BY <1>1
  <2>6. QED
    BY <2>4, <2>5
<1>4. ASSUME NEW m \in 1..(Len(s) - j), m - 1 \in T PROVE m \in T
  <2>1. /\ j + m \in i..Len(s) /\ i \in 1..Len(s) /\ j + 1 \in 1..Len(s) /\ j + m \in (j + 1)..Len(s)
        /\ (j + m) - 1 = j + (m - 1) /\ m \in 0..(Len(s) - j)
    BY <1>1
  <2>2. Part(s, i, j + m) = Part(s, i, j + (m - 1)) \o s[j + m]
    BY <2>1, PartLast
  <2>3. /\ Part(s, j + 1, j + m) = Part(s, j + 1, j + (m - 1)) \o s[j + m]
        /\ Part(s, j + 1, j + (m - 1)) \in Seq(S)
    BY <2>1, PartLast
  <2>4. Part(s, i, j + (m - 1)) = Part(s, i, j) \o Part(s, j + 1, j + (m - 1))
    BY <1>4
  <2>5. s[j + m] \in Seq(S)
    BY <2>1
  <2>6. (Part(s, i, j) \o Part(s, j + 1, j + (m - 1))) \o s[j + m]
           = Part(s, i, j) \o (Part(s, j + 1, j + (m - 1)) \o s[j + m])
    <3> DEFINE a == Part(s, i, j)
               b == Part(s, j + 1, j + (m - 1))
               c == s[j + m]
    <3>1. a \in Seq(S) /\ b \in Seq(S) /\ c \in Seq(S)
      BY <1>2, <2>3, <2>5
    <3> HIDE DEF a, b, c
    <3>2. (a \o b) \o c = a \o (b \o c)
      BY <3>1, ConcatAssociative
    <3>3. QED
      BY <3>2 DEF a, b, c
  <2>7. QED
    BY <2>1, <2>2, <2>3, <2>4, <2>6
<1>5. 0..(Len(s) - j) \subseteq T
  <2> HIDE DEF T
  <2>1. QED
    BY <1>1, <1>3, <1>4, InductionTo
<1>6. k - j \in T
  BY <1>1, <1>5
<1> HIDE DEF Part
<1>7. QED
  BY <1>1, <1>6

LEMMA PartSingles ==
    ASSUME NEW S, NEW s \in Seq(Seq(S)), NEW f \in Seq(S), Len(f) = Len(s), NEW i \in 1..(Len(s) + 1),
           NEW j \in (i - 1)..Len(s), \A k \in i..j : s[k] = <<f[k]>>
    PROVE  Part(s, i, j) = SubSeq(f, i, j)
<1> DEFINE T == {k \in (i - 1)..j : Part(s, i, k) = SubSeq(f, i, k)}
<1>1. Len(s) \in Nat /\ i \in Nat \ {0} /\ j \in Nat /\ j \in (i - 1)..j
  OBVIOUS
<1>2. i - 1 \in T
  <2>1. Part(s, i, i - 1) = <<>> /\ SubSeq(f, i, i - 1) = <<>>
    BY <1>1, PartNone, SubSeqEmpty
  <2>2. Part(s, i, i - 1) = SubSeq(f, i, i - 1)
    BY <2>1, Zenon
  <2>3. i - 1 \in (i - 1)..j
    BY <1>1
  <2> HIDE DEF Part
  <2>4. QED
    BY <2>2, <2>3, Zenon
<1>3. ASSUME NEW k \in i..j, k - 1 \in T PROVE k \in T
  <2>1. i \in 1..Len(s) /\ k \in i..Len(s)
    BY <1>1
  <2>2. Part(s, i, k) = Part(s, i, k - 1) \o s[k]
    BY <2>1, PartLast
  <2>3. SubSeq(f, i, k) = SubSeq(f, i, k - 1) \o <<f[k]>>
    BY <2>1, SubSeqRecursiveSecond
  <2>4. k \in (i - 1)..j
    BY <1>1
  <2>5. QED
    BY <1>3, <2>2, <2>3, <2>4
<1>4. j \in T
  <2> HIDE DEF T
  <2>1. (i - 1)..j \subseteq T
    BY <1>1, <1>2, <1>3, InductionFrom
  <2>2. QED
    BY <1>1, <2>1
<1>5. QED
  BY <1>4

LEMMA PartNothing ==
    ASSUME NEW S, NEW s \in Seq(Seq(S)), NEW i \in 1..(Len(s) + 1), NEW j \in (i - 1)..Len(s),
           \A k \in i..j : s[k] = <<>>
    PROVE  Part(s, i, j) = <<>>
<1> DEFINE T == {k \in (i - 1)..j : Part(s, i, k) = <<>>}
<1>1. Len(s) \in Nat /\ i \in Nat \ {0} /\ j \in Nat /\ j \in (i - 1)..j
  OBVIOUS
<1>2. i - 1 \in T
  BY <1>1, PartNone
<1>3. ASSUME NEW k \in i..j, k - 1 \in T PROVE k \in T
  <2>1. i \in 1..Len(s) /\ k \in i..Len(s)
    BY <1>1
  <2>2. Part(s, i, k) = Part(s, i, k - 1) \o s[k]
    BY <2>1, PartLast
  <2>3. <<>> \o <<>> = <<>>
    BY EmptySeq, ConcatEmptySeq
  <2>4. k \in (i - 1)..j
    BY <1>1
  <2>5. QED
    BY <1>3, <2>2, <2>3, <2>4
<1>4. j \in T
  <2> HIDE DEF T
  <2>1. (i - 1)..j \subseteq T
    BY <1>1, <1>2, <1>3, InductionFrom
  <2>2. QED
    BY <1>1, <2>1
<1>5. QED
  BY <1>4

(* A function on each of the elements.                                       *)
OnEach(g, s) == [r \in DOMAIN s |-> g[s[r]]]
Maps(A, B) == [A -> B]

LEMMA OnEachOfConcat ==
    ASSUME NEW A, NEW B, NEW g \in Maps(A, B), NEW s \in Seq(A), NEW t \in Seq(A)
    PROVE  /\ OnEach(g, s \o t) = OnEach(g, s) \o OnEach(g, t)
           /\ OnEach(g, s) \in Seq(B)
<1>1. \A u \in Seq(A) : OnEach(g, u) \in Seq(B) /\ Len(OnEach(g, u)) = Len(u)
  BY DEF OnEach, Maps
<1>2. s \o t \in Seq(A) /\ Len(s \o t) = Len(s) + Len(t) /\ Len(s) \in Nat /\ Len(t) \in Nat
  BY ConcatProperties
<1> DEFINE a == OnEach(g, s)
           b == OnEach(g, t)
<1>3. a \in Seq(B) /\ b \in Seq(B) /\ Len(a) = Len(s) /\ Len(b) = Len(t)
  BY <1>1
<1>4. a \o b \in Seq(B) /\ Len(a \o b) = Len(s) + Len(t)
  <2> HIDE DEF a, b
  <2>1. QED
    BY <1>3
<1>5. ASSUME NEW r \in 1..(Len(s) + Len(t))
      PROVE  OnEach(g, s \o t)[r] = (OnEach(g, s) \o OnEach(g, t))[r]
  <2>1. OnEach(g, s \o t)[r] = g[(s \o t)[r]]
    BY <1>2 DEF OnEach
  <2>2. (s \o t)[r] = IF r <= Len(s) THEN s[r] ELSE t[r - Len(s)]
    BY ConcatProperties
  <2>3. (a \o b)[r] = IF r <= Len(s) THEN a[r] ELSE b[r - Len(s)]
    <3> HIDE DEF a, b
    <3>1. QED
      BY <1>3
  <2>4. (r <= Len(s) => OnEach(g, s)[r] = g[s[r]]) /\ (~(r <= Len(s)) => OnEach(g, t)[r - Len(s)] = g[t[r - Len(s)]])
    BY <1>2 DEF OnEach
  <2>5. QED
    BY <2>1, <2>2, <2>3, <2>4
<1>6. OnEach(g, s \o t) \in Seq(B) /\ Len(OnEach(g, s \o t)) = Len(s) + Len(t)
  BY <1>1, <1>2
<1>7. OnEach(g, s \o t) = OnEach(g, s) \o OnEach(g, t)
  BY <1>4, <1>5, <1>6, SeqEqual
<1>8. QED
  BY <1>1, <1>7

(* t is s with the function on each element, from the i-th to the j-th.      *)
Corresponds(A, B, g, s, t, i, j) ==
    /\ g \in Maps(A, B) /\ s \in Seq(Seq(A)) /\ t \in Seq(Seq(B)) /\ Len(t) = Len(s)
    /\ i \in 1..(Len(s) + 1) /\ j \in (i - 1)..Len(s)
    /\ \A k \in i..j : t[k] = OnEach(g, s[k])

LEMMA PartOnEach ==
    ASSUME NEW A, NEW B, NEW g, NEW s, NEW t, NEW i, NEW j, Corresponds(A, B, g, s, t, i, j)
    PROVE  Part(t, i, j) = OnEach(g, Part(s, i, j))
<1> USE DEF Corresponds
<1>1. \A x, y \in Seq(A) : OnEach(g, x \o y) = OnEach(g, x) \o OnEach(g, y)
  BY OnEachOfConcat
<1> DEFINE T == {k \in (i - 1)..j : Part(t, i, k) = OnEach(g, Part(s, i, k))}
<1>2. Len(s) \in Nat /\ i \in Nat \ {0} /\ j \in Nat /\ j \in (i - 1)..j
  OBVIOUS
<1>3. i - 1 \in T
  <2>1. Part(s, i, i - 1) = <<>> /\ Part(t, i, i - 1) = <<>>
    BY <1>2, PartNone
  <2>2. OnEach(g, <<>>) = <<>>
    BY DEF OnEach
  <2>3. QED
    BY <1>2, <2>1, <2>2
<1>4. ASSUME NEW k \in i..j, k - 1 \in T PROVE k \in T
  <2>1. i \in 1..Len(s) /\ k \in i..Len(s)
    BY <1>2
  <2>2. Part(s, i, k) = Part(s, i, k - 1) \o s[k] /\ Part(s, i, k - 1) \in Seq(A)
    BY <2>1, PartLast
  <2>3. Part(t, i, k) = Part(t, i, k - 1) \o t[k]
    BY <2>1, PartLast
  <2>4. s[k] \in Seq(A)
    BY <2>1
  <2>5. OnEach(g, Part(s, i, k)) = OnEach(g, Part(s, i, k - 1)) \o OnEach(g, s[k])
    <3> DEFINE a == Part(s, i, k - 1)
               b == s[k]
    <3>1. a \in Seq(A) /\ b \in Seq(A) /\ Part(s, i, k) = a \o b
      BY <2>2, <2>4
    <3>2. OnEach(g, a \o b) = OnEach(g, a) \o OnEach(g, b)
      <4> HIDE DEF a, b
      <4>1. QED
        BY <1>1, <3>1
    <3>3. QED
      BY <3>1, <3>2
  <2>6. k \in (i - 1)..j
    BY <1>2
  <2>7. QED
    BY <1>4, <2>3, <2>5, <2>6
<1>5. j \in T
  <2> HIDE DEF T
  <2>1. (i - 1)..j \subseteq T
    BY <1>2, <1>3, <1>4, InductionFrom
  <2>2. QED
    BY <1>2, <2>1
<1>6. QED
  BY <1>5

(* Where the r-th of the i-th is, and that there is nothing else.            *)
LEMMA AtPlace ==
    ASSUME NEW S, NEW s \in Seq(Seq(S)), NEW i \in 1..Len(s), NEW r \in 1..Len(s[i])
    PROVE  /\ Len(Part(s, 1, i - 1)) + r \in 1..Len(FlattenSeq(s))
           /\ FlattenSeq(s)[Len(Part(s, 1, i - 1)) + r] = s[i][r]
<1> DEFINE a == Part(s, 1, i - 1)
           b == s[i]
           c == Part(s, i + 1, Len(s))
<1>1. /\ Len(s) \in Nat /\ 1 \in 1..Len(s) /\ i \in 1..Len(s) /\ i + 1 \in 1..(Len(s) + 1)
      /\ 1 \in 1..(Len(s) + 1) /\ i \in (1 - 1)..Len(s) /\ Len(s) \in i..Len(s) /\ Len(s) \in 0..Len(s)
  OBVIOUS
<1>2. Part(s, 1, i) = a \o b /\ a \in Seq(S) /\ b \in Seq(S)
  <2>1. b \in Seq(S)
    BY <1>1
  <2>2. Part(s, 1, i) = a \o b /\ a \in Seq(S)
    BY <1>1, PartLast
  <2>3. QED
    BY <2>1, <2>2
<1>3. Part(s, 1, Len(s)) = Part(s, 1, i) \o c
  BY <1>1, PartJoin
<1>4. c \in Seq(S)
  BY <1>1, PartType
<1>5. FlattenSeq(s) = (a \o b) \o c
  <2>1. Part(s, 1, Len(s)) = FlattenSeq(s)
    BY PartAll
  <2>2. QED
    BY <1>2, <1>3, <2>1
<1>6. r \in 1..Len(b) /\ s[i][r] = b[r]
  OBVIOUS
<1> HIDE DEF a, b, c
<1>7. Len(a) + r \in 1..Len((a \o b) \o c) /\ ((a \o b) \o c)[Len(a) + r] = b[r]
  BY <1>2, <1>4, <1>6
<1>8. QED
  BY <1>5, <1>6, <1>7 DEF a

LEMMA PlaceOf ==
    ASSUME NEW S, NEW s \in Seq(Seq(S)), NEW q \in 1..Len(FlattenSeq(s))
    PROVE  \E i \in 1..Len(s) : \E r \in 1..Len(s[i]) : q = Len(Part(s, 1, i - 1)) + r
<1> DEFINE T == {k \in 0..Len(s) : q <= Len(Part(s, 1, k)) =>
                    \E i \in 1..Len(s) : \E r \in 1..Len(s[i]) : q = Len(Part(s, 1, i - 1)) + r}
<1>1. Len(s) \in Nat /\ Len(s) \in 0..Len(s) /\ q \in Nat \ {0}
  BY PartAll
<1>2. 0 \in T
  <2>1. Part(s, 1, 0) = <<>>
    BY PartNone
  <2>2. Len(<<>>) = 0
    OBVIOUS
  <2>3. ~(q <= Len(Part(s, 1, 0)))
    BY <1>1, <2>1, <2>2
  <2> HIDE DEF Part
  <2>4. QED
    BY <1>1, <2>3
<1>3. ASSUME NEW k \in 1..Len(s), k - 1 \in T PROVE k \in T
  <2> SUFFICES ASSUME q <= Len(Part(s, 1, k)), ~(q <= Len(Part(s, 1, k - 1)))
               PROVE  \E i \in 1..Len(s) : \E r \in 1..Len(s[i]) : q = Len(Part(s, 1, i - 1)) + r
    BY <1>1, <1>3
  <2> DEFINE a == Part(s, 1, k - 1)
             b == s[k]
  <2>1. Part(s, 1, k) = a \o b /\ a \in Seq(S) /\ b \in Seq(S)
    <3>1. 1 \in 1..Len(s) /\ k \in 1..Len(s) /\ b \in Seq(S)
      BY <1>1
    <3>2. Part(s, 1, k) = a \o b /\ a \in Seq(S)
      BY <3>1, PartLast
    <3>3. QED
      BY <3>1, <3>2
  <2>2. q <= Len(Part(s, 1, k)) /\ ~(q <= Len(a))
    OBVIOUS
  <2> HIDE DEF a, b
  <2>3. q - Len(a) \in 1..Len(b) /\ q = Len(a) + (q - Len(a))
    BY <1>1, <2>1, <2>2
  <2>4. QED
    BY <2>3 DEF a, b
<1>4. Len(s) \in T
  <2> HIDE DEF T
  <2>1. QED
    BY <1>1, <1>2, <1>3, InductionTo
<1>5. q <= Len(Part(s, 1, Len(s)))
  BY <1>1, PartAll
<1> HIDE DEF Part
<1>6. QED
  BY <1>4, <1>5

(***************************************************************************)
(* A file while its hunks are applied: where the lines of the source stood *)
(* there is now the line itself, or what a hunk put there.                 *)
(***************************************************************************)
Marked == [line : SourceLines, fresh : BOOLEAN]
Kept(source) == [i \in DOMAIN source |-> [line |-> source[i], fresh |-> FALSE]]

IsImage(source, seg, covered) ==
    /\ seg \in Seq(Seq(Marked)) /\ Len(seg) = Len(source)
    /\ \A i \in 1..Len(source) :
          /\ i \notin covered => seg[i] = <<Kept(source)[i]>>
          /\ i \in covered => \A r \in 1..Len(seg[i]) : seg[i][r].fresh = TRUE
          /\ i \in covered /\ i - 1 \notin covered => Len(seg[i]) # 0

(* A hunk whose first line is like no other fits at that line only, and only *)
(* if all its lines are still the source's.                                  *)
LEMMA FitsAtItsLine ==
    ASSUME NEW source \in Seq(SourceLines), NEW seg, NEW covered, IsImage(source, seg, covered),
           NEW hunk, NEW a \in 1..Len(source), NEW e \in a..Len(source), hunk.old = SubSeq(source, a, e),
           \A i \in 1..Len(source) : source[i] = source[a] => i = a,
           NEW p \in Fits(FlattenSeq(seg), hunk)
    PROVE  p = Len(Part(seg, 1, a - 1)) + 1 /\ \A i \in a..e : i \notin covered
<1> DEFINE image == FlattenSeq(seg)
           off(i) == Len(Part(seg, 1, i))
<1>1. /\ Len(source) \in Nat /\ seg \in Seq(Seq(Marked)) /\ Len(seg) = Len(source)
      /\ \A i \in 1..Len(source) : source[i] \in SourceLines
  BY DEF IsImage
<1>2. \A i \in 1..Len(source) : Kept(source)[i] = [line |-> source[i], fresh |-> FALSE]
  <2>1. DOMAIN source = 1..Len(source)
    OBVIOUS
  <2>2. QED
    BY <2>1 DEF Kept
<1>3. image \in Seq(Marked)
  BY <1>1, PartAll
<1>4. Len(hunk.old) = e - a + 1 /\ \A k \in 1..(e - a + 1) : hunk.old[k] = source[a + k - 1]
  <2>1. a \in Int /\ e \in Int /\ \A i \in a..e : source[i] \in SourceLines
    BY <1>1
  <2>2. /\ Len(SubSeq(source, a, e)) = IF a <= e THEN e - a + 1 ELSE 0
        /\ \A k \in 1..(e - a + 1) : SubSeq(source, a, e)[k] = source[a + k - 1]
    BY <2>1, SubSeqProperties
  <2>3. QED
    BY <2>2
<1>5. /\ p \in Nat \ {0} /\ p + (e - a) <= Len(image)
      /\ \A k \in 1..(e - a + 1) : image[p + k - 1] = [line |-> source[a + k - 1], fresh |-> FALSE]
  <2>1. /\ p \in 1..(Len(image) - Len(hunk.old) + 1)
        /\ \A k \in DOMAIN hunk.old : image[p + k - 1] = [line |-> hunk.old[k], fresh |-> FALSE]
    BY DEF Fits
  <2>2. DOMAIN hunk.old = 1..(e - a + 1)
    <3>1. SubSeq(source, a, e) \in Seq(SourceLines)
      BY <1>1, SubSeqProperties
    <3>2. QED
      BY <1>4, <3>1
  <2> HIDE DEF image
  <2>3. Len(image) \in Nat /\ a \in Nat /\ e \in Nat /\ e - a \in Nat
    BY <1>3
  <2>4. p \in 1..(Len(image) - (e - a + 1) + 1)
    BY <1>4, <2>1
  <2>5. p \in Nat \ {0} /\ p + (e - a) <= Len(image)
    BY <2>3, <2>4
  <2>6. QED
    BY <1>4, <2>1, <2>2, <2>5
<1>6. \A i \in 1..Len(source) : \A r \in 1..Len(seg[i]) :
         /\ off(i - 1) + r \in 1..Len(image) /\ image[off(i - 1) + r] = seg[i][r]
  <2> SUFFICES ASSUME NEW i \in 1..Len(source), NEW r \in 1..Len(seg[i])
               PROVE  off(i - 1) + r \in 1..Len(image) /\ image[off(i - 1) + r] = seg[i][r]
    OBVIOUS
  <2>1. seg \in Seq(Seq(Marked)) /\ i \in 1..Len(seg)
    BY <1>1
  <2>2. QED
    BY <2>1, AtPlace
<1>7. \A i \in 1..Len(source) : off(i - 1) \in Nat /\ (i \notin covered => off(i) = off(i - 1) + 1)
  <2> SUFFICES ASSUME NEW i \in 1..Len(source)
               PROVE  off(i - 1) \in Nat /\ (i \notin covered => off(i) = off(i - 1) + 1)
    OBVIOUS
  <2> DEFINE x == Part(seg, 1, i - 1)
  <2>1. Part(seg, 1, i) = x \o seg[i] /\ x \in Seq(Marked)
    <3>1. 1 \in 1..Len(seg) /\ i \in 1..Len(seg)
      BY <1>1
    <3>2. QED
      BY <1>1, <3>1, PartLast
  <2> HIDE DEF x
  <2>2. Len(x) \in Nat
    BY <2>1
  <2>3. ASSUME i \notin covered PROVE Len(x \o seg[i]) = Len(x) + 1
    <3>1. seg[i] = <<Kept(source)[i]>>
      BY <2>3 DEF IsImage
    <3>2. QED
      BY <2>1, <3>1
  <2>4. QED
    BY <2>1, <2>2, <2>3 DEF x
<1>8. ASSUME NEW i \in 1..Len(source), NEW r \in 1..Len(seg[i]), seg[i][r].fresh = FALSE
      PROVE  i \notin covered /\ r = 1 /\ seg[i][r].line = source[i]
  <2>1. i \notin covered
    BY <1>8 DEF IsImage
  <2>2. seg[i] = <<[line |-> source[i], fresh |-> FALSE]>>
    BY <1>2, <2>1 DEF IsImage
  <2>3. QED
    BY <2>1, <2>2
<1> DEFINE T == {k \in (a - 1)..e : k # a - 1 => k \notin covered /\ off(k - 1) + 1 = p + (k - a)}
<1>9. a \notin covered /\ off(a - 1) + 1 = p
  <2>1. p \in 1..Len(image) /\ image[p] = [line |-> source[a], fresh |-> FALSE]
    <3>1. p + 1 - 1 = p /\ a + 1 - 1 = a /\ 1 \in 1..(e - a + 1)
      BY <1>5
    <3>2. image[p] = [line |-> source[a], fresh |-> FALSE]
      BY <1>5, <3>1
    <3>3. Len(image) \in Nat
      BY <1>3
    <3> HIDE DEF image
    <3>4. p \in 1..Len(image)
      BY <1>5, <3>3
    <3>5. QED
      BY <3>2, <3>4
  <2>2. PICK i \in 1..Len(source) : \E r \in 1..Len(seg[i]) : p = off(i - 1) + r
    <3>1. \E i \in 1..Len(seg) : \E r \in 1..Len(seg[i]) : p = Len(Part(seg, 1, i - 1)) + r
      BY <1>1, <2>1, PlaceOf
    <3>2. QED
      BY <1>1, <3>1
  <2>3. PICK r \in 1..Len(seg[i]) : p = off(i - 1) + r
    BY <2>2
  <2>4. seg[i][r] = [line |-> source[a], fresh |-> FALSE]
    BY <1>6, <2>1, <2>3
  <2>5. i \notin covered /\ r = 1 /\ source[i] = source[a]
    <3>1. seg[i][r].fresh = FALSE /\ seg[i][r].line = source[a]
      BY <2>4
    <3>2. i \notin covered /\ r = 1 /\ seg[i][r].line = source[i]
      BY <1>8, <3>1
    <3>3. QED
      BY <3>1, <3>2
  <2>6. i = a
    BY <2>5
  <2> HIDE DEF off
  <2>7. QED
    BY <2>3, <2>5, <2>6
<1>10. ASSUME NEW k \in a..e, k - 1 \in T PROVE k \in T
  <2> HIDE DEF off, image
  <2>1. CASE k = a
    <3>1. p + (k - a) = p
      BY <1>5, <2>1
    <3>2. QED
      BY <1>9, <2>1, <3>1
  <2>2. CASE k # a
    <3>1. /\ k - 1 \in 1..Len(source) /\ k \in 1..Len(source) /\ k - 1 # a - 1
          /\ k - a + 1 \in 1..(e - a + 1) /\ a + (k - a + 1) - 1 = k
      BY <1>1, <2>2
    <3>2. k - 1 \notin covered /\ off((k - 1) - 1) + 1 = p + ((k - 1) - a)
      BY <1>10, <3>1
    <3>3. off(k - 1) + 1 = p + (k - a)
      <4>1. off((k - 1) - 1) \in Nat /\ off(k - 1) = off((k - 1) - 1) + 1
        BY <1>7, <3>1, <3>2
      <4>2. QED
        BY <1>5, <3>2, <4>1
    <3>4. image[off(k - 1) + 1] = [line |-> source[k], fresh |-> FALSE]
      <4>1. p + (k - a + 1) - 1 = p + (k - a)
        BY <1>5
      <4>2. QED
        BY <1>5, <3>1, <3>3, <4>1
    <3>5. k \notin covered
      <4> SUFFICES ASSUME k \in covered PROVE FALSE
        OBVIOUS
      <4>1. Len(seg[k]) # 0 /\ \A r \in 1..Len(seg[k]) : seg[k][r].fresh = TRUE
        BY <3>1, <3>2 DEF IsImage
      <4>2. Len(seg[k]) \in Nat
        BY <1>1, <3>1
      <4>3. 1 \in 1..Len(seg[k])
        BY <4>1, <4>2
      <4>4. image[off(k - 1) + 1] = seg[k][1]
        BY <1>6, <3>1, <4>3
      <4>5. QED
        BY <3>4, <4>1, <4>3, <4>4
    <3>6. QED
      BY <3>3, <3>5
  <2>3. QED
    BY <2>1, <2>2
<1>11. (a - 1)..e \subseteq T
  <2>1. a - 1 \in T /\ a \in Nat \ {0} /\ e \in Nat
    BY <1>1
  <2> HIDE DEF T
  <2>2. QED
    BY <1>10, <2>1, InductionFrom
<1>12. \A i \in a..e : i \notin covered
  <2>1. \A i \in a..e : i \in (a - 1)..e /\ i # a - 1
    OBVIOUS
  <2>2. QED
    BY <1>11, <2>1
<1> HIDE DEF off
<1>13. p = off(a - 1) + 1
  BY <1>9
<1>14. QED
  BY <1>12, <1>13 DEF off

(* What is before the middle of a sequence and what is after it.             *)
LEMMA AroundMiddle ==
    ASSUME NEW S, NEW x \in Seq(S), NEW y \in Seq(S), NEW z \in Seq(S)
    PROVE  /\ SubSeq((x \o y) \o z, 1, Len(x)) = x
           /\ SubSeq((x \o y) \o z, Len(x) + 1 + Len(y), Len((x \o y) \o z)) = z
<1> DEFINE whole == (x \o y) \o z
<1>1. /\ whole \in Seq(S) /\ Len(whole) = Len(x) + Len(y) + Len(z)
      /\ Len(x) \in Nat /\ Len(y) \in Nat /\ Len(z) \in Nat
  OBVIOUS
<1>2. \A k \in 1..Len(whole) : whole[k] \in S
  <2> HIDE DEF whole
  <2>1. QED
    BY <1>1
<1>3. \A k \in 1..Len(x) : whole[k] = x[k]
  OBVIOUS
<1>4. \A k \in 1..Len(z) : whole[Len(x) + Len(y) + k] = z[k]
  OBVIOUS
<1> HIDE DEF whole
<1>5. SubSeq(whole, 1, Len(x)) = x
  <2>1. 1 \in Int /\ Len(x) \in Int /\ \A k \in 1..Len(x) : whole[k] \in S
    BY <1>1, <1>2
  <2>2. /\ SubSeq(whole, 1, Len(x)) \in Seq(S)
        /\ Len(SubSeq(whole, 1, Len(x))) = IF 1 <= Len(x) THEN Len(x) - 1 + 1 ELSE 0
        /\ \A k \in 1..(Len(x) - 1 + 1) : SubSeq(whole, 1, Len(x))[k] = whole[1 + k - 1]
    BY <2>1, SubSeqProperties
  <2>3. Len(SubSeq(whole, 1, Len(x))) = Len(x)
    BY <1>1, <2>2
  <2>4. \A k \in 1..Len(x) : SubSeq(whole, 1, Len(x))[k] = x[k]
    BY <1>1, <1>3, <2>2
  <2>5. QED
    BY <2>2, <2>3, <2>4, SeqEqual
<1>6. SubSeq(whole, Len(x) + 1 + Len(y), Len(whole)) = z
  <2> DEFINE m == Len(x) + 1 + Len(y)
             after == SubSeq(whole, m, Len(whole))
  <2>1. m \in Int /\ Len(whole) \in Int /\ \A k \in m..Len(whole) : whole[k] \in S
    BY <1>1, <1>2
  <2>2. /\ after \in Seq(S) /\ Len(after) = IF m <= Len(whole) THEN Len(whole) - m + 1 ELSE 0
        /\ \A k \in 1..(Len(whole) - m + 1) : after[k] = whole[m + k - 1]
    <3> HIDE DEF m
    <3>1. QED
      BY <2>1, SubSeqProperties
  <2>3. Len(after) = Len(z) /\ \A k \in 1..Len(z) : m + k - 1 = Len(x) + Len(y) + k
    BY <1>1, <2>2
  <2>4. \A k \in 1..Len(z) : after[k] = z[k]
    <3>1. Len(whole) - m + 1 = Len(z)
      BY <1>1
    <3> HIDE DEF m, after
    <3>2. QED
      BY <1>4, <2>2, <2>3, <3>1
  <2> HIDE DEF after
  <2>5. after = z
    BY <2>2, <2>3, <2>4, SeqEqual
  <2>6. QED
    BY <2>5 DEF after
<1>7. QED
  BY <1>5, <1>6 DEF whole

Freshen == [l \in SourceLines |-> [line |-> l, fresh |-> TRUE]]

(* next is seg with the new lines of the hunk for its old, lines a to e.      *)
Replaces(source, hunk, a, e, seg, next) ==
    /\ source \in Seq(SourceLines) /\ hunk.start \in Int /\ hunk.new \in Seq(SourceLines)
    /\ a \in 1..Len(source) /\ e \in a..Len(source) /\ hunk.old = SubSeq(source, a, e)
    /\ \A i \in 1..Len(source) : source[i] = source[a] => i = a
    /\ next \in Seq(Seq(Marked)) /\ Len(next) = Len(source)
    /\ \A i \in 1..Len(source) : i \notin a..e => next[i] = seg[i]
    /\ Part(next, a, e) = OnEach(Freshen, hunk.new)

(* A hunk applied to such a file fails, or it replaces what stood where its  *)
(* old lines were.                                                           *)
LEMMA ApplyStep ==
    ASSUME NEW source, NEW hunk, NEW a, NEW e, NEW seg, NEW next, NEW covered,
           Replaces(source, hunk, a, e, seg, next), IsImage(source, seg, covered),
           ApplyHunk(FlattenSeq(seg), hunk) # Failed
    PROVE  ApplyHunk(FlattenSeq(seg), hunk) = FlattenSeq(next) /\ \A i \in a..e : i \notin covered
<1> DEFINE image == FlattenSeq(seg)
           x == Part(seg, 1, a - 1)
           y == Part(seg, a, e)
           z == Part(seg, e + 1, Len(source))
           p == CHOOSE p \in Fits(image, hunk) :
                     \A q \in Fits(image, hunk) : Distance(p, hunk.start) <= Distance(q, hunk.start)
           fresh == [k \in DOMAIN hunk.new |-> [line |-> hunk.new[k], fresh |-> TRUE]]
<1> USE DEF Replaces
<1>1. /\ Len(source) \in Nat /\ seg \in Seq(Seq(Marked)) /\ Len(seg) = Len(source)
      /\ a \in Nat /\ e \in Nat
  BY DEF IsImage
<1>2. \A u, v, w \in Seq(Marked) :
         /\ SubSeq((u \o v) \o w, 1, Len(u)) = u
         /\ SubSeq((u \o v) \o w, Len(u) + 1 + Len(v), Len((u \o v) \o w)) = w
  BY AroundMiddle
<1>3. \A i \in Nat \ {0}, j \in Nat :
         /\ j <= Len(next) /\ j <= Len(seg)
         /\ \A k \in i..j : next[k] = seg[k]
         => Part(next, i, j) = Part(seg, i, j)
  <2> SUFFICES ASSUME NEW i \in Nat \ {0}, NEW j \in Nat, j <= Len(next), j <= Len(seg),
                      \A k \in i..j : next[k] = seg[k]
               PROVE  Part(next, i, j) = Part(seg, i, j)
    OBVIOUS
  <2>1. seg \in Seq(Seq(Marked))
    BY <1>1
  <2> HIDE DEF Part
  <2>2. QED
    BY <2>1, PartSame
<1>4. /\ Fits(image, hunk) # {}
      /\ ApplyHunk(image, hunk) = SubSeq(image, 1, p - 1) \o fresh \o SubSeq(image, p + Len(hunk.old), Len(image))
  BY DEF ApplyHunk
<1>5. \A q \in Fits(image, hunk) : q = Len(x) + 1 /\ \A i \in a..e : i \notin covered
  BY FitsAtItsLine
<1>6. x \in Seq(Marked) /\ y \in Seq(Marked) /\ z \in Seq(Marked) /\ Len(x) \in Nat
  <2>1. /\ 1 \in 1..(Len(seg) + 1) /\ a - 1 \in 0..Len(seg) /\ a \in 1..(Len(seg) + 1) /\ e \in 0..Len(seg)
        /\ e + 1 \in 1..(Len(seg) + 1) /\ Len(source) \in 0..Len(seg)
    BY <1>1
  <2>2. x \in Seq(Marked) /\ y \in Seq(Marked) /\ z \in Seq(Marked)
    BY <1>1, <2>1, PartType
  <2> HIDE DEF x
  <2>3. QED
    BY <2>2
<1>7. p = Len(x) + 1 /\ \A i \in a..e : i \notin covered
  <2>1. Len(x) + 1 \in Fits(image, hunk)
    BY <1>4, <1>5
  <2>2. Distance(Len(x) + 1, hunk.start) <= Distance(Len(x) + 1, hunk.start)
    <3> HIDE DEF x
    <3>1. Distance(Len(x) + 1, hunk.start) \in Int
      BY <1>6 DEF Distance
    <3>2. QED
      BY <3>1
  <2> HIDE DEF x, image
  <2>3. p \in Fits(image, hunk)
    BY <1>5, <2>1, <2>2
  <2>4. QED
    BY <1>5, <2>3
<1>8. Len(y) = Len(hunk.old)
  <2>1. Kept(source) \in Seq(Marked) /\ Len(Kept(source)) = Len(source)
    BY DEF Kept, Marked
  <2>2. \A i \in a..e : i \in 1..Len(source) /\ i \notin covered
    BY <1>1, <1>7
  <2>3. \A i \in a..e : seg[i] = <<Kept(source)[i]>>
    BY <2>2 DEF IsImage
  <2>4. /\ Len(Kept(source)) = Len(seg) /\ a \in 1..(Len(seg) + 1) /\ e \in (a - 1)..Len(seg)
    BY <1>1, <2>1
  <2>5. y = SubSeq(Kept(source), a, e)
    BY <1>1, <2>1, <2>3, <2>4, PartSingles
  <2>6. /\ \A i \in a..e : Kept(source)[i] \in Marked /\ source[i] \in SourceLines
        /\ a \in Int /\ e \in Int /\ a <= e
    BY <1>1, <2>1
  <2>7. Len(SubSeq(Kept(source), a, e)) = e - a + 1
    BY <2>6, SubSeqProperties
  <2>8. Len(SubSeq(source, a, e)) = e - a + 1
    BY <2>6, SubSeqProperties
  <2>9. QED
    BY <2>5, <2>7, <2>8
<1>9. image = (x \o y) \o z
  <2>1. /\ 1 \in 1..(Len(seg) + 1) /\ a - 1 \in (1 - 1)..Len(seg) /\ e \in (1 - 1)..Len(seg) /\ e \in (a - 1)..Len(seg)
        /\ Len(seg) \in e..Len(seg) /\ (a - 1) + 1 = a
    BY <1>1
  <2>2. Part(seg, 1, e) = Part(seg, 1, a - 1) \o Part(seg, (a - 1) + 1, e)
    BY <1>1, <2>1, PartJoin
  <2>3. Part(seg, 1, Len(seg)) = Part(seg, 1, e) \o Part(seg, e + 1, Len(seg))
    BY <1>1, <2>1, PartJoin
  <2>4. Part(seg, 1, Len(seg)) = image
    BY <1>1, PartAll
  <2>5. QED
    BY <1>1, <2>1, <2>2, <2>3, <2>4
<1>10. SubSeq(image, 1, p - 1) = x /\ SubSeq(image, p + Len(hunk.old), Len(image)) = z
  <2> HIDE DEF x, y, z, image, p
  <2>1. /\ SubSeq((x \o y) \o z, 1, Len(x)) = x
        /\ SubSeq((x \o y) \o z, Len(x) + 1 + Len(y), Len((x \o y) \o z)) = z
    BY <1>6, <1>2
  <2>2. p - 1 = Len(x)
    BY <1>6, <1>7
  <2>3. QED
    BY <1>7, <1>8, <1>9, <2>1, <2>2
<1>11. fresh = Part(next, a, e)
  <2>1. \A k \in DOMAIN hunk.new : hunk.new[k] \in SourceLines
    OBVIOUS
  <2>2. OnEach(Freshen, hunk.new) = fresh
    BY <2>1 DEF OnEach, Freshen
  <2>3. QED
    BY <2>2
<1>12. FlattenSeq(next) = (x \o Part(next, a, e)) \o z
  <2>1. /\ 1 \in 1..(Len(next) + 1) /\ a - 1 \in (1 - 1)..Len(next) /\ e \in (1 - 1)..Len(next) /\ e \in (a - 1)..Len(next)
        /\ Len(next) \in e..Len(next) /\ (a - 1) + 1 = a
    BY <1>1
  <2>2. Part(next, 1, e) = Part(next, 1, a - 1) \o Part(next, (a - 1) + 1, e)
    BY <1>1, <2>1, PartJoin
  <2>3. Part(next, 1, Len(next)) = Part(next, 1, e) \o Part(next, e + 1, Len(next))
    BY <1>1, <2>1, PartJoin
  <2>4. Part(next, 1, Len(next)) = FlattenSeq(next)
    BY <1>1, PartAll
  <2>5. Part(next, 1, a - 1) = x
    <3>1. /\ 1 \in Nat \ {0} /\ a - 1 \in Nat /\ a - 1 <= Len(next) /\ a - 1 <= Len(seg)
          /\ \A k \in 1..(a - 1) : next[k] = seg[k]
      BY <1>1
    <3>2. QED
      BY <1>3, <3>1
  <2>6. Part(next, e + 1, Len(next)) = z
    <3>1. /\ e + 1 \in Nat \ {0} /\ Len(next) \in Nat /\ Len(next) <= Len(next) /\ Len(next) <= Len(seg)
          /\ \A k \in (e + 1)..Len(next) : next[k] = seg[k]
      BY <1>1
    <3>2. Part(next, e + 1, Len(next)) = Part(seg, e + 1, Len(next))
      BY <1>3, <3>1
    <3>3. QED
      BY <3>2
  <2>7. QED
    BY <2>1, <2>2, <2>3, <2>4, <2>5, <2>6
<1>13. QED
  <2> HIDE DEF x, y, z, image, p, fresh
  <2>1. ApplyHunk(image, hunk) = (x \o fresh) \o z
    BY <1>4, <1>10
  <2>2. ApplyHunk(image, hunk) = FlattenSeq(next)
    BY <1>11, <1>12, <2>1
  <2>3. QED
    BY <1>7, <2>2 DEF image

LEMMA LinesAssociate == \A u, v, w \in Seq(SourceLines) : u \o (v \o w) = (u \o v) \o w
<1> SUFFICES ASSUME NEW u \in Seq(SourceLines), NEW v \in Seq(SourceLines), NEW w \in Seq(SourceLines)
             PROVE  u \o (v \o w) = (u \o v) \o w
  OBVIOUS
<1>1. QED
  BY ConcatAssociative

(***************************************************************************)
(* One hunk: what it means, line after line of its body.                   *)
(***************************************************************************)
BodyLine == [kind : {"context", "removal", "addition"}, line : SourceLines]
Bodies == Seq(BodyLine)
OldOf(body) == [k \in DOMAIN body |-> IF body[k].kind = "addition" THEN <<>> ELSE <<body[k].line>>]
NewOf(body) == [k \in DOMAIN body |-> IF body[k].kind = "removal" THEN <<>> ELSE <<body[k].line>>]

(* The line of the source that the first k lines of the body come to, if the *)
(* anchor is line a.                                                         *)
Reached(body, a, k) == a + Len(Part(OldOf(body), 1, k))
InsertsOf(body, a, i) ==
    [k \in DOMAIN body |->
        IF body[k].kind = "addition" /\ Reached(body, a, k) = i THEN <<body[k].line>> ELSE <<>>]

(* What becomes of line i by the first k lines of the body.                  *)
EditUpto(source, body, a, k) ==
    [i \in 1..Len(source) |->
        (IF \E j \in 1..k : body[j].kind = "removal" /\ Reached(body, a, j) = i THEN <<>> ELSE <<source[i]>>)
        \o Part(InsertsOf(body, a, i), 1, k)]

LEMMA BodyLines ==
    ASSUME NEW body \in Bodies
    PROVE  /\ Len(body) \in Nat /\ DOMAIN body = 1..Len(body)
           /\ \A k \in 1..Len(body) : body[k].line \in SourceLines
           /\ OldOf(body) \in Seq(Seq(SourceLines)) /\ Len(OldOf(body)) = Len(body)
           /\ NewOf(body) \in Seq(Seq(SourceLines)) /\ Len(NewOf(body)) = Len(body)
<1>1. /\ Len(body) \in Nat /\ DOMAIN body = 1..Len(body)
      /\ \A k \in 1..Len(body) : body[k].line \in SourceLines
  <2>1. Len(body) \in Nat /\ DOMAIN body = 1..Len(body) /\ \A k \in 1..Len(body) : body[k] \in BodyLine
    BY DEF Bodies
  <2>2. QED
    BY <2>1 DEF BodyLine
<1>2. \A k \in 1..Len(body) : <<>> \in Seq(SourceLines) /\ <<body[k].line>> \in Seq(SourceLines)
  BY <1>1
<1>3. OldOf(body) \in Seq(Seq(SourceLines)) /\ Len(OldOf(body)) = Len(body)
  BY <1>1, <1>2 DEF OldOf
<1>4. NewOf(body) \in Seq(Seq(SourceLines)) /\ Len(NewOf(body)) = Len(body)
  BY <1>1, <1>2 DEF NewOf
<1>5. QED
  BY <1>1, <1>3, <1>4

LEMMA InsertedLines ==
    ASSUME NEW body \in Bodies, NEW a, NEW i
    PROVE  InsertsOf(body, a, i) \in Seq(Seq(SourceLines)) /\ Len(InsertsOf(body, a, i)) = Len(body)
<1>1. /\ Len(body) \in Nat /\ DOMAIN body = 1..Len(body)
      /\ \A k \in 1..Len(body) : body[k].line \in SourceLines
  BY BodyLines
<1>2. \A k \in 1..Len(body) : <<>> \in Seq(SourceLines) /\ <<body[k].line>> \in Seq(SourceLines)
  BY <1>1
<1>3. QED
  BY <1>1, <1>2 DEF InsertsOf

LEMMA ReachedStep ==
    ASSUME NEW body \in Bodies, NEW a \in Nat
    PROVE  /\ Reached(body, a, 0) = a
           /\ \A k \in 0..Len(body) : Reached(body, a, k) \in Nat
           /\ \A k \in 1..Len(body) :
                 Reached(body, a, k) = Reached(body, a, k - 1) + (IF body[k].kind = "addition" THEN 0 ELSE 1)
           /\ Reached(body, a, Len(body)) = a + Len(Old(body))
<1>1. /\ OldOf(body) \in Seq(Seq(SourceLines)) /\ Len(OldOf(body)) = Len(body) /\ Len(body) \in Nat
      /\ DOMAIN body = 1..Len(body) /\ \A k \in 1..Len(body) : body[k].line \in SourceLines
  BY BodyLines
<1>2. \A u, v \in Seq(SourceLines) : Len(u \o v) = Len(u) + Len(v) /\ Len(u) \in Nat
  OBVIOUS
<1>3. Reached(body, a, 0) = a
  <2>1. Part(OldOf(body), 1, 0) = <<>>
    BY PartNone
  <2>2. QED
    BY <2>1 DEF Reached
<1>4. \A k \in 0..Len(body) : Part(OldOf(body), 1, k) \in Seq(SourceLines)
  BY <1>1, PartType
<1>5. ASSUME NEW k \in 0..Len(body) PROVE Reached(body, a, k) \in Nat
  <2> DEFINE x == Part(OldOf(body), 1, k)
  <2>1. x \in Seq(SourceLines)
    BY <1>4
  <2> HIDE DEF x
  <2>2. a + Len(x) \in Nat
    BY <2>1
  <2>3. QED
    BY <2>2 DEF x, Reached
<1>6. ASSUME NEW k \in 1..Len(body)
      PROVE  Reached(body, a, k) = Reached(body, a, k - 1) + (IF body[k].kind = "addition" THEN 0 ELSE 1)
  <2> DEFINE x == Part(OldOf(body), 1, k - 1)
             l == OldOf(body)[k]
  <2>1. Part(OldOf(body), 1, k) = x \o l /\ x \in Seq(SourceLines)
    <3>1. 1 \in 1..Len(OldOf(body)) /\ k \in 1..Len(OldOf(body))
      BY <1>1
    <3>2. QED
      BY <1>1, <3>1, PartLast
  <2>2. l = IF body[k].kind = "addition" THEN <<>> ELSE <<body[k].line>>
    BY <1>1 DEF OldOf
  <2>3. l \in Seq(SourceLines) /\ Len(l) = IF body[k].kind = "addition" THEN 0 ELSE 1
    <3>1. body[k].line \in SourceLines
      BY <1>1
    <3> HIDE DEF l
    <3>2. QED
      BY <2>2, <3>1
  <2> HIDE DEF x, l
  <2>4. a + Len(x \o l) = (a + Len(x)) + (IF body[k].kind = "addition" THEN 0 ELSE 1)
    <3>1. Len(x \o l) = Len(x) + Len(l) /\ Len(x) \in Nat
      BY <1>2, <2>1, <2>3
    <3>2. QED
      BY <2>3, <3>1
  <2>5. QED
    BY <2>1, <2>4 DEF x, Reached
<1>7. Reached(body, a, Len(body)) = a + Len(Old(body))
  <2>1. Part(OldOf(body), 1, Len(body)) = FlattenSeq(OldOf(body))
    BY <1>1, PartAll
  <2>2. QED
    BY <2>1 DEF Reached, Old, OldOf
<1>8. QED
  BY <1>3, <1>5, <1>6, <1>7

LEMMA ReachedGrows ==
    ASSUME NEW body \in Bodies, NEW a \in Nat, NEW k \in 0..Len(body), NEW j \in 0..k
    PROVE  Reached(body, a, j) <= Reached(body, a, k)
<1> DEFINE T == {m \in 0..(Len(body) - j) : Reached(body, a, j) <= Reached(body, a, j + m)}
<1>1. /\ Len(body) \in Nat /\ Len(body) - j \in Nat /\ j \in Nat /\ k - j \in 0..(Len(body) - j)
      /\ j + (k - j) = k /\ j \in 0..Len(body)
  BY BodyLines
<1>2. 0 \in T
  <2>1. Reached(body, a, j) \in Nat
    BY <1>1, ReachedStep
  <2>2. j + 0 = j /\ 0 \in 0..(Len(body) - j)
    BY <1>1
  <2> HIDE DEF Reached
  <2>3. QED
    BY <2>1, <2>2
<1>3. ASSUME NEW m \in 1..(Len(body) - j), m - 1 \in T PROVE m \in T
  <2>1. j + m \in 1..Len(body) /\ (j + m) - 1 = j + (m - 1) /\ j + (m - 1) \in 0..Len(body)
    BY <1>1
  <2>2. /\ Reached(body, a, j + m) = Reached(body, a, j + (m - 1)) + (IF body[j + m].kind = "addition" THEN 0 ELSE 1)
        /\ Reached(body, a, j + (m - 1)) \in Nat /\ Reached(body, a, j) \in Nat
    <3>1. \A i \in 1..Len(body) :
             Reached(body, a, i) = Reached(body, a, i - 1) + (IF body[i].kind = "addition" THEN 0 ELSE 1)
      BY ReachedStep
    <3>2. \A i \in 0..Len(body) : Reached(body, a, i) \in Nat
      BY ReachedStep
    <3>3. QED
      BY <1>1, <2>1, <3>1, <3>2
  <2> HIDE DEF Reached
  <2>3. QED
    BY <1>1, <1>3, <2>2
<1>4. 0..(Len(body) - j) \subseteq T
  <2> HIDE DEF T
  <2>1. QED
    BY <1>1, <1>2, <1>3, InductionTo
<1>5. QED
  BY <1>1, <1>4

(* The body's own lines are those of the source, if the hunk is not refused. *)
LEMMA LineReached ==
    ASSUME NEW source \in Seq(SourceLines), NEW body \in Bodies, NEW a \in 1..Len(source),
           a + Len(Old(body)) <= Len(source),
           SubSeq(source, a + 1, a + Len(Old(body))) = Old(body),
           NEW k \in 1..Len(body), body[k].kind # "addition"
    PROVE  /\ Reached(body, a, k) \in 1..Len(source) /\ source[Reached(body, a, k)] = body[k].line
           /\ Reached(body, a, k) = Reached(body, a, k - 1) + 1
<1> DEFINE r == Len(Part(OldOf(body), 1, k - 1)) + 1
           L == Len(Old(body))
<1>1. /\ OldOf(body) \in Seq(Seq(SourceLines)) /\ Len(OldOf(body)) = Len(body) /\ Len(body) \in Nat
      /\ DOMAIN body = 1..Len(body) /\ Len(source) \in Nat
      /\ \A i \in 1..Len(source) : source[i] \in SourceLines
  BY BodyLines
<1>2. Old(body) = FlattenSeq(OldOf(body)) /\ Old(body) \in Seq(SourceLines) /\ L \in Nat
  <2>1. Old(body) = FlattenSeq(OldOf(body))
    BY DEF Old, OldOf
  <2>2. Old(body) \in Seq(SourceLines)
    BY <1>1, <2>1, PartAll
  <2>3. QED
    BY <2>1, <2>2
<1>3. OldOf(body)[k] = <<body[k].line>>
  BY <1>1 DEF OldOf
<1>4. r \in 1..L /\ Old(body)[r] = body[k].line
  <2>1. k \in 1..Len(OldOf(body)) /\ 1 \in 1..Len(OldOf(body)[k])
    BY <1>1, <1>3
  <2>2. /\ Len(Part(OldOf(body), 1, k - 1)) + 1 \in 1..Len(FlattenSeq(OldOf(body)))
        /\ FlattenSeq(OldOf(body))[Len(Part(OldOf(body), 1, k - 1)) + 1] = OldOf(body)[k][1]
    BY <1>1, <2>1, AtPlace
  <2>3. QED
    BY <1>2, <1>3, <2>2
<1>5. Reached(body, a, k) = Reached(body, a, k - 1) + 1 /\ Reached(body, a, k - 1) \in Nat
  <2>1. k - 1 \in 0..Len(body) /\ a \in Nat
    BY <1>1
  <2>2. QED
    BY <2>1, ReachedStep
<1>6. Reached(body, a, k) = a + r
  <2>1. Len(Part(OldOf(body), 1, k - 1)) \in Nat
    <3>1. k - 1 \in 0..Len(OldOf(body)) /\ 1 \in 1..(Len(OldOf(body)) + 1)
      BY <1>1
    <3>2. Part(OldOf(body), 1, k - 1) \in Seq(SourceLines)
      BY <1>1, <3>1, PartType
    <3> HIDE DEF Part
    <3>3. QED
      BY <3>2
  <2>2. QED
    BY <1>5, <2>1 DEF Reached
<1>7. source[a + r] = Old(body)[r]
  <2> HIDE DEF r
  <2>1. /\ a + 1 \in Int /\ a + L \in Int /\ \A i \in (a + 1)..(a + L) : source[i] \in SourceLines
    BY <1>1, <1>2
  <2>2. \A i \in 1..(a + L - (a + 1) + 1) : SubSeq(source, a + 1, a + L)[i] = source[a + 1 + i - 1]
    BY <2>1, SubSeqProperties
  <2>3. r \in 1..(a + L - (a + 1) + 1) /\ a + 1 + r - 1 = a + r
    BY <1>2, <1>4
  <2>4. QED
    BY <2>2, <2>3
<1>8. a + r \in 1..Len(source)
  <2> HIDE DEF r, L
  <2>1. a + L <= Len(source)
    BY DEF L
  <2>2. QED
    BY <1>1, <1>2, <1>4, <2>1
<1> HIDE DEF r
<1>9. QED
  BY <1>4, <1>5, <1>6, <1>7, <1>8

LEMMA EditUptoType ==
    ASSUME NEW source \in Seq(SourceLines), NEW body \in Bodies, NEW a, NEW k \in 0..Len(body)
    PROVE  /\ EditUpto(source, body, a, k) \in Seq(Seq(SourceLines))
           /\ Len(EditUpto(source, body, a, k)) = Len(source)
           /\ \A i \in 1..Len(source) : Part(InsertsOf(body, a, i), 1, k) \in Seq(SourceLines)
<1>1. Len(source) \in Nat /\ Len(body) \in Nat /\ \A i \in 1..Len(source) : source[i] \in SourceLines
  BY BodyLines
<1>2. ASSUME NEW i \in 1..Len(source) PROVE Part(InsertsOf(body, a, i), 1, k) \in Seq(SourceLines)
  <2> DEFINE inserts == InsertsOf(body, a, i)
  <2>1. inserts \in Seq(Seq(SourceLines)) /\ Len(inserts) = Len(body)
    BY InsertedLines
  <2>2. 1 \in 1..(Len(inserts) + 1) /\ k \in 0..Len(inserts)
    BY <1>1, <2>1
  <2> HIDE DEF inserts
  <2>3. Part(inserts, 1, k) \in Seq(SourceLines)
    BY <2>1, <2>2, PartType
  <2>4. QED
    BY <2>3 DEF inserts
<1>3. \A u, v \in Seq(SourceLines) : u \o v \in Seq(SourceLines)
  OBVIOUS
<1>4. ASSUME NEW i \in 1..Len(source) PROVE EditUpto(source, body, a, k)[i] \in Seq(SourceLines)
  <2>1. <<>> \in Seq(SourceLines) /\ <<source[i]>> \in Seq(SourceLines)
    BY <1>1
  <2>2. QED
    BY <1>2, <1>3, <2>1 DEF EditUpto
<1>5. EditUpto(source, body, a, k) = [i \in 1..Len(source) |-> EditUpto(source, body, a, k)[i]]
  BY DEF EditUpto
<1>6. EditUpto(source, body, a, k) \in Seq(Seq(SourceLines)) /\ Len(EditUpto(source, body, a, k)) = Len(source)
  <2> DEFINE edit == EditUpto(source, body, a, k)
  <2>1. edit = [i \in 1..Len(source) |-> edit[i]] /\ \A i \in 1..Len(source) : edit[i] \in Seq(SourceLines)
    BY <1>4, <1>5
  <2> HIDE DEF edit
  <2>2. edit \in Seq(Seq(SourceLines)) /\ Len(edit) = Len(source)
    BY <1>1, <2>1
  <2>3. QED
    BY <2>2 DEF edit
<1>7. QED
  BY <1>2, <1>6

(* The k-th line of the body changes the edit at the line it comes to only.  *)
LEMMA EditStep ==
    ASSUME NEW source \in Seq(SourceLines), NEW body \in Bodies, NEW a \in 1..Len(source),
           NEW k \in 1..Len(body), NEW i \in 1..Len(source)
    PROVE  /\ Reached(body, a, k) # i => EditUpto(source, body, a, k)[i] = EditUpto(source, body, a, k - 1)[i]
           /\ Reached(body, a, k) = i =>
                 EditUpto(source, body, a, k)[i] =
                    CASE body[k].kind = "addition" -> EditUpto(source, body, a, k - 1)[i] \o <<body[k].line>>
                      [] body[k].kind = "context" -> <<source[i]>>
                      [] body[k].kind = "removal" -> <<>>
<1> DEFINE inserts == InsertsOf(body, a, i)
           removed(m) == \E j \in 1..m : body[j].kind = "removal" /\ Reached(body, a, j) = i
           before == Part(inserts, 1, k - 1)
           kept(m) == IF removed(m) THEN <<>> ELSE <<source[i]>>
<1>1. /\ Len(body) \in Nat /\ DOMAIN body = 1..Len(body) /\ Len(source) \in Nat /\ a \in Nat /\ source[i] \in SourceLines
      /\ body[k].line \in SourceLines /\ body[k].kind \in {"context", "removal", "addition"}
      /\ k \in Nat \ {0} /\ k - 1 \in 0..Len(body)
  <2>1. body[k] \in BodyLine
    BY DEF Bodies
  <2>2. body[k].line \in SourceLines /\ body[k].kind \in {"context", "removal", "addition"}
    BY <2>1 DEF BodyLine
  <2>3. QED
    BY <2>2, BodyLines
<1>2. inserts \in Seq(Seq(SourceLines)) /\ Len(inserts) = Len(body)
  BY InsertedLines
<1>3. Part(inserts, 1, k) = before \o inserts[k] /\ before \in Seq(SourceLines)
  <2>1. 1 \in 1..Len(inserts) /\ k \in 1..Len(inserts)
    BY <1>1, <1>2
  <2> HIDE DEF inserts
  <2>2. QED
    BY <1>2, <2>1, PartLast
<1>4. inserts[k] = IF body[k].kind = "addition" /\ Reached(body, a, k) = i THEN <<body[k].line>> ELSE <<>>
  BY <1>1 DEF InsertsOf
<1>5. /\ EditUpto(source, body, a, k)[i] = kept(k) \o Part(inserts, 1, k)
      /\ EditUpto(source, body, a, k - 1)[i] = kept(k - 1) \o before
  BY DEF EditUpto
<1>6. removed(k) <=> removed(k - 1) \/ (body[k].kind = "removal" /\ Reached(body, a, k) = i)
  <2>1. \A j \in 1..k : j = k \/ j \in 1..(k - 1)
    BY <1>1
  <2>2. k \in 1..k /\ \A j \in 1..(k - 1) : j \in 1..k
    BY <1>1
  <2>3. QED
    BY <2>1, <2>2
<1>7. \A m : kept(m) \in Seq(SourceLines)
  <2>1. <<>> \in Seq(SourceLines) /\ <<source[i]>> \in Seq(SourceLines)
    BY <1>1
  <2>2. QED
    BY <2>1
<1>8. \A u \in Seq(SourceLines) : u \o <<>> = u
  BY ConcatEmptySeq
<1>9. \A u, v, w \in Seq(SourceLines) : u \o (v \o w) = (u \o v) \o w
  BY LinesAssociate
<1>10. <<>> \in Seq(SourceLines) /\ <<body[k].line>> \in Seq(SourceLines)
  BY <1>1
<1> HIDE DEF before
<1>11. ASSUME Reached(body, a, k) # i
      PROVE  EditUpto(source, body, a, k)[i] = EditUpto(source, body, a, k - 1)[i]
  <2>1. inserts[k] = <<>> /\ (removed(k) <=> removed(k - 1))
    BY <1>4, <1>6, <1>11
  <2> HIDE DEF inserts, removed
  <2>2. Part(inserts, 1, k) = before /\ kept(k) = kept(k - 1)
    BY <1>3, <1>8, <2>1
  <2> HIDE DEF kept
  <2>3. QED
    BY <1>5, <2>2
<1>12. ASSUME Reached(body, a, k) = i, body[k].kind = "addition"
       PROVE  EditUpto(source, body, a, k)[i] = EditUpto(source, body, a, k - 1)[i] \o <<body[k].line>>
  <2>1. inserts[k] = <<body[k].line>> /\ (removed(k) <=> removed(k - 1))
    BY <1>4, <1>6, <1>12
  <2> HIDE DEF inserts, removed
  <2>2. kept(k) = kept(k - 1) /\ kept(k) \in Seq(SourceLines)
    BY <1>7, <2>1
  <2> HIDE DEF kept
  <2>3. EditUpto(source, body, a, k)[i] = kept(k) \o (before \o <<body[k].line>>)
    BY <1>3, <1>5, <2>1
  <2>4. kept(k) \o (before \o <<body[k].line>>) = (kept(k) \o before) \o <<body[k].line>>
    BY <1>3, <1>9, <1>10, <2>2
  <2>5. QED
    BY <1>5, <2>2, <2>3, <2>4
<1>13. ASSUME Reached(body, a, k) = i, body[k].kind # "addition"
       PROVE  EditUpto(source, body, a, k)[i] = IF body[k].kind = "removal" THEN <<>> ELSE <<source[i]>>
  <2>1. \A j \in 1..(k - 1) : Reached(body, a, j) # i
    <3> SUFFICES ASSUME NEW j \in 1..(k - 1) PROVE Reached(body, a, j) # i
      OBVIOUS
    <3>1. k - 1 \in 0..Len(body) /\ j \in 0..(k - 1) /\ j \in 0..Len(body) /\ k \in 0..Len(body)
      BY <1>1
    <3>2. Reached(body, a, j) <= Reached(body, a, k - 1)
      BY <1>1, <3>1, ReachedGrows
    <3>3. \A m \in 1..Len(body) :
             Reached(body, a, m) = Reached(body, a, m - 1) + (IF body[m].kind = "addition" THEN 0 ELSE 1)
      BY <1>1, ReachedStep
    <3>4. \A m \in 0..Len(body) : Reached(body, a, m) \in Nat
      BY <1>1, ReachedStep
    <3>5. Reached(body, a, k) = Reached(body, a, k - 1) + 1
      BY <1>13, <3>3
    <3> HIDE DEF Reached
    <3>6. Reached(body, a, j) \in Nat /\ Reached(body, a, k - 1) \in Nat
      BY <3>1, <3>4
    <3>7. QED
      BY <1>13, <3>2, <3>5, <3>6
  <2>2. removed(k) <=> body[k].kind = "removal"
    BY <1>6, <1>13, <2>1
  <2>3. \A j \in 1..k : inserts[j] = <<>>
    <3>1. \A j \in 1..k : j \in 1..Len(body) /\ (j = k \/ j \in 1..(k - 1))
      BY <1>1
    <3>2. QED
      BY <1>1, <1>13, <2>1, <3>1 DEF InsertsOf
  <2>4. Part(inserts, 1, k) = <<>>
    <3>1. 1 \in 1..(Len(inserts) + 1) /\ k \in (1 - 1)..Len(inserts)
      BY <1>1, <1>2
    <3> HIDE DEF inserts
    <3>2. QED
      BY <1>2, <2>3, <3>1, PartNothing
  <2>5. EditUpto(source, body, a, k)[i] = kept(k) \o <<>> /\ kept(k) \o <<>> = kept(k)
    <3> HIDE DEF kept
    <3>1. QED
      BY <1>5, <1>7, <1>8, <2>4
  <2>6. QED
    BY <2>2, <2>5
<1>14. QED
  BY <1>1, <1>11, <1>12, <1>13

(* A hunk that is not refused means its new lines in the place of its old.   *)
LEMMA HunkEdits ==
    ASSUME NEW source \in Seq(SourceLines), NEW body \in Bodies, NEW a \in 1..Len(source),
           a + Len(Old(body)) <= Len(source),
           SubSeq(source, a + 1, a + Len(Old(body))) = Old(body)
    PROVE  Part(EditUpto(source, body, a, Len(body)), a, a + Len(Old(body))) = <<source[a]>> \o New(body)
<1> DEFINE n == Len(body)
           edit(k) == EditUpto(source, body, a, k)
           at(k) == Reached(body, a, k)
           new == NewOf(body)
           T == {k \in 0..n : Part(edit(k), a, at(k)) = <<source[a]>> \o Part(new, 1, k)}
<1>1. /\ n \in Nat /\ DOMAIN body = 1..n /\ Len(source) \in Nat /\ a \in Nat \ {0}
      /\ new \in Seq(Seq(SourceLines)) /\ Len(new) = n
      /\ source[a] \in SourceLines /\ \A k \in 1..n : body[k].line \in SourceLines
  BY BodyLines
<1>2. \A k \in 0..n : edit(k) \in Seq(Seq(SourceLines)) /\ Len(edit(k)) = Len(source)
  BY EditUptoType
<1>3. \A k \in 0..n : at(k) \in a..Len(source)
  <2> SUFFICES ASSUME NEW k \in 0..n PROVE at(k) \in a..Len(source)
    OBVIOUS
  <2>1. n \in 0..n /\ 0 \in 0..k
    BY <1>1
  <2>2. at(0) = a /\ at(n) = a + Len(Old(body)) /\ at(k) \in Nat
    BY <1>1, ReachedStep
  <2>3. at(0) <= at(k)
    BY <1>1, <2>1, ReachedGrows
  <2>4. at(k) <= at(n)
    BY <1>1, <2>1, ReachedGrows
  <2> HIDE DEF at
  <2>5. QED
    BY <1>1, <2>2, <2>3, <2>4
<1>4. /\ at(0) = a /\ at(n) = a + Len(Old(body))
      /\ \A k \in 1..n : at(k) = at(k - 1) + (IF body[k].kind = "addition" THEN 0 ELSE 1)
  <2>1. at(0) = a /\ at(n) = a + Len(Old(body))
    BY <1>1, ReachedStep
  <2>2. \A k \in 1..n : at(k) = at(k - 1) + (IF body[k].kind = "addition" THEN 0 ELSE 1)
    BY <1>1, ReachedStep
  <2>3. QED
    BY <2>1, <2>2
<1>5. /\ \A u \in Seq(SourceLines) : u \o <<>> = u /\ <<>> \o u = u
      /\ <<source[a]>> \in Seq(SourceLines)
  <2>1. \A u \in Seq(SourceLines) : u \o <<>> = u /\ <<>> \o u = u
    BY ConcatEmptySeq
  <2>2. QED
    BY <1>1, <2>1
<1>6. \A u, v, w \in Seq(SourceLines) : u \o (v \o w) = (u \o v) \o w
  BY LinesAssociate
<1>7. \A k \in 1..n : /\ Part(new, 1, k) = Part(new, 1, k - 1) \o new[k]
                      /\ Part(new, 1, k - 1) \in Seq(SourceLines) /\ new[k] \in Seq(SourceLines)
  <2> SUFFICES ASSUME NEW k \in 1..n
               PROVE  /\ Part(new, 1, k) = Part(new, 1, k - 1) \o new[k]
                      /\ Part(new, 1, k - 1) \in Seq(SourceLines) /\ new[k] \in Seq(SourceLines)
    OBVIOUS
  <2> HIDE DEF new
  <2>1. n \in Nat /\ k \in 1..n /\ Len(new) = n
    BY <1>1
  <2> HIDE DEF n
  <2>2. 1 \in 1..Len(new) /\ k \in 1..Len(new)
    BY <2>1
  <2>3. new[k] \in Seq(SourceLines)
    BY <1>1, <2>2
  <2>4. QED
    BY <1>1, <2>2, <2>3, PartLast
<1>8. \A k \in 0..n, m \in a..Len(source) :
         /\ Part(edit(k), a, m) = Part(edit(k), a, m - 1) \o edit(k)[m]
         /\ Part(edit(k), a, m - 1) \in Seq(SourceLines) /\ Part(edit(k), a, m) \in Seq(SourceLines)
         /\ edit(k)[m] \in Seq(SourceLines)
  <2> SUFFICES ASSUME NEW k \in 0..n, NEW m \in a..Len(source)
               PROVE  /\ Part(edit(k), a, m) = Part(edit(k), a, m - 1) \o edit(k)[m]
                      /\ Part(edit(k), a, m - 1) \in Seq(SourceLines) /\ Part(edit(k), a, m) \in Seq(SourceLines)
                      /\ edit(k)[m] \in Seq(SourceLines)
    OBVIOUS
  <2> DEFINE s == edit(k)
  <2>1. s \in Seq(Seq(SourceLines)) /\ Len(s) = Len(source)
    BY <1>2
  <2> HIDE DEF s
  <2>2. a \in 1..Len(s) /\ m \in a..Len(s) /\ m \in 1..Len(s)
    BY <1>1, <2>1
  <2>3. /\ Part(s, a, m) = Part(s, a, m - 1) \o s[m]
        /\ Part(s, a, m - 1) \in Seq(SourceLines) /\ Part(s, a, m) \in Seq(SourceLines)
    BY <2>1, <2>2, PartLast
  <2>4. s[m] \in Seq(SourceLines)
    BY <2>1, <2>2
  <2>5. QED
    BY <2>3, <2>4 DEF s
<1>9. \A k \in 1..n, m \in (a - 1)..Len(source) :
         (\A i \in a..m : edit(k)[i] = edit(k - 1)[i]) => Part(edit(k), a, m) = Part(edit(k - 1), a, m)
  <2> SUFFICES ASSUME NEW k \in 1..n, NEW m \in (a - 1)..Len(source), \A i \in a..m : edit(k)[i] = edit(k - 1)[i]
               PROVE  Part(edit(k), a, m) = Part(edit(k - 1), a, m)
    OBVIOUS
  <2> DEFINE s == edit(k)
             t == edit(k - 1)
  <2>1. k \in 0..n /\ k - 1 \in 0..n
    BY <1>1
  <2>2. s \in Seq(Seq(SourceLines)) /\ t \in Seq(Seq(SourceLines)) /\ Len(s) = Len(source) /\ Len(t) = Len(source)
    BY <1>2, <2>1
  <2>3. \A i \in a..m : s[i] = t[i]
    OBVIOUS
  <2> HIDE DEF s, t
  <2>4. a \in Nat \ {0} /\ m \in Nat /\ m <= Len(s) /\ m <= Len(t)
    BY <1>1, <2>2
  <2>5. Part(s, a, m) = Part(t, a, m)
    BY <2>2, <2>3, <2>4, PartSame
  <2>6. QED
    BY <2>5 DEF s, t
<1>10. \A k \in 1..n, i \in 1..Len(source) :
         /\ at(k) # i => edit(k)[i] = edit(k - 1)[i]
         /\ at(k) = i =>
               edit(k)[i] = CASE body[k].kind = "addition" -> edit(k - 1)[i] \o <<body[k].line>>
                              [] body[k].kind = "context" -> <<source[i]>>
                              [] body[k].kind = "removal" -> <<>>
  BY EditStep
<1>11. \A k \in 1..n : body[k].kind # "addition" => source[at(k)] = body[k].line
  BY LineReached
<1>12. \A k \in 1..n : /\ new[k] = IF body[k].kind = "removal" THEN <<>> ELSE <<body[k].line>>
                       /\ body[k].kind \in {"context", "removal", "addition"}
  <2>1. \A k \in 1..n : body[k] \in BodyLine
    BY DEF Bodies
  <2>2. \A k \in 1..n : body[k].kind \in {"context", "removal", "addition"}
    BY <2>1 DEF BodyLine
  <2>3. QED
    BY <1>1, <2>2 DEF NewOf
<1>13. edit(0)[a] = <<source[a]>>
  <2>1. Part(InsertsOf(body, a, a), 1, 0) = <<>>
    BY PartNone
  <2>2. ~ \E j \in 1..0 : body[j].kind = "removal" /\ Reached(body, a, j) = a
    OBVIOUS
  <2>3. edit(0)[a] = <<source[a]>> \o <<>>
    BY <2>1, <2>2 DEF EditUpto
  <2>4. QED
    BY <1>5, <2>3
<1> HIDE DEF edit, at, new, n
<1>14. 0 \in T
  <2>1. Part(new, 1, 0) = <<>> /\ Part(edit(0), a, a - 1) = <<>>
    BY <1>1, PartNone
  <2>2. Part(edit(0), a, a) = Part(edit(0), a, a - 1) \o edit(0)[a]
    <3>1. 0 \in 0..n /\ a \in a..Len(source)
      BY <1>1
    <3>2. QED
      BY <1>8, <3>1
  <2>3. Part(edit(0), a, at(0)) = <<source[a]>> \o Part(new, 1, 0)
    BY <1>4, <1>5, <1>13, <2>1, <2>2
  <2>4. QED
    BY <1>1, <2>3
<1>15. ASSUME NEW k \in 1..n, k - 1 \in T PROVE k \in T
  <2> DEFINE m == at(k - 1)
             r == at(k)
  <2>1. /\ k \in 0..n /\ k - 1 \in 0..n /\ m \in a..Len(source) /\ r \in a..Len(source)
        /\ r \in 1..Len(source) /\ m \in 1..Len(source) /\ r - 1 \in (a - 1)..Len(source)
        /\ m \in Nat /\ r \in Nat
    BY <1>1, <1>3
  <2>2. Part(edit(k - 1), a, m) = <<source[a]>> \o Part(new, 1, k - 1)
    BY <1>15
  <2>3. Part(edit(k), a, r) = Part(edit(k), a, r - 1) \o edit(k)[r]
    BY <1>8, <2>1
  <2>4. Part(edit(k), a, r - 1) = Part(edit(k - 1), a, r - 1)
    <3>1. \A i \in a..(r - 1) : i \in 1..Len(source) /\ r # i
      BY <1>1, <2>1
    <3>2. \A i \in a..(r - 1) : edit(k)[i] = edit(k - 1)[i]
      BY <1>10, <3>1
    <3>3. QED
      BY <1>9, <2>1, <3>2
  <2>5. Part(edit(k), a, r) = Part(edit(k - 1), a, m) \o new[k]
    <3>1. CASE body[k].kind = "addition"
      <4>1. r = m
        BY <1>4, <2>1, <3>1
      <4>2. edit(k)[r] = edit(k - 1)[m] \o <<body[k].line>> /\ new[k] = <<body[k].line>>
        BY <1>10, <1>12, <2>1, <3>1, <4>1
      <4>3. /\ Part(edit(k - 1), a, m) = Part(edit(k - 1), a, m - 1) \o edit(k - 1)[m]
            /\ Part(edit(k - 1), a, m - 1) \in Seq(SourceLines) /\ edit(k - 1)[m] \in Seq(SourceLines)
        BY <1>8, <2>1
      <4>4. new[k] \in Seq(SourceLines)
        BY <1>7
      <4> HIDE DEF m, r
      <4>5. Part(edit(k), a, r) = Part(edit(k - 1), a, m - 1) \o (edit(k - 1)[m] \o new[k])
        BY <2>3, <2>4, <4>1, <4>2
      <4> DEFINE x == Part(edit(k - 1), a, m - 1)
                 y == edit(k - 1)[m]
                 z == new[k]
      <4>6. x \in Seq(SourceLines) /\ y \in Seq(SourceLines) /\ z \in Seq(SourceLines)
        BY <4>3, <4>4
      <4>7. x \o (y \o z) = (x \o y) \o z
        <5> HIDE DEF x, y, z
        <5>1. QED
          BY <1>6, <4>6
      <4>8. QED
        BY <4>3, <4>5, <4>7
    <3>2. CASE body[k].kind # "addition"
      <4>1. r - 1 = m
        BY <1>4, <2>1, <3>2
      <4>2. edit(k)[r] = new[k]
        <5>1. source[r] = body[k].line
          BY <1>11, <3>2
        <5>2. edit(k)[r] = IF body[k].kind = "removal" THEN <<>> ELSE <<source[r]>>
          BY <1>10, <1>12, <2>1, <3>2
        <5>3. QED
          BY <1>12, <5>1, <5>2
      <4> HIDE DEF m, r
      <4>3. QED
        BY <2>3, <2>4, <4>1, <4>2
    <3>3. QED
      BY <3>1, <3>2
  <2>6. Part(edit(k), a, r) = <<source[a]>> \o Part(new, 1, k)
    <3>1. /\ Part(new, 1, k) = Part(new, 1, k - 1) \o new[k]
          /\ Part(new, 1, k - 1) \in Seq(SourceLines) /\ new[k] \in Seq(SourceLines)
      BY <1>7
    <3> HIDE DEF m, r
    <3>2. Part(edit(k), a, r) = (<<source[a]>> \o Part(new, 1, k - 1)) \o new[k]
      BY <2>2, <2>5
    <3> DEFINE x == <<source[a]>>
               y == Part(new, 1, k - 1)
               z == new[k]
    <3>3. x \in Seq(SourceLines) /\ y \in Seq(SourceLines) /\ z \in Seq(SourceLines)
      BY <1>5, <3>1
    <3>4. x \o (y \o z) = (x \o y) \o z
      <4> HIDE DEF x, y, z
      <4>1. QED
        BY <1>6, <3>3
    <3>5. QED
      BY <3>1, <3>2, <3>4
  <2>7. QED
    BY <2>1, <2>6
<1>16. n \in T
  <2> HIDE DEF T
  <2>1. 0..n \subseteq T
    BY <1>1, <1>14, <1>15, InductionTo
  <2>2. QED
    BY <1>1, <2>1
<1>17. Part(new, 1, n) = New(body)
  <2>1. Part(new, 1, Len(new)) = FlattenSeq(new)
    BY <1>1, PartAll
  <2>2. QED
    BY <1>1, <2>1 DEF New, NewOf, new
<1>18. QED
  BY <1>4, <1>16, <1>17 DEF edit, n

(***************************************************************************)
(* A hunk of a report that is not refused.                                 *)
(***************************************************************************)
First(source, hunk) == LocateAnchor(source, hunk.anchor)
Final(source, hunk) == First(source, hunk) + Len(Old(hunk.body)) + Len(Trailing(source, hunk))

LEMMA HunkPlaced ==
    ASSUME NEW source \in Seq(SourceLines), NEW hunk \in ReportHunks, ~HunkRefused(source, hunk)
    PROVE  /\ First(source, hunk) \in 1..Len(source)
           /\ Cardinality(Hits(source, hunk.anchor)) = 1
           /\ (CHOOSE i \in DOMAIN source : source[i].text = hunk.anchor) = First(source, hunk)
           /\ \A i \in 1..Len(source) : source[i] = source[First(source, hunk)] => i = First(source, hunk)
           /\ hunk.body \in Bodies
           /\ First(source, hunk) + Len(Old(hunk.body)) <= Len(source)
           /\ SubSeq(source, First(source, hunk) + 1, First(source, hunk) + Len(Old(hunk.body))) = Old(hunk.body)
           /\ Old(hunk.body) \in Seq(SourceLines) /\ New(hunk.body) \in Seq(SourceLines)
<1> DEFINE hits == Hits(source, hunk.anchor)
           a == LocateAnchor(source, hunk.anchor)
           L == Len(Old(hunk.body))
<1>1. DOMAIN source = 1..Len(source) /\ Len(source) \in Nat
  OBVIOUS
<1>2. hunk.body \in Bodies
  BY DEF ReportHunks, Bodies, BodyLine
<1>3. Old(hunk.body) \in Seq(SourceLines) /\ New(hunk.body) \in Seq(SourceLines)
  <2>1. Old(hunk.body) = FlattenSeq(OldOf(hunk.body)) /\ New(hunk.body) = FlattenSeq(NewOf(hunk.body))
    BY DEF Old, OldOf, New, NewOf
  <2>2. OldOf(hunk.body) \in Seq(Seq(SourceLines)) /\ NewOf(hunk.body) \in Seq(Seq(SourceLines))
    BY <1>2, BodyLines
  <2>3. QED
    BY <2>1, <2>2, PartAll
<1>4. a # 0 /\ ~(a + L > Len(source)) /\ SubSeq(source, a + 1, a + L) = Old(hunk.body)
  BY DEF HunkRefused
<1>5. Cardinality(hits) = 1 /\ a = Min(hits)
  BY <1>4 DEF LocateAnchor
<1>6. PICK x : hits = {x}
  <2>1. IsFiniteSet(1..Len(source))
    <3>1. 1 \in Int /\ Len(source) \in Int
      BY <1>1
    <3>2. QED
      BY <3>1, FS_Interval
  <2>2. hits \in SUBSET (1..Len(source))
    BY <1>1 DEF Hits
  <2>3. IsFiniteSet(hits)
    BY <2>1, <2>2, FS_Subset
  <2> HIDE DEF hits
  <2>4. QED
    BY <1>5, <2>3, FS_Singleton
<1>7. x \in 1..Len(source) /\ source[x].text = hunk.anchor
      /\ \A i \in 1..Len(source) : source[i].text = hunk.anchor => i = x
  <2>1. \A i : i \in hits <=> i \in 1..Len(source) /\ source[i].text = hunk.anchor
    BY <1>1 DEF Hits
  <2> HIDE DEF hits
  <2>2. QED
    BY <1>6, <2>1
<1>8. a = x
  <2>1. x \in Nat /\ x <= x
    BY <1>1, <1>7
  <2> HIDE DEF hits
  <2>2. Min(hits) = x
    BY <1>6, <2>1 DEF Min
  <2>3. QED
    BY <1>5, <2>2
<1>9. (CHOOSE i \in DOMAIN source : source[i].text = hunk.anchor) = x
  BY <1>1, <1>7
<1>10. L \in Nat
  BY <1>3
<1>11. a + L <= Len(source)
  <2> HIDE DEF a, L
  <2>1. QED
    BY <1>1, <1>4, <1>7, <1>8, <1>10
<1> HIDE DEF a, L, hits
<1>12. \A i \in 1..Len(source) : source[i] = source[a] => i = a
  BY <1>7, <1>8
<1>13. QED
  BY <1>2, <1>3, <1>4, <1>5, <1>7, <1>8, <1>9, <1>11, <1>12 DEF a, L, hits, First

(* The edit of one hunk at line i, and at all lines.                         *)
MeantAt(source, hunk, i) ==
    (IF Removes(source, hunk, i) THEN <<>> ELSE <<source[i]>>) \o Inserts(source, hunk, i)
Meant(source, hunk) == [i \in 1..Len(source) |-> MeantAt(source, hunk, i)]

LEMMA PlaceIsReached ==
    ASSUME NEW source \in Seq(SourceLines), NEW hunk \in ReportHunks, ~HunkRefused(source, hunk),
           NEW k \in 0..Len(hunk.body)
    PROVE  Place(source, hunk, k) = Reached(hunk.body, First(source, hunk), k)
<1> DEFINE body == hunk.body
<1>1. /\ body \in Bodies
      /\ (CHOOSE i \in DOMAIN source : source[i].text = hunk.anchor) = First(source, hunk)
  BY HunkPlaced
<1>2. /\ Len(body) \in Nat /\ DOMAIN body = 1..Len(body) /\ \A j \in 1..Len(body) : body[j] \in BodyLine
      /\ OldOf(body) \in Seq(Seq(SourceLines)) /\ Len(OldOf(body)) = Len(body)
  <2>1. \A j \in 1..Len(body) : body[j] \in BodyLine
    BY <1>1 DEF Bodies
  <2>2. QED
    BY <1>1, <2>1, BodyLines
<1> HIDE DEF body
<1>3. Old(SubSeq(body, 1, k)) = Part(OldOf(body), 1, k)
  <2> DEFINE some == SubSeq(body, 1, k)
             old == OldOf(body)
  <2>1. 1 \in Int /\ k \in Int /\ k \in Nat /\ \A j \in 1..k : j \in 1..Len(body) /\ body[j] \in BodyLine
    BY <1>2 DEF body
  <2>2. some \in Seq(BodyLine) /\ Len(some) = (IF 1 <= k THEN k - 1 + 1 ELSE 0)
        /\ \A j \in 1..(k - 1 + 1) : some[j] = body[1 + j - 1]
    BY <2>1, SubSeqProperties
  <2>3. DOMAIN some = 1..k /\ \A j \in 1..k : some[j] = body[j]
    <3>1. Len(some) = k /\ k - 1 + 1 = k
      BY <2>1, <2>2
    <3> HIDE DEF some
    <3>2. QED
      BY <2>1, <2>2, <3>1
  <2>4. OldOf(some) = [j \in 1..k |-> OldOf(body)[j]]
    <3> HIDE DEF some
    <3>1. QED
      BY <1>2, <2>1, <2>3 DEF OldOf
  <2>5. SubSeq(old, 1, k) = [j \in 1..k |-> old[j]]
    <3>1. 1 \in Int /\ k \in Int /\ \A j \in 1..k : old[j] \in Seq(SourceLines)
      BY <1>2, <2>1
    <3> HIDE DEF old
    <3>2. /\ SubSeq(old, 1, k) \in Seq(Seq(SourceLines)) /\ Len(SubSeq(old, 1, k)) = (IF 1 <= k THEN k - 1 + 1 ELSE 0)
          /\ \A j \in 1..(k - 1 + 1) : SubSeq(old, 1, k)[j] = old[1 + j - 1]
      BY <3>1, SubSeqProperties
    <3>3. Len(SubSeq(old, 1, k)) = k /\ k - 1 + 1 = k
      BY <2>1, <3>2
    <3>4. QED
      BY <2>1, <3>2, <3>3
  <2>6. OldOf(some) = SubSeq(old, 1, k)
    BY <2>4, <2>5
  <2>7. QED
    BY <2>6 DEF Old, OldOf, Part
<1>4. QED
  BY <1>1, <1>3 DEF Place, Reached, body

LEMMA MeantIsEdit ==
    ASSUME NEW source \in Seq(SourceLines), NEW hunk \in ReportHunks, ~HunkRefused(source, hunk)
    PROVE  /\ Meant(source, hunk) = EditUpto(source, hunk.body, First(source, hunk), Len(hunk.body))
           /\ \A i \in 1..Len(source) : Inserts(source, hunk, i) \in Seq(SourceLines)
           /\ \A i \in 1..Len(source) :
                 i \notin First(source, hunk)..(First(source, hunk) + Len(Old(hunk.body))) =>
                    ~Removes(source, hunk, i) /\ Inserts(source, hunk, i) = <<>>
           /\ ~Removes(source, hunk, First(source, hunk))
<1> DEFINE body == hunk.body
           a == First(source, hunk)
           b == a + Len(Old(body))
           n == Len(body)
<1>1. body \in Bodies /\ a \in 1..Len(source) /\ a \in Nat
  BY HunkPlaced
<1>2. /\ n \in Nat /\ DOMAIN body = 1..n
      /\ \A k \in 1..n : Place(source, hunk, k) = Reached(body, a, k)
  <2>1. n \in Nat /\ DOMAIN body = 1..n
    BY <1>1, BodyLines
  <2>2. \A k \in 1..n : k \in 0..n
    BY <2>1
  <2>3. QED
    BY <2>1, <2>2, PlaceIsReached
<1>3. \A k \in 1..n : Reached(body, a, k) \in a..b
  <2> SUFFICES ASSUME NEW k \in 1..n PROVE Reached(body, a, k) \in a..b
    OBVIOUS
  <2>1. n \in 0..n /\ 0 \in 0..k /\ k \in 0..n
    BY <1>2
  <2>2. Reached(body, a, 0) = a /\ Reached(body, a, n) = b /\ Reached(body, a, k) \in Nat
    BY <1>1, <2>1, ReachedStep
  <2>3. Reached(body, a, 0) <= Reached(body, a, k)
    BY <1>1, <2>1, ReachedGrows
  <2>4. Reached(body, a, k) <= Reached(body, a, n)
    BY <1>1, <2>1, ReachedGrows
  <2>5. Reached(body, a, n) \in Nat
    BY <1>1, <2>1, ReachedStep
  <2> HIDE DEF Reached, a, b
  <2>6. QED
    BY <1>1, <2>2, <2>3, <2>4, <2>5
<1>4. \A i : Removes(source, hunk, i) <=> \E j \in 1..n : body[j].kind = "removal" /\ Reached(body, a, j) = i
  BY <1>2 DEF Removes
<1>5. \A i : Inserts(source, hunk, i) = FlattenSeq(InsertsOf(body, a, i))
  <2> SUFFICES ASSUME NEW i PROVE Inserts(source, hunk, i) = FlattenSeq(InsertsOf(body, a, i))
    OBVIOUS
  <2>1. InsertsOf(body, a, i) =
           [k \in DOMAIN hunk.body |->
              IF hunk.body[k].kind = "addition" /\ Place(source, hunk, k) = i THEN <<hunk.body[k].line>> ELSE <<>>]
    BY <1>2 DEF InsertsOf
  <2>2. QED
    BY <2>1 DEF Inserts
<1>6. \A i : /\ InsertsOf(body, a, i) \in Seq(Seq(SourceLines)) /\ Len(InsertsOf(body, a, i)) = n
             /\ FlattenSeq(InsertsOf(body, a, i)) = Part(InsertsOf(body, a, i), 1, n)
             /\ FlattenSeq(InsertsOf(body, a, i)) \in Seq(SourceLines)
  <2> SUFFICES ASSUME NEW i
               PROVE  /\ InsertsOf(body, a, i) \in Seq(Seq(SourceLines)) /\ Len(InsertsOf(body, a, i)) = n
                      /\ FlattenSeq(InsertsOf(body, a, i)) = Part(InsertsOf(body, a, i), 1, n)
                      /\ FlattenSeq(InsertsOf(body, a, i)) \in Seq(SourceLines)
    OBVIOUS
  <2> DEFINE s == InsertsOf(body, a, i)
  <2>1. s \in Seq(Seq(SourceLines)) /\ Len(s) = n
    BY <1>1, InsertedLines
  <2> HIDE DEF s
  <2>2. FlattenSeq(s) = Part(s, 1, Len(s)) /\ FlattenSeq(s) \in Seq(SourceLines)
    BY <2>1, PartAll
  <2>3. QED
    BY <2>1, <2>2 DEF s
<1>7. Meant(source, hunk) = EditUpto(source, body, a, n)
  <2> HIDE DEF body, a, n
  <2>1. QED
    BY <1>4, <1>5, <1>6 DEF Meant, MeantAt, EditUpto
<1>8. ASSUME NEW i \in 1..Len(source), i \notin a..b
      PROVE  ~Removes(source, hunk, i) /\ Inserts(source, hunk, i) = <<>>
  <2>1. ~Removes(source, hunk, i)
    BY <1>3, <1>4, <1>8
  <2>2. \A k \in 1..n : InsertsOf(body, a, i)[k] = <<>>
    BY <1>2, <1>3, <1>8 DEF InsertsOf
  <2>3. Part(InsertsOf(body, a, i), 1, n) = <<>>
    <3> DEFINE s == InsertsOf(body, a, i)
    <3>1. s \in Seq(Seq(SourceLines)) /\ Len(s) = n
      BY <1>6
    <3>2. \A k \in 1..n : s[k] = <<>>
      BY <2>2
    <3> HIDE DEF s
    <3>3. 1 \in 1..(Len(s) + 1) /\ n \in (1 - 1)..Len(s)
      BY <1>2, <3>1
    <3>4. Part(s, 1, n) = <<>>
      BY <3>1, <3>2, <3>3, PartNothing
    <3>5. QED
      BY <3>4 DEF s
  <2>4. QED
    BY <1>5, <1>6, <2>1, <2>3
<1>9. ~Removes(source, hunk, a)
  <2> SUFFICES ASSUME NEW j \in 1..n, body[j].kind = "removal" PROVE Reached(body, a, j) # a
    BY <1>4
  <2>1. j - 1 \in 0..n /\ 0 \in 0..(j - 1) /\ j \in 0..n
    BY <1>2
  <2>2. Reached(body, a, 0) <= Reached(body, a, j - 1)
    BY <1>1, <2>1, ReachedGrows
  <2>3. Reached(body, a, 0) = a /\ Reached(body, a, j - 1) \in Nat
    BY <1>1, <2>1, ReachedStep
  <2>4. \A k \in 1..n : Reached(body, a, k) = Reached(body, a, k - 1) + (IF body[k].kind = "addition" THEN 0 ELSE 1)
    BY <1>1, ReachedStep
  <2>5. Reached(body, a, j) = Reached(body, a, j - 1) + 1
    BY <2>4
  <2> HIDE DEF Reached, a
  <2>6. QED
    BY <1>1, <2>2, <2>3, <2>5
<1>10. QED
  BY <1>5, <1>6, <1>7, <1>8, <1>9

(* The lines of the source that trail a hunk, if any, follow its own.        *)
LEMMA TrailingLines ==
    ASSUME NEW source \in Seq(SourceLines), NEW hunk \in ReportHunks, ~HunkRefused(source, hunk)
    PROVE  /\ Final(source, hunk) \in (First(source, hunk) + Len(Old(hunk.body)))..Len(source)
           /\ Trailing(source, hunk)
                 = SubSeq(source, First(source, hunk) + Len(Old(hunk.body)) + 1, Final(source, hunk))
           /\ Trailing(source, hunk) \in Seq(SourceLines)
<1> DEFINE b == First(source, hunk) + Len(Old(hunk.body))
           top == Min({b + 1 + TrailingContext - 1, Len(source)})
<1>1. Len(source) \in Nat /\ b \in 1..Len(source) /\ b \in Nat
  <2>1. /\ First(source, hunk) \in 1..Len(source) /\ First(source, hunk) + Len(Old(hunk.body)) <= Len(source)
        /\ Old(hunk.body) \in Seq(SourceLines)
    BY HunkPlaced
  <2>2. Len(source) \in Nat /\ Len(Old(hunk.body)) \in Nat
    BY <2>1
  <2>3. QED
    BY <2>1, <2>2
<1>2. \A i \in 1..Len(source) : source[i] \in SourceLines
  OBVIOUS
<1>3. Final(source, hunk) = b + Len(Trailing(source, hunk))
  BY DEF Final
<1>4. Trailing(source, hunk) = IF hunk.body # <<>> /\ Last(hunk.body).kind # "context"
                               THEN SubSeq(source, b + 1, top) ELSE <<>>
  BY DEF Trailing, First
<1>5. \A m \in b..Len(source) : SubSeq(source, b + 1, m) \in Seq(SourceLines) /\ Len(SubSeq(source, b + 1, m)) = m - b
  <2> SUFFICES ASSUME NEW m \in b..Len(source)
               PROVE  SubSeq(source, b + 1, m) \in Seq(SourceLines) /\ Len(SubSeq(source, b + 1, m)) = m - b
    OBVIOUS
  <2> HIDE DEF b
  <2>1. b + 1 \in Int /\ m \in Int /\ \A i \in (b + 1)..m : source[i] \in SourceLines
    BY <1>1, <1>2
  <2>2. /\ SubSeq(source, b + 1, m) \in Seq(SourceLines)
        /\ Len(SubSeq(source, b + 1, m)) = IF b + 1 <= m THEN m - (b + 1) + 1 ELSE 0
    BY <2>1, SubSeqProperties
  <2>3. QED
    BY <1>1, <2>2
<1>6. top \in b..Len(source)
  <2> HIDE DEF b
  <2> DEFINE x == b + 1 + TrailingContext - 1
             y == Len(source)
             low == IF x <= y THEN x ELSE y
  <2>1. x \in Int /\ y \in Int /\ x >= b /\ y >= b
    BY <1>1 DEF TrailingContext
  <2>2. low \in {x, y} /\ \A z \in {x, y} : low <= z
    BY <2>1
  <2>3. \A u \in {x, y} : (\A z \in {x, y} : u <= z) => u = low
    BY <2>1
  <2> HIDE DEF x, y, low
  <2>4. Min({x, y}) = low
    BY <2>2, <2>3 DEF Min
  <2>5. low \in b..y
    BY <1>1, <2>1 DEF low, y
  <2>6. QED
    BY <2>4, <2>5 DEF x, y
<1> HIDE DEF b, top
<1>7. CASE hunk.body # <<>> /\ Last(hunk.body).kind # "context"
  <2>1. Trailing(source, hunk) = SubSeq(source, b + 1, top)
    BY <1>4, <1>7
  <2>2. SubSeq(source, b + 1, top) \in Seq(SourceLines) /\ Len(SubSeq(source, b + 1, top)) = top - b
    BY <1>5, <1>6
  <2>3. Final(source, hunk) = top
    BY <1>1, <1>3, <1>6, <2>1, <2>2
  <2>4. QED
    BY <1>6, <2>1, <2>2, <2>3 DEF b
<1>8. CASE ~(hunk.body # <<>> /\ Last(hunk.body).kind # "context")
  <2>1. Trailing(source, hunk) = <<>> /\ Len(<<>>) = 0
    BY <1>4, <1>8
  <2>2. Final(source, hunk) = b
    BY <1>1, <1>3, <2>1
  <2>3. SubSeq(source, b + 1, b) = <<>>
    BY <1>1, SubSeqEmpty
  <2>4. <<>> \in Seq(SourceLines)
    OBVIOUS
  <2>5. QED
    BY <1>1, <2>1, <2>2, <2>3, <2>4 DEF b
<1>9. QED
  BY <1>7, <1>8

LEMMA HunkWhole ==
    ASSUME NEW source \in Seq(SourceLines), NEW hunk \in ReportHunks, ~HunkRefused(source, hunk), NEW delta \in Int
    PROVE  /\ First(source, hunk) \in 1..Len(source) /\ Final(source, hunk) \in First(source, hunk)..Len(source)
           /\ ReconstructHunk(source, hunk, delta).start \in Int
           /\ ReconstructHunk(source, hunk, delta).old = SubSeq(source, First(source, hunk), Final(source, hunk))
           /\ ReconstructHunk(source, hunk, delta).old \in Seq(SourceLines)
           /\ ReconstructHunk(source, hunk, delta).new \in Seq(SourceLines)
           /\ ReconstructHunk(source, hunk, delta).new
                 = Part(Meant(source, hunk), First(source, hunk), Final(source, hunk))
           /\ Meant(source, hunk) \in Seq(Seq(SourceLines)) /\ Len(Meant(source, hunk)) = Len(source)
           /\ \A i \in 1..Len(source) :
                 i \notin First(source, hunk)..Final(source, hunk) =>
                    ~Removes(source, hunk, i) /\ Inserts(source, hunk, i) = <<>>
<1> DEFINE a == First(source, hunk)
           b == a + Len(Old(hunk.body))
           e == Final(source, hunk)
           made == ReconstructHunk(source, hunk, delta)
           meant == Meant(source, hunk)
<1>1. /\ a \in 1..Len(source) /\ b <= Len(source) /\ hunk.body \in Bodies
      /\ SubSeq(source, a + 1, b) = Old(hunk.body)
      /\ Old(hunk.body) \in Seq(SourceLines) /\ New(hunk.body) \in Seq(SourceLines)
  BY HunkPlaced
<1>2. e \in b..Len(source) /\ Trailing(source, hunk) = SubSeq(source, b + 1, e) /\ Trailing(source, hunk) \in Seq(SourceLines)
  BY TrailingLines
<1>3. /\ Len(source) \in Nat /\ a \in Nat \ {0} /\ b \in Nat /\ e \in Nat /\ a <= b /\ b <= e /\ e <= Len(source)
      /\ source[a] \in SourceLines /\ <<source[a]>> \in Seq(SourceLines) /\ a + 1 \in 1..(Len(source) + 1)
  <2>1. Len(source) \in Nat /\ a \in Nat \ {0} /\ Len(Old(hunk.body)) \in Nat
    BY <1>1
  <2>2. b \in Nat /\ a <= b
    BY <2>1
  <2>3. e \in Nat /\ b <= e /\ e <= Len(source)
    BY <1>2, <2>1, <2>2
  <2>4. source[a] \in SourceLines /\ <<source[a]>> \in Seq(SourceLines)
    BY <1>1
  <2>5. a + 1 \in 1..(Len(source) + 1)
    BY <1>1, <2>1
  <2> HIDE DEF a, b, e
  <2>6. QED
    BY <2>1, <2>2, <2>3, <2>4, <2>5
<1>4. /\ made.start = a + delta
      /\ made.old = (<<source[a]>> \o Old(hunk.body)) \o Trailing(source, hunk)
      /\ made.new = (<<source[a]>> \o New(hunk.body)) \o Trailing(source, hunk)
  BY DEF ReconstructHunk, First
<1>5. /\ meant = EditUpto(source, hunk.body, a, Len(hunk.body))
      /\ \A i \in 1..Len(source) : i \notin a..b => ~Removes(source, hunk, i) /\ Inserts(source, hunk, i) = <<>>
  BY MeantIsEdit
<1>6. meant \in Seq(Seq(SourceLines)) /\ Len(meant) = Len(source)
  <2>1. Len(hunk.body) \in 0..Len(hunk.body)
    <3>1. Len(hunk.body) \in Nat
      BY <1>1, BodyLines
    <3>2. QED
      BY <3>1
  <2>2. QED
    BY <1>1, <1>5, <2>1, EditUptoType
<1>7. Part(meant, a, b) = <<source[a]>> \o New(hunk.body)
  BY <1>1, <1>5, HunkEdits
<1>8. \A i \in (b + 1)..e : meant[i] = <<source[i]>>
  <2> SUFFICES ASSUME NEW i \in (b + 1)..e PROVE meant[i] = <<source[i]>>
    OBVIOUS
  <2>1. i \in 1..Len(source) /\ i \notin a..b
    BY <1>3
  <2>2. ~Removes(source, hunk, i) /\ Inserts(source, hunk, i) = <<>>
    BY <1>5, <2>1
  <2>3. <<source[i]>> \in Seq(SourceLines)
    BY <2>1
  <2>4. meant[i] = <<source[i]>> \o <<>>
    BY <2>1, <2>2 DEF Meant, MeantAt
  <2>5. QED
    BY <2>3, <2>4, ConcatEmptySeq
<1>9. \A u, v, w \in Seq(SourceLines) : u \o v \in Seq(SourceLines)
  OBVIOUS
<1> HIDE DEF a, b, e, made, meant
<1>10. Part(meant, b + 1, e) = Trailing(source, hunk)
  <2>1. /\ Len(source) = Len(meant) /\ b + 1 \in 1..(Len(meant) + 1) /\ e \in ((b + 1) - 1)..Len(meant)
    BY <1>3, <1>6
  <2>2. Part(meant, b + 1, e) = SubSeq(source, b + 1, e)
    BY <1>6, <1>8, <2>1, PartSingles
  <2>3. QED
    BY <1>2, <2>2
<1>11. made.new = Part(meant, a, e)
  <2>1. a \in 1..(Len(meant) + 1) /\ b \in (a - 1)..Len(meant) /\ e \in b..Len(meant)
    BY <1>3, <1>6
  <2>2. Part(meant, a, e) = Part(meant, a, b) \o Part(meant, b + 1, e)
    BY <1>6, <2>1, PartJoin
  <2>3. QED
    BY <1>4, <1>7, <1>10, <2>2
<1>12. made.old = SubSeq(source, a, e)
  <2>1. SubSeq(source, a, b) = <<source[a]>> \o SubSeq(source, a + 1, b)
    <3>1. a \in 1..Len(source) /\ b \in a..Len(source)
      BY <1>1, <1>3
    <3>2. QED
      BY <3>1, SubSeqRecursiveFirst
  <2>2. SubSeq(source, a, b) \o SubSeq(source, b + 1, e) = SubSeq(source, a, e)
    <3>1. a \in 1..(Len(source) + 1) /\ b \in (a - 1)..Len(source) /\ e \in b..Len(source)
      BY <1>3
    <3>2. QED
      BY <3>1, ConcatAdjacentSubSeq
  <2>3. QED
    BY <1>1, <1>2, <1>4, <2>1, <2>2
<1>13. made.old \in Seq(SourceLines) /\ made.new \in Seq(SourceLines)
  <2>1. <<source[a]>> \o Old(hunk.body) \in Seq(SourceLines) /\ <<source[a]>> \o New(hunk.body) \in Seq(SourceLines)
    BY <1>1, <1>3, <1>9
  <2>2. QED
    BY <1>2, <1>4, <1>9, <2>1
<1>14. \A i \in 1..Len(source) : i \notin a..e => ~Removes(source, hunk, i) /\ Inserts(source, hunk, i) = <<>>
  <2>1. \A i \in 1..Len(source) : i \notin a..e => i \notin a..b
    BY <1>3
  <2>2. QED
    BY <1>5, <2>1
<1>15. a \in 1..Len(source) /\ e \in a..Len(source) /\ made.start \in Int
  BY <1>1, <1>3, <1>4
<1>16. QED
  BY <1>6, <1>11, <1>12, <1>13, <1>14, <1>15 DEF a, e, made, meant

(***************************************************************************)
(* All the hunks of a file, one after the other.                           *)
(***************************************************************************)
LEMMA DeltaIsInt == ASSUME NEW hunks \in Seq(ReportHunks) PROVE Delta(hunks) \in Int
<1> DEFINE n == Len(hunks)
           V == Int
           Step(d, h) == d + Len(New(h.body)) - Len(Old(h.body))
           h == [v \in V \X (1..n) |-> Step(v[1], hunks[v[2]])]
           Is(it) == it = [s \in SUBSET DOMAIN hunks |->
                              IF s = {} THEN 0
                              ELSE LET x == Max(s) IN Step(it[s \ {x}], hunks[x])]
           it == CHOOSE it : Is(it)
<1>1. Delta(hunks) = it[DOMAIN hunks]
  BY DEF Delta, FoldLeft, MapThenFoldSet
<1>2. DOMAIN hunks = 1..n /\ n \in Nat /\ \A i \in 1..n : hunks[i] \in ReportHunks
  OBVIOUS
<1>3. ASSUME NEW d \in V, NEW i \in 1..n PROVE Step(d, hunks[i]) \in V
  <2>1. hunks[i].body \in Bodies
    BY <1>2 DEF ReportHunks, Bodies, BodyLine
  <2>2. Old(hunks[i].body) \in Seq(SourceLines) /\ New(hunks[i].body) \in Seq(SourceLines)
    <3>1. /\ Old(hunks[i].body) = FlattenSeq(OldOf(hunks[i].body))
          /\ New(hunks[i].body) = FlattenSeq(NewOf(hunks[i].body))
      BY DEF Old, OldOf, New, NewOf
    <3>2. OldOf(hunks[i].body) \in Seq(Seq(SourceLines)) /\ NewOf(hunks[i].body) \in Seq(Seq(SourceLines))
      BY <2>1, BodyLines
    <3>3. QED
      BY <3>1, <3>2, PartAll
  <2>3. Len(Old(hunks[i].body)) \in Nat /\ Len(New(hunks[i].body)) \in Nat
    BY <2>2
  <2>4. QED
    BY <2>3
<1>4. 0 \in V
  OBVIOUS
<1> HIDE DEF Step, V
<1>5. h \in [V \X (1..n) -> V] /\ \A d \in V, i \in 1..n : h[<<d, i>>] = Step(d, hunks[i])
  BY <1>3
<1> HIDE DEF h
<1>6. PICK f : Folds(f, V, 0, h, n)
  BY <1>2, <1>5, <1>4, FoldExists
<1>7. Is(f)
  <2>1. \A s \in SUBSET (1..n) : s # {} => f[s] = Step(f[s \ {Max(s)}], hunks[Max(s)])
    <3> SUFFICES ASSUME NEW s \in SUBSET (1..n), s # {}
                 PROVE  f[s] = Step(f[s \ {Max(s)}], hunks[Max(s)])
      OBVIOUS
    <3>1. Max(s) \in 1..n
      BY <1>2, MaxIsIn
    <3>2. f[s \ {Max(s)}] \in V
      BY <1>6 DEF Folds
    <3>3. QED
      BY <1>5, <1>6, <3>1, <3>2 DEF Folds
  <2>2. f = [s \in SUBSET (1..n) |-> f[s]] /\ f[{}] = 0
    BY <1>6 DEF Folds
  <2>3. QED
    BY <1>2, <2>1, <2>2
<1>8. Is(it)
  BY <1>7
<1> HIDE DEF it
<1> DEFINE T == {i \in 0..n : it[1..i] \in V}
<1>9. 0 \in T
  <2>1. 1..0 = {}
    OBVIOUS
  <2>2. QED
    BY <1>2, <1>8, <1>4, <2>1
<1>10. ASSUME NEW i \in 1..n, i - 1 \in T PROVE i \in T
  <2>1. it[1..i] = Step(it[1..(i - 1)], hunks[i])
    BY <1>2, <1>8, MaxOfBeginning
  <2>2. it[1..(i - 1)] \in V
    BY <1>10
  <2>3. it[1..i] \in V
    BY <1>3, <2>1, <2>2
  <2>4. QED
    BY <1>2, <2>3
<1>11. n \in T
  <2> HIDE DEF T
  <2>1. 0..n \subseteq T
    BY <1>2, <1>9, <1>10, InductionTo
  <2>2. QED
    BY <1>2, <2>1
<1>12. QED
  BY <1>1, <1>2, <1>11 DEF V

(* A hunk of a patch: where, what it replaces and by what.                   *)
PatchHunks == [start : Int, old : Seq(SourceLines), new : Seq(SourceLines)]

LEMMA AppliedType ==
    ASSUME NEW image \in Seq(Marked), NEW hunk \in PatchHunks
    PROVE  ApplyHunk(image, hunk) \in Seq(Marked)
<1> DEFINE fits == Fits(image, hunk)
           p == CHOOSE p \in fits : \A q \in fits : Distance(p, hunk.start) <= Distance(q, hunk.start)
           fresh == [k \in DOMAIN hunk.new |-> [line |-> hunk.new[k], fresh |-> TRUE]]
           x == SubSeq(image, 1, p - 1)
           y == SubSeq(image, p + Len(hunk.old), Len(image))
<1>1. hunk.start \in Int /\ hunk.old \in Seq(SourceLines) /\ hunk.new \in Seq(SourceLines)
  BY DEF PatchHunks
<1>2. /\ Len(image) \in Nat /\ Len(hunk.old) \in Nat
      /\ \A q \in fits : q \in 1..(Len(image) - Len(hunk.old) + 1)
  BY <1>1 DEF Fits
<1>3. Failed \in Seq(Marked)
  BY DEF Failed
<1>4. ASSUME fits # {} PROVE x \in Seq(Marked) /\ y \in Seq(Marked) /\ fresh \in Seq(Marked)
  <2> DEFINE D == {Distance(q, hunk.start) : q \in fits}
  <2>1. D \subseteq Nat /\ D # {}
    <3>1. \A q \in fits : Distance(q, hunk.start) \in Nat
      <4> SUFFICES ASSUME NEW q \in fits PROVE Distance(q, hunk.start) \in Nat
        OBVIOUS
      <4> DEFINE m == Len(image) - Len(hunk.old) + 1
      <4>1. q \in 1..m
        BY <1>2
      <4> HIDE DEF m, fits
      <4>2. q \in Int
        BY <4>1
      <4>3. QED
        BY <1>1, <4>2 DEF Distance
    <3>2. QED
      BY <1>4, <3>1
  <2>2. PICK d \in D : \A c \in D : d <= c
    BY <2>1, Least
  <2>3. PICK r \in fits : d = Distance(r, hunk.start)
    OBVIOUS
  <2>4. \A q \in fits : Distance(r, hunk.start) <= Distance(q, hunk.start)
    BY <2>2, <2>3
  <2> HIDE DEF fits
  <2>5. p \in fits
    BY <2>4
  <2> HIDE DEF p
  <2>6. p \in 1..(Len(image) - Len(hunk.old) + 1)
    BY <1>2, <2>5
  <2>7. x \in Seq(Marked)
    <3>1. 1 \in Int /\ p - 1 \in Int /\ \A k \in 1..(p - 1) : image[k] \in Marked
      BY <1>2, <2>6
    <3>2. QED
      BY <3>1, SubSeqProperties
  <2>8. y \in Seq(Marked)
    <3>1. p + Len(hunk.old) \in Int /\ Len(image) \in Int /\ \A k \in (p + Len(hunk.old))..Len(image) : image[k] \in Marked
      BY <1>2, <2>6
    <3>2. QED
      BY <3>1, SubSeqProperties
  <2>9. fresh \in Seq(Marked)
    <3>1. DOMAIN hunk.new = 1..Len(hunk.new) /\ Len(hunk.new) \in Nat
      BY <1>1
    <3>2. \A k \in DOMAIN hunk.new : [line |-> hunk.new[k], fresh |-> TRUE] \in Marked
      BY <1>1 DEF Marked
    <3>3. QED
      BY <3>1, <3>2
  <2>10. QED
    BY <2>7, <2>8, <2>9
<1>5. ApplyHunk(image, hunk) = IF image = Failed \/ fits = {} THEN Failed ELSE (x \o fresh) \o y
  BY DEF ApplyHunk
<1> HIDE DEF x, y, fresh, fits
<1>6. CASE image = Failed \/ fits = {}
  BY <1>3, <1>5, <1>6
<1>7. CASE fits # {} /\ image # Failed
  <2>1. x \in Seq(Marked) /\ y \in Seq(Marked) /\ fresh \in Seq(Marked)
    BY <1>4, <1>7
  <2>2. (x \o fresh) \o y \in Seq(Marked)
    BY <2>1
  <2>3. QED
    BY <1>5, <1>7, <2>2
<1>8. QED
  BY <1>6, <1>7

LEMMA AppliedByHunks ==
    ASSUME NEW patch \in Seq(PatchHunks), NEW base \in Seq(Marked)
    PROVE  \E image :
              /\ image[0] = base
              /\ \A i \in 1..Len(patch) : image[i] = ApplyHunk(image[i - 1], patch[i])
              /\ FoldLeft(ApplyHunk, base, patch) = image[Len(patch)]
<1> DEFINE n == Len(patch)
           V == Seq(Marked)
           h == [v \in V \X (1..n) |-> ApplyHunk(v[1], patch[v[2]])]
           Is(it) == it = [s \in SUBSET DOMAIN patch |->
                              IF s = {} THEN base
                              ELSE LET x == Max(s) IN ApplyHunk(it[s \ {x}], patch[x])]
           it == CHOOSE it : Is(it)
<1>1. FoldLeft(ApplyHunk, base, patch) = it[DOMAIN patch]
  BY DEF FoldLeft, MapThenFoldSet
<1>2. DOMAIN patch = 1..n /\ n \in Nat /\ \A i \in 1..n : patch[i] \in PatchHunks
  OBVIOUS
<1>3. \A image \in V, i \in 1..n : ApplyHunk(image, patch[i]) \in V
  BY <1>2, AppliedType
<1>4. base \in V
  OBVIOUS
<1> HIDE DEF V
<1>5. h \in [V \X (1..n) -> V] /\ \A image \in V, i \in 1..n : h[<<image, i>>] = ApplyHunk(image, patch[i])
  BY <1>3
<1> HIDE DEF h
<1>6. PICK f : Folds(f, V, base, h, n)
  BY <1>2, <1>4, <1>5, FoldExists
<1>7. Is(f)
  <2>1. \A s \in SUBSET (1..n) : s # {} => f[s] = ApplyHunk(f[s \ {Max(s)}], patch[Max(s)])
    <3> SUFFICES ASSUME NEW s \in SUBSET (1..n), s # {}
                 PROVE  f[s] = ApplyHunk(f[s \ {Max(s)}], patch[Max(s)])
      OBVIOUS
    <3>1. Max(s) \in 1..n
      BY <1>2, MaxIsIn
    <3>2. f[s \ {Max(s)}] \in V
      BY <1>6 DEF Folds
    <3>3. QED
      BY <1>5, <1>6, <3>1, <3>2 DEF Folds
  <2>2. f = [s \in SUBSET (1..n) |-> f[s]] /\ f[{}] = base
    BY <1>6 DEF Folds
  <2>3. QED
    BY <1>2, <2>1, <2>2
<1>8. Is(it)
  BY <1>7
<1> HIDE DEF it
<1> DEFINE image == [i \in 0..n |-> it[1..i]]
<1>9. image[0] = base /\ image[n] = it[DOMAIN patch]
  <2>1. 1..0 = {}
    OBVIOUS
  <2>2. QED
    BY <1>2, <1>8, <2>1
<1>10. ASSUME NEW i \in 1..n PROVE image[i] = ApplyHunk(image[i - 1], patch[i])
  <2>1. it[1..i] = ApplyHunk(it[1..(i - 1)], patch[i])
    BY <1>2, <1>8, MaxOfBeginning
  <2>2. QED
    BY <1>2, <2>1
<1> HIDE DEF image
<1>11. QED
  BY <1>1, <1>9, <1>10

(* What the first m hunks mean for line i, and which lines they are about.   *)
Unrefused(source, hunks) ==
    /\ source \in Seq(SourceLines) /\ hunks \in Seq(ReportHunks)
    /\ \A j \in 1..Len(hunks) : ~HunkRefused(source, hunks[j])
InsertsBy(source, hunks, i) == [j \in DOMAIN hunks |-> Inserts(source, hunks[j], i)]
EditedBy(source, hunks, m) ==
    [i \in 1..Len(source) |->
        (IF \E j \in 1..m : Removes(source, hunks[j], i) THEN <<>> ELSE <<source[i]>>)
        \o Part(InsertsBy(source, hunks, i), 1, m)]
Covered(source, hunks, m) ==
    {i \in 1..Len(source) : \E j \in 1..m : i \in First(source, hunks[j])..Final(source, hunks[j])}

LEMMA InsertsByHunks ==
    ASSUME NEW source, NEW hunks, Unrefused(source, hunks), NEW i \in 1..Len(source)
    PROVE  /\ InsertsBy(source, hunks, i) \in Seq(Seq(SourceLines))
           /\ Len(InsertsBy(source, hunks, i)) = Len(hunks)
           /\ \A j \in 1..Len(hunks) : InsertsBy(source, hunks, i)[j] = Inserts(source, hunks[j], i)
           /\ Len(hunks) \in Nat /\ DOMAIN hunks = 1..Len(hunks)
<1>1. /\ source \in Seq(SourceLines) /\ hunks \in Seq(ReportHunks)
      /\ \A j \in 1..Len(hunks) : ~HunkRefused(source, hunks[j])
  BY DEF Unrefused
<1>2. Len(hunks) \in Nat /\ DOMAIN hunks = 1..Len(hunks) /\ \A j \in 1..Len(hunks) : hunks[j] \in ReportHunks
  BY <1>1
<1>3. \A j \in 1..Len(hunks) : Inserts(source, hunks[j], i) \in Seq(SourceLines)
  BY <1>1, <1>2, MeantIsEdit
<1>4. InsertsBy(source, hunks, i) = [j \in 1..Len(hunks) |-> Inserts(source, hunks[j], i)]
  BY <1>2 DEF InsertsBy
<1>5. QED
  BY <1>2, <1>3, <1>4

LEMMA EditedByType ==
    ASSUME NEW source, NEW hunks, Unrefused(source, hunks), NEW m \in 0..Len(hunks)
    PROVE  /\ EditedBy(source, hunks, m) \in Seq(Seq(SourceLines))
           /\ Len(EditedBy(source, hunks, m)) = Len(source)
<1>1. source \in Seq(SourceLines) /\ Len(source) \in Nat /\ \A i \in 1..Len(source) : source[i] \in SourceLines
  BY DEF Unrefused
<1>2. ASSUME NEW i \in 1..Len(source) PROVE Part(InsertsBy(source, hunks, i), 1, m) \in Seq(SourceLines)
  <2> DEFINE inserts == InsertsBy(source, hunks, i)
  <2>1. inserts \in Seq(Seq(SourceLines)) /\ Len(inserts) = Len(hunks) /\ Len(hunks) \in Nat
    BY InsertsByHunks
  <2> HIDE DEF inserts
  <2>2. 1 \in 1..(Len(inserts) + 1) /\ m \in 0..Len(inserts)
    BY <2>1
  <2>3. Part(inserts, 1, m) \in Seq(SourceLines)
    BY <2>1, <2>2, PartType
  <2>4. QED
    BY <2>3 DEF inserts
<1>3. \A u, v \in Seq(SourceLines) : u \o v \in Seq(SourceLines)
  OBVIOUS
<1> DEFINE edited == EditedBy(source, hunks, m)
<1>4. ASSUME NEW i \in 1..Len(source) PROVE edited[i] \in Seq(SourceLines)
  <2>1. <<>> \in Seq(SourceLines) /\ <<source[i]>> \in Seq(SourceLines)
    BY <1>1
  <2>2. QED
    BY <1>2, <1>3, <2>1 DEF EditedBy
<1>5. edited = [i \in 1..Len(source) |-> edited[i]]
  BY DEF EditedBy
<1> HIDE DEF edited
<1>6. edited \in Seq(Seq(SourceLines)) /\ Len(edited) = Len(source)
  BY <1>1, <1>4, <1>5
<1>7. QED
  BY <1>6 DEF edited

(* Outside its lines a hunk means nothing.                                   *)
LEMMA EditedElsewhere ==
    ASSUME NEW source, NEW hunks, Unrefused(source, hunks), NEW m \in 1..Len(hunks), NEW i \in 1..Len(source),
           i \notin First(source, hunks[m])..Final(source, hunks[m])
    PROVE  /\ EditedBy(source, hunks, m)[i] = EditedBy(source, hunks, m - 1)[i]
           /\ i \in Covered(source, hunks, m) <=> i \in Covered(source, hunks, m - 1)
<1> DEFINE inserts == InsertsBy(source, hunks, i)
<1>1. /\ source \in Seq(SourceLines) /\ hunks[m] \in ReportHunks /\ ~HunkRefused(source, hunks[m])
  BY DEF Unrefused
<1>2. /\ inserts \in Seq(Seq(SourceLines)) /\ Len(inserts) = Len(hunks) /\ Len(hunks) \in Nat
      /\ inserts[m] = Inserts(source, hunks[m], i)
  BY InsertsByHunks
<1>3. ~Removes(source, hunks[m], i) /\ Inserts(source, hunks[m], i) = <<>>
  <2>1. 0 \in Int
    OBVIOUS
  <2>2. \A k \in 1..Len(source) : k \notin First(source, hunks[m])..Final(source, hunks[m]) =>
           ~Removes(source, hunks[m], k) /\ Inserts(source, hunks[m], k) = <<>>
    BY <1>1, <2>1, HunkWhole
  <2>3. QED
    BY <2>2
<1>4. \A j : j \in 1..m <=> j = m \/ j \in 1..(m - 1)
  BY <1>2
<1> HIDE DEF inserts
<1>5. Part(inserts, 1, m) = Part(inserts, 1, m - 1)
  <2>1. 1 \in 1..Len(inserts) /\ m \in 1..Len(inserts)
    BY <1>2
  <2>2. Part(inserts, 1, m) = Part(inserts, 1, m - 1) \o inserts[m] /\ Part(inserts, 1, m - 1) \in Seq(SourceLines)
    BY <1>2, <2>1, PartLast
  <2>3. QED
    BY <1>2, <1>3, <2>2, ConcatEmptySeq
<1>6. (\E j \in 1..m : Removes(source, hunks[j], i)) <=> (\E j \in 1..(m - 1) : Removes(source, hunks[j], i))
  BY <1>3, <1>4
<1>7. EditedBy(source, hunks, m)[i] = EditedBy(source, hunks, m - 1)[i]
  BY <1>5, <1>6 DEF EditedBy, inserts
<1>8. i \in Covered(source, hunks, m) <=> i \in Covered(source, hunks, m - 1)
  BY <1>4 DEF Covered
<1>9. QED
  BY <1>7, <1>8

LEMMA EditedOutside ==
    ASSUME NEW source, NEW hunks, Unrefused(source, hunks), NEW m \in 0..Len(hunks), NEW i \in 1..Len(source),
           i \notin Covered(source, hunks, m)
    PROVE  /\ EditedBy(source, hunks, m)[i] = <<source[i]>>
           /\ \A j \in 1..m : ~Removes(source, hunks[j], i) /\ Inserts(source, hunks[j], i) = <<>>
<1> DEFINE inserts == InsertsBy(source, hunks, i)
<1>1. /\ source \in Seq(SourceLines)
      /\ \A j \in 1..Len(hunks) : hunks[j] \in ReportHunks /\ ~HunkRefused(source, hunks[j])
  BY DEF Unrefused
<1>2. /\ inserts \in Seq(Seq(SourceLines)) /\ Len(inserts) = Len(hunks) /\ Len(hunks) \in Nat
      /\ \A j \in 1..Len(hunks) : inserts[j] = Inserts(source, hunks[j], i)
  BY InsertsByHunks
<1>3. \A j \in 1..m : j \in 1..Len(hunks)
  BY <1>2
<1>4. ASSUME NEW j \in 1..m PROVE ~Removes(source, hunks[j], i) /\ Inserts(source, hunks[j], i) = <<>>
  <2>1. i \notin First(source, hunks[j])..Final(source, hunks[j])
    BY DEF Covered
  <2>2. hunks[j] \in ReportHunks /\ ~HunkRefused(source, hunks[j]) /\ 0 \in Int
    BY <1>1, <1>3
  <2>3. \A k \in 1..Len(source) : k \notin First(source, hunks[j])..Final(source, hunks[j]) =>
           ~Removes(source, hunks[j], k) /\ Inserts(source, hunks[j], k) = <<>>
    BY <1>1, <2>2, HunkWhole
  <2>4. QED
    BY <2>1, <2>3
<1> HIDE DEF inserts
<1>5. Part(inserts, 1, m) = <<>>
  <2>1. \A j \in 1..m : inserts[j] = <<>>
    BY <1>2, <1>3, <1>4
  <2>2. 1 \in 1..(Len(inserts) + 1) /\ m \in (1 - 1)..Len(inserts)
    BY <1>2
  <2>3. QED
    BY <1>2, <2>1, <2>2, PartNothing
<1>6. EditedBy(source, hunks, m)[i] = <<source[i]>> \o <<>>
  BY <1>4, <1>5 DEF EditedBy, inserts
<1>7. <<source[i]>> \in Seq(SourceLines)
  BY <1>1
<1>8. QED
  BY <1>4, <1>6, <1>7, ConcatEmptySeq

(* Of lines no earlier hunk is about, hunk m alone says what becomes.        *)
LEMMA EditedAlone ==
    ASSUME NEW source, NEW hunks, Unrefused(source, hunks), NEW m \in 1..Len(hunks), NEW i \in 1..Len(source),
           i \notin Covered(source, hunks, m - 1)
    PROVE  EditedBy(source, hunks, m)[i] = Meant(source, hunks[m])[i]
<1> DEFINE inserts == InsertsBy(source, hunks, i)
<1>1. /\ inserts \in Seq(Seq(SourceLines)) /\ Len(inserts) = Len(hunks) /\ Len(hunks) \in Nat
      /\ \A j \in 1..Len(hunks) : inserts[j] = Inserts(source, hunks[j], i)
  BY InsertsByHunks
<1>2. \A j \in 1..(m - 1) : ~Removes(source, hunks[j], i) /\ Inserts(source, hunks[j], i) = <<>>
  <2>1. m - 1 \in 0..Len(hunks)
    BY <1>1
  <2>2. QED
    BY <2>1, EditedOutside
<1>3. \A j : j \in 1..m <=> j = m \/ j \in 1..(m - 1)
  BY <1>1
<1>4. (\E j \in 1..m : Removes(source, hunks[j], i)) <=> Removes(source, hunks[m], i)
  BY <1>2, <1>3
<1> HIDE DEF inserts
<1>5. Part(inserts, 1, m) = Inserts(source, hunks[m], i)
  <2>1. \A j \in 1..(m - 1) : inserts[j] = <<>>
    <3>1. \A j \in 1..(m - 1) : j \in 1..Len(hunks)
      BY <1>1
    <3>2. QED
      BY <1>1, <1>2, <3>1
  <2>2. 1 \in 1..(Len(inserts) + 1) /\ m - 1 \in (1 - 1)..Len(inserts) /\ 1 \in 1..Len(inserts) /\ m \in 1..Len(inserts)
    BY <1>1
  <2>3. Part(inserts, 1, m - 1) = <<>>
    BY <1>1, <2>1, <2>2, PartNothing
  <2>4. Part(inserts, 1, m) = Part(inserts, 1, m - 1) \o inserts[m]
    BY <1>1, <2>2, PartLast
  <2>5. inserts[m] \in Seq(SourceLines)
    BY <1>1
  <2>6. <<>> \o inserts[m] = inserts[m]
    BY <2>5, ConcatEmptySeq
  <2>7. QED
    BY <1>1, <2>3, <2>4, <2>6
<1>6. QED
  BY <1>4, <1>5 DEF EditedBy, Meant, MeantAt, inserts

(* The file after the first m hunks, if they all applied.                    *)
ImageOf(source, hunks, m) ==
    [i \in 1..Len(source) |->
        IF i \in Covered(source, hunks, m) THEN OnEach(Freshen, EditedBy(source, hunks, m)[i])
        ELSE <<Kept(source)[i]>>]

LEMMA FreshenLines ==
    /\ Freshen \in Maps(SourceLines, Marked)
    /\ \A s \in Seq(SourceLines) :
          /\ OnEach(Freshen, s) \in Seq(Marked) /\ Len(OnEach(Freshen, s)) = Len(s)
          /\ \A r \in 1..Len(s) : OnEach(Freshen, s)[r] = [line |-> s[r], fresh |-> TRUE]
<1>1. Freshen \in Maps(SourceLines, Marked)
  BY DEF Freshen, Maps, Marked
<1>2. ASSUME NEW s \in Seq(SourceLines)
      PROVE  /\ OnEach(Freshen, s) \in Seq(Marked) /\ Len(OnEach(Freshen, s)) = Len(s)
             /\ \A r \in 1..Len(s) : OnEach(Freshen, s)[r] = [line |-> s[r], fresh |-> TRUE]
  <2>1. Len(s) \in Nat /\ DOMAIN s = 1..Len(s) /\ \A r \in 1..Len(s) : s[r] \in SourceLines
    OBVIOUS
  <2>2. \A r \in 1..Len(s) : Freshen[s[r]] = [line |-> s[r], fresh |-> TRUE] /\ Freshen[s[r]] \in Marked
    BY <2>1 DEF Freshen, Marked
  <2>3. OnEach(Freshen, s) = [r \in 1..Len(s) |-> Freshen[s[r]]]
    BY <2>1 DEF OnEach
  <2> DEFINE made == OnEach(Freshen, s)
  <2>4. made = [r \in 1..Len(s) |-> made[r]] /\ \A r \in 1..Len(s) : made[r] \in Marked
    BY <2>2, <2>3
  <2>5. \A r \in 1..Len(s) : made[r] = [line |-> s[r], fresh |-> TRUE]
    BY <2>2, <2>3
  <2> HIDE DEF made
  <2>6. made \in Seq(Marked) /\ Len(made) = Len(s)
    BY <2>1, <2>4
  <2>7. QED
    BY <2>5, <2>6 DEF made
<1>3. QED
  BY <1>1, <1>2

LEMMA FreshenPart ==
    ASSUME NEW s \in Seq(Seq(SourceLines)), NEW t \in Seq(Seq(Marked)), Len(t) = Len(s),
           NEW i \in 1..Len(s), NEW j \in i..Len(s), \A k \in i..j : t[k] = OnEach(Freshen, s[k])
    PROVE  Part(t, i, j) = OnEach(Freshen, Part(s, i, j))
<1>1. Freshen \in Maps(SourceLines, Marked)
  BY FreshenLines
<1>2. i \in 1..(Len(s) + 1) /\ j \in (i - 1)..Len(s)
  OBVIOUS
<1>3. Corresponds(SourceLines, Marked, Freshen, s, t, i, j)
  BY <1>1, <1>2 DEF Corresponds
<1>4. QED
  BY <1>3, PartOnEach

LEMMA HunkApplied ==
    ASSUME NEW source, NEW hunks, Unrefused(source, hunks), NEW m \in 1..Len(hunks), NEW delta \in Int,
           NEW hunk, hunk = ReconstructHunk(source, hunks[m], delta),
           IsImage(source, ImageOf(source, hunks, m - 1), Covered(source, hunks, m - 1)),
           ApplyHunk(FlattenSeq(ImageOf(source, hunks, m - 1)), hunk) # Failed
    PROVE  /\ ApplyHunk(FlattenSeq(ImageOf(source, hunks, m - 1)), hunk) = FlattenSeq(ImageOf(source, hunks, m))
           /\ IsImage(source, ImageOf(source, hunks, m), Covered(source, hunks, m))
<1> DEFINE a == First(source, hunks[m])
           e == Final(source, hunks[m])
           meant == Meant(source, hunks[m])
           seg == ImageOf(source, hunks, m - 1)
           before == Covered(source, hunks, m - 1)
           after == Covered(source, hunks, m)
           next == [i \in 1..Len(source) |-> IF i \in a..e THEN OnEach(Freshen, meant[i]) ELSE seg[i]]
<1>1. /\ source \in Seq(SourceLines) /\ hunks[m] \in ReportHunks /\ ~HunkRefused(source, hunks[m])
      /\ Len(source) \in Nat /\ Len(hunks) \in Nat
  BY DEF Unrefused
<1>2. /\ a \in 1..Len(source) /\ e \in a..Len(source) /\ hunk.start \in Int /\ hunk.old = SubSeq(source, a, e)
      /\ hunk.new \in Seq(SourceLines) /\ hunk.new = Part(meant, a, e)
      /\ meant \in Seq(Seq(SourceLines)) /\ Len(meant) = Len(source)
  BY <1>1, HunkWhole
<1>3. /\ \A i \in 1..Len(source) : source[i] = source[a] => i = a
  BY <1>1, HunkPlaced
<1>4. ~Removes(source, hunks[m], a) /\ Inserts(source, hunks[m], a) \in Seq(SourceLines)
  <2>1. \A i \in 1..Len(source) : Inserts(source, hunks[m], i) \in Seq(SourceLines)
    BY <1>1, MeantIsEdit
  <2>2. ~Removes(source, hunks[m], a)
    BY <1>1, MeantIsEdit
  <2>3. QED
    BY <1>2, <2>1, <2>2
<1>5. seg \in Seq(Seq(Marked)) /\ Len(seg) = Len(source)
      /\ \A i \in 1..Len(source) :
          /\ i \notin before => seg[i] = <<Kept(source)[i]>>
          /\ i \in before => \A r \in 1..Len(seg[i]) : seg[i][r].fresh = TRUE
          /\ i \in before /\ i - 1 \notin before => Len(seg[i]) # 0
  BY DEF IsImage
<1>6. \A i \in 1..Len(source) : meant[i] \in Seq(SourceLines)
  BY <1>2
<1>7. \A u, v \in Seq(SourceLines) : Len(u \o v) = Len(u) + Len(v) /\ Len(v) \in Nat
  OBVIOUS
<1> HIDE DEF a, e, meant, seg
<1>8. \A i \in 1..Len(source) : next[i] = IF i \in a..e THEN OnEach(Freshen, meant[i]) ELSE seg[i]
  OBVIOUS
<1>9. next \in Seq(Seq(Marked)) /\ Len(next) = Len(source)
  <2>1. \A i \in 1..Len(source) : next[i] \in Seq(Marked)
    BY <1>5, <1>6, <1>8, FreshenLines
  <2>2. next = [i \in 1..Len(source) |-> next[i]]
    OBVIOUS
  <2> HIDE DEF next
  <2>3. QED
    BY <1>1, <2>1, <2>2
<1> HIDE DEF next
<1>10. Part(next, a, e) = OnEach(Freshen, hunk.new)
  <2>1. \A k \in a..e : next[k] = OnEach(Freshen, meant[k])
    <3>1. \A k \in a..e : k \in 1..Len(source)
      BY <1>1, <1>2
    <3>2. QED
      BY <1>8, <3>1
  <2>2. Len(next) = Len(meant) /\ a \in 1..Len(meant) /\ e \in a..Len(meant)
    BY <1>2, <1>9
  <2>3. Part(next, a, e) = OnEach(Freshen, Part(meant, a, e))
    BY <1>2, <1>9, <2>1, <2>2, FreshenPart
  <2>4. QED
    BY <1>2, <2>3
<1>11. ApplyHunk(FlattenSeq(seg), hunk) = FlattenSeq(next) /\ \A i \in a..e : i \notin before
  <2>1. \A i \in 1..Len(source) : i \notin a..e => next[i] = seg[i]
    BY <1>8
  <2>2. IsImage(source, seg, before) /\ ApplyHunk(FlattenSeq(seg), hunk) # Failed
    BY DEF seg
  <2> HIDE DEF before
  <2>3. Replaces(source, hunk, a, e, seg, next)
    BY <1>1, <1>2, <1>3, <1>9, <1>10, <2>1 DEF Replaces
  <2>4. QED
    BY <2>2, <2>3, ApplyStep
<1>12. \A i \in 1..Len(source) : i \in after <=> i \in before \/ i \in a..e
  <2>1. \A j : j \in 1..m <=> j = m \/ j \in 1..(m - 1)
    BY <1>1
  <2>2. QED
    BY <2>1 DEF Covered, a, e
<1>13. ASSUME NEW i \in 1..Len(source) PROVE next[i] = ImageOf(source, hunks, m)[i]
  <2>1. CASE i \in a..e
    <3>1. i \notin before /\ i \in after
      BY <1>11, <1>12, <2>1
    <3>2. EditedBy(source, hunks, m)[i] = meant[i]
      BY <3>1, EditedAlone DEF meant
    <3>3. QED
      BY <1>8, <2>1, <3>1, <3>2 DEF ImageOf
  <2>2. CASE i \notin a..e
    <3>1. EditedBy(source, hunks, m)[i] = EditedBy(source, hunks, m - 1)[i] /\ (i \in after <=> i \in before)
      BY <2>2, EditedElsewhere DEF a, e
    <3>2. QED
      BY <1>8, <2>2, <3>1 DEF ImageOf, seg
  <2>3. QED
    BY <2>1, <2>2
<1>14. ImageOf(source, hunks, m) = next
  <2>1. ImageOf(source, hunks, m) = [i \in 1..Len(source) |-> ImageOf(source, hunks, m)[i]]
    BY DEF ImageOf
  <2>2. next = [i \in 1..Len(source) |-> next[i]]
    BY DEF next
  <2>3. QED
    BY <1>13, <2>1, <2>2
<1>15. ASSUME NEW i \in 1..Len(source)
       PROVE  /\ i \notin after => next[i] = <<Kept(source)[i]>>
              /\ i \in after => \A r \in 1..Len(next[i]) : next[i][r].fresh = TRUE
              /\ i \in after /\ i - 1 \notin after => Len(next[i]) # 0
  <2>1. i \notin after => next[i] = <<Kept(source)[i]>>
    BY <1>5, <1>8, <1>12
  <2>2. ASSUME i \in after, NEW r \in 1..Len(next[i]) PROVE next[i][r].fresh = TRUE
    <3>1. CASE i \in a..e
      <4>1. next[i] = OnEach(Freshen, meant[i]) /\ meant[i] \in Seq(SourceLines)
        BY <1>6, <1>8, <3>1
      <4>2. next[i][r] = [line |-> meant[i][r], fresh |-> TRUE]
        BY <4>1, FreshenLines
      <4>3. QED
        BY <4>2
    <3>2. CASE i \notin a..e
      BY <1>5, <1>8, <1>12, <2>2, <3>2
    <3>3. QED
      BY <3>1, <3>2
  <2>3. ASSUME i \in after, i - 1 \notin after PROVE Len(next[i]) # 0
    <3>1. CASE i \in a..e
      <4>1. i = a
        <5>1. i - 1 \notin a..e
          <6>1. ASSUME i - 1 \in a..e PROVE FALSE
            <7>1. i - 1 \in 1..Len(source)
              BY <1>1, <1>2, <6>1
            <7>2. QED
              BY <1>12, <2>3, <6>1, <7>1
          <6>2. QED
            BY <6>1
        <5>2. QED
          BY <1>1, <1>2, <3>1, <5>1
      <4>2. meant[a] = <<source[a]>> \o Inserts(source, hunks[m], a)
        BY <1>2, <1>4 DEF meant, Meant, MeantAt
      <4>3. <<source[a]>> \in Seq(SourceLines) /\ Len(<<source[a]>>) = 1
        BY <1>1, <1>2
      <4> DEFINE x == <<source[a]>>
                 y == Inserts(source, hunks[m], a)
      <4>4. Len(x \o y) # 0
        <5>1. x \in Seq(SourceLines) /\ y \in Seq(SourceLines) /\ Len(x) = 1
          BY <1>4, <4>3
        <5> HIDE DEF x, y
        <5>2. Len(x \o y) = Len(x) + Len(y) /\ Len(y) \in Nat
          BY <1>7, <5>1
        <5>3. QED
          BY <5>1, <5>2
      <4>5. Len(next[i]) = Len(meant[i])
        BY <1>6, <1>8, <3>1, FreshenLines
      <4>6. QED
        BY <4>1, <4>2, <4>4, <4>5
    <3>2. CASE i \notin a..e
      <4>1. i \in before /\ next[i] = seg[i]
        BY <1>8, <1>12, <2>3, <3>2
      <4>2. i - 1 \notin before
        <5>1. \A k : k \in before => k \in 1..Len(source)
          BY DEF Covered
        <5>2. QED
          BY <1>12, <2>3, <5>1
      <4>3. QED
        BY <1>5, <4>1, <4>2
    <3>3. QED
      BY <3>1, <3>2
  <2>4. QED
    BY <2>1, <2>2, <2>3
<1>16. IsImage(source, next, after)
  <2> HIDE DEF after
  <2>1. QED
    BY <1>9, <1>15 DEF IsImage
<1>17. QED
  BY <1>11, <1>14, <1>16 DEF seg

LineOf == [mark \in Marked |-> mark.line]

LEMMA LinesOfMarked ==
    /\ LineOf \in Maps(Marked, SourceLines)
    /\ \A s \in Seq(SourceLines) : OnEach(LineOf, OnEach(Freshen, s)) = s
    /\ \A l \in SourceLines : OnEach(LineOf, <<[line |-> l, fresh |-> FALSE]>>) = <<l>>
<1>1. LineOf \in Maps(Marked, SourceLines)
  BY DEF LineOf, Maps, Marked
<1>2. \A l \in SourceLines, b \in BOOLEAN :
         [line |-> l, fresh |-> b] \in Marked /\ LineOf[[line |-> l, fresh |-> b]] = l
  BY DEF LineOf, Marked
<1>3. ASSUME NEW s \in Seq(SourceLines) PROVE OnEach(LineOf, OnEach(Freshen, s)) = s
  <2> DEFINE made == OnEach(Freshen, s)
  <2>1. /\ made \in Seq(Marked) /\ Len(made) = Len(s)
        /\ \A r \in 1..Len(s) : made[r] = [line |-> s[r], fresh |-> TRUE]
    BY FreshenLines
  <2>2. s = [r \in 1..Len(s) |-> s[r]] /\ \A r \in 1..Len(s) : s[r] \in SourceLines
    OBVIOUS
  <2> HIDE DEF made
  <2>3. OnEach(LineOf, made) = [r \in 1..Len(s) |-> LineOf[made[r]]]
    BY <2>1 DEF OnEach
  <2>4. \A r \in 1..Len(s) : LineOf[made[r]] = s[r]
    BY <1>2, <2>1, <2>2
  <2>5. QED
    BY <2>2, <2>3, <2>4 DEF made
<1>4. ASSUME NEW l \in SourceLines PROVE OnEach(LineOf, <<[line |-> l, fresh |-> FALSE]>>) = <<l>>
  <2> DEFINE mark == [line |-> l, fresh |-> FALSE]
  <2>1. LineOf[mark] = l
    BY <1>2
  <2> HIDE DEF mark
  <2>2. DOMAIN <<mark>> = 1..1 /\ <<mark>>[1] = mark
    OBVIOUS
  <2>3. OnEach(LineOf, <<mark>>) = [r \in 1..1 |-> l]
    BY <2>1, <2>2 DEF OnEach
  <2>4. <<l>> = [r \in 1..1 |-> l]
    OBVIOUS
  <2>5. QED
    BY <2>3, <2>4 DEF mark
<1>5. QED
  BY <1>1, <1>3, <1>4

LEMMA EditedByAll ==
    ASSUME NEW source, NEW hunks, Unrefused(source, hunks)
    PROVE  Edited(source, hunks) = FlattenSeq(EditedBy(source, hunks, Len(hunks)))
<1>1. source \in Seq(SourceLines) /\ Len(source) \in Nat /\ DOMAIN source = 1..Len(source)
  BY DEF Unrefused
<1>2. ASSUME NEW i \in 1..Len(source)
      PROVE  EditedAt(source, hunks, i) = EditedBy(source, hunks, Len(hunks))[i]
  <2> DEFINE inserts == InsertsBy(source, hunks, i)
  <2>1. /\ inserts \in Seq(Seq(SourceLines)) /\ Len(inserts) = Len(hunks)
        /\ Len(hunks) \in Nat /\ DOMAIN hunks = 1..Len(hunks)
    BY InsertsByHunks
  <2>2. FlattenSeq(inserts) = Part(inserts, 1, Len(hunks))
    <3> HIDE DEF inserts
    <3>1. QED
      BY <2>1, PartAll
  <2>3. FlattenSeq([j \in DOMAIN hunks |-> Inserts(source, hunks[j], i)]) = Part(inserts, 1, Len(hunks))
    BY <2>2 DEF InsertsBy
  <2>4. (\E h \in Range(hunks) : Removes(source, h, i)) <=> (\E j \in 1..Len(hunks) : Removes(source, hunks[j], i))
    BY <2>1 DEF Range
  <2>5. QED
    BY <2>3, <2>4 DEF EditedAt, EditedBy
<1>3. [i \in DOMAIN source |-> EditedAt(source, hunks, i)] = EditedBy(source, hunks, Len(hunks))
  <2>1. EditedBy(source, hunks, Len(hunks)) = [i \in 1..Len(source) |-> EditedBy(source, hunks, Len(hunks))[i]]
    BY DEF EditedBy
  <2>2. QED
    BY <1>1, <1>2, <2>1
<1>4. QED
  BY <1>3 DEF Edited

(* A file to which all hunks of a report apply is the edit they mean.        *)
LEMMA FilePatched ==
    ASSUME NEW source, NEW hunks, Unrefused(source, hunks), NEW patch,
           patch = [j \in DOMAIN hunks |-> ReconstructHunk(source, hunks[j], Delta(SubSeq(hunks, 1, j - 1)))],
           ApplyFile(source, patch) # Failed
    PROVE  ApplyFile(source, patch) = Edited(source, hunks)
<1> DEFINE n == Len(hunks)
           base == Kept(source)
           imageOf(m) == ImageOf(source, hunks, m)
           covered(m) == Covered(source, hunks, m)
<1>1. /\ source \in Seq(SourceLines) /\ hunks \in Seq(ReportHunks) /\ Len(source) \in Nat /\ n \in Nat
      /\ DOMAIN hunks = 1..n /\ DOMAIN source = 1..Len(source)
      /\ \A j \in 1..n : hunks[j] \in ReportHunks /\ ~HunkRefused(source, hunks[j])
  BY DEF Unrefused
<1>2. \A j \in 1..n : Delta(SubSeq(hunks, 1, j - 1)) \in Int
  <2> SUFFICES ASSUME NEW j \in 1..n PROVE Delta(SubSeq(hunks, 1, j - 1)) \in Int
    OBVIOUS
  <2>1. 1 \in Int /\ j - 1 \in Int /\ \A i \in 1..(j - 1) : hunks[i] \in ReportHunks
    BY <1>1
  <2>2. SubSeq(hunks, 1, j - 1) \in Seq(ReportHunks)
    BY <2>1, SubSeqProperties
  <2>3. QED
    BY <2>2, DeltaIsInt
<1>3. patch \in Seq(PatchHunks) /\ Len(patch) = n
  <2>1. ASSUME NEW j \in 1..n PROVE patch[j] \in PatchHunks
    <3> DEFINE delta == Delta(SubSeq(hunks, 1, j - 1))
               made == ReconstructHunk(source, hunks[j], delta)
    <3>1. patch[j] = made
      BY <1>1
    <3>2. delta \in Int
      BY <1>2
    <3> HIDE DEF delta
    <3>3. made.start \in Int /\ made.old \in Seq(SourceLines) /\ made.new \in Seq(SourceLines)
      BY <1>1, <3>2, HunkWhole
    <3>4. made = [start |-> made.start, old |-> made.old, new |-> made.new]
      BY DEF ReconstructHunk
    <3> HIDE DEF made
    <3>5. QED
      BY <3>1, <3>3, <3>4 DEF PatchHunks
  <2>2. patch = [j \in 1..n |-> patch[j]]
    BY <1>1
  <2>3. QED
    BY <1>1, <2>1, <2>2
<1>4. base \in Seq(Marked) /\ Len(base) = Len(source) /\ \A i \in 1..Len(source) : base[i] \in Marked
  BY <1>1 DEF Kept, Marked
<1>5. PICK image :
         /\ image[0] = base
         /\ \A i \in 1..Len(patch) : image[i] = ApplyHunk(image[i - 1], patch[i])
         /\ FoldLeft(ApplyHunk, base, patch) = image[Len(patch)]
  BY <1>3, <1>4, AppliedByHunks
<1>6. \A m \in 0..n : imageOf(m) \in Seq(Seq(Marked)) /\ Len(imageOf(m)) = Len(source)
  <2> SUFFICES ASSUME NEW m \in 0..n PROVE imageOf(m) \in Seq(Seq(Marked)) /\ Len(imageOf(m)) = Len(source)
    OBVIOUS
  <2>1. EditedBy(source, hunks, m) \in Seq(Seq(SourceLines)) /\ Len(EditedBy(source, hunks, m)) = Len(source)
    BY EditedByType
  <2>2. \A i \in 1..Len(source) : EditedBy(source, hunks, m)[i] \in Seq(SourceLines)
    BY <2>1
  <2>3. \A i \in 1..Len(source) : OnEach(Freshen, EditedBy(source, hunks, m)[i]) \in Seq(Marked)
    BY <2>2, FreshenLines
  <2>4. \A i \in 1..Len(source) : <<base[i]>> \in Seq(Marked)
    BY <1>4
  <2> DEFINE made == imageOf(m)
  <2>5. made = [i \in 1..Len(source) |-> made[i]] /\ \A i \in 1..Len(source) : made[i] \in Seq(Marked)
    BY <2>3, <2>4 DEF ImageOf
  <2> HIDE DEF made
  <2>6. made \in Seq(Seq(Marked)) /\ Len(made) = Len(source)
    BY <1>1, <2>5
  <2>7. QED
    BY <2>6 DEF made
<1> DEFINE T == {m \in 0..n : image[m] = Failed
                              \/ (image[m] = FlattenSeq(imageOf(m)) /\ IsImage(source, imageOf(m), covered(m)))}
<1>7. 0 \in T
  <2>1. covered(0) = {}
    BY DEF Covered
  <2>2. \A i \in 1..Len(source) : imageOf(0)[i] = <<base[i]>>
    BY <2>1 DEF ImageOf
  <2>3. imageOf(0) \in Seq(Seq(Marked)) /\ Len(imageOf(0)) = Len(source)
    BY <1>1, <1>6
  <2>4. IsImage(source, imageOf(0), covered(0))
    BY <2>1, <2>2, <2>3 DEF IsImage
  <2>5. FlattenSeq(imageOf(0)) = base
    <3> DEFINE s == imageOf(0)
    <3>1. s \in Seq(Seq(Marked)) /\ Len(s) = Len(source) /\ \A i \in 1..Len(source) : s[i] = <<base[i]>>
      BY <2>2, <2>3
    <3> HIDE DEF s, base
    <3>2. Len(base) = Len(s) /\ 1 \in 1..(Len(s) + 1) /\ Len(s) \in (1 - 1)..Len(s)
      BY <1>1, <1>4, <3>1
    <3>3. Part(s, 1, Len(s)) = SubSeq(base, 1, Len(s))
      BY <1>4, <3>1, <3>2, PartSingles
    <3>4. SubSeq(base, 1, Len(base)) = base
      BY <1>4, SubSeqFull
    <3>5. FlattenSeq(s) = base
      BY <3>1, <3>2, <3>3, <3>4, PartAll
    <3>6. QED
      BY <3>5 DEF s
  <2>6. QED
    BY <1>1, <1>5, <2>4, <2>5
<1>8. ASSUME NEW m \in 1..n, m - 1 \in T PROVE m \in T
  <2>1. image[m] = ApplyHunk(image[m - 1], patch[m])
    BY <1>3, <1>5
  <2>2. CASE image[m - 1] = Failed
    <3>1. image[m] = Failed
      BY <2>1, <2>2 DEF ApplyHunk
    <3>2. QED
      BY <1>1, <3>1
  <2>3. CASE image[m] = Failed
    BY <1>1, <2>3
  <2>4. CASE image[m - 1] # Failed /\ image[m] # Failed
    <3> DEFINE delta == Delta(SubSeq(hunks, 1, m - 1))
    <3>1. delta \in Int /\ patch[m] = ReconstructHunk(source, hunks[m], delta)
      BY <1>1, <1>2
    <3>2. image[m - 1] = FlattenSeq(imageOf(m - 1)) /\ IsImage(source, imageOf(m - 1), covered(m - 1))
      BY <1>8, <2>4
    <3>3. ApplyHunk(FlattenSeq(imageOf(m - 1)), patch[m]) # Failed
      BY <2>1, <2>4, <3>2
    <3> HIDE DEF delta
    <3>4. /\ ApplyHunk(FlattenSeq(imageOf(m - 1)), patch[m]) = FlattenSeq(imageOf(m))
          /\ IsImage(source, imageOf(m), covered(m))
      BY <3>1, <3>2, <3>3, HunkApplied
    <3>5. QED
      BY <1>1, <2>1, <3>2, <3>4
  <2>5. QED
    BY <2>2, <2>3, <2>4
<1>9. n \in T
  <2> HIDE DEF T
  <2>1. 0..n \subseteq T
    BY <1>1, <1>7, <1>8, InductionTo
  <2>2. QED
    BY <1>1, <2>1
<1> DEFINE last == image[n]
<1>10. last # Failed /\ ApplyFile(source, patch) = [i \in DOMAIN last |-> last[i].line]
  <2>1. FoldLeft(ApplyHunk, base, patch) = last
    BY <1>3, <1>5
  <2>2. ApplyFile(source, patch) = IF last = Failed THEN Failed ELSE [i \in DOMAIN last |-> last[i].line]
    BY <2>1 DEF ApplyFile, Kept
  <2>3. QED
    BY <2>2
<1>11. last = FlattenSeq(imageOf(n))
  BY <1>9, <1>10
<1> DEFINE whole == imageOf(n)
           edited == EditedBy(source, hunks, n)
<1>12. whole \in Seq(Seq(Marked)) /\ Len(whole) = Len(source)
  BY <1>1, <1>6
<1>13. edited \in Seq(Seq(SourceLines)) /\ Len(edited) = Len(source) /\ \A i \in 1..Len(source) : edited[i] \in Seq(SourceLines)
  <2>1. n \in 0..n
    BY <1>1
  <2>2. edited \in Seq(Seq(SourceLines)) /\ Len(edited) = Len(source)
    BY <2>1, EditedByType
  <2> HIDE DEF edited
  <2>3. QED
    BY <2>2
<1>14. ASSUME NEW i \in 1..Len(source) PROVE edited[i] = OnEach(LineOf, whole[i])
  <2>1. CASE i \in covered(n)
    <3>1. whole[i] = OnEach(Freshen, edited[i])
      BY <2>1 DEF ImageOf
    <3>2. QED
      BY <1>13, <3>1, LinesOfMarked
  <2>2. CASE i \notin covered(n)
    <3>1. n \in 0..n /\ source[i] \in SourceLines
      BY <1>1
    <3>2. edited[i] = <<source[i]>>
      BY <2>2, <3>1, EditedOutside
    <3>3. whole[i] = <<[line |-> source[i], fresh |-> FALSE]>>
      BY <1>1, <2>2 DEF ImageOf, Kept
    <3>4. QED
      BY <3>1, <3>2, <3>3, LinesOfMarked
  <2>3. QED
    BY <2>1, <2>2
<1> HIDE DEF whole, edited
<1>15. Part(edited, 1, Len(source)) = OnEach(LineOf, Part(whole, 1, Len(source)))
  <2>1. 1 \in 1..(Len(whole) + 1) /\ Len(source) \in (1 - 1)..Len(whole) /\ Len(edited) = Len(whole)
    BY <1>1, <1>12, <1>13
  <2>2. Corresponds(Marked, SourceLines, LineOf, whole, edited, 1, Len(source))
    BY <1>12, <1>13, <1>14, <2>1, LinesOfMarked DEF Corresponds
  <2>3. QED
    BY <2>2, PartOnEach
<1>16. FlattenSeq(edited) = OnEach(LineOf, FlattenSeq(whole)) /\ FlattenSeq(whole) \in Seq(Marked)
  <2>1. Part(edited, 1, Len(edited)) = FlattenSeq(edited)
    BY <1>13, PartAll
  <2>2. Part(whole, 1, Len(whole)) = FlattenSeq(whole) /\ FlattenSeq(whole) \in Seq(Marked)
    BY <1>12, PartAll
  <2>3. QED
    BY <1>12, <1>13, <1>15, <2>1, <2>2
<1>17. last = FlattenSeq(whole) /\ last \in Seq(Marked)
  BY <1>11, <1>16 DEF whole
<1> HIDE DEF last
<1>18. [i \in DOMAIN last |-> last[i].line] = OnEach(LineOf, last)
  <2>1. \A i \in DOMAIN last : last[i] \in Marked
    BY <1>17
  <2>2. \A i \in DOMAIN last : LineOf[last[i]] = last[i].line
    BY <2>1 DEF LineOf
  <2>3. QED
    BY <2>2 DEF OnEach
<1>19. Edited(source, hunks) = FlattenSeq(edited)
  BY EditedByAll DEF edited
<1>20. QED
  BY <1>10, <1>16, <1>17, <1>18, <1>19

-----------------------------------------------------------------------------
(* From a report's block to the patched sources.  Of the files of a block    *)
(* one is looked at; the others apply, or nothing is patched.                *)
LEMMA FlattenOnly ==
    ASSUME NEW S, NEW s \in Seq(Seq(S)), NEW k \in 1..Len(s), \A j \in 1..Len(s) : j # k => s[j] = <<>>
    PROVE  FlattenSeq(s) = s[k]
<1>1. /\ Len(s) \in Nat /\ 1 \in 1..(Len(s) + 1) /\ k + 1 \in 1..(Len(s) + 1) /\ 1 \in 1..Len(s)
      /\ k \in (1 - 1)..Len(s) /\ Len(s) \in k..Len(s) /\ Len(s) \in (k + 1 - 1)..Len(s)
      /\ k \in 1..Len(s) /\ k - 1 \in (1 - 1)..Len(s) /\ s[k] \in Seq(S)
  OBVIOUS
<1>2. Part(s, 1, Len(s)) = Part(s, 1, k) \o Part(s, k + 1, Len(s))
  BY <1>1, PartJoin
<1>3. Part(s, k + 1, Len(s)) = <<>>
  <2> DEFINE i == k + 1
  <2>1. i \in 1..(Len(s) + 1) /\ Len(s) \in (i - 1)..Len(s) /\ \A j \in i..Len(s) : s[j] = <<>>
    BY <1>1
  <2> HIDE DEF i
  <2>2. Part(s, i, Len(s)) = <<>>
    BY <2>1, PartNothing
  <2>3. QED
    BY <2>2 DEF i
<1>4. Part(s, 1, k) = Part(s, 1, k - 1) \o s[k]
  BY <1>1, PartLast
<1>5. Part(s, 1, k - 1) = <<>>
  <2>1. ASSUME NEW j \in 1..(k - 1) PROVE s[j] = <<>>
    <3>1. j \in 1..Len(s) /\ j # k
      BY <1>1
    <3>2. QED
      BY <3>1
  <2>2. QED
    BY <1>1, <2>1, PartNothing
<1>6. <<>> \o s[k] = s[k] /\ s[k] \o <<>> = s[k]
  BY <1>1, ConcatEmptySeq
<1>7. QED
  BY <1>2, <1>3, <1>4, <1>5, <1>6, PartAll

ReportFiles(files) ==
    /\ Len(files) \in Nat /\ DOMAIN files = 1..Len(files)
    /\ \A j \in DOMAIN files : files[j].hunks \in Seq(ReportHunks)
Made(source, hunks) ==
    [j \in DOMAIN hunks |-> ReconstructHunk(source, hunks[j], Delta(SubSeq(hunks, 1, j - 1)))]

LEMMA BlockPatched ==
    ASSUME NEW sources, NEW block, block.kind # "real", ReportFiles(block.files),
           NEW k \in DOMAIN block.files, NEW path, path = block.files[k].path,
           \A j \in DOMAIN block.files : block.files[j].path = path => j = k,
           NEW source \in Seq(SourceLines), sources[path] = source,
           NEW hunks, hunks = block.files[k].hunks,
           NEW patch, patch = Reconstruct(sources, block), patch # Refused,
           NEW after, after = GitApply(sources, patch), after # Failed
    PROVE  /\ \A h \in Range(hunks) : Cardinality(Hits(source, h.anchor)) = 1
           /\ after[path] = Edited(source, hunks)
<1> DEFINE files == block.files
           n == Len(files)
           made == Made(source, hunks)
<1>1. /\ n \in Nat /\ DOMAIN files = 1..n /\ k \in 1..n /\ hunks \in Seq(ReportHunks)
      /\ files[k] \in Range(files) /\ \A j \in 1..n : files[j].hunks \in Seq(ReportHunks)
  BY DEF ReportFiles, Range
<1>2. /\ path \in DOMAIN sources /\ ~ \E h \in Range(hunks) : HunkRefused(source, h)
      /\ patch = [j \in 1..n |-> [path |-> files[j].path, hunks |-> Made(sources[files[j].path], files[j].hunks)]]
  <2>1. \A f \in Range(files) : f.path \in DOMAIN sources /\ ~ \E h \in Range(f.hunks) : HunkRefused(sources[f.path], h)
    BY <1>1 DEF Reconstruct
  <2>2. path \in DOMAIN sources /\ ~ \E h \in Range(hunks) : HunkRefused(source, h)
    BY <1>1, <2>1
  <2>3. patch = [j \in DOMAIN files |->
                   [path |-> files[j].path,
                    hunks |-> [m \in DOMAIN files[j].hunks |->
                       ReconstructHunk(sources[files[j].path], files[j].hunks[m],
                                       Delta(SubSeq(files[j].hunks, 1, m - 1)))]]]
    BY <1>1 DEF Reconstruct
  <2>4. QED
    BY <1>1, <2>2, <2>3 DEF Made
<1>3. Unrefused(source, hunks) /\ \A h \in Range(hunks) : h \in ReportHunks /\ ~HunkRefused(source, h)
  <2>1. DOMAIN hunks = 1..Len(hunks) /\ \A j \in 1..Len(hunks) : hunks[j] \in ReportHunks
    BY <1>1
  <2>2. \A j \in 1..Len(hunks) : hunks[j] \in Range(hunks)
    BY <2>1 DEF Range
  <2>3. \A h \in Range(hunks) : h \in ReportHunks
    BY <2>1 DEF Range
  <2>4. QED
    BY <1>1, <1>2, <2>2, <2>3 DEF Unrefused
<1>4. \A h \in Range(hunks) : Cardinality(Hits(source, h.anchor)) = 1
  BY <1>3, HunkPlaced
<1>5. /\ DOMAIN patch = 1..n /\ patch[k].hunks = made /\ \A j \in 1..n : patch[j].path = files[j].path
      /\ \A j \in 1..n : \E m \in Nat : DOMAIN patch[j].hunks = 1..m
      /\ path \in {patch[j].path : j \in DOMAIN patch}
  <2>1. ASSUME NEW j \in 1..n PROVE \E m \in Nat : DOMAIN patch[j].hunks = 1..m
    <3>1. DOMAIN patch[j].hunks = DOMAIN files[j].hunks
      BY <1>2 DEF Made
    <3>2. DOMAIN files[j].hunks = 1..Len(files[j].hunks) /\ Len(files[j].hunks) \in Nat
      BY <1>1
    <3>3. QED
      BY <3>1, <3>2
  <2>2. QED
    BY <1>1, <1>2, <2>1
<1> DEFINE hunksOf(p) == FlattenSeq([j \in DOMAIN patch |-> IF patch[j].path = p THEN patch[j].hunks ELSE <<>>])
<1>6. hunksOf(path) = made
  <2> DEFINE s == [j \in 1..n |-> IF patch[j].path = path THEN patch[j].hunks ELSE <<>>]
             S == UNION {{patch[j].hunks[m] : m \in DOMAIN patch[j].hunks} : j \in 1..n}
  <2>1. s[k] = made /\ \A j \in 1..n : j # k => s[j] = <<>>
    BY <1>1, <1>5
  <2>2. made \in Seq(S)
    <3>1. PICK m \in Nat : DOMAIN patch[k].hunks = 1..m
      BY <1>1, <1>5
    <3>2. made = patch[k].hunks /\ DOMAIN made = 1..m /\ made = [i \in DOMAIN made |-> made[i]]
      BY <1>5, <3>1 DEF Made
    <3>3. \A i \in 1..m : made[i] \in {patch[k].hunks[h] : h \in DOMAIN patch[k].hunks}
      BY <3>2
    <3>4. \A i \in 1..m : made[i] \in S
      BY <1>1, <3>3
    <3> HIDE DEF S, made
    <3>5. made = [i \in 1..m |-> made[i]]
      BY <3>2
    <3>6. QED
      BY <3>1, <3>4, <3>5
  <2>3. s = [j \in 1..n |-> s[j]]
    OBVIOUS
  <2>4. hunksOf(path) = FlattenSeq(s)
    BY <1>5
  <2> HIDE DEF s, S, hunksOf, made
  <2>5. s \in Seq(Seq(S)) /\ Len(s) = n
    <3>1. \A j \in 1..n : s[j] \in Seq(S)
      <4>1. <<>> \in Seq(S)
        OBVIOUS
      <4>2. QED
        BY <1>1, <2>1, <2>2, <4>1
    <3> HIDE DEF n
    <3>2. n \in Nat
      BY <1>1
    <3>3. QED
      BY <2>3, <3>1, <3>2
  <2>6. FlattenSeq(s) = s[k]
    BY <1>1, <2>1, <2>5, FlattenOnly
  <2>7. QED
    BY <2>1, <2>4, <2>6
<1>7. ApplyFile(source, made) # Failed /\ after[path] = ApplyFile(source, made)
  <2> DEFINE paths == {patch[j].path : j \in DOMAIN patch}
             result == [p \in paths |-> ApplyFile(sources[p], hunksOf(p))]
  <2>1. after = IF \E p \in paths : result[p] = Failed THEN Failed
                ELSE [p \in DOMAIN sources |-> IF p \in paths THEN result[p] ELSE sources[p]]
    BY DEF GitApply
  <2>2. path \in paths /\ path \in DOMAIN sources
    BY <1>2, <1>5
  <2> HIDE DEF hunksOf, paths, made
  <2>3. result[path] = ApplyFile(source, made)
    BY <1>6, <2>2
  <2> HIDE DEF result
  <2>4. QED
    BY <2>1, <2>2, <2>3
<1>8. ApplyFile(source, made) = Edited(source, hunks)
  BY <1>3, <1>7, FilePatched DEF Made
<1>9. QED
  BY <1>4, <1>7, <1>8

(* For every source and every sequence of hunks, in whatever order and       *)
(* overlapping or not, a patch that reconstruction makes and that applies is *)
(* the edit the report means, at anchors that are unique                     *)
(* (patch_reconstruct.py, _git_apply).                                       *)
THEOREM EveryPatchLands ==
    ASSUME NEW source \in Seq(SourceLines), NEW hunks \in Seq(ReportHunks)
    PROVE  LandsWhole(source, hunks)
<1> DEFINE sources == [file |-> source]
           files == <<[path |-> "file", hunks |-> hunks]>>
           block == [kind |-> "illustrative", files |-> files]
           patch == Reconstruct(sources, block)
           after == GitApply(sources, patch)
<1> SUFFICES ASSUME patch # Refused, after # Failed
             PROVE  /\ \A h \in Range(hunks) : Cardinality(Hits(source, h.anchor)) = 1
                    /\ after.file = Edited(source, hunks)
  BY DEF LandsWhole
<1>1. /\ ReportFiles(files) /\ DOMAIN files = {1} /\ files[1].path = "file" /\ files[1].hunks = hunks
      /\ sources["file"] = source /\ block.kind # "real" /\ block.files = files
  BY DEF ReportFiles
<1> HIDE DEF sources, files, block, patch
<1>2. /\ 1 \in DOMAIN block.files /\ block.files[1].path = "file" /\ block.files[1].hunks = hunks
      /\ \A j \in DOMAIN block.files : block.files[j].path = "file" => j = 1
      /\ ReportFiles(block.files)
  BY <1>1
<1>3. /\ \A h \in Range(hunks) : Cardinality(Hits(source, h.anchor)) = 1
      /\ after["file"] = Edited(source, hunks)
  BY <1>1, <1>2, BlockPatched DEF patch
<1>4. QED
  BY <1>3

LEMMA FlattenMember ==
    ASSUME NEW S, NEW s \in Seq(Seq(S)), NEW x \in Range(FlattenSeq(s))
    PROVE  \E i \in 1..Len(s) : x \in Range(s[i])
<1>1. FlattenSeq(s) \in Seq(S)
  BY PartAll
<1>2. PICK q \in 1..Len(FlattenSeq(s)) : x = FlattenSeq(s)[q]
  BY <1>1 DEF Range
<1>3. PICK i \in 1..Len(s) : \E r \in 1..Len(s[i]) : q = Len(Part(s, 1, i - 1)) + r
  BY PlaceOf
<1>4. PICK r \in 1..Len(s[i]) : q = Len(Part(s, 1, i - 1)) + r
  BY <1>3
<1>5. x = s[i][r]
  BY <1>2, <1>4, AtPlace
<1>6. s[i] \in Seq(S) /\ r \in DOMAIN s[i]
  <2>1. s[i] \in Seq(S)
    OBVIOUS
  <2>2. QED
    BY <2>1
<1>7. QED
  BY <1>5, <1>6 DEF Range

LEMMA InsertsAreAdditions ==
    ASSUME NEW source, NEW hunk \in ReportHunks, NEW i
    PROVE  /\ Inserts(source, hunk, i) \in Seq(SourceLines)
           /\ \A x \in Range(Inserts(source, hunk, i)) :
                \E k \in DOMAIN hunk.body : hunk.body[k].kind = "addition" /\ hunk.body[k].line = x
<1> DEFINE body == hunk.body
           n == Len(body)
           s == [k \in 1..n |->
                   IF body[k].kind = "addition" /\ Place(source, hunk, k) = i THEN <<body[k].line>> ELSE <<>>]
<1>1. n \in Nat /\ DOMAIN body = 1..n /\ \A k \in 1..n : body[k].line \in SourceLines
  <2>1. body \in Bodies
    BY DEF ReportHunks, Bodies, BodyLine
  <2>2. QED
    BY <2>1, BodyLines
<1>2. Inserts(source, hunk, i) = FlattenSeq(s)
  BY <1>1 DEF Inserts
<1>3. s \in Seq(Seq(SourceLines)) /\ Len(s) = n
  <2>1. \A k \in 1..n : <<>> \in Seq(SourceLines) /\ <<body[k].line>> \in Seq(SourceLines)
    BY <1>1
  <2>2. QED
    BY <1>1, <2>1
<1>4. ASSUME NEW x \in Range(FlattenSeq(s))
      PROVE  \E k \in DOMAIN body : body[k].kind = "addition" /\ body[k].line = x
  <2>1. PICK k \in 1..n : x \in Range(s[k])
    <3> HIDE DEF s, n
    <3>1. QED
      BY <1>3, FlattenMember
  <2>2. CASE body[k].kind = "addition" /\ Place(source, hunk, k) = i
    <3>1. s[k] = <<body[k].line>>
      BY <2>2
    <3>2. x = body[k].line
      BY <2>1, <3>1 DEF Range
    <3>3. QED
      BY <1>1, <2>2, <3>2
  <2>3. CASE ~(body[k].kind = "addition" /\ Place(source, hunk, k) = i)
    <3>1. s[k] = <<>>
      BY <2>3
    <3>2. QED
      BY <2>1, <3>1 DEF Range
  <2>4. QED
    BY <2>2, <2>3
<1>5. FlattenSeq(s) \in Seq(SourceLines)
  <2> HIDE DEF s
  <2>1. QED
    BY <1>3, PartAll
<1>6. QED
  BY <1>2, <1>4, <1>5

(* A line that is removed wherever it stands and never added is gone.        *)
LEMMA EditedWithout ==
    ASSUME NEW source \in Seq(SourceLines), NEW hunks \in Seq(ReportHunks), NEW line,
           \A i \in DOMAIN source : source[i] = line => \E h \in Range(hunks) : Removes(source, h, i),
           \A h \in Range(hunks) : \A k \in DOMAIN h.body : h.body[k].kind = "addition" => h.body[k].line # line
    PROVE  line \notin Range(Edited(source, hunks))
<1> DEFINE n == Len(source)
           s == [i \in 1..n |-> EditedAt(source, hunks, i)]
           inserts(i) == [j \in 1..Len(hunks) |-> Inserts(source, hunks[j], i)]
<1>1. /\ n \in Nat /\ DOMAIN source = 1..n /\ \A i \in 1..n : source[i] \in SourceLines
      /\ Len(hunks) \in Nat /\ DOMAIN hunks = 1..Len(hunks)
      /\ \A j \in 1..Len(hunks) : hunks[j] \in ReportHunks /\ hunks[j] \in Range(hunks)
  BY DEF Range
<1>2. ASSUME NEW i \in 1..n
      PROVE  /\ EditedAt(source, hunks, i) = (IF \E h \in Range(hunks) : Removes(source, h, i) THEN <<>> ELSE <<source[i]>>)
                                             \o FlattenSeq(inserts(i))
             /\ inserts(i) \in Seq(Seq(SourceLines)) /\ Len(inserts(i)) = Len(hunks)
             /\ FlattenSeq(inserts(i)) \in Seq(SourceLines)
  <2>1. inserts(i) = [j \in DOMAIN hunks |-> Inserts(source, hunks[j], i)]
    BY <1>1
  <2>2. \A j \in 1..Len(hunks) : Inserts(source, hunks[j], i) \in Seq(SourceLines)
    BY <1>1, InsertsAreAdditions
  <2>3. inserts(i) \in Seq(Seq(SourceLines)) /\ Len(inserts(i)) = Len(hunks)
    BY <1>1, <2>2
  <2>4. FlattenSeq(inserts(i)) \in Seq(SourceLines)
    <3> HIDE DEF inserts
    <3>1. QED
      BY <2>3, PartAll
  <2>5. QED
    BY <2>1, <2>3, <2>4 DEF EditedAt
<1>3. ASSUME NEW i \in 1..n PROVE EditedAt(source, hunks, i) \in Seq(SourceLines) /\ line \notin Range(EditedAt(source, hunks, i))
  <2> DEFINE head == IF \E h \in Range(hunks) : Removes(source, h, i) THEN <<>> ELSE <<source[i]>>
             tail == FlattenSeq(inserts(i))
  <2>1. head \in Seq(SourceLines) /\ \A r \in 1..Len(head) : head[r] # line
    <3>1. CASE \E h \in Range(hunks) : Removes(source, h, i)
      <4>1. head = <<>>
        BY <3>1
      <4>2. QED
        BY <4>1
    <3>2. CASE ~ \E h \in Range(hunks) : Removes(source, h, i)
      <4>1. head = <<source[i]>> /\ source[i] # line
        BY <1>1, <3>2
      <4>2. QED
        BY <1>1, <4>1
    <3>3. QED
      BY <3>1, <3>2
  <2>2. tail \in Seq(SourceLines) /\ \A r \in 1..Len(tail) : tail[r] # line
    <3> SUFFICES ASSUME NEW r \in 1..Len(tail), tail[r] = line PROVE FALSE
      BY <1>2
    <3>1. tail \in Seq(SourceLines) /\ inserts(i) \in Seq(Seq(SourceLines)) /\ Len(inserts(i)) = Len(hunks)
      BY <1>2
    <3>2. line \in Range(FlattenSeq(inserts(i)))
      <4> HIDE DEF inserts
      <4>1. QED
        BY <3>1 DEF Range
    <3>3. PICK j \in 1..Len(hunks) : line \in Range(inserts(i)[j])
      <4> HIDE DEF inserts
      <4>1. QED
        BY <3>1, <3>2, FlattenMember
    <3>4. line \in Range(Inserts(source, hunks[j], i)) /\ hunks[j] \in ReportHunks /\ hunks[j] \in Range(hunks)
      BY <1>1, <3>3
    <3>5. PICK k \in DOMAIN hunks[j].body : hunks[j].body[k].kind = "addition" /\ hunks[j].body[k].line = line
      BY <3>4, InsertsAreAdditions
    <3>6. QED
      BY <3>4, <3>5
  <2>3. EditedAt(source, hunks, i) = head \o tail
    BY <1>2
  <2> HIDE DEF head, tail
  <2>4. head \o tail \in Seq(SourceLines) /\ \A q \in 1..Len(head \o tail) : (head \o tail)[q] # line
    BY <2>1, <2>2
  <2>5. QED
    BY <2>3, <2>4 DEF Range
<1>4. Edited(source, hunks) = FlattenSeq(s)
  BY <1>1 DEF Edited
<1>5. s \in Seq(Seq(SourceLines)) /\ Len(s) = n
  BY <1>1, <1>3
<1>6. \A i \in 1..n : line \notin Range(s[i])
  BY <1>3
<1> HIDE DEF s, n
<1>7. QED
  BY <1>4, <1>5, <1>6, FlattenMember

(***************************************************************************)
(* The memory.                                                             *)
(***************************************************************************)
-----------------------------------------------------------------------------
(* A record on a line was written, and no record whose write returned is   *)
(* on an open line.                                                        *)
LinesInv ==
    /\ \A t \in Targets : torn[t] => lines[t] # <<>>
    /\ \A t \in Targets : \A i \in DOMAIN lines[t] :
          lines[t][i] \in RecordIds =>
              /\ record[lines[t][i]] # Unwritten
              /\ lines[t][i] \in acked /\ torn[t] => i # Len(lines[t])
    /\ \A r \in acked : record[r] # Unwritten

Open == {t \in Targets : torn[t]}

(* A tear opens a line; the next append closes it and is lost.             *)
LossInv == Cardinality(Missing) + Cardinality(Open) <= tears

IInv == TypeOK /\ LinesInv

LEMMA InitInv == Init => IInv /\ LossInv
<1> SUFFICES ASSUME Init PROVE IInv /\ LossInv
  OBVIOUS
<1>1. IInv
  BY MemoryAssumption DEF Init, IInv, TypeOK, LinesInv, Unwritten
<1>2. Missing = {} /\ Open = {}
  BY DEF Init, Missing, Open
<1>3. LossInv
  BY <1>2, FS_EmptySet DEF Init, LossInv
<1>4. QED
  BY <1>1, <1>3

(* Every step appends one line, the record's own or part of it.            *)
Appends(r, t, rec, line) ==
    /\ record[r] = Unwritten
    /\ StatusRules(rec)
    /\ record' = [record EXCEPT ![r] = rec]
    /\ lines' = [lines EXCEPT ![t] = AppendLine(@, torn[t], line)]
    /\ line \in RecordIds => line = r
    /\ \/ /\ line = r
          /\ torn' = [torn EXCEPT ![t] = FALSE]
          /\ acked' = acked \cup {r}
          /\ tears' = tears
       \/ /\ torn' = [torn EXCEPT ![t] = TRUE]
          /\ acked' = acked
          /\ tears < MaxTears /\ tears' = tears + 1

LEMMA StepAppends ==
    ASSUME [Next]_vars
    PROVE  \/ UNCHANGED vars
           \/ \E r \in RecordIds, t \in Targets, rec \in Records, line \in Lines :
                 Appends(r, t, rec, line)
<1> SUFFICES ASSUME NEW r \in RecordIds, NEW t \in Targets, NEW rec \in Records,
                    Write(r, t, rec) \/ TearWrite(r, t, rec)
             PROVE  \E line \in Lines : Appends(r, t, rec, line)
  BY DEF Next
<1>1. CASE Write(r, t, rec)
  <2>1. Appends(r, t, rec, r) /\ r \in Lines
    BY <1>1 DEF Write, Appends, Lines
  <2>2. QED
    BY <2>1
<1>2. CASE TearWrite(r, t, rec)
  BY <1>2, MemoryAssumption DEF TearWrite, Appends, Lines, Garbage
<1>3. QED
  BY <1>1, <1>2

(* What AppendLine keeps: every line but an open last one.                 *)
KeepsLines(new, t, line) ==
    /\ new \in Seq(Lines) /\ new # <<>>
    /\ \A i \in DOMAIN lines[t] :
          ~torn[t] \/ i # Len(lines[t]) => i \in DOMAIN new /\ new[i] = lines[t][i]
    /\ ~torn[t] => \A i \in DOMAIN new :
          IF i = Len(new) THEN new[i] = line
                          ELSE i \in DOMAIN lines[t] /\ new[i] = lines[t][i]
    /\ torn[t] => \A i \in DOMAIN new :
          IF i = Len(new) THEN new[i] \notin RecordIds
                          ELSE /\ i \in DOMAIN lines[t] /\ i # Len(lines[t])
                               /\ new[i] = lines[t][i]

LEMMA AppendLineKeeps ==
    ASSUME IInv, NEW t \in Targets, NEW line \in Lines
    PROVE  KeepsLines(AppendLine(lines[t], torn[t], line), t, line)
<1> USE DEF KeepsLines
<1> DEFINE ls == lines[t]
           new == AppendLine(ls, torn[t], line)
<1>1. ls \in Seq(Lines) /\ torn[t] \in BOOLEAN /\ (torn[t] => ls # <<>>)
  BY DEF IInv, TypeOK, LinesInv
<1>2. CASE ~torn[t]
  <2>1. new = Append(ls, line)
    BY <1>2 DEF AppendLine
  <2>2. QED
    BY <1>1, <1>2, <2>1
<1>3. CASE torn[t]
  <2>1. PICK last \in {Garbage, Undecodable} : new = [ls EXCEPT ![Len(ls)] = last]
    BY <1>3 DEF AppendLine
  <2>2. Len(ls) \in DOMAIN ls /\ last \in Lines /\ last \notin RecordIds
    BY <1>1, <1>3, MemoryAssumption DEF Lines, Garbage
  <2>3. new \in Seq(Lines) /\ Len(new) = Len(ls) /\ DOMAIN new = DOMAIN ls
    BY <1>1, <2>1, <2>2
  <2>4. new # <<>>
    BY <2>2, <2>3
  <2>5. \A i \in DOMAIN new : new[i] = IF i = Len(ls) THEN last ELSE ls[i]
    BY <2>1, <2>2, <2>3
  <2>6. QED
    BY <1>3, <2>2, <2>3, <2>4, <2>5
<1>4. QED
  BY <1>2, <1>3

LEMMA AppendKeepsInv ==
    ASSUME IInv,
           NEW r \in RecordIds, NEW t \in Targets, NEW rec \in Records, NEW line \in Lines,
           Appends(r, t, rec, line)
    PROVE  /\ IInv'
           /\ \A u \in Targets : \A s \in InFile(u) \cap acked : s \in InFile(u)'
           /\ \A s \in RecordIds : record[s] # Unwritten => record'[s] = record[s]
           /\ line = r /\ ~torn[t] => r \in InFile(t)'
<1> DEFINE new == AppendLine(lines[t], torn[t], line)
<1>1. TypeOK /\ LinesInv
  BY DEF IInv
<1>2. KeepsLines(new, t, line)
  BY AppendLineKeeps
<1> USE DEF KeepsLines
<1>3. /\ lines'[t] = new
      /\ \A u \in Targets \ {t} : lines'[u] = lines[u] /\ torn'[u] = torn[u]
      /\ record'[r] = rec /\ record[r] = Unwritten
      /\ \A s \in RecordIds \ {r} : record'[s] = record[s]
  BY <1>1 DEF Appends, TypeOK
<1>4. rec # Unwritten
  BY DEF Records, Unwritten, StatusChanges
<1>5. TypeOK'
  <2>1. lines' \in [Targets -> Seq(Lines)] /\ torn' \in [Targets -> BOOLEAN]
    BY <1>1, <1>2 DEF Appends, TypeOK
  <2>2. record' \in [RecordIds -> Records \cup {Unwritten}]
    BY <1>1 DEF Appends, TypeOK
  <2>3. \A s \in RecordIds : record'[s].status = "privileged" => record'[s].source = "human_input"
    BY <1>1, <1>3 DEF Appends, TypeOK, StatusRules
  <2>4. acked' \subseteq RecordIds /\ tears' \in 0..MaxTears
    BY <1>1, MemoryAssumption DEF Appends, TypeOK
  <2>5. QED
    BY <2>1, <2>2, <2>3, <2>4 DEF TypeOK
<1>6. \A s \in RecordIds : record[s] # Unwritten => record'[s] = record[s]
  BY <1>3
<1>7. LinesInv'
  <2>1. acked' \subseteq acked \cup {r}
    BY DEF Appends
  <2>2. \A s \in acked' : record'[s] # Unwritten
    BY <1>1, <1>3, <1>4, <2>1 DEF LinesInv, TypeOK
  <2>3. ASSUME NEW u \in Targets, NEW i \in DOMAIN lines'[u], lines'[u][i] \in RecordIds
        PROVE  /\ record'[lines'[u][i]] # Unwritten
               /\ lines'[u][i] \in acked' /\ torn'[u] => i # Len(lines'[u])
    <3> DEFINE s == lines'[u][i]
    <3>1. CASE u # t
      <4>1. i \in DOMAIN lines[u] /\ lines'[u] = lines[u] /\ torn'[u] = torn[u]
        BY <1>3, <2>3, <3>1
      <4>2. record[s] # Unwritten /\ s # r
        BY <1>1, <1>3, <2>3, <4>1 DEF LinesInv
      <4>3. QED
        BY <1>1, <1>6, <2>1, <2>3, <4>1, <4>2 DEF LinesInv
    <3>2. CASE u = t /\ i # Len(new)
      <4>1. /\ i \in DOMAIN lines[t] /\ s = lines[t][i] /\ i # Len(lines'[t])
        BY <1>1, <1>2, <1>3, <2>3, <3>2 DEF TypeOK
      <4>2. record[s] # Unwritten
        BY <1>1, <2>3, <4>1 DEF LinesInv
      <4>3. QED
        BY <1>4, <1>3, <1>6, <2>3, <3>2, <4>1, <4>2
    <3>3. CASE u = t /\ i = Len(new)
      <4>1. ~torn[t] /\ s = line
        BY <1>1, <1>2, <1>3, <2>3, <3>3 DEF TypeOK
      <4>2. s = r /\ record'[s] # Unwritten
        BY <1>3, <1>4, <2>3, <4>1 DEF Appends
      <4>3. r \notin acked
        BY <1>1, <1>3 DEF LinesInv
      <4>4. s \in acked' => ~torn'[t]
        BY <1>1, <4>2, <4>3 DEF Appends, TypeOK
      <4>5. QED
        BY <3>3, <4>2, <4>4
    <3>4. QED
      BY <3>1, <3>2, <3>3
  <2>4. \A u \in Targets : lines'[u] # <<>> \/ ~torn'[u]
    BY <1>1, <1>2, <1>3 DEF LinesInv
  <2>5. QED
    BY <2>2, <2>3, <2>4 DEF LinesInv
<1>8. \A u \in Targets : \A s \in InFile(u) \cap acked : s \in InFile(u)'
  <2> SUFFICES ASSUME NEW u \in Targets, NEW s \in acked, s \in RecordIds,
                      NEW i \in DOMAIN lines[u], lines[u][i] = s
               PROVE  i \in DOMAIN lines'[u] /\ lines'[u][i] = s
    BY DEF InFile
  <2>1. CASE u # t
    BY <1>3, <2>1
  <2>2. CASE u = t
    <3>1. torn[t] => i # Len(lines[t])
      BY <1>1, <2>2 DEF LinesInv
    <3>2. QED
      BY <1>1, <1>2, <1>3, <2>2, <3>1 DEF TypeOK
  <2>3. QED
    BY <2>1, <2>2
<1>9. line = r /\ ~torn[t] => r \in InFile(t)'
  <2>1. Len(new) \in DOMAIN new
    BY <1>2
  <2>2. QED
    BY <1>2, <1>3, <2>1 DEF InFile
<1>10. QED
  BY <1>5, <1>6, <1>7, <1>8, <1>9 DEF IInv

LEMMA Inductive == IInv /\ [Next]_vars => IInv'
<1>1. ASSUME IInv, UNCHANGED vars
      PROVE  IInv'
  BY <1>1 DEF vars, IInv, TypeOK, LinesInv
<1>2. QED
  BY <1>1, StepAppends, AppendKeepsInv

THEOREM InvariantHolds == Spec => []IInv
BY InitInv, Inductive, PTL DEF Spec

(* EpisodicMemory's variables keep their types, and no record with a       *)
(* privileged status gets past write unless a human is its source.         *)
THEOREM TypeCorrect == Spec => []TypeOK
BY InvariantHolds, PTL DEF IInv

-----------------------------------------------------------------------------
(* A correction that was acknowledged stays on its line with the content   *)
(* it had, so its pointer counts in every later load.                      *)
LEMMA CorrectionStays ==
    ASSUME IInv, [Next]_vars, NEW t \in Targets, NEW r \in Valid(t) \cap acked
    PROVE  record[r].supersedes \notin LoadFile(t)'
<1>1. r \in InFile(t) /\ r \in RecordIds /\ Verifies(record[r].content) /\ record[r] # Unwritten
  BY DEF Valid, InFile, IInv, LinesInv
<1>2. r \in InFile(t)' /\ record'[r] = record[r]
  <2>1. CASE UNCHANGED vars
    BY <1>1, <2>1 DEF vars, InFile
  <2>2. CASE ~ UNCHANGED vars
    BY <1>1, <2>2, StepAppends, AppendKeepsInv
  <2>3. QED
    BY <2>1, <2>2
<1>3. r \in Valid(t)'
  BY <1>1, <1>2 DEF Valid
<1>4. record[r].supersedes \in RecordIds => record[r].supersedes \in Superseded(t)'
  BY <1>2, <1>3 DEF Superseded
<1>5. LoadFile(t)' \subseteq RecordIds \ Superseded(t)'
  BY DEF LoadFile, Valid, InFile
<1>6. QED
  BY <1>4, <1>5

(* What an acknowledged correction superseded never reappears in load.     *)
THEOREM CorrectionsHold == Spec => CorrectionsLast
<1>1. ASSUME IInv, [Next]_vars
      PROVE  \A t \in Targets : \A r \in Valid(t) \cap acked :
                record[r].supersedes \notin LoadFile(t)'
  BY <1>1, CorrectionStays
<1>2. QED
  BY <1>1, InvariantHolds, PTL DEF Spec, CorrectionsLast

-----------------------------------------------------------------------------
LEMMA LossFinite ==
    ASSUME TypeOK
    PROVE  /\ IsFiniteSet(Missing) /\ Cardinality(Missing) \in Nat
           /\ IsFiniteSet(Open) /\ Cardinality(Open) \in Nat
<1>1. Missing \in SUBSET RecordIds /\ Open \in SUBSET Targets
  BY DEF TypeOK, Missing, Open
<1>2. QED
  BY <1>1, MemoryAssumption, FS_Subset, FS_CardinalityType

LEMMA LossStep ==
    ASSUME IInv, IInv', LossInv, [Next]_vars
    PROVE  LossInv'
<1>1. CASE UNCHANGED vars
  <2>1. Missing' = Missing /\ Open' = Open /\ tears' = tears
    BY <1>1 DEF vars, Missing, InFile, Open
  <2>2. QED
    BY <2>1 DEF LossInv
<1>2. ASSUME NEW r \in RecordIds, NEW t \in Targets, NEW rec \in Records, NEW line \in Lines,
             Appends(r, t, rec, line)
      PROVE  LossInv'
  <2>1. /\ TypeOK /\ TypeOK' /\ tears \in Nat
        /\ \A u \in Targets : \A s \in InFile(u) \cap acked : s \in InFile(u)'
        /\ line = r /\ ~torn[t] => r \in InFile(t)'
    BY <1>2, AppendKeepsInv, MemoryAssumption DEF IInv, TypeOK
  <2>2. /\ IsFiniteSet(Missing) /\ Cardinality(Missing) \in Nat
        /\ IsFiniteSet(Open) /\ Cardinality(Open) \in Nat
    BY <2>1, LossFinite
  <2>3. Cardinality(Missing') \in Nat /\ Cardinality(Open') \in Nat
    <3>1. Missing' \in SUBSET RecordIds /\ Open' \in SUBSET Targets
      BY <2>1 DEF TypeOK, Missing, Open
    <3>2. QED
      BY <3>1, MemoryAssumption, FS_Subset, FS_CardinalityType
  <2>4. CASE acked' = acked
    <3>1. Missing' \in SUBSET Missing /\ Open' \in SUBSET (Open \cup {t})
      BY <1>2, <2>1, <2>4 DEF Missing, Open, Appends, TypeOK
    <3>2. IsFiniteSet(Open \cup {t}) /\ Cardinality(Open \cup {t}) <= Cardinality(Open) + 1
      <4>1. /\ IsFiniteSet(Open \cup {t})
            /\ Cardinality(Open \cup {t}) =
                  IF t \in Open THEN Cardinality(Open) ELSE Cardinality(Open) + 1
        BY <2>2, FS_AddElement
      <4>2. QED
        BY <2>2, <4>1
    <3>3. /\ Cardinality(Missing') <= Cardinality(Missing)
          /\ Cardinality(Open') <= Cardinality(Open \cup {t})
      BY <2>2, <3>1, <3>2, FS_Subset
    <3>4. tears' = tears + 1
      BY <1>2, <2>1, <2>4 DEF Appends, IInv, LinesInv
    <3>5. Cardinality(Open \cup {t}) \in Nat
      BY <3>2, FS_CardinalityType
    <3>6. Cardinality(Open') <= Cardinality(Open) + 1
      BY <2>2, <2>3, <3>2, <3>3, <3>5
    <3>7. Cardinality(Missing) + Cardinality(Open) <= tears
      BY DEF LossInv
    <3>8. Cardinality(Missing') + Cardinality(Open') <= tears'
      BY <2>1, <2>2, <2>3, <3>3, <3>4, <3>6, <3>7
    <3>9. QED
      BY <3>8 DEF LossInv
  <2>5. CASE acked' # acked
    <3>1. /\ line = r /\ acked' = acked \cup {r} /\ tears' = tears
          /\ torn' = [torn EXCEPT ![t] = FALSE]
      BY <1>2, <2>5 DEF Appends
    <3>2. CASE torn[t]
      <4>1. Missing' \in SUBSET (Missing \cup {r}) /\ Open' = Open \ {t} /\ t \in Open
        BY <2>1, <3>1, <3>2 DEF Missing, Open, TypeOK
      <4>2. /\ IsFiniteSet(Missing \cup {r})
            /\ Cardinality(Missing \cup {r}) =
                  IF r \in Missing THEN Cardinality(Missing) ELSE Cardinality(Missing) + 1
        BY <2>2, FS_AddElement
      <4>3. Cardinality(Open') = Cardinality(Open) - 1
        BY <2>2, <4>1, FS_RemoveElement
      <4>4. Cardinality(Missing') <= Cardinality(Missing \cup {r})
        BY <4>1, <4>2, FS_Subset
      <4>5. QED
        BY <2>1, <2>2, <2>3, <3>1, <4>2, <4>3, <4>4 DEF LossInv
    <3>3. CASE ~torn[t]
      <4>1. Missing' \in SUBSET Missing /\ Open' \in SUBSET Open
        BY <2>1, <3>1, <3>3 DEF Missing, Open, TypeOK
      <4>2. /\ Cardinality(Missing') <= Cardinality(Missing)
            /\ Cardinality(Open') <= Cardinality(Open)
        BY <2>2, <4>1, FS_Subset
      <4>3. QED
        BY <2>1, <2>2, <2>3, <3>1, <4>2 DEF LossInv
    <3>4. QED
      BY <3>2, <3>3
  <2>6. QED
    BY <2>4, <2>5
<1>3. QED
  BY <1>1, <1>2, StepAppends

(* However many processes die inside write, each costs at most one record  *)
(* whose write returned.                                                   *)
THEOREM AppendsKept == Spec => []AppendsAreKept
<1>1. IInv /\ LossInv => AppendsAreKept
  BY LossFinite, MemoryAssumption DEF IInv, TypeOK, LossInv, AppendsAreKept
<1>2. QED
  BY <1>1, InvariantHolds, InitInv, LossStep, PTL DEF Spec
-----------------------------------------------------------------------------
(***************************************************************************)
(* The report.                                                             *)
(***************************************************************************)

(* What audits and corrections do to the memory is what the memory allows.   *)
LEMMA ReportStepsAreMemorySteps ==
    ASSUME IInv, [ReportNext]_reportVars
    PROVE  /\ [Next]_vars
           /\ UNCHANGED payload
           /\ Finish \/ UNCHANGED report
<1>1. CASE UNCHANGED reportVars \/ Finish
  BY <1>1 DEF reportVars, vars, Finish
<1>2. ASSUME NEW r \in RecordIds, NEW t \in Targets, NEW rec \in Records,
             rec.supersedes \in Written \cup {NoRecord}, Store(r, t, rec)
      PROVE  [Next]_vars /\ UNCHANGED <<payload, report>>
  BY <1>2 DEF Store, Next
<1>3. ASSUME NEW r \in RecordIds, NEW t \in Targets, NEW content \in Contents,
             Store(r, t, ModelRecord(content))
      PROVE  [Next]_vars /\ UNCHANGED <<payload, report>>
  <2>1. ModelRecord(content) \in Records /\ ModelRecord(content).supersedes = NoRecord
    BY DEF ModelRecord, Records, Sources, StatusChanges
  <2>2. QED
    BY <1>2, <1>3, <2>1
<1>4. ASSUME NEW r \in RecordIds, NEW t \in Targets, RunStaticAnalysis(r, t)
      PROVE  [Next]_vars /\ UNCHANGED <<payload, report>>
  <2>1. {} \in Contents /\ StaticRecord(r) = ModelRecord({})
    BY ReportAssumption DEF StaticRecord, ModelRecord
  <2>2. QED
    BY <1>3, <1>4, <2>1 DEF RunStaticAnalysis
<1>5. ASSUME NEW r \in RecordIds, NEW t \in Targets, NEW rec \in Records, Correct(r, t, rec)
      PROVE  [Next]_vars /\ UNCHANGED <<payload, report>>
  BY <1>2, <1>5 DEF Correct
<1>6. QED
  BY <1>1, <1>3, <1>4, <1>5 DEF ReportNext, WriteFinding

(* Audits implement the memory: whatever holds of EpisodicMemory holds of    *)
(* the memory their reports are made from.                                   *)
THEOREM AuditsKeepMemory == ReportSpec => Spec
<1>1. ReportInit => Init
  BY DEF ReportInit
<1>2. Init => IInv
  BY InitInv
<1>3. IInv /\ [ReportNext]_reportVars => [Next]_vars
  BY ReportStepsAreMemorySteps
<1>4. IInv /\ [Next]_vars => IInv'
  BY Inductive
<1>5. QED
  BY <1>1, <1>2, <1>3, <1>4, PTL DEF ReportSpec, Spec

-----------------------------------------------------------------------------
(* A report is of findings that were loaded: each verifies, and is in its    *)
(* file still unless its write never returned.                               *)
ReportInv ==
    /\ payload \in Payloads
    /\ DOMAIN report \subseteq RecordIds
    /\ report = RunStage3([r \in DOMAIN report |-> Finding(r)])
    /\ \A r \in DOMAIN report :
          /\ record[r] # Unwritten /\ Verifies(record[r].content)
          /\ r \in acked => \E t \in Targets : r \in InFile(t)

LEMMA LoadedVerify ==
    ASSUME IInv, NEW r \in Loaded
    PROVE  /\ r \in RecordIds /\ record[r] # Unwritten /\ Verifies(record[r].content)
           /\ \E t \in Targets : r \in InFile(t)
<1>1. PICK t \in Targets : r \in LoadFile(t)
  BY DEF Loaded
<1>2. r \in InFile(t) /\ Verifies(record[r].content)
  BY <1>1 DEF LoadFile, Valid
<1>3. QED
  BY <1>2 DEF InFile, IInv, LinesInv

LEMMA ReportInvStays ==
    ASSUME IInv, ReportInv, [ReportNext]_reportVars
    PROVE  ReportInv'
<1>1. [Next]_vars /\ UNCHANGED payload /\ (Finish \/ UNCHANGED report)
  BY ReportStepsAreMemorySteps
<1>2. CASE Finish
  <2>1. /\ UNCHANGED <<record, lines, acked>> /\ UNCHANGED payload
        /\ report' = RunStage3([r \in Loaded |-> Finding(r)])
    BY <1>2 DEF Finish, vars
  <2>2. DOMAIN report' = Loaded
    BY <2>1 DEF RunStage3
  <2>3. [r \in DOMAIN report |-> Finding(r)]' = [r \in Loaded |-> Finding(r)]
    BY <2>1, <2>2 DEF Finding
  <2>4. report' = RunStage3([r \in DOMAIN report |-> Finding(r)])'
    BY <2>1, <2>3
  <2>5. \A t : InFile(t)' = InFile(t)
    BY <2>1 DEF InFile
  <2>6. \A r \in DOMAIN report' :
            /\ r \in RecordIds
            /\ record'[r] # Unwritten /\ Verifies(record[r].content)'
            /\ r \in acked' => \E t \in Targets : r \in InFile(t)'
    BY <2>1, <2>2, <2>5, LoadedVerify DEF Verifies
  <2>7. QED
    BY <2>1, <2>4, <2>6 DEF ReportInv
<1>3. CASE UNCHANGED report
  <2>1. ASSUME NEW r \in DOMAIN report
        PROVE  /\ record'[r] = record[r]
               /\ r \in acked' => r \in acked
               /\ r \in acked => \E t \in Targets : r \in InFile(t)'
    <3>1. r \in RecordIds /\ record[r] # Unwritten
      BY DEF ReportInv
    <3>2. CASE UNCHANGED vars
      BY <3>2 DEF ReportInv, vars, InFile
    <3>3. ASSUME NEW s \in RecordIds, NEW t \in Targets, NEW rec \in Records, NEW line \in Lines,
                 Appends(s, t, rec, line)
          PROVE  /\ record'[r] = record[r]
                 /\ r \in acked' => r \in acked
                 /\ r \in acked => \E u \in Targets : r \in InFile(u)'
      <4>1. /\ \A u \in Targets : \A q \in InFile(u) \cap acked : q \in InFile(u)'
            /\ record'[r] = record[r]
        BY <3>1, <3>3, AppendKeepsInv
      <4>2. r # s /\ acked' \subseteq acked \cup {s}
        BY <3>1, <3>3 DEF Appends
      <4>3. QED
        BY <4>1, <4>2 DEF ReportInv
    <3>4. QED
      BY <1>1, <3>2, <3>3, StepAppends
  <2>2. [r \in DOMAIN report |-> Finding(r)]' = [r \in DOMAIN report |-> Finding(r)]
    BY <1>1, <1>3, <2>1 DEF Finding
  <2>3. report' = RunStage3([r \in DOMAIN report |-> Finding(r)])'
    BY <1>3, <2>2 DEF ReportInv
  <2>4. \A r \in DOMAIN report' :
            /\ record'[r] # Unwritten /\ Verifies(record[r].content)'
            /\ r \in acked' => \E t \in Targets : r \in InFile(t)'
    BY <1>3, <2>1 DEF ReportInv, Verifies
  <2>5. QED
    BY <1>1, <1>3, <2>3, <2>4 DEF ReportInv
<1>4. QED
  BY <1>1, <1>2, <1>3

LEMMA ReportInvStarts == ReportInit => ReportInv
<1> SUFFICES ASSUME ReportInit PROVE ReportInv
  OBVIOUS
<1>1. report = <<>> /\ DOMAIN report = {} /\ payload \in Payloads
  BY DEF ReportInit
<1>2. RunStage3([r \in DOMAIN report |-> Finding(r)]) = <<>>
  BY <1>1 DEF RunStage3
<1>3. QED
  BY <1>1, <1>2 DEF ReportInv

-----------------------------------------------------------------------------
(* Stage 3 over the findings of these records.                               *)
Findings(records) == [r \in records |-> Finding(r)]

LEMMA CorrectedIsBounded ==
    ASSUME NEW f, f.severity \in 0..4
    PROVE  CheckSeverity(f) \in 0..4
BY DEF CheckSeverity, Severities

(* A chain of a file is made of that file's findings alone: with all of them *)
(* kept, and others added, it only grows.                                    *)
LEMMA ChainsGrow ==
    ASSUME NEW old, NEW new, NEW file,
           \A r \in old : payload[r].file = file => r \in new
    PROVE  Elevate(Findings(old), file) \subseteq Elevate(Findings(new), file)
<1>1. ASSUME NEW r \in Severe(Findings(old)), payload[r].file = file
      PROVE  r \in Severe(Findings(new)) /\ Findings(new)[r] = Findings(old)[r] /\ r \in old /\ r \in new
  BY <1>1 DEF Severe, Findings
<1>2. ASSUME NEW a \in Severe(Findings(old)), NEW b \in Severe(Findings(old)),
             payload[a].file = file, Interacts(Findings(old), a, b)
      PROVE  b \in Severe(Findings(new)) /\ Interacts(Findings(new), a, b)
  <2>1. payload[b].file = file
    <3>1. a \in old /\ b \in old /\ Findings(old)[a].file = Findings(old)[b].file
      BY <1>2 DEF Severe, Findings, Interacts
    <3>2. QED
      BY <1>2, <3>1 DEF Findings, Finding
  <2>2. /\ b \in Severe(Findings(new)) /\ Findings(new)[b] = Findings(old)[b]
        /\ Findings(new)[a] = Findings(old)[a]
    BY <1>1, <1>2, <2>1
  <2>3. QED
    BY <1>2, <2>2 DEF Interacts
<1>3. ASSUME NEW a \in Elevate(Findings(old), file)
      PROVE  a \in Elevate(Findings(new), file)
  <2>1. /\ a \in Severe(Findings(old)) /\ Findings(old)[a].file = file
        /\ \E b \in Severe(Findings(old)) : Interacts(Findings(old), a, b)
    BY <1>3 DEF Elevate
  <2>2. payload[a].file = file
    BY <2>1 DEF Severe, Findings, Finding
  <2>3. a \in Severe(Findings(new)) /\ Findings(new)[a] = Findings(old)[a]
    BY <1>1, <2>1, <2>2
  <2>4. QED
    BY <1>2, <2>1, <2>2, <2>3 DEF Elevate
<1>4. QED
  BY <1>3

LEMMA SeveritiesGrow ==
    ASSUME IInv, payload \in Payloads, NEW old \in SUBSET RecordIds, NEW new \in SUBSET RecordIds,
           NEW r \in old \cap new,
           \A s \in old : payload[s].file = payload[r].file => s \in new
    PROVE  RunStage3(Findings(new))[r].severity >= RunStage3(Findings(old))[r].severity
<1> DEFINE file == payload[r].file
           was == Elevate(Findings(old), file)
           is == Elevate(Findings(new), file)
<1>1. was \subseteq is
  BY ChainsGrow
<1>2. was \in SUBSET RecordIds /\ is \in SUBSET RecordIds
  BY DEF Elevate, Severe, Findings
<1>3. IsFiniteSet(is) /\ Cardinality(is) \in Nat /\ Cardinality(was) \in Nat
  BY <1>2, MemoryAssumption, FS_Subset, FS_CardinalityType
<1>4. Cardinality(was) <= Cardinality(is)
  BY <1>1, <1>3, FS_Subset
<1>5. /\ Findings(old)[r] = Finding(r) /\ Findings(new)[r] = Finding(r) /\ Finding(r).file = file
      /\ Finding(r).severity \in 0..4
  BY ReportAssumption DEF Findings, Finding
<1>6. CheckSeverity(Finding(r)) \in 0..4
  BY <1>5, CorrectedIsBounded
<1>7. /\ RunStage3(Findings(old))[r].severity =
             IF r \in was /\ Cardinality(was) >= 2 THEN 4 ELSE CheckSeverity(Finding(r))
      /\ RunStage3(Findings(new))[r].severity =
             IF r \in is /\ Cardinality(is) >= 2 THEN 4 ELSE CheckSeverity(Finding(r))
  <2>1. r \in DOMAIN Findings(old) /\ r \in DOMAIN Findings(new)
    BY DEF Findings
  <2>2. QED
    BY <1>5, <2>1 DEF RunStage3, Severities
<1>8. CASE r \in was /\ Cardinality(was) >= 2
  BY <1>1, <1>3, <1>4, <1>7, <1>8
<1>9. CASE ~(r \in was /\ Cardinality(was) >= 2)
  BY <1>6, <1>7, <1>9
<1>10. QED
  BY <1>8, <1>9

LEMMA ReportGrows ==
    ASSUME IInv, ReportInv, Finish, NEW r \in DOMAIN report
    PROVE  \/ /\ r \notin DOMAIN report'
              /\ r \notin acked \/ \E t \in Targets : r \in Superseded(t)
           \/ /\ r \in DOMAIN report'
              /\ \/ report'[r].severity >= report[r].severity
                 \/ \E s \in DOMAIN report \ DOMAIN report' : payload[s].file = payload[r].file
<1>1. /\ report' = RunStage3(Findings(Loaded)) /\ \A t \in Targets : ~LoadRaises(t)
      /\ report = RunStage3(Findings(DOMAIN report)) /\ DOMAIN report \in SUBSET RecordIds
      /\ payload \in Payloads
  BY DEF Finish, Findings, ReportInv
<1>2. DOMAIN report' = Loaded /\ Loaded \in SUBSET RecordIds
  BY <1>1, LoadedVerify DEF RunStage3, Findings
<1>3. CASE r \notin Loaded
  <2>1. ASSUME r \in acked
        PROVE  \E t \in Targets : r \in Superseded(t)
    <3>1. PICK t \in Targets : r \in InFile(t)
      BY <2>1 DEF ReportInv
    <3>2. r \in Valid(t) /\ r \notin LoadFile(t)
      BY <1>3, <3>1 DEF ReportInv, Valid, Loaded
    <3>3. QED
      BY <1>1, <3>2 DEF LoadFile
  <2>2. QED
    BY <1>2, <1>3, <2>1
<1>4. CASE r \in Loaded
  <2>1. CASE \E s \in DOMAIN report \ Loaded : payload[s].file = payload[r].file
    BY <1>2, <1>4, <2>1
  <2>2. CASE \A s \in DOMAIN report : payload[s].file = payload[r].file => s \in Loaded
    <3>1. PICK old \in SUBSET RecordIds : old = DOMAIN report
      BY <1>1
    <3>2. PICK new \in SUBSET RecordIds : new = Loaded
      BY <1>2
    <3>3. RunStage3(Findings(new))[r].severity >= RunStage3(Findings(old))[r].severity
      BY <1>1, <1>4, <2>2, <3>1, <3>2, SeveritiesGrow
    <3>4. QED
      BY <1>1, <1>2, <1>4, <3>1, <3>2, <3>3
  <2>3. QED
    BY <2>1, <2>2
<1>5. QED
  BY <1>3, <1>4

(* From one report to the next a finding only disappears when a record that  *)
(* supersedes it is loaded or its own write never returned, and its severity *)
(* only falls when a finding of its file has gone: nothing that is written   *)
(* later, in this audit or another, hides or weakens what was reported.      *)
THEOREM ReportsGrow == ReportSpec => ReportsOnlyGrow
<1>1. ReportInit => IInv /\ ReportInv
  BY InitInv, ReportInvStarts DEF ReportInit
<1>2. IInv /\ ReportInv /\ [ReportNext]_reportVars => (IInv /\ ReportInv)'
  BY Inductive, ReportStepsAreMemorySteps, ReportInvStays
<1>3. IInv /\ ReportInv /\ [ReportNext]_reportVars =>
        [\A r \in DOMAIN report :
          \/ /\ r \notin DOMAIN report'
             /\ r \notin acked \/ \E t \in Targets : r \in Superseded(t)
          \/ /\ r \in DOMAIN report'
             /\ \/ report'[r].severity >= report[r].severity
                \/ \E s \in DOMAIN report \ DOMAIN report' : payload[s].file = payload[r].file]_reportVars
  <2> SUFFICES ASSUME IInv, ReportInv, [ReportNext]_reportVars, NEW r \in DOMAIN report
               PROVE  \/ /\ r \notin DOMAIN report'
                         /\ r \notin acked \/ \E t \in Targets : r \in Superseded(t)
                      \/ /\ r \in DOMAIN report'
                         /\ \/ report'[r].severity >= report[r].severity
                            \/ \E s \in DOMAIN report \ DOMAIN report' : payload[s].file = payload[r].file
    OBVIOUS
  <2>1. CASE Finish
    BY <2>1, ReportGrows
  <2>2. CASE UNCHANGED report
    <3>1. report[r].severity \in 0..4
      <4>1. report[r] = RunStage3(Findings(DOMAIN report))[r] /\ payload \in Payloads /\ r \in RecordIds
        BY DEF ReportInv, Findings
      <4>2. Findings(DOMAIN report)[r] = Finding(r) /\ Finding(r).severity \in 0..4
        BY <4>1, ReportAssumption DEF Findings, Finding
      <4>3. CheckSeverity(Finding(r)) \in 0..4
        BY <4>2, CorrectedIsBounded
      <4>4. RunStage3(Findings(DOMAIN report))[r].severity \in {4, CheckSeverity(Finding(r))}
        <5>1. r \in DOMAIN Findings(DOMAIN report)
          BY DEF Findings
        <5>2. QED
          BY <4>2, <5>1 DEF RunStage3, Severities
      <4>5. QED
        BY <4>1, <4>3, <4>4
    <3>2. QED
      BY <2>2, <3>1
  <2>3. QED
    BY <2>1, <2>2, ReportStepsAreMemorySteps
<1>4. QED
  BY <1>1, <1>2, <1>3, PTL DEF ReportSpec, ReportsOnlyGrow

-----------------------------------------------------------------------------
(* What interacts is related; where there is a graph, what is related        *)
(* interacts.                                                                *)
LEMMA InteractsIsRelated ==
    ASSUME NEW r \in DOMAIN report, NEW s \in DOMAIN report
    PROVE  /\ Interacts(Findings(DOMAIN report), r, s) => Related(r, s)
           /\ payload[r].file \in Files /\ Graphs[payload[r].file] # <<>> /\ Related(r, s)
                 => Interacts(Findings(DOMAIN report), r, s)
<1> DEFINE all == Findings(DOMAIN report)
           file == payload[r].file
<1>1. /\ all[r].file = payload[r].file /\ all[r].at = payload[r].at
      /\ all[s].file = payload[s].file /\ all[s].at = payload[s].at
  BY DEF Findings, Finding
<1>2. Interacts(all, r, s) <=>
         /\ r # s /\ file = payload[s].file
         /\ file \in Files => Interferes(Sigs[file], payload[r].at, payload[s].at)
  BY <1>1 DEF Interacts
<1>3. ASSUME file \in Files, Interferes(Sigs[file], payload[r].at, payload[s].at)
      PROVE  <<payload[r].at, payload[s].at>> \in Shared[file]
  BY <1>3, GraphShowsSharing, TextShowsNoMore
<1>4. ASSUME file \in Files, Graphs[file] # <<>>, <<payload[r].at, payload[s].at>> \in Shared[file]
      PROVE  Interferes(Sigs[file], payload[r].at, payload[s].at)
  BY <1>4, GraphShowsSharing
<1> HIDE DEF all
<1>5. QED
  BY <1>2, <1>3, <1>4 DEF Related, all

LEMMA JustifiedOne ==
    ASSUME IInv, ReportInv, NEW r \in DOMAIN report
    PROVE  /\ payload[r].mitigated => report[r].severity <= Severities.medium
           /\ report[r].severity = Severities.critical /\ CheckSeverity(Finding(r)) # Severities.critical
                => \E s \in DOMAIN report :
                      /\ Related(r, s) /\ ~payload[s].mitigated
                      /\ CheckSeverity(Finding(s)) >= Severities.high
           /\ report[r].combined \subseteq {payload[s].id : s \in {s \in DOMAIN report : Related(r, s)}}
           /\ payload[r].file \in Files /\ Graphs[payload[r].file] # <<>>
                => \A s \in DOMAIN report : Related(r, s) => payload[s].id \in report[r].combined
<1> DEFINE all == Findings(DOMAIN report)
           chain == Elevate(all, payload[r].file)
<1>1. report = RunStage3(all) /\ r \in RecordIds /\ payload \in Payloads
  BY DEF ReportInv, Findings
<1>2. DOMAIN all = DOMAIN report /\ \A s \in DOMAIN report : all[s] = Finding(s)
  BY DEF Findings
<1>3. /\ Finding(r).severity \in 0..4
      /\ \A s : /\ Finding(s).mitigated = payload[s].mitigated
                /\ Finding(s).file = payload[s].file /\ Finding(s).id = payload[s].id
  BY <1>1, ReportAssumption DEF Finding
<1>4. \/ report[r].severity = 4 /\ r \in chain
      \/ report[r].severity = CheckSeverity(Finding(r))
  BY <1>1, <1>2, <1>3 DEF RunStage3, Severities
<1>5. ASSUME NEW s \in Severe(all)
      PROVE  s \in DOMAIN report /\ ~payload[s].mitigated /\ CheckSeverity(Finding(s)) >= Severities.high
  BY <1>2, <1>3, <1>5 DEF Severe
<1>6. ASSUME r \in chain
      PROVE  /\ ~payload[r].mitigated
             /\ \E s \in DOMAIN report :
                   /\ Related(r, s) /\ ~payload[s].mitigated
                   /\ CheckSeverity(Finding(s)) >= Severities.high
  <2>1. PICK s \in Severe(all) : Interacts(all, r, s) /\ r \in Severe(all)
    BY <1>6 DEF Elevate
  <2>2. s \in DOMAIN report /\ Related(r, s)
    BY <1>5, <2>1, InteractsIsRelated
  <2>3. QED
    BY <1>5, <2>1, <2>2
<1>7. payload[r].mitigated => CheckSeverity(Finding(r)) <= Severities.medium
  BY <1>3 DEF CheckSeverity, Severities
<1>8. report[r].combined = {payload[s].id : s \in {s \in DOMAIN report : Interacts(all, r, s)}}
  BY <1>1, <1>2, <1>3 DEF RunStage3
<1>9. report[r].combined \subseteq {payload[s].id : s \in {s \in DOMAIN report : Related(r, s)}}
  BY <1>8, InteractsIsRelated
<1>10. ASSUME payload[r].file \in Files, Graphs[payload[r].file] # <<>>,
              NEW s \in DOMAIN report, Related(r, s)
       PROVE  payload[s].id \in report[r].combined
  BY <1>8, <1>10, InteractsIsRelated
<1>11. QED
  BY <1>4, <1>6, <1>7, <1>9, <1>10 DEF Severities

(* Whatever the graphs, the findings and the order they came in: nothing in  *)
(* a report is without its reason, and no link that a structural graph       *)
(* implies is missing.                                                       *)
THEOREM ReportsJustified == ReportSpec => []ReportIsJustified
<1>1. ReportInit => IInv /\ ReportInv
  BY InitInv, ReportInvStarts DEF ReportInit
<1>2. IInv /\ ReportInv /\ [ReportNext]_reportVars => (IInv /\ ReportInv)'
  BY Inductive, ReportStepsAreMemorySteps, ReportInvStays
<1>3. IInv /\ ReportInv => ReportIsJustified
  BY JustifiedOne DEF ReportIsJustified
<1>4. QED
  BY <1>1, <1>2, <1>3, PTL DEF ReportSpec

(***************************************************************************)
(* The queue.                                                              *)
(***************************************************************************)

Pcs == {"off", "next", "synth", "smoke", "draft", "write", "run", "repair", "rerun",
        "judge", "fix", "verify", "finish"}

(* The finding has a text.                                                   *)
Drafted == {"write", "run", "repair", "rerun", "judge", "fix", "verify", "finish"}

Codes == Texts(Bases)
AllErrorKinds == Errors \cup {Gone}

RunStates ==
    [pc : Pcs, task : 0..(NumTasks + 1), base : Bases, name : Names \cup {"none"}, round : Nat,
     attempt : 0..Attempts, code : Codes \cup {NoFile},
     test : [compiled : BOOLEAN, passed : BOOLEAN, reported : SUBSET AllErrorKinds],
     outcome : Outcomes]

RunOK(r) ==
    /\ r \in RunStates
    /\ r.pc = "next" => r.task # 0
    /\ r.pc \notin {"off", "next"} => r.task \in Tasks
    /\ r.pc \in Drafted => r.code \in Codes /\ r.attempt # 0
    /\ r.pc = "fix" => r.attempt # Attempts
    /\ r.pc = "smoke" => r.name \in Names

QueueTypeOK ==
    /\ RunOK(run)
    /\ listed \in ExtractTasks
    /\ poc \in [Paths -> Codes \cup {NoFile}]
    /\ synth \in [Names -> [owner : Tasks, errs : SUBSET Errors] \cup {NoFile}]
    /\ At("smoke") => synth[run.name] # NoFile
    /\ smoke \in Names \cup {"none"} /\ failed \subseteq Paths
    /\ verdict \in [Tasks -> Outcomes]
    /\ judged \in [Tasks -> Codes \cup {NoFile}]
    /\ trip \in Trips

LEMMA TripStarts == ASSUME StartTrip \/ EndTrip PROVE trip' \in Trips
<1>1. 1 \in 1..RetryAttempts /\ 0 \in 0..LookupBudget /\ SelectProtocol \in Modes
  BY TripAssumption DEF SelectProtocol, Modes
<1>2. CASE StartTrip
  BY <1>1, <1>2 DEF StartTrip, Fresh, Trips
<1>3. CASE EndTrip
  BY <1>1, <1>3 DEF EndTrip, Idle, Trips, Modes
<1>4. QED
  BY <1>2, <1>3

LEMMA TripGoesOn == ASSUME trip \in Trips, TripStep PROVE trip' \in Trips
<1>1. /\ LookupBudget \in Nat /\ RetryAttempts \in Nat \ {0}
      /\ trip.used \in 0..LookupBudget /\ trip.served \in Nat /\ trip.try \in 1..RetryAttempts
  BY TripAssumption DEF Trips
<1>2. ASSUME NEW asked \in 0..MaxAsked
      PROVE  /\ Resolved(asked) \in Nat /\ trip.used + Resolved(asked) \in 0..LookupBudget
             /\ trip.served + Resolved(asked) \in Nat
  BY <1>1, TripAssumption DEF Resolved
<1>3. ASSUME NEW asked \in 0..MaxAsked, LookUp(asked) \/ LookUpByTool(asked)
      PROVE  trip' \in Trips
  <2>1. trip' = [trip EXCEPT !.used = trip.used + Resolved(asked),
                             !.served = trip.served + Resolved(asked)]
    BY <1>3 DEF LookUp, LookUpByTool
  <2>2. QED
    BY <1>2, <2>1 DEF Trips
<1>4. ASSUME NEW asked \in 0..MaxAsked, NEW result \in {"code", "empty"},
             MarkerFinal(asked, result) \/ ToolFinal(asked, result)
      PROVE  trip' \in Trips
  <2>1. CASE trip' = [trip EXCEPT !.pc = result] \/ trip' = [trip EXCEPT !.pc = "code"]
    BY <2>1 DEF Trips
  <2>2. CASE trip' = [trip EXCEPT !.mode = "marker", !.fell = TRUE, !.used = 0]
    <3>1. 0 \in 0..LookupBudget
      BY <1>1
    <3>2. QED
      BY <2>2, <3>1 DEF Trips, Modes
  <2>3. QED
    BY <1>4, <2>1, <2>2 DEF MarkerFinal, ToolFinal
<1>5. CASE MalformedCall
  BY <1>5 DEF MalformedCall, Trips
<1>6. CASE TransportFails
  <2>1. SelectProtocol \in Modes
    BY DEF SelectProtocol, Modes
  <2>2. QED
    BY <1>1, <1>6, <2>1 DEF TransportFails, Fresh, Trips
<1>7. QED
  BY <1>3, <1>4, <1>5, <1>6 DEF TripStep

LEMMA PathExists == ASSUME QueueTypeOK, run.task \in Tasks PROVE Path \in Paths
BY PocAssumption DEF QueueTypeOK, ExtractTasks, LoadPinnedTasks, Path

(* Texts and bases are made from their model's drafts by removing errors.    *)
LEMMA RepairsKeepTypes ==
    ASSUME NEW errs \in SUBSET Errors
    PROVE  /\ SeqSynthPrewrite(errs) \in SUBSET Errors
           /\ \A reported : SeqSynthRepair(errs, reported) \in SUBSET Errors
           /\ \A reported : SeqDraftInplace(errs, reported) \in SUBSET Errors
           /\ \A scaffolded : SeqPostmodel(errs, scaffolded) \in SUBSET Errors
BY DEF SeqSynthPrewrite, SeqSynthRepair, SeqDraftInplace, SeqPostmodel, FixSetupOverride,
       FixImportPaths, FixNestedTypeImports, FixScaffoldBase, FixUndeclaredImport,
       FixAddressInterface

LEMMA TextTyped ==
    ASSUME NEW draft \in Drafts, run.base \in Bases
    PROVE  Text(draft) \in Codes
<1>1. draft \in [errs : SUBSET Errors, defective : BOOLEAN, run : Behaviours]
  BY PocAssumption
<1>2. draft.errs \in SUBSET Errors
  BY <1>1
<1>3. SeqPostmodel(draft.errs, ResolveScaffold # {} \/ Synthesized(run.base)) \in SUBSET Errors
  BY <1>2, RepairsKeepTypes
<1>4. QED
  BY <1>1, <1>3 DEF Text, Codes, Texts

(* What the build can say.                                                   *)
LEMMA ErrorsTyped ==
    ASSUME QueueTypeOK
    PROVE  AllErrors \subseteq AllErrorKinds /\ Reported(AllErrors) \subseteq AllErrorKinds
<1>1. ASSUME NEW p \in Paths
      PROVE  ErrorsOf(poc[p]) \subseteq AllErrorKinds
  BY DEF ErrorsOf, QueueTypeOK, Codes, Texts, AllErrorKinds
<1>2. ASSUME NEW n \in Names
      PROVE  BaseErrorsOf(n) \subseteq AllErrorKinds
  BY DEF BaseErrorsOf, QueueTypeOK, AllErrorKinds
<1>3. SmokeErrors \subseteq AllErrorKinds
  BY DEF SmokeErrors, AllErrorKinds
<1>4. AllErrors \subseteq AllErrorKinds
  BY <1>1, <1>2, <1>3 DEF AllErrors
<1>5. QED
  BY <1>4 DEF Reported

LEMMA TestsTyped ==
    ASSUME QueueTypeOK, NEW text \in Codes, NEW patched \in BOOLEAN,
           NEW test \in TestResults(text, patched)
    PROVE  test \in [compiled : BOOLEAN, passed : BOOLEAN, reported : SUBSET AllErrorKinds]
<1>1. \A ok \in Passes(text, patched) : ok \in BOOLEAN
  <2>1. text.run \in {"exploit", "always", "inert", "untested"}
    BY DEF Codes, Texts, Behaviours
  <2>2. QED
    BY <2>1 DEF Passes
<1>2. Reported(AllErrors) \subseteq AllErrorKinds
  BY ErrorsTyped
<1>3. CASE Builds
  <2>1. PICK ok \in Passes(text, patched) :
            test = [compiled |-> Ran(text), passed |-> ok, reported |-> {}]
    BY <1>3 DEF TestResults
  <2>2. QED
    BY <1>1, <2>1 DEF Ran
<1>4. CASE ~Builds
  <2>1. test = [compiled |-> FALSE, passed |-> FALSE, reported |-> Reported(AllErrors)]
    BY <1>4 DEF TestResults
  <2>2. PICK reported \in SUBSET AllErrorKinds : reported = Reported(AllErrors)
    BY <1>2
  <2>3. QED
    BY <2>1, <2>2
<1>5. QED
  BY <1>3, <1>4

-----------------------------------------------------------------------------
LEMMA RunMoves ==
    ASSUME QueueTypeOK, RunOK(run'), run'.pc # "smoke", UNCHANGED <<disk, listed, verdict, judged>>,
           trip' = trip \/ StartTrip \/ EndTrip
    PROVE  QueueTypeOK'
<1>1. trip' \in Trips
  BY TripStarts DEF QueueTypeOK
<1>2. QED
  BY <1>1 DEF QueueTypeOK, disk, At

LEMMA OffTyped == RunOK(Off)
BY PocAssumption
   DEF RunOK, RunStates, Off, Pcs, Drafted, Bases, Own, NoTest, Outcomes, AllErrorKinds

LEMMA NextTyped ==
    ASSUME NEW task \in 1..(NumTasks + 1)
    PROVE  RunOK([Off EXCEPT !.pc = "next", !.task = task])
<1>1. NumTasks \in Nat /\ task \in 0..(NumTasks + 1) /\ task # 0
  BY PocAssumption
<1>2. [Off EXCEPT !.pc = "next", !.task = task] \in RunStates
  BY <1>1, OffTyped DEF RunOK, RunStates, Off, Pcs
<1>3. QED
  BY <1>1, <1>2 DEF RunOK, Off, Drafted

(* Steps between findings, and the end of a process.                         *)
LEMMA QueueStepsTyped ==
    ASSUME QueueTypeOK,
           \/ StartRun \/ FinishRun \/ BudgetReached \/ CallRaises \/ Die
           \/ BeginFinding \/ NoSynthOutput \/ FinishFinding
    PROVE  QueueTypeOK'
<1>1. run \in RunStates /\ NumTasks \in Nat /\ Tasks = 1..NumTasks /\ Attempts \in Nat \ {0}
  BY PocAssumption DEF QueueTypeOK, RunOK, Tasks
<1>2. RunOK(Off)
  BY OffTyped
<1>3. ASSUME NEW task \in 1..(NumTasks + 1)
      PROVE  RunOK([Off EXCEPT !.pc = "next", !.task = task])
  BY <1>3, NextTyped
<1>4. CASE StartRun
  <2>1. RunOK(run') /\ run'.pc = "next"
    <3>1. 1 \in 1..(NumTasks + 1)
      BY <1>1
    <3>2. RunOK([Off EXCEPT !.pc = "next", !.task = 1])
      BY <1>3, <3>1
    <3>3. QED
      BY <1>4, <3>2 DEF StartRun, Off
  <2>2. verdict' \in [Tasks -> Outcomes] /\ judged' \in [Tasks -> Codes \cup {NoFile}]
    BY <1>4 DEF StartRun, Outcomes
  <2>3. listed' \in ExtractTasks /\ UNCHANGED <<disk, trip>>
    BY <1>4 DEF StartRun
  <2>4. QED
    BY <2>1, <2>2, <2>3 DEF QueueTypeOK, disk, At
<1>5. CASE FinishRun \/ BudgetReached
  BY <1>2, <1>5, RunMoves DEF FinishRun, BudgetReached, EndRun, counts, history, Off
<1>6. CASE CallRaises \/ Die
  BY <1>2, <1>6, RunMoves DEF CallRaises, Die, ProcessEnds, EndRun, counts, Off
<1>7. ASSUME run.task \in Tasks, NEW base \in Bases, Draft(base)
      PROVE  RunOK(run') /\ run'.pc = "draft"
  BY <1>1, <1>7 DEF Draft, RunOK, RunStates, Pcs, Drafted
<1>8. Own \in Bases
  BY DEF Bases
<1>9. CASE BeginFinding
  <2>1. RunOK(run') /\ run'.pc # "smoke"
    <3>1. CASE run' = [run EXCEPT !.pc = "synth"]
      BY <1>1, <1>9, <3>1 DEF BeginFinding, RunOK, RunStates, Pcs, Drafted
    <3>2. QED
      BY <1>7, <1>8, <1>9, <3>1 DEF BeginFinding
  <2>2. QED
    BY <1>9, <2>1, RunMoves DEF BeginFinding, counts, history
<1>10. CASE NoSynthOutput
  <2>1. run.task \in Tasks
    BY <1>10 DEF NoSynthOutput, At, QueueTypeOK, RunOK
  <2>2. RunOK(run') /\ run'.pc = "draft"
    BY <1>7, <1>8, <1>10, <2>1 DEF NoSynthOutput
  <2>3. QED
    BY <1>10, <2>2, RunMoves DEF NoSynthOutput, counts, history
<1>11. CASE FinishFinding
  <2>1. run.task \in Tasks /\ Path \in Paths /\ run.code \in Codes
    BY <1>11, PathExists DEF FinishFinding, At, QueueTypeOK, RunOK, Drafted
  <2>2. RunOK(run') /\ run'.pc = "next"
    <3>1. run.task + 1 \in 1..(NumTasks + 1)
      BY <1>1, <2>1
    <3>2. RunOK([Off EXCEPT !.pc = "next", !.task = run.task + 1])
      BY <1>3, <3>1
    <3>3. QED
      BY <1>11, <3>2 DEF FinishFinding, Off
  <2>3. poc' \in [Paths -> Codes \cup {NoFile}] /\ failed' \subseteq Paths
    BY <1>11, <2>1 DEF FinishFinding, QueueTypeOK
  <2>4. verdict' \in [Tasks -> Outcomes] /\ judged' \in [Tasks -> Codes \cup {NoFile}]
    BY <1>1, <1>11, <2>1 DEF FinishFinding, QueueTypeOK, RunStates
  <2>5. UNCHANGED <<synth, smoke, listed, trip>>
    BY <1>11 DEF FinishFinding, counts
  <2>6. QED
    BY <2>2, <2>3, <2>4, <2>5 DEF QueueTypeOK, At
<1>12. QED
  BY <1>4, <1>5, <1>6, <1>9, <1>10, <1>11

(* Steps of the synthesis of a base.                                         *)
LEMMA SynthStepsTyped ==
    ASSUME QueueTypeOK,
           \/ AcceptBase \/ RepairBase \/ DiscardBase
           \/ \E n \in Names, errs \in BaseErrors : SynthesizeScaffold(n, errs)
    PROVE  QueueTypeOK'
<1>1. run \in RunStates /\ NumTasks \in Nat /\ Tasks = 1..NumTasks
  BY PocAssumption DEF QueueTypeOK, RunOK, Tasks
<1>2. ASSUME run.task \in Tasks, NEW base \in Bases, Draft(base)
      PROVE  RunOK(run') /\ run'.pc = "draft"
  BY <1>1, <1>2 DEF Draft, RunOK, RunStates, Pcs, Drafted
<1>3. Own \in Bases
  BY DEF Bases
<1>4. ASSUME NEW n \in Names, NEW errs \in BaseErrors, SynthesizeScaffold(n, errs)
      PROVE  QueueTypeOK'
  <2>1. run.task \in Tasks /\ SeqSynthPrewrite(errs) \in SUBSET Errors
    BY <1>4, PocAssumption, RepairsKeepTypes DEF SynthesizeScaffold, At, QueueTypeOK, RunOK
  <2>2. PICK fixed \in SUBSET Errors : fixed = SeqSynthPrewrite(errs)
    BY <2>1
  <2>3. synth' = [synth EXCEPT ![n] = [owner |-> run.task, errs |-> fixed]]
    BY <1>4, <2>2 DEF SynthesizeScaffold
  <2>4. /\ synth' \in [Names -> [owner : Tasks, errs : SUBSET Errors] \cup {NoFile}]
        /\ synth'[n] # NoFile
    BY <2>1, <2>3 DEF QueueTypeOK, NoFile
  <2>5. RunOK(run') /\ run'.name = n
    BY <1>1, <1>4, <2>1 DEF SynthesizeScaffold, RunOK, RunStates, Pcs, Drafted
  <2>6. smoke' = n /\ UNCHANGED <<poc, failed, listed, verdict, judged, trip>>
    BY <1>4 DEF SynthesizeScaffold, counts
  <2>7. QED
    BY <2>4, <2>5, <2>6 DEF QueueTypeOK, At
<1>5. ASSUME At("smoke")
      PROVE  /\ run.task \in Tasks /\ run.name \in Names
             /\ synth[run.name] \in [owner : Tasks, errs : SUBSET Errors]
  BY <1>5 DEF QueueTypeOK, RunOK, At
<1>6. CASE AcceptBase
  <2>1. run.task \in Tasks /\ [name |-> run.name, owner |-> run.task] \in Bases
    BY <1>5, <1>6 DEF AcceptBase, Bases
  <2>2. RunOK(run') /\ run'.pc = "draft"
    BY <1>2, <1>6, <2>1 DEF AcceptBase
  <2>3. smoke' = "none" /\ trip' \in Trips /\ UNCHANGED <<poc, failed, synth, listed, verdict, judged>>
    BY <1>6, TripStarts DEF AcceptBase, counts, history
  <2>4. QED
    BY <2>2, <2>3 DEF QueueTypeOK, At
<1>7. CASE DiscardBase
  <2>1. RunOK(run') /\ run'.pc = "draft"
    BY <1>2, <1>3, <1>5, <1>7 DEF DiscardBase
  <2>2. synth' \in [Names -> [owner : Tasks, errs : SUBSET Errors] \cup {NoFile}]
    BY <1>7 DEF DiscardBase, QueueTypeOK
  <2>3. smoke' = "none" /\ trip' \in Trips /\ UNCHANGED <<poc, failed, listed, verdict, judged>>
    BY <1>7, TripStarts DEF DiscardBase, counts
  <2>4. QED
    BY <2>1, <2>2, <2>3 DEF QueueTypeOK, At
<1>8. CASE RepairBase
  <2>1. PICK base \in [owner : Tasks, errs : SUBSET Errors] : base = synth[run.name]
    BY <1>5, <1>8 DEF RepairBase
  <2>2. PICK fixed \in SUBSET Errors : fixed = RepairedBase
    BY <2>1, RepairsKeepTypes DEF RepairedBase
  <2>3. run.name \in Names /\ run.task \in Tasks
    BY <1>5, <1>8 DEF RepairBase
  <2>4. synth' = [synth EXCEPT ![run.name] = [base EXCEPT !.errs = fixed]]
    BY <1>8, <2>1, <2>2 DEF RepairBase
  <2>5. [base EXCEPT !.errs = fixed] \in [owner : Tasks, errs : SUBSET Errors]
    OBVIOUS
  <2>6. [base EXCEPT !.errs = fixed] # NoFile
    BY DEF NoFile
  <2>7. /\ synth' \in [Names -> [owner : Tasks, errs : SUBSET Errors] \cup {NoFile}]
        /\ synth'[run.name] # NoFile
    BY <2>3, <2>4, <2>5, <2>6 DEF QueueTypeOK
  <2>8. RunOK(run') /\ run'.name = run.name
    BY <1>1, <1>8, <2>3 DEF RepairBase, RunOK, RunStates, Pcs, Drafted, At
  <2>9. UNCHANGED <<poc, smoke, failed, listed, verdict, judged, trip>>
    BY <1>8 DEF RepairBase, counts, history
  <2>10. QED
    BY <2>7, <2>8, <2>9 DEF QueueTypeOK, At
<1>9. QED
  BY <1>4, <1>6, <1>7, <1>8

(* Steps of a finding between its draft and its outcome.                     *)
LEMMA FindingStepsTyped ==
    ASSUME QueueTypeOK,
           \/ WaitForModel \/ DraftFailed \/ DraftReturned \/ WritePoc
           \/ (\E outcome \in Outcomes : RunFails(outcome))
           \/ RunTests \/ RewriteInPlace \/ RunAgain \/ RunAgainFails \/ EndRepair
           \/ Judge \/ FixReturned \/ FixNoCode \/ FixFailed
           \/ VerifyUnavailable \/ MutationVerify
    PROVE  QueueTypeOK'
<1>1. /\ run \in RunStates /\ NumTasks \in Nat /\ Tasks = 1..NumTasks /\ Attempts \in Nat \ {0}
      /\ RunOK(run)
  BY PocAssumption DEF QueueTypeOK, RunOK, Tasks
<1>2. ASSUME NEW pc \in Drafted \ {"fix"}, run.pc \in Drafted, run' = [run EXCEPT !.pc = pc]
      PROVE  RunOK(run') /\ run'.pc # "smoke"
  BY <1>1, <1>2 DEF RunOK, RunStates, Pcs, Drafted
<1>3. ASSUME NEW outcome \in Outcomes, run.pc \in Drafted, Conclude(outcome)
      PROVE  RunOK(run') /\ run'.pc # "smoke"
  BY <1>1, <1>3 DEF Conclude, RunOK, RunStates, Pcs, Drafted
<1>4. ASSUME NEW patched \in BOOLEAN, NEW test \in TestResults(run.code, patched), run.pc \in Drafted
      PROVE  test \in [compiled : BOOLEAN, passed : BOOLEAN, reported : SUBSET AllErrorKinds]
  BY <1>1, <1>4, TestsTyped DEF RunOK
<1>5. NoTest \in [compiled : BOOLEAN, passed : BOOLEAN, reported : SUBSET AllErrorKinds]
  BY DEF NoTest
<1>6. CASE WaitForModel
  BY <1>6, TripGoesOn DEF WaitForModel, QueueTypeOK, disk, counts, history, At
<1>7. CASE DraftFailed
  <2>1. run.task \in Tasks
    BY <1>1, <1>7 DEF DraftFailed, At, RunOK
  <2>2. RunOK(run') /\ run'.pc = "next"
    <3>1. run' = [Off EXCEPT !.pc = "next", !.task = run.task + 1]
      BY <1>7 DEF DraftFailed
    <3>2. run.task + 1 \in 1..(NumTasks + 1)
      BY <1>1, <2>1
    <3>3. RunOK(run')
      BY <3>1, <3>2, NextTyped
    <3>4. QED
      BY <3>1, <3>3 DEF Off
  <2>3. verdict' \in [Tasks -> Outcomes]
    BY <1>7, <2>1 DEF DraftFailed, QueueTypeOK, Outcomes, Failures
  <2>4. trip' \in Trips /\ UNCHANGED <<poc, synth, smoke, failed, listed, judged>>
    BY <1>7, TripStarts DEF DraftFailed, disk, counts
  <2>5. QED
    BY <2>2, <2>3, <2>4 DEF QueueTypeOK, At
<1>8. CASE DraftReturned
  <2>1. PICK draft \in Drafts :
            run' = [run EXCEPT !.pc = "write", !.code = Text(draft), !.attempt = 1]
    BY <1>8 DEF DraftReturned
  <2>2. PICK code \in Codes : code = Text(draft)
    BY <1>1, TextTyped DEF RunStates
  <2>3. RunOK(run') /\ run'.pc # "smoke"
    <3>1. run.task \in Tasks
      BY <1>1, <1>8 DEF DraftReturned, At, RunOK
    <3>2. 1 \in 0..Attempts
      BY <1>1
    <3>3. run' = [run EXCEPT !.pc = "write", !.code = code, !.attempt = 1]
      BY <2>1, <2>2
    <3>4. run' \in RunStates
      BY <1>1, <3>2, <3>3 DEF RunStates, Pcs
    <3>5. /\ run'.pc = "write" /\ run'.code = code /\ run'.attempt = 1
          /\ run'.task = run.task
      BY <1>1, <3>3 DEF RunStates
    <3>6. QED
      BY <3>1, <3>4, <3>5 DEF RunOK
  <2>4. QED
    BY <1>8, <2>3, RunMoves DEF DraftReturned, counts, history
<1>9. CASE WritePoc
  <2>1. run.code \in Codes /\ Path \in Paths
    BY <1>1, <1>9, PathExists DEF WritePoc, At, RunOK, Drafted
  <2>2. RunOK(run') /\ run'.pc # "smoke"
    BY <1>1, <1>9 DEF WritePoc, At, RunOK, RunStates, Pcs, Drafted
  <2>3. poc' \in [Paths -> Codes \cup {NoFile}]
    BY <1>9, <2>1 DEF WritePoc, QueueTypeOK
  <2>4. UNCHANGED <<synth, smoke, failed, listed, verdict, judged, trip>>
    BY <1>9 DEF WritePoc, counts
  <2>5. QED
    BY <2>2, <2>3, <2>4 DEF QueueTypeOK, At
<1>10. ASSUME NEW outcome \in Outcomes, RunFails(outcome)
      PROVE  QueueTypeOK'
  <2>1. run.pc \in Drafted
    BY <1>10 DEF RunFails, At, Drafted
  <2>2. RunOK(run') /\ run'.pc # "smoke"
    BY <1>3, <1>10, <2>1 DEF RunFails
  <2>3. QED
    BY <1>10, <2>2, RunMoves DEF RunFails, counts, history
<1>11. CASE RunTests \/ RunAgain
  <2>1. PICK test \in TestResults(run.code, FALSE) :
            run' = [run EXCEPT !.pc = "repair", !.test = test]
    BY <1>11 DEF RunTests, RunAgain
  <2>2. run.pc \in Drafted
    BY <1>11 DEF RunTests, RunAgain, At, Drafted
  <2>3. test \in [compiled : BOOLEAN, passed : BOOLEAN, reported : SUBSET AllErrorKinds]
    BY <1>4, <2>2
  <2>4. RunOK(run') /\ run'.pc # "smoke"
    BY <1>1, <2>1, <2>2, <2>3 DEF RunOK, RunStates, Pcs, Drafted
  <2>5. QED
    BY <1>11, <2>4, RunMoves DEF RunTests, RunAgain, counts, history
<1>12. CASE RewriteInPlace
  <2>1. PICK code \in Codes : code = run.code
    BY <1>1, <1>12 DEF RewriteInPlace, At, RunOK, Drafted
  <2>2. PICK errs \in SUBSET Errors : errs = SeqDraftInplace(code.errs, run.test.reported)
    BY RepairsKeepTypes DEF Codes, Texts
  <2>3. RepairedCode = [code EXCEPT !.errs = errs]
    BY <2>1, <2>2 DEF RepairedCode
  <2>4. RepairedCode \in Codes
    BY <2>3 DEF Codes, Texts
  <2>5. PICK repaired \in Codes : repaired = RepairedCode
    BY <2>4
  <2>6. run' = [run EXCEPT !.pc = "rerun", !.code = repaired, !.round = run.round + 1]
    BY <1>12, <2>5 DEF RewriteInPlace
  <2>7. RunOK(run') /\ run'.pc # "smoke"
    <3>1. run.task \in Tasks /\ run.attempt # 0
      BY <1>1, <1>12 DEF RewriteInPlace, At, RunOK, Drafted
    <3>2. run' \in RunStates
      <4>1. run.round + 1 \in Nat
        BY <1>1 DEF RunStates
      <4>2. PICK round \in Nat : round = run.round + 1
        BY <4>1
      <4>3. QED
        BY <1>1, <2>6, <4>2 DEF RunStates, Pcs
    <3>3. /\ run'.pc = "rerun" /\ run'.code = repaired /\ run'.attempt = run.attempt
          /\ run'.task = run.task
      BY <1>1, <2>6 DEF RunStates
    <3>4. QED
      BY <3>1, <3>2, <3>3 DEF RunOK
  <2>8. Path \in Paths
    BY <1>1, <1>12, PathExists DEF RewriteInPlace, At, RunOK
  <2>9. poc' \in [Paths -> Codes \cup {NoFile}]
    BY <1>12, <2>4, <2>8 DEF RewriteInPlace, QueueTypeOK
  <2>10. UNCHANGED <<synth, smoke, failed, listed, verdict, judged, trip>>
    BY <1>12 DEF RewriteInPlace, counts, history
  <2>11. QED
    BY <2>7, <2>9, <2>10 DEF QueueTypeOK, At
<1>13. CASE RunAgainFails \/ EndRepair
  <2>1. RunOK(run') /\ run'.pc # "smoke"
    BY <1>2, <1>13 DEF RunAgainFails, EndRepair, At, Drafted
  <2>2. QED
    BY <1>13, <2>1, RunMoves DEF RunAgainFails, EndRepair, counts, history
<1>14. CASE Judge
  <2>1. run.pc \in Drafted
    BY <1>14 DEF Judge, At, Drafted
  <2>2. ASSUME run' = [run EXCEPT !.pc = "verify"]
        PROVE  RunOK(run') /\ run'.pc # "smoke"
    BY <1>2, <2>1, <2>2 DEF Drafted
  <2>3. ASSUME Conclude("compiled") \/ Conclude(LastOutcome)
        PROVE  RunOK(run') /\ run'.pc # "smoke"
    <3>1. LastOutcome \in Outcomes /\ "compiled" \in Outcomes
      <4>1. LastOutcome \in {"vacuous_pass", "reverted_exhausted", "compile_only_defective", "exhausted"}
        BY DEF LastOutcome
      <4>2. QED
        BY <4>1 DEF Outcomes, Successes, Failures
    <3>2. QED
      BY <1>3, <2>1, <2>3, <3>1
  <2>4. ASSUME run.attempt < Attempts, run' = [run EXCEPT !.pc = "fix"]
        PROVE  RunOK(run') /\ run'.pc # "smoke"
    BY <1>1, <2>1, <2>4 DEF RunOK, RunStates, Pcs, Drafted
  <2>5. RunOK(run') /\ run'.pc # "smoke"
    BY <1>14, <2>2, <2>3, <2>4 DEF Judge
  <2>6. UNCHANGED <<disk, listed, verdict, judged>> /\ (trip' = trip \/ StartTrip)
    BY <1>14 DEF Judge, counts, history
  <2>7. QED
    BY <2>5, <2>6, RunMoves
<1>15. CASE FixReturned \/ FixNoCode
  <2>1. PICK code \in Codes :
            run' = [run EXCEPT !.pc = "write", !.code = code, !.attempt = run.attempt + 1,
                               !.test = NoTest]
    <3>1. CASE FixReturned
      <4>1. PICK draft \in Drafts :
                run' = [run EXCEPT !.pc = "write", !.code = Text(draft), !.attempt = @ + 1,
                                   !.test = NoTest]
        BY <3>1 DEF FixReturned
      <4>2. Text(draft) \in Codes
        BY <1>1, TextTyped DEF RunStates
      <4>3. QED
        BY <4>1, <4>2
    <3>2. CASE FixNoCode
      <4>1. run.code \in Codes
        BY <1>1, <3>2 DEF FixNoCode, At, RunOK, Drafted
      <4>2. run' = [run EXCEPT !.pc = "write", !.attempt = run.attempt + 1, !.test = NoTest]
        BY <3>2 DEF FixNoCode
      <4>3. run' = [run EXCEPT !.pc = "write", !.code = run.code, !.attempt = run.attempt + 1,
                               !.test = NoTest]
        BY <1>1, <4>2 DEF RunStates
      <4>4. QED
        BY <4>1, <4>3
    <3>3. QED
      BY <1>15, <3>1, <3>2
  <2>2. /\ run.pc = "fix" /\ run.attempt # Attempts /\ run.attempt \in 0..Attempts
        /\ run.task \in Tasks
    BY <1>1, <1>15 DEF FixReturned, FixNoCode, At, RunOK, RunStates
  <2>3. run.attempt + 1 \in 0..Attempts /\ run.attempt + 1 # 0
    BY <1>1, <2>2
  <2>4. RunOK(run') /\ run'.pc # "smoke"
    BY <1>1, <1>5, <2>1, <2>2, <2>3 DEF RunOK, RunStates, Pcs, Drafted
  <2>5. QED
    BY <1>15, <2>4, RunMoves DEF FixReturned, FixNoCode, counts, history
<1>16. CASE FixFailed \/ VerifyUnavailable \/ MutationVerify
  <2>1. run.pc \in Drafted
    BY <1>16 DEF FixFailed, VerifyUnavailable, MutationVerify, At, Drafted
  <2>2. \E outcome \in {"fix_failed", "passed_unchecked", "unverified_pass", "passed_verified"} :
            Conclude(outcome)
    BY <1>16 DEF FixFailed, VerifyUnavailable, MutationVerify
  <2>3. RunOK(run') /\ run'.pc # "smoke"
    BY <1>3, <2>1, <2>2 DEF Outcomes, Successes, Failures
  <2>4. QED
    BY <1>16, <2>3, RunMoves DEF FixFailed, VerifyUnavailable, MutationVerify, counts, history
<1>17. QED
  BY <1>6, <1>7, <1>8, <1>9, <1>10, <1>11, <1>12, <1>13, <1>14, <1>15, <1>16

LEMMA QueueTypeStays ==
    ASSUME QueueTypeOK, [RunnerNext]_runnerVars
    PROVE  QueueTypeOK'
<1>1. CASE UNCHANGED runnerVars
  BY <1>1 DEF runnerVars, disk, counts, history, QueueTypeOK, At
<1>2. CASE RejectBase \/ SmokeInfraError
  BY <1>2, SynthStepsTyped DEF RejectBase, SmokeInfraError
<1>3. QED
  BY <1>1, <1>2, QueueStepsTyped, SynthStepsTyped, FindingStepsTyped DEF RunnerNext, RunnerStep

LEMMA QueueTypeStarts == RunnerInit => QueueTypeOK
<1> SUFFICES ASSUME RunnerInit PROVE QueueTypeOK
  OBVIOUS
<1>1. RunOK(run) /\ run.pc = "off"
  BY OffTyped DEF RunnerInit, Off
<1>2. trip \in Trips
  BY TripAssumption DEF RunnerInit, TripInit, Idle, Trips, Modes
<1>3. poc \in [Paths -> Codes \cup {NoFile}]
  BY PocAssumption DEF RunnerInit, Codes
<1>4. QED
  BY <1>1, <1>2, <1>3 DEF RunnerInit, QueueTypeOK, At, Outcomes

-----------------------------------------------------------------------------
(* The folder between two findings.  While a finding is under way its own    *)
(* file may fail to build, and at its smoke test its base.                   *)
InProgress(p) ==
    /\ run.pc \in Drafted /\ p = Path
    /\ At("write") => run.attempt # 1

FolderInv ==
    /\ \A p \in Paths : ErrorsOf(poc[p]) # {} =>
           p \in debris \/ poc[p].base.name \in touched \/ InProgress(p)
    /\ \A n \in Names : BaseErrorsOf(n) # {} => n \in debris \/ (At("smoke") /\ n = run.name)
    /\ smoke # "none" => "smoke" \in debris \/ At("smoke")
    /\ At("smoke") => \A p \in Paths :
           poc[p] # NoFile /\ poc[p].base.name = run.name => run.name \in touched

(* A test that shows anything of a text shows what the text does.            *)
Says(test, text) ==
    test.compiled \/ test.passed =>
        Builds /\ test.compiled = Ran(text) /\ test.passed \in Passes(text, FALSE)

(* What is known of the last test once there is one, and of the file: it is  *)
(* the text that was tested.                                                 *)
TestInv ==
    /\ run.pc \in Drafted \ {"write"} => poc[Path] = run.code
    /\ run.pc \in {"repair", "judge", "verify"} => Says(run.test, run.code)
    /\ At("rerun") => ~run.test.compiled /\ ~run.test.passed
    /\ At("verify") => RealPass
    /\ At("finish") => (run.outcome \in Successes => Builds)

LEMMA BuildingText ==
    ASSUME QueueTypeOK, Builds, run.pc \in Drafted, poc[Path] = run.code
    PROVE  run.code.errs = {} /\ ErrorsOf(poc[Path]) = {}
<1>1. Path \in Paths /\ run.code \in Codes
  BY PathExists DEF QueueTypeOK, RunOK, Drafted
<1>2. ErrorsOf(poc[Path]) = {}
  BY <1>1 DEF Builds, AllErrors
<1>3. run.code # NoFile
  BY <1>1 DEF Codes, Texts, NoFile
<1>4. QED
  BY <1>2, <1>3 DEF ErrorsOf

LEMMA SameDisk ==
    ASSUME UNCHANGED disk
    PROVE  /\ Builds' = Builds
           /\ \A p : ErrorsOf(poc[p])' = ErrorsOf(poc[p])
           /\ \A n : BaseErrorsOf(n)' = BaseErrorsOf(n)
BY DEF disk, Builds, AllErrors, ErrorsOf, BaseErrorsOf, SmokeErrors

(* A step of the queue that leaves the folder alone.                         *)
LEMMA FolderUntouched ==
    ASSUME FolderInv, UNCHANGED <<disk, debris, touched>>, ~At("smoke"), ~At("smoke")',
           \A p \in Paths : InProgress(p) => InProgress(p)'
    PROVE  FolderInv'
<1>1. /\ \A p : ErrorsOf(poc[p])' = ErrorsOf(poc[p])
      /\ \A n : BaseErrorsOf(n)' = BaseErrorsOf(n)
      /\ UNCHANGED <<poc, smoke, debris, touched>>
  BY SameDisk DEF disk
<1>2. QED
  BY <1>1 DEF FolderInv

(* A change of one base is felt by the files that inherit it only.           *)
LEMMA OtherBases ==
    ASSUME QueueTypeOK, NEW n \in Names, UNCHANGED poc,
           \A m \in Names \ {n} : synth'[m] = synth[m]
    PROVE  /\ \A p \in Paths : poc[p] = NoFile \/ poc[p].base.name # n =>
                  ErrorsOf(poc[p])' = ErrorsOf(poc[p])
           /\ \A m \in Names \ {n} : BaseErrorsOf(m)' = BaseErrorsOf(m)
<1>1. ASSUME NEW p \in Paths, poc[p] # NoFile, poc[p].base.name # n
      PROVE  ErrorsOf(poc[p])' = ErrorsOf(poc[p])
  <2>1. poc[p].base \in Bases
    BY <1>1 DEF QueueTypeOK, Codes, Texts
  <2>2. poc[p].base = Own \/ poc[p].base.name \in Names \ {n}
    BY <1>1, <2>1 DEF Bases
  <2>3. QED
    BY <1>1, <2>2 DEF ErrorsOf, Synthesized
<1>2. ASSUME NEW p \in Paths, poc[p] = NoFile
      PROVE  ErrorsOf(poc[p])' = ErrorsOf(poc[p])
  BY <1>2 DEF ErrorsOf
<1>3. QED
  BY <1>1, <1>2 DEF BaseErrorsOf

LEMMA TouchMarks ==
    ASSUME NEW n \in Names, Touch(n)
    PROVE  /\ touched \subseteq touched'
           /\ \A p \in Paths : poc[p] # NoFile /\ poc[p].base.name = n => n \in touched'
BY DEF Touch

(* Steps of the synthesis of a base.                                         *)
LEMMA FolderAtSynthesis ==
    ASSUME QueueTypeOK, FolderInv,
           \/ AcceptBase \/ RepairBase \/ DiscardBase
           \/ \E n \in Names, errs \in BaseErrors : SynthesizeScaffold(n, errs)
    PROVE  FolderInv'
<1>1. run.pc \in {"synth", "smoke"} /\ run.pc \notin Drafted
  BY DEF AcceptBase, RepairBase, DiscardBase, SynthesizeScaffold, At, Drafted
<1>2. \A p : ~InProgress(p)
  BY <1>1 DEF InProgress
<1>3. run \in RunStates
  BY DEF QueueTypeOK, RunOK
<1>4. ASSUME NEW n \in Names, NEW errs \in BaseErrors, SynthesizeScaffold(n, errs)
      PROVE  FolderInv'
  <2>1. /\ UNCHANGED poc /\ smoke' = n /\ debris' = debris \ {n, "smoke"} /\ Touch(n)
        /\ At("smoke")' /\ run'.name = n /\ run.pc = "synth"
    BY <1>3, <1>4 DEF SynthesizeScaffold, At, RunStates
  <2>2. \A m \in Names \ {n} : synth'[m] = synth[m]
    BY <1>4 DEF SynthesizeScaffold, QueueTypeOK
  <2>3. n \notin Paths /\ "smoke" \notin Paths \cup Names
    BY PocAssumption
  <2>4. ASSUME NEW p \in Paths, ErrorsOf(poc[p])' # {}
        PROVE  p \in debris' \/ poc'[p].base.name \in touched'
    BY <1>2, <2>1, <2>2, <2>3, <2>4, OtherBases, TouchMarks DEF FolderInv
  <2>5. ASSUME NEW m \in Names \ {n}, BaseErrorsOf(m)' # {}
        PROVE  m \in debris'
    BY <2>1, <2>2, <2>3, <2>5, OtherBases DEF FolderInv, At
  <2>6. \A p \in Paths : poc'[p] # NoFile /\ poc'[p].base.name = run'.name => run'.name \in touched'
    BY <2>1, TouchMarks
  <2>7. QED
    BY <2>1, <2>4, <2>5, <2>6 DEF FolderInv
<1>5. ASSUME At("smoke")
      PROVE  run.name \in Names
  BY <1>5 DEF QueueTypeOK, RunOK, At
<1>6. CASE AcceptBase
  <2>1. /\ UNCHANGED <<poc, synth, debris, touched>> /\ smoke' = "none" /\ ~At("smoke")'
        /\ Builds /\ At("smoke")
    BY <1>3, <1>6 DEF AcceptBase, Draft, At, RunStates, history
  <2>2. BaseErrorsOf(run.name) = {}
    BY <1>5, <2>1 DEF Builds, AllErrors
  <2>3. /\ \A p : ErrorsOf(poc[p])' = ErrorsOf(poc[p])
        /\ \A n : BaseErrorsOf(n)' = BaseErrorsOf(n)
    BY <2>1 DEF ErrorsOf, BaseErrorsOf
  <2>4. QED
    BY <1>2, <2>1, <2>2, <2>3 DEF FolderInv
<1>7. CASE DiscardBase
  <2>1. /\ UNCHANGED <<poc, debris>> /\ smoke' = "none" /\ ~At("smoke")' /\ At("smoke")
        /\ Touch(run.name)
    BY <1>3, <1>7 DEF DiscardBase, Draft, At, RunStates
  <2>2. run.name \in Names
    BY <1>5, <2>1
  <2>3. (\A m \in Names \ {run.name} : synth'[m] = synth[m]) /\ synth'[run.name] = NoFile
    BY <1>7, <2>2 DEF DiscardBase, QueueTypeOK
  <2>4. ASSUME NEW p \in Paths, ErrorsOf(poc[p])' # {}
        PROVE  p \in debris' \/ poc'[p].base.name \in touched'
    BY <1>2, <2>1, <2>2, <2>3, <2>4, OtherBases, TouchMarks DEF FolderInv
  <2>5. ASSUME NEW m \in Names, BaseErrorsOf(m)' # {}
        PROVE  m \in debris'
    <3>1. m # run.name
      BY <2>3, <2>5 DEF BaseErrorsOf
    <3>2. QED
      BY <2>1, <2>2, <2>3, <2>5, <3>1, OtherBases DEF FolderInv
  <2>6. QED
    BY <2>1, <2>4, <2>5 DEF FolderInv
<1>8. CASE RepairBase
  <2>1. /\ UNCHANGED <<poc, smoke, debris, touched>> /\ At("smoke")' /\ At("smoke")
        /\ run'.name = run.name
    BY <1>3, <1>8 DEF RepairBase, At, RunStates, history
  <2>2. run.name \in Names
    BY <1>5, <2>1
  <2>3. \A m \in Names \ {run.name} : synth'[m] = synth[m]
    BY <1>8, <2>2 DEF RepairBase, QueueTypeOK
  <2>4. ASSUME NEW p \in Paths, ErrorsOf(poc[p])' # {}
        PROVE  p \in debris' \/ poc'[p].base.name \in touched'
    BY <1>2, <2>1, <2>2, <2>3, <2>4, OtherBases DEF FolderInv
  <2>5. ASSUME NEW m \in Names \ {run.name}, BaseErrorsOf(m)' # {}
        PROVE  m \in debris'
    BY <2>1, <2>2, <2>3, <2>5, OtherBases DEF FolderInv
  <2>6. \A p \in Paths : poc'[p] # NoFile /\ poc'[p].base.name = run'.name => run'.name \in touched'
    BY <2>1 DEF FolderInv
  <2>7. smoke' # "none" => At("smoke")'
    BY <2>1
  <2>8. QED
    BY <2>1, <2>4, <2>5, <2>6, <2>7 DEF FolderInv
<1>9. QED
  BY <1>4, <1>6, <1>7, <1>8

(* Steps that write the finding's file or move it away.                      *)
LEMMA FolderAtWriting ==
    ASSUME QueueTypeOK, FolderInv, TestInv, WritePoc \/ RewriteInPlace \/ FinishFinding
    PROVE  FolderInv'
<1>1. PICK path \in Paths : path = Path
  BY PathExists DEF WritePoc, RewriteInPlace, FinishFinding, At, QueueTypeOK, RunOK
<1>2. /\ run \in RunStates /\ run.pc \in Drafted /\ ~At("smoke")
      /\ path \notin Names /\ path # "smoke"
  BY PocAssumption
     DEF WritePoc, RewriteInPlace, FinishFinding, At, QueueTypeOK, RunOK, Drafted
<1>3. /\ UNCHANGED <<synth, smoke, touched, listed>> /\ ~At("smoke")'
      /\ \A p \in Paths \ {path} : poc'[p] = poc[p]
      /\ debris' \in {debris, debris \ {path}}
  BY <1>1, <1>2 DEF WritePoc, RewriteInPlace, FinishFinding, QueueTypeOK, RunStates, Off, At, counts, history
<1>4. \A p \in Paths \ {path} : ErrorsOf(poc[p])' = ErrorsOf(poc[p])
  BY <1>3 DEF ErrorsOf
<1>5. ErrorsOf(poc[path])' # {} => InProgress(path)'
  <2>1. CASE WritePoc \/ RewriteInPlace
    <3>1. run'.pc \in {"run", "rerun"} /\ run'.task = run.task
      BY <1>2, <2>1 DEF WritePoc, RewriteInPlace, RunStates
    <3>2. QED
      BY <1>1, <1>3, <3>1 DEF InProgress, Path, At, Drafted
  <2>2. CASE FinishFinding /\ run.outcome \in Successes
    <3>1. poc[Path] = run.code /\ Builds
      BY <2>2 DEF FinishFinding, TestInv, At, Drafted
    <3>2. ErrorsOf(poc[path]) = {}
      BY <1>1, <1>2, <3>1, BuildingText
    <3>3. poc' = poc
      BY <2>2 DEF FinishFinding
    <3>4. ErrorsOf(poc[path])' = ErrorsOf(poc[path])
      BY <1>3, <3>3 DEF ErrorsOf
    <3>5. QED
      BY <3>2, <3>4
  <2>3. CASE FinishFinding /\ run.outcome \notin Successes
    <3>1. poc'[path] = NoFile
      BY <1>1, <2>3 DEF FinishFinding, QueueTypeOK
    <3>2. ErrorsOf(poc[path])' = {}
      BY <3>1 DEF ErrorsOf
    <3>3. QED
      BY <3>2
  <2>4. QED
    BY <2>1, <2>2, <2>3
<1>6. ASSUME NEW p \in Paths, p # path, ErrorsOf(poc[p])' # {}
      PROVE  p \in debris' \/ poc'[p].base.name \in touched'
  <2>1. ErrorsOf(poc[p]) # {} /\ ~InProgress(p)
    BY <1>1, <1>4, <1>6 DEF InProgress
  <2>2. QED
    BY <1>3, <1>6, <2>1 DEF FolderInv
<1>7. ASSUME NEW n \in Names, BaseErrorsOf(n)' # {}
      PROVE  n \in debris'
  <2>1. BaseErrorsOf(n) # {}
    BY <1>3, <1>7 DEF BaseErrorsOf
  <2>2. QED
    BY <1>2, <1>3, <2>1 DEF FolderInv
<1>8. smoke' # "none" => "smoke" \in debris'
  BY <1>2, <1>3 DEF FolderInv
<1>9. QED
  BY <1>3, <1>5, <1>6, <1>7, <1>8 DEF FolderInv

(* The process ends: what was in progress is left half done.                 *)
LEMMA FolderAtDeath ==
    ASSUME QueueTypeOK, FolderInv, CallRaises \/ Die
    PROVE  FolderInv'
<1>1. UNCHANGED <<disk, touched>> /\ debris' = debris \cup HalfDone /\ run' = Off
  BY DEF CallRaises, Die, ProcessEnds, EndRun
<1>2. /\ \A p : ErrorsOf(poc[p])' = ErrorsOf(poc[p])
      /\ \A n : BaseErrorsOf(n)' = BaseErrorsOf(n)
      /\ UNCHANGED <<poc, smoke>>
  BY <1>1, SameDisk DEF disk
<1>3. \A p : InProgress(p) => p \in HalfDone
  <2>1. run.pc \in Drafted => run.code # NoFile
    BY DEF QueueTypeOK, RunOK, Codes, Texts, NoFile
  <2>2. run.pc \in Drafted /\ run.attempt # 1 => run.attempt > 1
    BY PocAssumption DEF QueueTypeOK, RunOK, RunStates
  <2>3. QED
    BY <2>1, <2>2 DEF InProgress, HalfDone
<1>4. At("smoke") => {run.name, "smoke"} \subseteq HalfDone
  BY DEF HalfDone
<1>5. ~At("smoke")'
  BY <1>1 DEF Off, At
<1>6. QED
  BY <1>1, <1>2, <1>3, <1>4, <1>5 DEF FolderInv

(* The steps that leave the folder alone.                                    *)
LEMMA FolderElsewhere ==
    ASSUME QueueTypeOK, FolderInv,
           \/ StartRun \/ FinishRun \/ BudgetReached \/ BeginFinding \/ NoSynthOutput
           \/ WaitForModel \/ DraftFailed \/ DraftReturned
           \/ (\E outcome \in Outcomes : RunFails(outcome))
           \/ RunTests \/ RunAgain \/ RunAgainFails \/ EndRepair
           \/ Judge \/ FixReturned \/ FixNoCode \/ FixFailed
           \/ VerifyUnavailable \/ MutationVerify
    PROVE  FolderInv'
<1>1. run \in RunStates
  BY DEF QueueTypeOK, RunOK
<1>2. UNCHANGED <<disk, debris, touched>>
  BY DEF StartRun, FinishRun, BudgetReached, BeginFinding, NoSynthOutput, WaitForModel, DraftFailed,
         DraftReturned, RunFails, RunTests, RunAgain, RunAgainFails, EndRepair, Judge, FixReturned,
         FixNoCode, FixFailed, VerifyUnavailable, MutationVerify, disk, history
<1>3. CASE StartRun \/ FinishRun \/ BudgetReached \/ BeginFinding \/ NoSynthOutput \/ DraftFailed
           \/ DraftReturned
  <2>1. run.pc \in {"off", "next", "synth", "draft"}
    BY <1>3 DEF StartRun, FinishRun, BudgetReached, BeginFinding, NoSynthOutput, DraftFailed,
                DraftReturned, At
  <2>2. run'.pc # "smoke"
    <3>1. CASE StartRun \/ FinishRun \/ BudgetReached \/ DraftFailed
      <4>1. run' = Off \/ \E task : run' = [Off EXCEPT !.pc = "next", !.task = task]
        BY <3>1 DEF StartRun, FinishRun, BudgetReached, DraftFailed, EndRun
      <4>2. CASE run' = Off
        BY <4>2 DEF Off
      <4>3. ASSUME NEW task, run' = [Off EXCEPT !.pc = "next", !.task = task]
            PROVE  run'.pc # "smoke"
        BY <4>3 DEF Off
      <4>4. QED
        BY <4>1, <4>2, <4>3
    <3>2. CASE BeginFinding \/ NoSynthOutput
      BY <1>1, <3>2 DEF BeginFinding, NoSynthOutput, Draft, RunStates
    <3>3. CASE DraftReturned
      BY <1>1, <3>3 DEF DraftReturned, RunStates
    <3>4. QED
      BY <1>3, <3>1, <3>2, <3>3
  <2>3. QED
    BY <1>2, <2>1, <2>2, FolderUntouched DEF InProgress, Drafted, At
<1>4. CASE WaitForModel
  <2>1. UNCHANGED <<run, listed>> /\ ~At("smoke")
    BY <1>4 DEF WaitForModel, counts, At
  <2>2. QED
    BY <1>2, <2>1, FolderUntouched DEF InProgress, Path, At
<1>5. CASE \/ (\E outcome \in Outcomes : RunFails(outcome))
           \/ RunTests \/ RunAgain \/ RunAgainFails \/ EndRepair
           \/ Judge \/ FixFailed \/ VerifyUnavailable \/ MutationVerify
  <2>1. UNCHANGED listed /\ run.pc \in Drafted
    BY <1>5 DEF RunFails, RunTests, RunAgain, RunAgainFails, EndRepair, Judge, FixFailed,
                VerifyUnavailable, MutationVerify, counts, At, Drafted
  <2>2. run'.task = run.task /\ run'.pc \in Drafted \ {"write"}
    BY <1>1, <1>5 DEF RunFails, RunTests, RunAgain, RunAgainFails, EndRepair, Judge, FixFailed,
                VerifyUnavailable, MutationVerify, Conclude, RunStates, Drafted
  <2>3. QED
    BY <1>2, <2>1, <2>2, FolderUntouched DEF InProgress, Path, At, Drafted
<1>6. CASE FixReturned \/ FixNoCode
  <2>1. UNCHANGED listed /\ run.pc = "fix" /\ run.attempt # 0
    BY <1>6 DEF FixReturned, FixNoCode, counts, At, QueueTypeOK, RunOK, Drafted
  <2>2. run'.task = run.task /\ run'.pc = "write" /\ run'.attempt = run.attempt + 1
    BY <1>1, <1>6 DEF FixReturned, FixNoCode, RunStates
  <2>3. run'.attempt # 1
    BY <1>1, <2>1, <2>2, PocAssumption DEF RunStates
  <2>4. QED
    BY <1>2, <2>1, <2>2, <2>3, FolderUntouched DEF InProgress, Path, At, Drafted
<1>7. QED
  BY <1>3, <1>4, <1>5, <1>6

LEMMA FolderStays ==
    ASSUME QueueTypeOK, FolderInv, TestInv, [RunnerNext]_runnerVars
    PROVE  FolderInv'
<1>1. CASE UNCHANGED runnerVars
  BY <1>1 DEF runnerVars, disk, counts, history, FolderInv, ErrorsOf, BaseErrorsOf, InProgress, Path, At
<1>2. CASE RejectBase \/ SmokeInfraError
  BY <1>2, FolderAtSynthesis DEF RejectBase, SmokeInfraError
<1>3. QED
  BY <1>1, <1>2, FolderAtSynthesis, FolderAtWriting, FolderAtDeath, FolderElsewhere
     DEF RunnerNext, RunnerStep

-----------------------------------------------------------------------------
(* What a test result says of the text it is of.                             *)
LEMMA TestSays ==
    ASSUME NEW text, NEW test \in TestResults(text, FALSE)
    PROVE  Says(test, text)
<1>1. CASE ~Builds
  <2>1. test = [compiled |-> FALSE, passed |-> FALSE, reported |-> Reported(AllErrors)]
    BY <1>1 DEF TestResults
  <2>2. ~test.compiled /\ ~test.passed
    BY <2>1
  <2>3. QED
    BY <2>2 DEF Says
<1>2. CASE Builds
  <2>1. PICK ok \in Passes(text, FALSE) :
            test = [compiled |-> Ran(text), passed |-> ok, reported |-> {}]
    BY <1>2 DEF TestResults
  <2>2. test.compiled = Ran(text) /\ test.passed = ok
    BY <2>1
  <2>3. QED
    BY <1>2, <2>2 DEF Says
<1>3. QED
  BY <1>1, <1>2

LEMMA StillSays ==
    ASSUME UNCHANGED disk, NEW text, NEW test, Says(test, text), run'.code = text, run'.test = test
    PROVE  Says(run.test, run.code)'
<1>1. Builds' = Builds
  BY SameDisk
<1>2. QED
  BY <1>1 DEF Says, Ran, Passes

(* A text that builds has nothing to repair: a file that is repaired had not *)
(* passed, whatever forge printed.                                           *)
LEMMA RepairsNothingThatPassed ==
    ASSUME QueueTypeOK, TestInv, At("repair"), Repairable
    PROVE  ~run.test.compiled /\ ~run.test.passed
<1>1. ~run.test.compiled /\ RepairedCode # run.code
  BY DEF Repairable
<1>2. SUFFICES ASSUME run.test.passed PROVE FALSE
  BY <1>1
<1>3. Builds /\ run.pc \in Drafted /\ poc[Path] = run.code
  BY <1>2 DEF TestInv, Says, At, Drafted
<1>4. PICK code \in Codes : code = run.code
  BY <1>3 DEF QueueTypeOK, RunOK
<1>5. code.errs = {}
  BY <1>3, <1>4, BuildingText
<1>6. SeqDraftInplace(code.errs, run.test.reported) = code.errs
  BY <1>5 DEF SeqDraftInplace, FixAddressInterface, FixUndeclaredImport
<1>7. RepairedCode = [code EXCEPT !.errs = code.errs]
  BY <1>4, <1>6 DEF RepairedCode
<1>8. [code EXCEPT !.errs = code.errs] = code
  BY DEF Codes, Texts
<1>9. QED
  BY <1>1, <1>4, <1>7, <1>8

LEMMA TestsStay ==
    ASSUME QueueTypeOK, TestInv, [RunnerNext]_runnerVars
    PROVE  TestInv'
<1>1. run \in RunStates
  BY DEF QueueTypeOK, RunOK
<1>2. ASSUME UNCHANGED <<run, disk, listed>>
      PROVE  TestInv'
  <2>1. Says(run.test, run.code) => Says(run.test, run.code)'
    BY <1>2, StillSays
  <2>2. Builds' = Builds /\ Path' = Path /\ poc' = poc
    BY <1>2, SameDisk DEF Path, disk
  <2>3. QED
    BY <1>2, <2>1, <2>2 DEF TestInv, At, RealPass
<1>3. ASSUME run'.pc \in {"off", "next", "synth", "smoke", "draft", "write"}
      PROVE  TestInv'
  BY <1>3 DEF TestInv, At, Drafted
<1>4. CASE StartRun \/ FinishRun \/ BudgetReached \/ DraftFailed \/ FinishFinding
           \/ CallRaises \/ Die
  <2>1. run' = Off \/ \E task : run' = [Off EXCEPT !.pc = "next", !.task = task]
    BY <1>4 DEF StartRun, FinishRun, BudgetReached, DraftFailed, FinishFinding, CallRaises, Die,
                ProcessEnds, EndRun
  <2>2. CASE run' = Off
    BY <1>3, <2>2 DEF Off
  <2>3. ASSUME NEW task, run' = [Off EXCEPT !.pc = "next", !.task = task]
        PROVE  TestInv'
    BY <1>3, <2>3 DEF Off
  <2>4. QED
    BY <2>1, <2>2, <2>3
<1>5. CASE BeginFinding \/ NoSynthOutput \/ AcceptBase \/ DiscardBase
  BY <1>1, <1>3, <1>5 DEF BeginFinding, NoSynthOutput, AcceptBase, DiscardBase, Draft, RunStates
<1>6. CASE RepairBase \/ (\E n \in Names, errs \in BaseErrors : SynthesizeScaffold(n, errs))
  BY <1>1, <1>3, <1>6 DEF RepairBase, SynthesizeScaffold, RunStates, At
<1>7. CASE DraftReturned \/ FixReturned \/ FixNoCode
  BY <1>1, <1>3, <1>7 DEF DraftReturned, FixReturned, FixNoCode, RunStates
<1>8. CASE WaitForModel
  <2>1. UNCHANGED <<run, disk, listed>>
    BY <1>8 DEF WaitForModel, counts
  <2>2. QED
    BY <1>2, <2>1
<1>9. CASE WritePoc
  <2>1. run'.pc = "run" /\ run'.code = run.code /\ run'.task = run.task /\ UNCHANGED listed
    BY <1>1, <1>9 DEF WritePoc, RunStates, counts
  <2>2. Path \in Paths
    BY <1>9, PathExists DEF WritePoc, At, QueueTypeOK, RunOK
  <2>3. poc'[Path] = run.code /\ Path' = Path
    BY <1>9, <2>1, <2>2 DEF WritePoc, QueueTypeOK, Path
  <2>4. QED
    BY <2>1, <2>3 DEF TestInv, At
<1>10. CASE RewriteInPlace
  <2>1. PICK code : code = RepairedCode
    OBVIOUS
  <2>2. run' = [run EXCEPT !.pc = "rerun", !.code = code, !.round = run.round + 1]
    BY <1>10, <2>1 DEF RewriteInPlace
  <2>3. /\ run'.pc = "rerun" /\ run'.code = code /\ run'.task = run.task /\ run'.test = run.test
        /\ UNCHANGED listed
    BY <1>1, <1>10, <2>2 DEF RewriteInPlace, RunStates, counts
  <2>4. Path \in Paths
    BY <1>10, PathExists DEF RewriteInPlace, At, QueueTypeOK, RunOK
  <2>5. poc'[Path] = code /\ Path' = Path
    BY <1>10, <2>1, <2>3, <2>4 DEF RewriteInPlace, QueueTypeOK, Path
  <2>6. ~run.test.compiled /\ ~run.test.passed
    BY <1>10, RepairsNothingThatPassed DEF RewriteInPlace
  <2>7. QED
    BY <2>3, <2>5, <2>6 DEF TestInv, At
<1>11. ASSUME UNCHANGED <<disk, listed>>, run'.task = run.task, run'.code = run.code,
              run.pc \in Drafted \ {"write"}
       PROVE  (poc[Path])' = run'.code /\ Builds' = Builds
  <2>1. Builds' = Builds
    BY <1>11, SameDisk
  <2>2. poc' = poc /\ Path' = Path
    BY <1>11 DEF disk, Path
  <2>3. poc[Path] = run.code
    BY <1>11 DEF TestInv
  <2>4. QED
    BY <1>11, <2>1, <2>2, <2>3
<1>12. CASE RunTests \/ RunAgain
  <2>1. PICK test \in TestResults(run.code, FALSE) : run' = [run EXCEPT !.pc = "repair", !.test = test]
    BY <1>12 DEF RunTests, RunAgain
  <2>2. /\ run'.pc = "repair" /\ run'.code = run.code /\ run'.task = run.task /\ run'.test = test
        /\ run.pc \in Drafted \ {"write"} /\ UNCHANGED <<disk, listed>>
    BY <1>1, <1>12, <2>1 DEF RunTests, RunAgain, RunStates, counts, At, Drafted
  <2>3. (poc[Path])' = run'.code /\ Builds' = Builds
    BY <1>11, <2>2
  <2>4. PICK code : code = run.code
    OBVIOUS
  <2>5. Says(run.test, run.code)'
    BY <2>2, <2>4, TestSays, StillSays
  <2>6. QED
    BY <2>2, <2>3, <2>5 DEF TestInv, At
<1>13. CASE RunAgainFails \/ EndRepair
  <2>1. /\ run'.pc = "judge" /\ run'.code = run.code /\ run'.task = run.task /\ run'.test = run.test
        /\ run.pc \in {"repair", "rerun"} /\ UNCHANGED <<disk, listed>>
    BY <1>1, <1>13 DEF RunAgainFails, EndRepair, RunStates, counts, At
  <2>2. (poc[Path])' = run'.code /\ Builds' = Builds
    BY <1>11, <2>1 DEF Drafted
  <2>3. CASE run.pc = "repair"
    <3>1. Says(run.test, run.code)
      BY <2>3 DEF TestInv
    <3>2. Says(run.test, run.code)'
      BY <2>1, <3>1, StillSays
    <3>3. QED
      BY <2>1, <2>2, <3>2 DEF TestInv, At
  <2>4. CASE run.pc = "rerun"
    <3>1. ~run.test.compiled /\ ~run.test.passed
      BY <2>4 DEF TestInv, At
    <3>2. QED
      BY <2>1, <2>2, <3>1 DEF TestInv, Says, At
  <2>5. QED
    BY <2>1, <2>3, <2>4
<1>14. CASE Judge
  <2>1. /\ run'.code = run.code /\ run'.task = run.task /\ run'.test = run.test
        /\ run.pc = "judge" /\ UNCHANGED <<disk, listed>>
        /\ \/ run'.pc = "verify" /\ RealPass
           \/ run'.pc = "finish" /\ run'.outcome = "compiled" /\ CompiledReal
           \/ run'.pc = "finish" /\ run'.outcome = LastOutcome
           \/ run'.pc = "fix"
    BY <1>1, <1>14 DEF Judge, Conclude, CountsAsCompiled, RunStates, counts, At
  <2>2. (poc[Path])' = run'.code /\ Builds' = Builds
    BY <1>11, <2>1 DEF Drafted
  <2>3. LastOutcome \notin Successes
    BY DEF LastOutcome, Successes
  <2>4. CompiledReal => Builds
    BY <2>1 DEF CompiledReal, TestInv, Says
  <2>5. CASE run'.pc = "verify"
    <3>1. Says(run.test, run.code)' /\ RealPass
      BY <2>1, <2>5, StillSays DEF TestInv
    <3>2. QED
      BY <2>1, <2>2, <2>5, <3>1 DEF TestInv, At, RealPass
  <2>6. CASE run'.pc # "verify"
    BY <2>1, <2>2, <2>3, <2>4, <2>6 DEF TestInv, At
  <2>7. QED
    BY <2>5, <2>6
<1>15. CASE \/ (\E outcome \in Outcomes : RunFails(outcome)) \/ FixFailed
            \/ VerifyUnavailable \/ MutationVerify
  <2>1. /\ run'.pc = "finish" /\ run'.code = run.code /\ run'.task = run.task
        /\ UNCHANGED <<disk, listed>>
        /\ \/ run.pc = "verify"
           \/ run.pc \in {"run", "fix"} /\ run'.outcome \notin Successes
    <3>1. UNCHANGED <<disk, listed>>
      BY <1>15 DEF RunFails, FixFailed, VerifyUnavailable, MutationVerify, counts
    <3>2. PICK outcome : /\ Conclude(outcome)
                         /\ \/ run.pc = "verify"
                            \/ run.pc \in {"run", "fix"} /\ outcome \notin Successes
      BY <1>15 DEF RunFails, FixFailed, VerifyUnavailable, MutationVerify, At, Successes
    <3>3. QED
      BY <1>1, <3>1, <3>2 DEF Conclude, RunStates
  <2>2. (poc[Path])' = run'.code /\ Builds' = Builds
    BY <1>11, <2>1 DEF Drafted
  <2>3. run.pc = "verify" => Builds
    BY DEF TestInv, Says, RealPass, At
  <2>4. QED
    BY <2>1, <2>2, <2>3 DEF TestInv, At, Drafted
<1>16. CASE RejectBase \/ SmokeInfraError
  BY <1>5, <1>16 DEF RejectBase, SmokeInfraError
<1>17. CASE UNCHANGED runnerVars
  BY <1>2, <1>17 DEF runnerVars, counts
<1>18. QED
  BY <1>17, <1>4, <1>5, <1>6, <1>7, <1>8, <1>9, <1>10, <1>12, <1>13, <1>14, <1>15, <1>16
     DEF RunnerNext, RunnerStep

-----------------------------------------------------------------------------
(* A verdict is earned: what VerdictsAreEarned says of one task.             *)
Earned(outcome, text, t) ==
    LET real == text.errs = {} /\ ~text.defective
    IN  CASE outcome = "passed_verified" ->
                    real /\ (text.run = "exploit" \/ Fork) /\ Fixed(t)
          [] outcome = "unverified_pass" -> real /\ text.run = "always" /\ Fixed(t)
          [] outcome = "passed_unchecked" -> real /\ text.run # "inert"
          [] outcome = "compiled" -> real /\ text.run = "inert"
          [] outcome = "vacuous_pass" -> text.errs = {} /\ text.defective
          [] OTHER -> TRUE

VerdictInv ==
    /\ \A t \in Tasks : Earned(verdict[t], judged[t], t)
    /\ At("finish") => Earned(run.outcome, run.code, run.task)

(* The fix extracted from the report for a finding, where it applies, is one *)
(* of that finding's bug.                                                    *)
FixesHold == \A t \in Tasks : Applies(t) => Fixed(t)

LEMMA SameFix == ASSUME UNCHANGED listed PROVE \A t : Fixed(t)' = Fixed(t)
BY DEF Fixed, Patched, ResolveFix

(* What a run on the unpatched project that compiled or passed tells of the  *)
(* text.                                                                     *)
LEMMA TestTells ==
    ASSUME QueueTypeOK, TestInv, run.pc \in {"judge", "verify"},
           run.test.compiled \/ run.test.passed
    PROVE  /\ run.code \in Codes /\ Builds /\ run.code.errs = {}
           /\ run.test.passed => run.code.run # "inert"
           /\ run.test.compiled => run.code.run # "untested"
           /\ run.test.compiled /\ ~run.test.passed /\ ~Fork => run.code.run = "inert"
<1>1. Says(run.test, run.code) /\ poc[Path] = run.code /\ run.code \in Codes
  BY DEF TestInv, QueueTypeOK, RunOK, Drafted
<1>2. /\ Builds /\ run.test.compiled = Ran(run.code)
      /\ run.test.passed \in Passes(run.code, FALSE)
  BY <1>1 DEF Says
<1>3. run.code.errs = {}
  BY <1>1, <1>2, BuildingText DEF Drafted
<1>4. run.code.run \in {"exploit", "always", "inert", "untested"}
  BY <1>1 DEF Codes, Texts, Behaviours
<1>5. run.test.passed => run.code.run # "inert"
  BY <1>2 DEF Passes
<1>6. run.test.compiled => run.code.run # "untested"
  BY <1>2 DEF Ran
<1>7. run.test.compiled /\ ~run.test.passed /\ ~Fork => run.code.run = "inert"
  <2>1. SUFFICES ASSUME run.test.compiled, ~run.test.passed, ~Fork, run.code.run \in {"exploit", "always"}
                 PROVE  FALSE
    BY <1>4, <1>6
  <2>2. run.test.passed = TRUE
    BY <1>2, <2>1 DEF Passes
  <2>3. QED
    BY <2>1, <2>2
<1>8. QED
  BY <1>1, <1>2, <1>3, <1>5, <1>6, <1>7

LEMMA JudgedIsEarned ==
    ASSUME QueueTypeOK, TestInv, Judge, run'.pc = "finish"
    PROVE  Earned(run.outcome, run.code, run.task)'
<1>1. run \in RunStates /\ run.pc = "judge"
  BY DEF QueueTypeOK, RunOK, Judge, At
<1>2. \/ run' = [run EXCEPT !.pc = "finish", !.outcome = "compiled"] /\ ~RealPass /\ CountsAsCompiled
      \/ run' = [run EXCEPT !.pc = "finish", !.outcome = LastOutcome] /\ ~RealPass
  <2>1. run' # [run EXCEPT !.pc = "verify"] /\ run' # [run EXCEPT !.pc = "fix"]
    BY <1>1 DEF RunStates
  <2>2. QED
    BY <2>1 DEF Judge, Conclude
<1>3. /\ run'.code = run.code
      /\ \/ run'.outcome = "compiled" /\ ~RealPass /\ CountsAsCompiled
         \/ run'.outcome = LastOutcome /\ ~RealPass
  BY <1>1, <1>2 DEF RunStates
<1>4. CASE run'.outcome = "compiled" /\ ~RealPass /\ CountsAsCompiled
  <2>1. run.test.compiled /\ ~run.code.defective /\ ~run.test.passed /\ ~RequirePass
    BY <1>4 DEF CountsAsCompiled, CompiledReal, RealPass
  <2>2. ~Fork
    BY <2>1, PocAssumption
  <2>3. run.code.errs = {} /\ run.code.run = "inert"
    BY <1>1, <2>1, <2>2, TestTells
  <2>4. QED
    BY <1>3, <1>4, <2>1, <2>3 DEF Earned
<1>5. CASE run'.outcome = LastOutcome /\ ~RealPass /\ LastOutcome = "vacuous_pass"
  <2>1. run.test.passed
    BY <1>5 DEF LastOutcome
  <2>2. run.code.errs = {} /\ run.code \in Codes
    BY <1>1, <2>1, TestTells
  <2>3. run.code.defective
    BY <1>5, <2>1 DEF RealPass
  <2>4. QED
    BY <1>3, <1>5, <2>2, <2>3 DEF Earned
<1>6. CASE run'.outcome = LastOutcome /\ LastOutcome # "vacuous_pass"
  <2>1. LastOutcome \in {"reverted_exhausted", "compile_only_defective", "exhausted"}
    BY <1>6 DEF LastOutcome
  <2>2. QED
    BY <1>6, <2>1 DEF Earned
<1>7. QED
  BY <1>3, <1>4, <1>5, <1>6

LEMMA VerifiedIsEarned ==
    ASSUME QueueTypeOK, TestInv, FixesHold, VerifyUnavailable \/ MutationVerify
    PROVE  Earned(run.outcome, run.code, run.task)'
<1>1. /\ run \in RunStates /\ run.pc = "verify" /\ run.task \in Tasks /\ UNCHANGED listed
      /\ run.test.passed /\ ~run.code.defective
  BY DEF QueueTypeOK, RunOK, VerifyUnavailable, MutationVerify, At, TestInv, RealPass, counts
<1>2. run.code \in Codes /\ run.code.errs = {} /\ run.code.run # "inert"
  BY <1>1, TestTells
<1>3. ASSUME NEW outcome, Conclude(outcome)
      PROVE  run'.outcome = outcome /\ run'.code = run.code /\ run'.task = run.task
  BY <1>1, <1>3 DEF Conclude, RunStates
<1>4. ASSUME Conclude("passed_unchecked")
      PROVE  Earned(run.outcome, run.code, run.task)'
  BY <1>1, <1>2, <1>3, <1>4 DEF Earned
<1>5. CASE MutationVerify
  <2>1. PICK test \in TestResults(run.code, Fixed(run.task)) :
            Conclude(IF ~test.compiled THEN "passed_unchecked"
                     ELSE IF test.passed THEN "unverified_pass" ELSE "passed_verified")
    BY <1>5 DEF MutationVerify
  <2>2. Fixed(run.task) /\ \A t : Fixed(t)' = Fixed(t)
    BY <1>1, <1>5, SameFix DEF MutationVerify, FixesHold
  <2>3. PICK task \in Tasks : task = run.task /\ Fixed(task)'
    BY <1>1, <2>2
  <2>4. run.code.run \in {"exploit", "always", "untested"}
    BY <1>2 DEF Codes, Texts, Behaviours
  <2>5. test.compiled => Ran(run.code) /\ test.passed \in Passes(run.code, TRUE)
    <3>1. CASE ~Builds
      BY <2>1, <3>1 DEF TestResults
    <3>2. CASE Builds
      <4>1. PICK ok \in Passes(run.code, TRUE) :
                test = [compiled |-> Ran(run.code), passed |-> ok, reported |-> {}]
        BY <2>1, <2>2, <3>2 DEF TestResults
      <4>2. QED
        BY <4>1
    <3>3. QED
      BY <3>1, <3>2
  <2>6. CASE ~test.compiled
    BY <1>4, <2>1, <2>6
  <2>7. CASE test.compiled /\ test.passed
    <3>1. run.code.run # "untested"
      BY <2>5, <2>7 DEF Ran
    <3>2. run.code.run = "exploit" => FALSE \in Passes(run.code, TRUE) /\ TRUE \notin Passes(run.code, TRUE)
      BY DEF Passes
    <3>3. test.passed = TRUE
      <4>1. \A ok \in Passes(run.code, TRUE) : ok \in BOOLEAN
        BY <2>4 DEF Passes
      <4>2. QED
        BY <2>5, <2>7, <4>1
    <3>4. run.code.run = "always"
      BY <2>4, <2>5, <2>7, <3>1, <3>2, <3>3
    <3>5. run'.outcome = "unverified_pass" /\ run'.code = run.code /\ run'.task = task
      BY <1>3, <2>1, <2>3, <2>7
    <3>6. QED
      BY <1>1, <1>2, <2>3, <3>4, <3>5 DEF Earned
  <2>8. CASE test.compiled /\ ~test.passed
    <3>1. run.code.run # "untested"
      BY <2>5, <2>8 DEF Ran
    <3>2. run.code.run = "always" /\ ~Fork => test.passed
      BY <2>5, <2>8 DEF Passes
    <3>3. run.code.run = "exploit" \/ Fork
      BY <2>4, <2>8, <3>1, <3>2
    <3>4. run'.outcome = "passed_verified" /\ run'.code = run.code /\ run'.task = task
      BY <1>3, <2>1, <2>3, <2>8
    <3>5. QED
      BY <1>1, <1>2, <2>3, <3>3, <3>4 DEF Earned
  <2>9. QED
    BY <2>6, <2>7, <2>8
<1>6. QED
  BY <1>4, <1>5 DEF VerifyUnavailable

LEMMA VerdictsStay ==
    ASSUME QueueTypeOK, TestInv, FixesHold, VerdictInv, [RunnerNext]_runnerVars
    PROVE  VerdictInv'
<1>1. run \in RunStates
  BY DEF QueueTypeOK, RunOK
<1>2. ASSUME UNCHANGED <<listed, verdict, judged>>,
             run'.pc # "finish" \/ run' = run \/ Earned(run.outcome, run.code, run.task)'
      PROVE  VerdictInv'
  <2>1. \A t : Fixed(t)' = Fixed(t)
    BY <1>2, SameFix
  <2>2. \A t \in Tasks : Earned(verdict[t], judged[t], t)'
    BY <1>2, <2>1 DEF VerdictInv, Earned
  <2>3. ASSUME run' = run, At("finish")
        PROVE  Earned(run.outcome, run.code, run.task)'
    <3>1. PICK task : task = run.task
      OBVIOUS
    <3>2. Earned(run.outcome, run.code, task) /\ run'.task = task /\ run.task = task
      BY <2>3, <3>1 DEF VerdictInv
    <3>3. QED
      BY <2>1, <2>3, <3>2 DEF Earned
  <2>4. QED
    BY <1>2, <2>2, <2>3 DEF VerdictInv, At
<1>3. CASE StartRun
  <2>1. /\ run'.pc # "finish" /\ verdict' = [t \in Tasks |-> "none"]
    BY <1>3 DEF StartRun, Off
  <2>2. QED
    BY <2>1 DEF VerdictInv, Earned, At
<1>4. CASE FinishRun \/ BudgetReached \/ CallRaises \/ Die
  BY <1>2, <1>4 DEF FinishRun, BudgetReached, CallRaises, Die, ProcessEnds, EndRun, Off, counts, history
<1>5. CASE BeginFinding \/ NoSynthOutput \/ AcceptBase \/ DiscardBase
  BY <1>1, <1>2, <1>5 DEF BeginFinding, NoSynthOutput, AcceptBase, DiscardBase, Draft, RunStates, counts,
                          history
<1>6. CASE RepairBase \/ (\E n \in Names, errs \in BaseErrors : SynthesizeScaffold(n, errs))
  BY <1>1, <1>2, <1>6 DEF RepairBase, SynthesizeScaffold, RunStates, At, counts, history
<1>7. CASE DraftReturned \/ FixReturned \/ FixNoCode \/ WritePoc
  BY <1>1, <1>2, <1>7 DEF DraftReturned, FixReturned, FixNoCode, WritePoc, RunStates, counts, history
<1>8. CASE WaitForModel
  BY <1>2, <1>8 DEF WaitForModel, counts, history
<1>9. CASE RewriteInPlace
  <2>1. PICK code : run' = [run EXCEPT !.pc = "rerun", !.code = code, !.round = run.round + 1]
    BY <1>9 DEF RewriteInPlace
  <2>2. run'.pc = "rerun"
    BY <1>1, <2>1 DEF RunStates
  <2>3. QED
    BY <1>2, <1>9, <2>2 DEF RewriteInPlace, counts, history
<1>10. CASE RunTests \/ RunAgain \/ RunAgainFails \/ EndRepair
  BY <1>1, <1>2, <1>10 DEF RunTests, RunAgain, RunAgainFails, EndRepair, RunStates, counts, history
<1>11. CASE Judge
  BY <1>2, <1>11, JudgedIsEarned DEF Judge, counts, history
<1>12. CASE VerifyUnavailable \/ MutationVerify
  BY <1>2, <1>12, VerifiedIsEarned DEF VerifyUnavailable, MutationVerify, counts, history
<1>13. CASE FixFailed \/ (\E outcome \in Outcomes : RunFails(outcome))
  <2>1. /\ UNCHANGED <<listed, verdict, judged>>
        /\ run'.outcome \in {"fix_failed", "sandbox_unavailable", "run_error"}
    BY <1>1, <1>13 DEF FixFailed, RunFails, Conclude, RunStates, counts, history
  <2>2. Earned(run.outcome, run.code, run.task)'
    BY <2>1 DEF Earned
  <2>3. QED
    BY <1>2, <2>1, <2>2
<1>14. ASSUME NEW task \in Tasks, UNCHANGED listed, run'.pc = "next",
              \A t \in Tasks \ {task} : verdict'[t] = verdict[t] /\ judged'[t] = judged[t],
              Earned(verdict[task], judged[task], task)'
       PROVE  VerdictInv'
  <2>1. \A t : Fixed(t)' = Fixed(t)
    BY <1>14, SameFix
  <2>2. \A t \in Tasks \ {task} : Earned(verdict[t], judged[t], t)'
    BY <1>14, <2>1 DEF VerdictInv, Earned
  <2>3. QED
    BY <1>14, <2>2 DEF VerdictInv, At
<1>15. CASE DraftFailed
  <2>1. PICK task \in Tasks : task = run.task
    BY <1>15 DEF DraftFailed, At, QueueTypeOK, RunOK
  <2>2. /\ UNCHANGED <<listed, judged>> /\ run'.pc = "next" /\ verdict'[task] = "draft_failed"
        /\ \A t \in Tasks \ {task} : verdict'[t] = verdict[t]
    BY <1>15, <2>1 DEF DraftFailed, QueueTypeOK, Off, counts
  <2>3. Earned(verdict[task], judged[task], task)'
    BY <2>2 DEF Earned
  <2>4. QED
    BY <1>14, <2>2, <2>3
<1>16. CASE FinishFinding
  <2>1. PICK task \in Tasks : task = run.task
    BY <1>16 DEF FinishFinding, At, QueueTypeOK, RunOK
  <2>2. /\ UNCHANGED listed /\ run'.pc = "next"
        /\ verdict'[task] = run.outcome /\ judged'[task] = run.code
        /\ \A t \in Tasks \ {task} : verdict'[t] = verdict[t] /\ judged'[t] = judged[t]
    BY <1>16, <2>1 DEF FinishFinding, QueueTypeOK, Off, counts
  <2>3. Earned(run.outcome, run.code, task)
    BY <1>16, <2>1 DEF FinishFinding, VerdictInv
  <2>4. Earned(verdict[task], judged[task], task)'
    BY <2>2, <2>3, SameFix DEF Earned
  <2>5. QED
    BY <1>14, <2>2, <2>4
<1>17. CASE RejectBase \/ SmokeInfraError
  BY <1>5, <1>17 DEF RejectBase, SmokeInfraError
<1>18. CASE UNCHANGED runnerVars
  BY <1>2, <1>18 DEF runnerVars, counts, history
<1>19. QED
  BY <1>3, <1>4, <1>5, <1>6, <1>7, <1>8, <1>9, <1>10, <1>11, <1>12, <1>13, <1>15, <1>16, <1>17, <1>18
     DEF RunnerNext, RunnerStep

-----------------------------------------------------------------------------
(* Verdicts are given in the order of the list, and what is reported a       *)
(* success is overwritten only by a finding further down it.                 *)
ProofInv ==
    /\ \A t \in Tasks : verdict[t] # "none" => At("off") \/ t < run.task
    /\ \A t \in Tasks : verdict[t] \in Successes =>
           \/ poc[listed[t].file] = judged[t]
           \/ \E later \in Tasks : later > t /\ listed[later].file = listed[t].file

LEMMA ProofsStay ==
    ASSUME QueueTypeOK, TestInv, ProofInv, [RunnerNext]_runnerVars
    PROVE  ProofInv'
<1>1. run \in RunStates
  BY DEF QueueTypeOK, RunOK
<1>2. ASSUME UNCHANGED <<poc, listed, verdict, judged>>,
             run' = run \/ run'.pc = "off" \/ (run.pc # "off" /\ run'.task = run.task)
      PROVE  ProofInv'
  BY <1>2 DEF ProofInv, At
<1>3. CASE StartRun
  <2>1. verdict' = [t \in Tasks |-> "none"]
    BY <1>3 DEF StartRun
  <2>2. QED
    BY <2>1 DEF ProofInv, Successes
<1>4. CASE FinishRun \/ BudgetReached \/ CallRaises \/ Die
  BY <1>2, <1>4 DEF FinishRun, BudgetReached, CallRaises, Die, ProcessEnds, EndRun, Off, counts, history,
                    disk
<1>5. CASE BeginFinding \/ NoSynthOutput \/ AcceptBase \/ DiscardBase
  BY <1>1, <1>2, <1>5 DEF BeginFinding, NoSynthOutput, AcceptBase, DiscardBase, Draft, RunStates, At,
                          counts, history, disk
<1>6. CASE RepairBase \/ (\E n \in Names, errs \in BaseErrors : SynthesizeScaffold(n, errs))
  BY <1>1, <1>2, <1>6 DEF RepairBase, SynthesizeScaffold, RunStates, At, counts, history
<1>7. CASE DraftReturned \/ FixReturned \/ FixNoCode
  BY <1>1, <1>2, <1>7 DEF DraftReturned, FixReturned, FixNoCode, RunStates, At, counts, history, disk
<1>8. CASE WaitForModel
  BY <1>2, <1>8 DEF WaitForModel, counts, history, disk
<1>9. CASE RunTests \/ RunAgain \/ RunAgainFails \/ EndRepair
  BY <1>1, <1>2, <1>9 DEF RunTests, RunAgain, RunAgainFails, EndRepair, RunStates, At, counts, history, disk
<1>10. CASE \/ Judge \/ VerifyUnavailable \/ MutationVerify \/ FixFailed
           \/ (\E outcome \in Outcomes : RunFails(outcome))
  <2>1. UNCHANGED <<poc, listed, verdict, judged>> /\ run.pc # "off"
    BY <1>10 DEF Judge, VerifyUnavailable, MutationVerify, FixFailed, RunFails, At, counts, history, disk
  <2>2. run'.task = run.task
    BY <1>1, <1>10 DEF Judge, VerifyUnavailable, MutationVerify, FixFailed, RunFails, Conclude, RunStates
  <2>3. QED
    BY <1>2, <2>1, <2>2
<1>11. CASE WritePoc \/ RewriteInPlace
  <2>1. PICK task \in Tasks : task = run.task
    BY <1>11 DEF WritePoc, RewriteInPlace, At, QueueTypeOK, RunOK
  <2>2. run.pc # "off" /\ UNCHANGED <<listed, verdict, judged>>
    BY <1>11 DEF WritePoc, RewriteInPlace, At, counts, history
  <2>3. run'.task = task
    BY <1>1, <1>11, <2>1 DEF WritePoc, RewriteInPlace, RunStates
  <2>4. \A p \in Paths : p # listed[task].file => poc'[p] = poc[p]
    BY <1>11, <2>1 DEF WritePoc, RewriteInPlace, Path, QueueTypeOK
  <2>5. ASSUME NEW t \in Tasks, verdict[t] \in Successes
        PROVE  \/ poc'[listed[t].file] = judged[t]
               \/ \E later \in Tasks : later > t /\ listed[later].file = listed[t].file
    <3>1. verdict[t] # "none" /\ listed[t].file \in Paths
      BY <2>5, PocAssumption DEF Successes, QueueTypeOK, ExtractTasks, LoadPinnedTasks
    <3>2. task > t
      BY <2>1, <2>2, <3>1, PocAssumption DEF ProofInv, At, Tasks
    <3>3. QED
      BY <2>4, <2>5, <3>1, <3>2 DEF ProofInv
  <2>6. \A t \in Tasks : verdict[t] # "none" => t < task
    BY <2>1, <2>2 DEF ProofInv, At
  <2>7. QED
    BY <2>2, <2>3, <2>5, <2>6 DEF ProofInv
<1>12. CASE DraftFailed
  <2>1. PICK task \in Tasks : task = run.task
    BY <1>12 DEF DraftFailed, At, QueueTypeOK, RunOK
  <2>2. /\ UNCHANGED <<listed, judged, poc>> /\ run'.task = task + 1 /\ verdict'[task] = "draft_failed"
        /\ \A t \in Tasks \ {task} : verdict'[t] = verdict[t]
        /\ run.pc = "draft"
    BY <1>12, <2>1 DEF DraftFailed, QueueTypeOK, Off, At, counts, disk
  <2>3. \A t \in Tasks : verdict'[t] # "none" => t < task + 1
    BY <2>1, <2>2, PocAssumption DEF ProofInv, At, Tasks
  <2>4. "draft_failed" \notin Successes
    BY DEF Successes
  <2>5. QED
    BY <2>2, <2>3, <2>4 DEF ProofInv
<1>13. CASE FinishFinding
  <2>1. PICK task \in Tasks : task = run.task
    BY <1>13 DEF FinishFinding, At, QueueTypeOK, RunOK
  <2>2. /\ UNCHANGED listed /\ run'.task = task + 1 /\ run.pc = "finish"
        /\ verdict'[task] = run.outcome /\ judged'[task] = run.code
        /\ \A t \in Tasks \ {task} : verdict'[t] = verdict[t] /\ judged'[t] = judged[t]
    BY <1>13, <2>1 DEF FinishFinding, QueueTypeOK, Off, At, counts
  <2>3. \A t \in Tasks : verdict'[t] # "none" => t < task + 1
    BY <2>1, <2>2, PocAssumption DEF ProofInv, At, Tasks
  <2>4. /\ run.outcome \in Successes => poc' = poc /\ poc[listed[task].file] = run.code
        /\ \A p \in Paths : p # listed[task].file => poc'[p] = poc[p]
    BY <1>13, <2>1 DEF FinishFinding, TestInv, QueueTypeOK, Path, At, Drafted
  <2>5. ASSUME NEW t \in Tasks, t # task, verdict[t] \in Successes
        PROVE  \/ poc'[listed[t].file] = judged[t]
               \/ \E later \in Tasks : later > t /\ listed[later].file = listed[t].file
    <3>1. verdict[t] # "none" /\ listed[t].file \in Paths
      BY <2>5, PocAssumption DEF Successes, QueueTypeOK, ExtractTasks, LoadPinnedTasks
    <3>2. task > t
      BY <2>1, <2>2, <3>1, PocAssumption DEF ProofInv, At, Tasks
    <3>3. QED
      BY <2>4, <2>5, <3>1, <3>2 DEF ProofInv
  <2>6. QED
    BY <2>2, <2>3, <2>4, <2>5 DEF ProofInv
<1>14. CASE RejectBase \/ SmokeInfraError
  BY <1>5, <1>14 DEF RejectBase, SmokeInfraError
<1>15. CASE UNCHANGED runnerVars
  BY <1>2, <1>15 DEF runnerVars, counts, history, disk
<1>16. QED
  BY <1>3, <1>4, <1>5, <1>6, <1>7, <1>8, <1>9, <1>10, <1>11, <1>12, <1>13, <1>14, <1>15
     DEF RunnerNext, RunnerStep

-----------------------------------------------------------------------------
(* The invariants of every run, and the theorems about them.                 *)
QueueInv == QueueTypeOK /\ FolderInv /\ TestInv /\ ProofInv

LEMMA QueueStarts == RunnerInit => QueueInv /\ VerdictInv
<1> SUFFICES ASSUME RunnerInit PROVE QueueInv /\ VerdictInv
  OBVIOUS
<1>1. run.pc = "off" /\ \A t \in Tasks : verdict[t] = "none"
  BY DEF RunnerInit, Off
<1>2. FolderInv
  <2>1. \A n \in Names : BaseErrorsOf(n) = {}
    BY DEF RunnerInit, BaseErrorsOf
  <2>2. QED
    BY <1>1, <2>1 DEF RunnerInit, FolderInv, At
<1>3. TestInv
  BY <1>1 DEF TestInv, At, Drafted
<1>4. ProofInv
  BY <1>1 DEF ProofInv, Successes
<1>5. VerdictInv
  BY <1>1 DEF VerdictInv, Earned, At
<1>6. QED
  BY <1>2, <1>3, <1>4, <1>5, QueueTypeStarts DEF QueueInv

LEMMA QueueStays == QueueInv /\ [RunnerNext]_runnerVars => QueueInv'
BY QueueTypeStays, FolderStays, TestsStay, ProofsStay DEF QueueInv

(* The queue's invariant holds in every run, whatever the model, the         *)
(* compiler and the sandbox answer and wherever the process dies.            *)
THEOREM QueueInvariantHolds == RunnerSpec => []QueueInv
<1>1. RunnerInit => QueueInv
  BY QueueStarts
<1>2. QED
  BY <1>1, QueueStays, PTL DEF RunnerSpec

(* Every variable of the runner keeps its type: no path of _process_finding  *)
(* leaves a finding without a text, an attempt or a name where it uses one.  *)
THEOREM QueueTypeCorrect == RunnerSpec => []RunnerTypeOK
<1>1. QueueInv => RunnerTypeOK
  <2> SUFFICES ASSUME QueueInv PROVE RunnerTypeOK
    OBVIOUS
  <2>1. QueueTypeOK
    BY DEF QueueInv
  <2>2. run.pc \in Pcs /\ run.attempt \in 0..Attempts /\ run.outcome \in Outcomes
    BY <2>1 DEF QueueTypeOK, RunOK, RunStates
  <2>3. listed \in Listings \cup TasksFrom
    BY <2>1 DEF QueueTypeOK, ExtractTasks, LoadPinnedTasks
  <2>4. QED
    BY <2>1, <2>2, <2>3 DEF QueueTypeOK, RunnerTypeOK, Pcs, Codes
<1>2. QED
  BY <1>1, QueueInvariantHolds, PTL

(* Whatever fails to build between two findings was left half done by a dead *)
(* process or inherits a base replaced under it: the quarantine at the end   *)
(* of _process_finding leaves nothing else that could fail the next compile. *)
THEOREM FolderIsExplained == RunnerSpec => []FolderExplained
<1>1. QueueInv => FolderExplained
  BY DEF QueueInv, FolderInv, FolderExplained, InProgress, Between, Drafted, At
<1>2. QED
  BY <1>1, QueueInvariantHolds, PTL

(* A proof reported as a success is still in the folder as it was judged,    *)
(* unless a later finding of the run has the same file: no quarantine,       *)
(* repair or rerun of another finding touches it.                            *)
THEOREM ProofsStand == RunnerSpec => []AcceptedProofsStand
<1>1. QueueInv => AcceptedProofsStand
  BY DEF QueueInv, ProofInv, AcceptedProofsStand
<1>2. QED
  BY <1>1, QueueInvariantHolds, PTL

(* Every verdict is about the text that was judged and a test of that text,  *)
(* as long as the patch that applies for a finding is one of its own bug.    *)
THEOREM VerdictsEarned == RunnerSpec /\ []FixesHold => []VerdictsAreEarned
<1>1. RunnerInit => QueueInv /\ VerdictInv
  BY QueueStarts
<1>2. QueueInv /\ VerdictInv /\ FixesHold /\ [RunnerNext]_runnerVars => (QueueInv /\ VerdictInv)'
  BY QueueStays, VerdictsStay DEF QueueInv
<1>3. VerdictInv => VerdictsAreEarned
  BY DEF VerdictInv, VerdictsAreEarned, Earned
<1>4. QED
  BY <1>1, <1>2, <1>3, PTL DEF RunnerSpec

-----------------------------------------------------------------------------
(* When that premise holds: the diff has, for the file of the finding,       *)
(* hunks that remove the line the finding is about wherever it stands and do *)
(* not add it again.                                                         *)
Mends(block, t) ==
    LET source == Project[Bugs[t].path]
    IN  /\ block.kind # "real" /\ ReportFiles(block.files) /\ source \in Seq(SourceLines)
        /\ \E k \in DOMAIN block.files :
              /\ \A j \in DOMAIN block.files : block.files[j].path = Bugs[t].path <=> j = k
              /\ \A i \in DOMAIN source :
                    source[i] = Bugs[t].line => \E h \in Range(block.files[k].hunks) : Removes(source, h, i)
              /\ \A h \in Range(block.files[k].hunks) :
                    \A m \in DOMAIN h.body : h.body[m].kind = "addition" => h.body[m].line # Bugs[t].line

(* By its title a finding gets such a diff from the report, or none.         *)
TitlesFindTheirFix ==
    \A list \in ExtractTasks : \A t \in Tasks \ OperatorPatches :
        ExtractFix(list[t].title) = NoBlock \/ Mends(ExtractFix(list[t].title), t)

LEMMA TheirFixHolds ==
    ASSUME TitlesFindTheirFix, QueueTypeOK
    PROVE  FixesHold
<1> SUFFICES ASSUME NEW t \in Tasks, Applies(t) PROVE Fixed(t)
  BY DEF FixesHold
<1>1. CASE t \in OperatorPatches
  BY <1>1 DEF Fixed
<1>2. CASE t \notin OperatorPatches
  <2> DEFINE block == ExtractFix(listed[t].title)
             patch == Reconstruct(Project, block)
             after == GitApply(Project, patch)
             path == Bugs[t].path
             source == Project[path]
  <2>1. ResolveFix(t) = patch /\ Patched(t) # Failed
    BY <1>2 DEF ResolveFix, Applies
  <2>2. patch # Refused /\ after = Patched(t) /\ after # Failed
    BY <2>1 DEF Patched
  <2>3. block = NoBlock \/ Mends(block, t)
    BY <1>2 DEF TitlesFindTheirFix, QueueTypeOK
  <2> HIDE DEF block
  <2>4. block # NoBlock
    <3> SUFFICES ASSUME block = NoBlock PROVE FALSE
      OBVIOUS
    <3>1. block.kind # "real" /\ block.files = <<>> /\ Range(block.files) = {}
      BY DEF NoBlock, Range
    <3>2. patch = Refused
      BY <3>1 DEF Reconstruct
    <3>3. QED
      BY <2>2, <3>2
  <2>5. /\ block.kind # "real" /\ ReportFiles(block.files) /\ source \in Seq(SourceLines)
        /\ \E k \in DOMAIN block.files :
              /\ \A j \in DOMAIN block.files : block.files[j].path = path <=> j = k
              /\ \A i \in DOMAIN source :
                    source[i] = Bugs[t].line => \E h \in Range(block.files[k].hunks) : Removes(source, h, i)
              /\ \A h \in Range(block.files[k].hunks) :
                    \A m \in DOMAIN h.body : h.body[m].kind = "addition" => h.body[m].line # Bugs[t].line
    BY <2>3, <2>4 DEF Mends
  <2>6. PICK k \in DOMAIN block.files :
              /\ \A j \in DOMAIN block.files : block.files[j].path = path <=> j = k
              /\ \A i \in DOMAIN source :
                    source[i] = Bugs[t].line => \E h \in Range(block.files[k].hunks) : Removes(source, h, i)
              /\ \A h \in Range(block.files[k].hunks) :
                    \A m \in DOMAIN h.body : h.body[m].kind = "addition" => h.body[m].line # Bugs[t].line
    BY <2>5
  <2> DEFINE hunks == block.files[k].hunks
  <2> HIDE DEF patch, after
  <2>7. /\ block.files[k].path = path /\ hunks \in Seq(ReportHunks)
        /\ \A j \in DOMAIN block.files : block.files[j].path = path => j = k
    BY <2>5, <2>6 DEF ReportFiles
  <2>8. after[path] = Edited(source, hunks)
    BY <2>2, <2>5, <2>7, BlockPatched DEF patch, after
  <2>9. Bugs[t].line \notin Range(Edited(source, hunks))
    BY <2>5, <2>6, <2>7, EditedWithout
  <2>10. Bugs[t].line \notin Range(Patched(t)[path])
    BY <2>2, <2>8, <2>9
  <2>11. QED
    BY <2>1, <2>10 DEF Fixed
<1>3. QED
  BY <1>1, <1>2

(* For a report whose fixes mend their findings, and titles that find them,  *)
(* every verdict is about the text that was judged and a test of that text,  *)
(* on a patched project from which the bug is really gone                    *)
(* (extract_fix_for_finding, patch_reconstruct.py, _process_finding).        *)
THEOREM VerdictsOfMendingReports ==
    ASSUME TitlesFindTheirFix
    PROVE  RunnerSpec => []VerdictsAreEarned
<1>1. QueueInv => FixesHold
  BY TheirFixHolds DEF QueueInv
<1>2. QED
  BY <1>1, QueueInvariantHolds, VerdictsEarned, PTL

(* Whenever a pass goes to be verified, every patch there is to try lands    *)
(* whole: what reconstruction builds from the hunks of the report, git apply *)
(* accepts, and it makes of the file what the fix of the report says.        *)
THEOREM PatchesLand == RunnerSpec => []PatchesLandWhole
<1>1. TrialsLandWhole
  <2> SUFFICES ASSUME NEW trial \in Trials PROVE LandsWhole(trial.source, trial.hunks)
    BY DEF TrialsLandWhole
  <2>1. trial.source \in Seq(SourceLines) /\ trial.hunks \in Seq(ReportHunks)
    BY PocAssumption
  <2>2. QED
    BY <2>1, EveryPatchLands
<1>2. PatchesLandWhole
  BY <1>1 DEF PatchesLandWhole
<1>3. QED
  BY <1>2, PTL

-----------------------------------------------------------------------------
(* The lookups of one call of the model.                                     *)

(* The tool protocol may fall back once, to a budget of its own.             *)
PerTry == IF SelectProtocol = "tool" THEN LookupBudget + LookupBudget ELSE LookupBudget
Spent == (IF trip.fell THEN LookupBudget ELSE 0) + trip.used

(* Only a tool round trip falls back, and only once.                         *)
LookupInv ==
    /\ trip \in Trips
    /\ trip.fell => SelectProtocol = "tool" /\ trip.mode = "marker"
    /\ trip.pc = "asking" /\ trip.mode = "tool" => SelectProtocol = "tool"
    /\ trip.served <= PerTry * (trip.try - 1) + Spent

LEMMA Budgets ==
    ASSUME LookupInv
    PROVE  /\ PerTry \in Nat /\ Spent \in Nat /\ Spent <= PerTry
           /\ LookupBudget \in Nat /\ RetryAttempts \in Nat /\ trip.try \in 1..RetryAttempts
           /\ trip.used \in 0..LookupBudget /\ trip.served \in Nat
BY TripAssumption DEF LookupInv, Trips, PerTry, Spent

LEMMA AtMostPerTry ==
    ASSUME LookupInv
    PROVE  trip.served <= PerTry * trip.try
<1>1. \A m, n \in Nat : m * (n + 1) = m * n + m
  OBVIOUS
<1>2. PICK n \in Nat : trip.try = n + 1
  <2>1. trip.try - 1 \in Nat /\ trip.try = (trip.try - 1) + 1
    BY Budgets
  <2>2. QED
    BY <2>1
<1>3. PerTry * trip.try = PerTry * n + PerTry /\ trip.try - 1 = n /\ PerTry * n \in Nat
  BY <1>1, <1>2, Budgets
<1>4. trip.served <= PerTry * n + Spent
  BY <1>3 DEF LookupInv
<1>5. QED
  BY <1>3, <1>4, Budgets

LEMMA LookupsStart == ASSUME StartTrip \/ EndTrip PROVE LookupInv'
<1>1. trip' \in Trips
  BY TripStarts
<1>2. PerTry \in Nat /\ PerTry * (1 - 1) = 0
  BY TripAssumption DEF PerTry
<1>3. trip' \in {Fresh(1, 0), Idle}
  BY DEF StartTrip, EndTrip
<1>4. /\ trip'.fell = FALSE /\ trip'.used = 0 /\ trip'.served = 0 /\ trip'.try = 1
      /\ trip'.mode \in {SelectProtocol, "marker"}
  BY <1>3 DEF Fresh, Idle
<1>5. QED
  BY <1>1, <1>2, <1>4 DEF LookupInv, Spent, PerTry

LEMMA LookupsGoOn == ASSUME LookupInv, TripStep PROVE LookupInv'
<1>1. trip' \in Trips
  BY TripGoesOn DEF LookupInv
<1>2. trip.pc = "asking" /\ PerTry * (trip.try - 1) \in Nat
  <2>1. trip.pc = "asking"
    BY DEF TripStep, LookUp, LookUpByTool, MarkerFinal, ToolFinal, MalformedCall, TransportFails, Asking
  <2>2. trip.try - 1 \in Nat
    BY Budgets
  <2>3. \A m, n \in Nat : m * n \in Nat
    OBVIOUS
  <2>4. QED
    BY <2>1, <2>2, <2>3, Budgets
<1>3. ASSUME NEW asked \in 0..MaxAsked, LookUp(asked) \/ LookUpByTool(asked)
      PROVE  LookupInv'
  <2>1. Resolved(asked) \in Nat
    BY Budgets, TripAssumption DEF Resolved
  <2>2. trip' = [trip EXCEPT !.used = trip.used + Resolved(asked),
                             !.served = trip.served + Resolved(asked)]
    BY <1>3 DEF LookUp, LookUpByTool
  <2>3. /\ trip'.used = trip.used + Resolved(asked) /\ trip'.served = trip.served + Resolved(asked)
        /\ trip'.fell = trip.fell /\ trip'.mode = trip.mode /\ trip'.try = trip.try /\ trip'.pc = trip.pc
    BY <2>2 DEF LookupInv, Trips
  <2>4. Spent' = Spent + Resolved(asked)
    BY <2>1, <2>3, Budgets DEF Spent
  <2>5. trip.served <= PerTry * (trip.try - 1) + Spent
    BY DEF LookupInv
  <2>6. trip'.served <= PerTry * (trip'.try - 1) + Spent'
    BY <1>2, <2>1, <2>3, <2>4, <2>5, Budgets
  <2>7. QED
    BY <1>1, <2>3, <2>6 DEF LookupInv, PerTry
<1>4. ASSUME NEW asked \in 0..MaxAsked, NEW result \in {"code", "empty"},
             MarkerFinal(asked, result) \/ ToolFinal(asked, result)
      PROVE  LookupInv'
  <2>1. CASE trip' = [trip EXCEPT !.pc = result] \/ trip' = [trip EXCEPT !.pc = "code"]
    <3>1. /\ trip'.used = trip.used /\ trip'.served = trip.served /\ trip'.fell = trip.fell
          /\ trip'.mode = trip.mode /\ trip'.try = trip.try
      BY <2>1 DEF LookupInv, Trips
    <3>2. QED
      BY <1>1, <1>2, <3>1 DEF LookupInv, Spent, PerTry
  <2>2. CASE ToolFinal(asked, result) /\ trip' = [trip EXCEPT !.mode = "marker", !.fell = TRUE, !.used = 0]
    <3>1. trip.mode = "tool" /\ SelectProtocol = "tool" /\ trip.fell = FALSE
      BY <1>2, <2>2 DEF ToolFinal, LookupInv, Trips
    <3>2. /\ trip'.used = 0 /\ trip'.served = trip.served /\ trip'.fell = TRUE
          /\ trip'.mode = "marker" /\ trip'.try = trip.try
      BY <2>2 DEF LookupInv, Trips
    <3>3. Spent = trip.used /\ Spent' = LookupBudget
      BY <3>1, <3>2, Budgets DEF Spent
    <3>4. trip.served <= PerTry * (trip.try - 1) + Spent
      BY DEF LookupInv
    <3>5. trip'.served <= PerTry * (trip'.try - 1) + Spent'
      BY <1>2, <3>2, <3>3, <3>4, Budgets
    <3>6. QED
      BY <1>1, <3>1, <3>2, <3>5 DEF LookupInv, PerTry
  <2>3. QED
    BY <1>4, <2>1, <2>2 DEF MarkerFinal, ToolFinal
<1>5. CASE MalformedCall \/ (TransportFails /\ ~(trip.try < RetryAttempts))
  <2>1. trip' = [trip EXCEPT !.pc = "raised"] \/ trip' = [trip EXCEPT !.pc = "failed"]
    BY <1>5 DEF MalformedCall, TransportFails
  <2>2. /\ trip'.used = trip.used /\ trip'.served = trip.served /\ trip'.fell = trip.fell
        /\ trip'.mode = trip.mode /\ trip'.try = trip.try /\ trip'.pc # "asking"
    BY <2>1 DEF LookupInv, Trips
  <2>3. QED
    BY <1>1, <2>2 DEF LookupInv, Spent, PerTry
<1>6. CASE TransportFails /\ trip.try < RetryAttempts
  <2>1. /\ trip'.used = 0 /\ trip'.served = trip.served /\ trip'.fell = FALSE
        /\ trip'.mode = SelectProtocol /\ trip'.try = trip.try + 1
    BY <1>6 DEF TransportFails, Fresh
  <2>2. Spent' = 0 /\ trip'.try - 1 = trip.try /\ PerTry * trip.try \in Nat
    <3>1. \A m, n \in Nat : m * n \in Nat
      OBVIOUS
    <3>2. QED
      BY <2>1, <3>1, Budgets DEF Spent
  <2>3. trip'.served <= PerTry * (trip'.try - 1) + Spent'
    BY <2>1, <2>2, AtMostPerTry
  <2>4. QED
    BY <1>1, <2>1, <2>3 DEF LookupInv, PerTry
<1>7. QED
  BY <1>3, <1>4, <1>5, <1>6 DEF TripStep

LEMMA TripMoves ==
    ASSUME [RunnerNext]_runnerVars
    PROVE  trip' = trip \/ StartTrip \/ EndTrip \/ TripStep
<1>1. CASE UNCHANGED runnerVars
  BY <1>1 DEF runnerVars
<1>2. CASE BudgetReached \/ StartRun \/ Die
  BY <1>2 DEF BudgetReached, StartRun, Die, ProcessEnds
<1>3. CASE RunnerStep
  BY <1>3
     DEF RunnerStep, FinishRun, BeginFinding, NoSynthOutput, SynthesizeScaffold, DiscardBase, AcceptBase,
         RepairBase, RejectBase, SmokeInfraError, WaitForModel, DraftFailed, DraftReturned, WritePoc,
         RunFails, RunTests, RewriteInPlace, RunAgain, RunAgainFails, EndRepair, Judge, FixReturned,
         FixNoCode, FixFailed, VerifyUnavailable, MutationVerify, FinishFinding, ProcessEnds, CallRaises
<1>4. QED
  BY <1>1, <1>2, <1>3 DEF RunnerNext

(* Whatever the model asks for, one attempt at a finding is answered at most *)
(* a budget of lookups per round trip, two round trips where the tool        *)
(* protocol can fall back, once per try (--lookup-budget,                    *)
(* GEN_RETRY_ATTEMPTS).                                                      *)
THEOREM LookupsStayBounded == RunnerSpec => []LookupsBounded
<1>1. RunnerInit => LookupInv
  <2> SUFFICES ASSUME RunnerInit PROVE LookupInv
    OBVIOUS
  <2>1. trip = Idle /\ trip \in Trips
    BY QueueTypeStarts DEF RunnerInit, TripInit, QueueTypeOK
  <2>2. PerTry \in Nat /\ PerTry * (1 - 1) = 0
    BY TripAssumption DEF PerTry
  <2>3. QED
    BY <2>1, <2>2 DEF LookupInv, Idle, Spent
<1>2. LookupInv /\ [RunnerNext]_runnerVars => LookupInv'
  <2> SUFFICES ASSUME LookupInv, [RunnerNext]_runnerVars PROVE LookupInv'
    OBVIOUS
  <2>1. CASE trip' = trip
    BY <2>1 DEF LookupInv, Spent, PerTry
  <2>2. QED
    BY <2>1, TripMoves, LookupsStart, LookupsGoOn
<1>3. LookupInv => LookupsBounded
  <2> SUFFICES ASSUME LookupInv PROVE LookupsBounded
    OBVIOUS
  <2>1. \A m, k, n \in Nat : k <= n => m * k <= m * n
    OBVIOUS
  <2>2. PerTry * trip.try <= PerTry * RetryAttempts /\ PerTry * trip.try \in Nat
    BY <2>1, Budgets
  <2>3. \A m, n \in Nat : (m + m) * n = m * n * 2 /\ m * n = m * n * 1 /\ m * n \in Nat
    OBVIOUS
  <2>4. PerTry * RetryAttempts = LookupBudget * RetryAttempts * (IF SelectProtocol = "tool" THEN 2 ELSE 1)
    BY <2>3, Budgets DEF PerTry
  <2>5. PerTry * RetryAttempts \in Nat
    BY <2>3, Budgets
  <2>6. QED
    BY <2>2, <2>4, <2>5, AtMostPerTry, Budgets DEF LookupsBounded
<1>4. QED
  BY <1>1, <1>2, <1>3, PTL DEF RunnerSpec
==============================================================================
