----------------------------- MODULE Lemmas -------------------------------
(***************************************************************************)
(* Facts about numbers that the proofs of the other modules share, stated  *)
(* over sets so that they can be cited by name: least elements, induction  *)
(* over the turns of a loop, the order of Ranks, and lists of writes.      *)
(***************************************************************************)
EXTENDS Integers, Ranks, FiniteSetTheorems, WellFoundedInduction, TLAPS

LessThan == OpToRel(<, Nat)

\* Every nonempty set of natural numbers has a least element.
LEMMA LeastElement ==
    ASSUME NEW S \in SUBSET Nat, S # {}
    PROVE  \E m \in S : \A y \in S : m <= y
<1>1. IsWellFoundedOn(LessThan, Nat)
  BY NatLessThanWellFounded DEF LessThan
<1>2. PICK m \in S : \A y \in S : <<y, m>> \notin LessThan
  BY <1>1, WFMin
<1>3. ASSUME NEW y \in S, y < m PROVE FALSE
  <2>1. <<y, m>> \in LessThan
    BY <1>3 DEF LessThan, OpToRel
  <2> QED BY <2>1, <1>2
<1> QED
  BY <1>3

\* Induction over the indices of a loop: a set that contains 0 and, with each
\* index below n, the next one, contains every index up to n.
LEMMA IntervalInduction ==
    ASSUME NEW n \in Nat, NEW T, 0 \in T,
           \A i \in 0..(n - 1) : i \in T => i + 1 \in T
    PROVE  \A i \in 0..n : i \in T
<1> DEFINE Bad == {i \in 0..n : i \notin T}
<1>1. SUFFICES ASSUME Bad # {} PROVE FALSE
  OBVIOUS
<1>a. Bad \in SUBSET Nat
  OBVIOUS
<1> HIDE DEF Bad
<1>2. PICK m \in Bad : \A y \in Bad : m <= y
  BY <1>1, <1>a, LeastElement
<1> USE DEF Bad
<1>3. m \in Nat /\ m # 0 /\ m - 1 \in 0..(n - 1)
  BY <1>2
<1>4. m - 1 \in T
  BY <1>2, <1>3
<1> QED
  BY <1>2, <1>3, <1>4

\* A loop over the indices 0..n-1 that carries a value of V, from v on: step
\* gives the new value for each index, f the value before each turn.
IsLoop(n, V, v, step) == n \in Nat /\ v \in V /\ step \in [0..(n - 1) -> [V -> V]]

IsRun(n, V, v, step, f) ==
    /\ f \in [0..n -> V]
    /\ f[0] = v
    /\ \A i \in 1..n : f[i] = step[i - 1][f[i - 1]]

\* Every loop has a run.
LEMMA LoopExists ==
    ASSUME NEW n, NEW V, NEW v, NEW step, IsLoop(n, V, v, step)
    PROVE  \E f : IsRun(n, V, v, step, f)
<1> DEFINE Runs(m, f) == IsRun(m, V, v, step, f)
           T == {m \in 0..n : \E f : Runs(m, f)}
<1> USE DEF IsLoop, IsRun
<1>1. 0 \in T
  <2> DEFINE f == [i \in 0..0 |-> v]
  <2>1. Runs(0, f)
    OBVIOUS
  <2>2. \E h : Runs(0, h)
    <3> HIDE DEF f, Runs
    <3> QED BY <2>1
  <2> QED BY <2>2
<1>2. ASSUME NEW m \in 0..(n - 1), m \in T PROVE m + 1 \in T
  <2>1. PICK f : Runs(m, f)
    BY <1>2
  <2> DEFINE g == [i \in 0..(m + 1) |-> IF i <= m THEN f[i] ELSE step[m][f[m]]]
  <2>2. f[m] \in V /\ step[m] \in [V -> V]
    BY <2>1
  <2>3. g \in [0..(m + 1) -> V]
    BY <2>1, <2>2
  <2>4. g[0] = v
    BY <2>1
  <2>5. ASSUME NEW i \in 1..(m + 1) PROVE g[i] = step[i - 1][g[i - 1]]
    BY <2>1, <2>5
  <2>6. Runs(m + 1, g)
    BY <2>3, <2>4, <2>5
  <2>7. \E h : Runs(m + 1, h)
    <3> HIDE DEF g, Runs
    <3> QED BY <2>6
  <2> QED BY <2>7
<1>3. \A m \in 0..(n - 1) : m \in T => m + 1 \in T
  <2> HIDE DEF T
  <2> QED BY <1>2
<1>4. n \in T
  <2> HIDE DEF T
  <2>1. \A i \in 0..n : i \in T
    BY <1>1, <1>3, IntervalInduction
  <2> QED BY <2>1
<1>5. \E f : Runs(n, f)
  <2> HIDE DEF Runs
  <2> QED BY <1>4
<1> QED
  BY <1>5

\* Positions in a finite set of numbers determine its elements.
LEMMA RankInjective ==
    ASSUME NEW S \in SUBSET Int, IsFiniteSet(S), NEW a \in S, NEW b \in S,
           RankIn(S, a) = RankIn(S, b)
    PROVE  a = b
<1>1. ASSUME NEW x \in S, NEW y \in S, x < y PROVE RankIn(S, x) # RankIn(S, y)
  <2> DEFINE X == {z \in S : z < x}
             Y == {z \in S : z < y}
  <2>0. x \in Int /\ y \in Int /\ \A z \in S : z \in Int
    OBVIOUS
  <2>a. X \in SUBSET Y /\ x \in Y /\ x \notin X /\ Y \in SUBSET S
    <3>1. ASSUME NEW z \in X PROVE z \in Y
      <4>1. z \in S /\ z < x /\ z \in Int
        BY <2>0
      <4> QED BY <1>1, <2>0, <4>1
    <3>2. x \in Y /\ x \notin X /\ Y \in SUBSET S
      BY <1>1, <2>0
    <3> QED BY <3>1, <3>2
  <2>1. IsFiniteSet(Y)
    <3> HIDE DEF X, Y
    <3> QED BY <2>a, FS_Subset
  <2>2. Cardinality(X) # Cardinality(Y)
    <3> HIDE DEF X, Y
    <3> QED BY <2>a, <2>1, FS_Subset
  <2> QED
    BY <2>2 DEF RankIn
<1> QED
  BY <1>1

\* A position in a finite set is below its size.
LEMMA RankRange ==
    ASSUME NEW S \in SUBSET Int, IsFiniteSet(S), NEW x \in S
    PROVE  RankIn(S, x) \in 0..(Cardinality(S) - 1)
<1> DEFINE n == Cardinality(S)
           X == {y \in S : y < x}
<1>1. n \in Nat
  BY FS_CardinalityType
<1>2. X \in SUBSET S /\ x \notin X /\ X # S
  OBVIOUS
<1> HIDE DEF X
<1>3. IsFiniteSet(X) /\ Cardinality(X) <= n /\ Cardinality(X) # n /\ Cardinality(X) \in Nat
  BY <1>2, FS_Subset, FS_CardinalityType
<1>4. Cardinality(X) \in 0..(n - 1)
  BY <1>1, <1>3
<1> QED
  BY <1>4 DEF RankIn, X

\* The positions in a finite set of numbers are all taken.
LEMMA RankSurjective ==
    ASSUME NEW S \in SUBSET Int, IsFiniteSet(S), NEW r \in 0..(Cardinality(S) - 1)
    PROVE  \E x \in S : RankIn(S, x) = r
<1> DEFINE n == Cardinality(S)
           f == [x \in S |-> RankIn(S, x)]
<1>1. n \in Nat
  BY FS_CardinalityType
<1>2. f \in [S -> 0..(n - 1)] /\ \A x \in S : f[x] = RankIn(S, x)
  BY RankRange
<1> HIDE DEF f, n
<1>3. f \in Injection(S, 0..(n - 1))
  <2>1. \A x, y \in S : f[x] = f[y] => x = y
    BY <1>2, RankInjective
  <2> QED
    BY <1>2, <2>1 DEF Injection, IsInjective
<1>4. IsFiniteSet(0..(n - 1)) /\ Cardinality(0..(n - 1)) = n
  <2>1. IsFiniteSet(0..(n - 1)) /\ Cardinality(0..(n - 1)) = IF 0 > n - 1 THEN 0 ELSE (n - 1) - 0 + 1
    BY <1>1, FS_Interval
  <2> QED
    BY <1>1, <2>1
<1>5. f \in Surjection(S, 0..(n - 1))
  BY <1>3, <1>4, FS_Injection DEF n
<1> QED
  BY <1>2, <1>5 DEF Surjection, n

\* Ranks follow the order of the elements.
LEMMA RankOrder ==
    ASSUME NEW S \in SUBSET Int, IsFiniteSet(S), NEW a \in S, NEW b \in S,
           RankIn(S, a) < RankIn(S, b)
    PROVE  a < b
<1> SUFFICES ASSUME ~(a < b) PROVE FALSE
  OBVIOUS
<1> DEFINE A == {y \in S : y < a}
           B == {y \in S : y < b}
<1>1. a \in Int /\ b \in Int /\ b <= a
  OBVIOUS
<1>2. B \in SUBSET A
  <2>1. ASSUME NEW y \in S, y < b PROVE y < a
    <3>1. y \in Int
      OBVIOUS
    <3> QED BY <1>1, <2>1, <3>1
  <2> QED BY <2>1
<1>3. IsFiniteSet(A) /\ IsFiniteSet(B)
  BY FS_Subset
<1>4. Cardinality(A) \in Nat /\ Cardinality(B) \in Nat /\ Cardinality(B) <= Cardinality(A)
  <2> HIDE DEF A, B
  <2> QED BY <1>2, <1>3, FS_Subset, FS_CardinalityType
<1>5. Cardinality(A) < Cardinality(B)
  BY DEF RankIn
<1> HIDE DEF A, B
<1> QED
  BY <1>4, <1>5

\* Ascending lists its set by rank.
LEMMA AscendingAt ==
    ASSUME NEW S \in SUBSET Int, IsFiniteSet(S), NEW i \in 1..Cardinality(S)
    PROVE  Ascending(S)[i] \in S /\ RankIn(S, Ascending(S)[i]) = i - 1
<1>1. Cardinality(S) \in Nat
  BY FS_CardinalityType
<1>2. i - 1 \in 0..(Cardinality(S) - 1)
  BY <1>1
<1>3. \E x \in S : RankIn(S, x) = i - 1
  BY <1>2, RankSurjective
<1> QED
  BY <1>3 DEF Ascending

\* Ascending leaves no element out.
LEMMA AscendingAll ==
    ASSUME NEW S \in SUBSET Int, IsFiniteSet(S), NEW x \in S
    PROVE  RankIn(S, x) + 1 \in 1..Cardinality(S) /\ Ascending(S)[RankIn(S, x) + 1] = x
<1>1. Cardinality(S) \in Nat /\ RankIn(S, x) \in 0..(Cardinality(S) - 1)
  BY FS_CardinalityType, RankRange
<1>2. RankIn(S, x) + 1 \in 1..Cardinality(S) /\ (RankIn(S, x) + 1) - 1 = RankIn(S, x)
  BY <1>1
<1> DEFINE y == Ascending(S)[RankIn(S, x) + 1]
<1>3. y \in S /\ RankIn(S, y) = RankIn(S, x)
  BY <1>2, AscendingAt
<1>4. y = x
  <2> HIDE DEF y
  <2> QED BY <1>3, RankInjective
<1> QED
  BY <1>2, <1>4

\* Ascending is a sequence as long as its set is large.
LEMMA AscendingLen ==
    ASSUME NEW S \in SUBSET Int, IsFiniteSet(S)
    PROVE  Ascending(S) \in Seq(S) /\ Len(Ascending(S)) = Cardinality(S)
<1>1. Cardinality(S) \in Nat
  BY FS_CardinalityType
<1>2. \A i \in 1..Cardinality(S) : Ascending(S)[i] \in S
  BY AscendingAt
<1>3. Ascending(S) = [i \in 1..Cardinality(S) |-> Ascending(S)[i]]
  BY DEF Ascending
<1> HIDE DEF Ascending
<1>4. Ascending(S) \in [1..Cardinality(S) -> S]
  BY <1>2, <1>3
<1> QED
  BY <1>1, <1>4

\* Every nonempty set of numbers below a bound has a greatest element.
LEMMA GreatestElement ==
    ASSUME NEW S \in SUBSET Int, S # {}, NEW b \in Int, \A x \in S : x <= b
    PROVE  \E m \in S : \A y \in S : m >= y
<1> DEFINE T == {n \in Nat : b - n \in S}
<1>1. PICK x \in S : TRUE
  OBVIOUS
<1>2. b - x \in T
  <2>1. x \in Int /\ x <= b
    BY <1>1
  <2> QED BY <1>1, <2>1
<1> HIDE DEF T
<1>3. T \in SUBSET Nat /\ T # {}
  BY <1>2 DEF T
<1>4. PICK n \in T : \A y \in T : n <= y
  BY <1>3, LeastElement
<1>5. b - n \in S /\ n \in Nat
  BY DEF T
<1>6. ASSUME NEW y \in S PROVE b - n >= y
  <2>1. y \in Int /\ y <= b
    OBVIOUS
  <2>2. b - y \in Nat /\ b - (b - y) = y
    BY <2>1
  <2>3. b - y \in T
    BY <2>1, <2>2 DEF T
  <2>4. n <= b - y
    BY <2>3, <1>4
  <2> QED BY <2>1, <2>4, <1>5
<1> QED
  BY <1>5, <1>6

(***************************************************************************)
(* What a list of writes leads to.  Yields says which value a place that   *)
(* holds old has once the list is written.                                 *)
(***************************************************************************)
IsList(ws) == \E n \in Nat : ws = [i \in 1..n |-> ws[i]]

To(w, part, at) == w.part = part /\ w.at = at

Untouched(ws, part, at) == \A i \in 1..Len(ws) : ~To(ws[i], part, at)

LastSets(ws, part, at, v) ==
    \E i \in 1..Len(ws) :
        /\ To(ws[i], part, at) /\ ws[i].value = v
        /\ \A j \in (i + 1)..Len(ws) : ~To(ws[j], part, at)

Yields(ws, part, at, old, v) == (v = old /\ Untouched(ws, part, at)) \/ LastSets(ws, part, at, v)

YieldsAll(ws, part, places, old, new) ==
    \A at \in places : Yields(ws, part, at, old[at], new[at])

\* A list is a sequence.
LEMMA ListIsSeq ==
    ASSUME NEW ws, IsList(ws)
    PROVE  \E T : ws \in Seq(T)
<1>1. PICK n \in Nat : ws = [i \in 1..n |-> ws[i]]
  BY DEF IsList
<1> DEFINE T == {ws[i] : i \in 1..n}
<1>2. ws \in [1..n -> T]
  BY <1>1
<1>3. ws \in Seq(T)
  <2> HIDE DEF T
  <2> QED BY <1>2
<1> QED
  BY <1>3

\* Every sequence is a list.
LEMMA SeqIsList ==
    ASSUME NEW T, NEW ws \in Seq(T)
    PROVE  IsList(ws)
  BY DEF IsList

\* One list behind the other is a list.
LEMMA ListBoth ==
    ASSUME NEW s, NEW t, IsList(s), IsList(t)
    PROVE  /\ IsList(s \o t)
           /\ Len(s) \in Nat /\ Len(t) \in Nat /\ Len(s \o t) = Len(s) + Len(t)
           /\ \A i \in 1..Len(s) : (s \o t)[i] = s[i]
           /\ \A i \in 1..Len(t) : (s \o t)[Len(s) + i] = t[i]
<1>1. PICK S : s \in Seq(S)
  BY ListIsSeq
<1>2. PICK T : t \in Seq(T)
  BY ListIsSeq
<1>3. s \in Seq(S \cup T) /\ t \in Seq(S \cup T)
  BY <1>1, <1>2
<1>4. s \o t \in Seq(S \cup T)
  BY <1>3
<1>5. IsList(s \o t)
  BY <1>4, SeqIsList
<1> QED
  BY <1>3, <1>5

\* The rest of a list is a list.
LEMMA ListTail ==
    ASSUME NEW ws, IsList(ws), ws # <<>>
    PROVE  /\ IsList(Tail(ws)) /\ Head(ws) = ws[1]
           /\ Len(ws) \in Nat \ {0} /\ Len(Tail(ws)) = Len(ws) - 1
           /\ \A i \in 1..Len(Tail(ws)) : Tail(ws)[i] = ws[i + 1]
<1>1. PICK T : ws \in Seq(T)
  BY ListIsSeq
<1>2. Tail(ws) \in Seq(T)
  BY <1>1
<1>3. IsList(Tail(ws))
  BY <1>2, SeqIsList
<1> QED
  BY <1>1, <1>3

\* A place that one write of a list is for.
LEMMA YieldsOnce ==
    ASSUME NEW ws, NEW part, NEW at, NEW old, NEW v, NEW i \in 1..Len(ws), Len(ws) \in Nat,
           To(ws[i], part, at), ws[i].value = v,
           \A j \in 1..Len(ws) : To(ws[j], part, at) => j = i
    PROVE  Yields(ws, part, at, old, v)
<1>1. ASSUME NEW j \in (i + 1)..Len(ws) PROVE ~To(ws[j], part, at)
  BY <1>1
<1> QED
  BY <1>1 DEF Yields, LastSets

\* Nothing left to write: the place has its value.
LEMMA YieldsNothing ==
    ASSUME NEW part, NEW at, NEW old, NEW v, Yields(<<>>, part, at, old, v)
    PROVE  v = old
  BY DEF Yields, LastSets

\* One write of the list is made.
LEMMA YieldsTail ==
    ASSUME NEW ws, IsList(ws), ws # <<>>, NEW part, NEW at, NEW old, NEW v,
           Yields(ws, part, at, old, v), NEW new,
           To(Head(ws), part, at) => new = Head(ws).value,
           ~To(Head(ws), part, at) => new = old
    PROVE  Yields(Tail(ws), part, at, new, v)
<1>1. Len(ws) \in Nat \ {0} /\ Len(Tail(ws)) = Len(ws) - 1 /\ Head(ws) = ws[1]
  BY ListTail
<1>2. \A i \in 1..Len(Tail(ws)) : Tail(ws)[i] = ws[i + 1]
  BY ListTail
<1>3. CASE v = old /\ Untouched(ws, part, at)
  <2>1. ~To(Head(ws), part, at) /\ new = old
    BY <1>1, <1>3 DEF Untouched
  <2>2. Untouched(Tail(ws), part, at)
    BY <1>1, <1>2, <1>3 DEF Untouched
  <2> QED BY <1>3, <2>1, <2>2 DEF Yields
<1>4. CASE LastSets(ws, part, at, v)
  <2>1. PICK i \in 1..Len(ws) :
          /\ To(ws[i], part, at) /\ ws[i].value = v
          /\ \A j \in (i + 1)..Len(ws) : ~To(ws[j], part, at)
    BY <1>4 DEF LastSets
  <2>2. CASE i = 1
    <3>1. new = v
      BY <1>1, <2>1, <2>2
    <3>2. ASSUME NEW j \in 1..Len(Tail(ws)) PROVE ~To(Tail(ws)[j], part, at)
      <4>1. j + 1 \in (i + 1)..Len(ws) /\ Tail(ws)[j] = ws[j + 1]
        BY <1>1, <1>2, <2>2
      <4> QED BY <2>1, <4>1
    <3> QED BY <3>1, <3>2 DEF Yields, Untouched
  <2>3. CASE i # 1
    <3>1. i - 1 \in 1..Len(Tail(ws)) /\ Tail(ws)[i - 1] = ws[i]
      BY <1>1, <1>2, <2>3
    <3>2. ASSUME NEW j \in ((i - 1) + 1)..Len(Tail(ws)) PROVE ~To(Tail(ws)[j], part, at)
      <4>1. j + 1 \in (i + 1)..Len(ws) /\ Tail(ws)[j] = ws[j + 1]
        BY <1>1, <1>2, <2>3
      <4> QED BY <2>1, <4>1
    <3> QED BY <2>1, <3>1, <3>2 DEF Yields, LastSets
  <2> QED BY <2>2, <2>3
<1> QED
  BY <1>3, <1>4 DEF Yields

\* A place that no write of two lists is for.
LEMMA UntouchedBoth ==
    ASSUME NEW s, NEW t, IsList(s), IsList(t), NEW part, NEW at,
           Untouched(s, part, at), Untouched(t, part, at)
    PROVE  Untouched(s \o t, part, at)
<1>1. Len(s) \in Nat /\ Len(t) \in Nat /\ Len(s \o t) = Len(s) + Len(t)
  BY ListBoth
<1>2. \A i \in 1..Len(s) : (s \o t)[i] = s[i]
  BY ListBoth
<1>3. \A i \in 1..Len(t) : (s \o t)[Len(s) + i] = t[i]
  BY ListBoth
<1>4. ASSUME NEW i \in 1..Len(s \o t) PROVE ~To((s \o t)[i], part, at)
  <2>1. CASE i <= Len(s)
    <3>1. i \in 1..Len(s)
      BY <1>1, <2>1
    <3> QED BY <3>1, <1>2 DEF Untouched
  <2>2. CASE i > Len(s)
    <3>1. i - Len(s) \in 1..Len(t) /\ Len(s) + (i - Len(s)) = i
      BY <1>1, <2>2
    <3> QED BY <3>1, <1>3 DEF Untouched
  <2> QED BY <1>1, <2>1, <2>2
<1> QED
  BY <1>4 DEF Untouched

\* A place no write of a list is for is none of the rest of the list either.
LEMMA UntouchedTail ==
    ASSUME NEW ws, IsList(ws), ws # <<>>, NEW part, NEW at, Untouched(ws, part, at)
    PROVE  Untouched(Tail(ws), part, at) /\ ~To(Head(ws), part, at)
<1>1. /\ Len(ws) \in Nat \ {0} /\ Len(Tail(ws)) = Len(ws) - 1 /\ Head(ws) = ws[1]
      /\ \A i \in 1..Len(Tail(ws)) : Tail(ws)[i] = ws[i + 1]
  BY ListTail
<1>2. 1 \in 1..Len(ws) /\ \A i \in 1..Len(Tail(ws)) : i + 1 \in 1..Len(ws)
  BY <1>1
<1> QED
  BY <1>1, <1>2 DEF Untouched

\* A place that is not written keeps what it holds.
LEMMA UntouchedYields ==
    ASSUME NEW ws, NEW part, NEW at, NEW old, Untouched(ws, part, at)
    PROVE  Yields(ws, part, at, old, old)
  BY DEF Yields

\* One list is written behind the other.
LEMMA YieldsBoth ==
    ASSUME NEW s, NEW t, IsList(s), IsList(t), NEW part, NEW at,
           NEW old, NEW v, NEW w,
           Yields(s, part, at, old, v), Yields(t, part, at, v, w)
    PROVE  Yields(s \o t, part, at, old, w)
<1>1. Len(s) \in Nat /\ Len(t) \in Nat /\ Len(s \o t) = Len(s) + Len(t)
  BY ListBoth
<1>2. \A i \in 1..Len(s) : (s \o t)[i] = s[i]
  BY ListBoth
<1>3. \A i \in 1..Len(t) : (s \o t)[Len(s) + i] = t[i]
  BY ListBoth
<1>4. \A i \in (Len(s) + 1)..Len(s \o t) : i - Len(s) \in 1..Len(t) /\ (s \o t)[i] = t[i - Len(s)]
  BY <1>1, <1>3
<1>5. CASE LastSets(t, part, at, w)
  <2>1. PICK i \in 1..Len(t) :
          /\ To(t[i], part, at) /\ t[i].value = w
          /\ \A j \in (i + 1)..Len(t) : ~To(t[j], part, at)
    BY <1>5 DEF LastSets
  <2>2. Len(s) + i \in 1..Len(s \o t) /\ (s \o t)[Len(s) + i] = t[i]
    BY <1>1, <1>3
  <2>3. ASSUME NEW j \in ((Len(s) + i) + 1)..Len(s \o t) PROVE ~To((s \o t)[j], part, at)
    <3>1. j \in (Len(s) + 1)..Len(s \o t) /\ j - Len(s) \in (i + 1)..Len(t)
      BY <1>1
    <3> QED BY <1>4, <2>1, <3>1
  <2> QED BY <2>1, <2>2, <2>3 DEF Yields, LastSets
<1>6. CASE w = v /\ Untouched(t, part, at) /\ v = old /\ Untouched(s, part, at)
  <2>1. ASSUME NEW i \in 1..Len(s \o t) PROVE ~To((s \o t)[i], part, at)
    <3>1. CASE i <= Len(s)
      BY <1>1, <1>2, <1>6, <3>1 DEF Untouched
    <3>2. CASE i > Len(s)
      BY <1>1, <1>4, <1>6, <3>2 DEF Untouched
    <3> QED BY <1>1, <3>1, <3>2
  <2> QED BY <1>6, <2>1 DEF Yields, Untouched
<1>7. CASE w = v /\ Untouched(t, part, at) /\ LastSets(s, part, at, v)
  <2>1. PICK i \in 1..Len(s) :
          /\ To(s[i], part, at) /\ s[i].value = v
          /\ \A j \in (i + 1)..Len(s) : ~To(s[j], part, at)
    BY <1>7 DEF LastSets
  <2>2. i \in 1..Len(s \o t) /\ (s \o t)[i] = s[i]
    BY <1>1, <1>2
  <2>3. ASSUME NEW j \in (i + 1)..Len(s \o t) PROVE ~To((s \o t)[j], part, at)
    <3>1. CASE j <= Len(s)
      <4>1. j \in (i + 1)..Len(s) /\ j \in 1..Len(s)
        BY <3>1, <1>1
      <4> QED BY <4>1, <2>1, <1>2
    <3>2. CASE j > Len(s)
      BY <1>1, <1>4, <1>7, <3>2 DEF Untouched
    <3> QED BY <1>1, <3>1, <3>2
  <2> QED BY <1>7, <2>1, <2>2, <2>3 DEF Yields, LastSets
<1> QED
  BY <1>5, <1>6, <1>7 DEF Yields

\* Intervals one behind the other have no element in common.
LEMMA IntervalsApart ==
    ASSUME NEW a \in Int, NEW b \in Int, NEW c \in Int, NEW d \in Int, b < c \/ d < a
    PROVE  (a..b) \cap (c..d) = {}
  OBVIOUS

\* A list with one write left.
LEMMA TailEmpty ==
    ASSUME NEW ws, IsList(ws), ws # <<>>
    PROVE  (Len(ws) = 1) <=> (Tail(ws) = <<>>)
<1>1. Len(ws) \in Nat \ {0} /\ Len(Tail(ws)) = Len(ws) - 1
  BY ListTail
<1>2. PICK n \in Nat : Tail(ws) = [i \in 1..n |-> Tail(ws)[i]]
  BY ListTail DEF IsList
<1>3. n = Len(Tail(ws))
  BY <1>2
<1>4. n = 0 => Tail(ws) = <<>>
  BY <1>2
<1>5. Tail(ws) = <<>> => Len(Tail(ws)) = 0
  OBVIOUS
<1> QED
  BY <1>1, <1>3, <1>4, <1>5

(***************************************************************************)
(* An array of the storage, and one write of a list made to it.            *)
(***************************************************************************)
IsArray(f, places) == f = [x \in places |-> f[x]]

Written(f, part, w) == IF w.part # part THEN f ELSE [f EXCEPT ![w.at] = w.value]

\* Arrays that agree everywhere are equal.
LEMMA SameArrays ==
    ASSUME NEW f, NEW g, NEW places, IsArray(f, places), IsArray(g, places),
           \A x \in places : f[x] = g[x]
    PROVE  f = g
  BY DEF IsArray

\* What the rest of a list leads to from the array its first write leaves.
LEMMA ArrayStep ==
    ASSUME NEW ws, IsList(ws), ws # <<>>, NEW part, NEW places, NEW old, NEW new,
           IsArray(old, places), YieldsAll(ws, part, places, old, new)
    PROVE  /\ IsArray(Written(old, part, Head(ws)), places)
           /\ YieldsAll(Tail(ws), part, places, Written(old, part, Head(ws)), new)
           /\ IsArray(new, places) /\ Len(ws) = 1 => Written(old, part, Head(ws)) = new
<1> DEFINE after == Written(old, part, Head(ws))
<1>0. after = IF Head(ws).part # part THEN old ELSE [old EXCEPT ![Head(ws).at] = Head(ws).value]
  BY DEF Written
<1> HIDE DEF after
<1>1. IsArray(after, places)
  BY <1>0 DEF IsArray
<1>2. ASSUME NEW x \in places PROVE Yields(Tail(ws), part, x, after[x], new[x])
  <2>1. Yields(ws, part, x, old[x], new[x])
    BY DEF YieldsAll
  <2>2. To(Head(ws), part, x) => after[x] = Head(ws).value
    BY <1>0 DEF To, IsArray
  <2>3. ~To(Head(ws), part, x) => after[x] = old[x]
    BY <1>0 DEF To, IsArray
  <2> QED BY <2>1, <2>2, <2>3, YieldsTail
<1>3. ASSUME IsArray(new, places), Len(ws) = 1 PROVE after = new
  <2>1. Tail(ws) = <<>>
    BY <1>3, TailEmpty
  <2>2. ASSUME NEW x \in places PROVE after[x] = new[x]
    BY <1>2, <2>1, YieldsNothing
  <2>3. after = [x \in places |-> after[x]] /\ new = [x \in places |-> new[x]]
    BY <1>1, <1>3 DEF IsArray
  <2> QED BY ONLY <2>2, <2>3
<1> QED
  BY <1>1, <1>2, <1>3 DEF YieldsAll, after

=============================================================================
