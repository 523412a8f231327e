-------------------------- MODULE MacroWritesProofs --------------------------
(***************************************************************************)
(* What is proved about MacroWrites: the index stays sorted and the macro  *)
(* data packed from call to call, the writes of the calls add up to the    *)
(* steps of Macros and so to those of the map MacroStore, and wherever     *)
(* power is lost the other macros that are not stored behind a replaced    *)
(* one are found.                                                          *)
(***************************************************************************)
EXTENDS MacroWrites, Lemmas

(***************************************************************************)
(* The bisection of macro_idx_lookup.                                      *)
(***************************************************************************)
Keys == Triggers \cup {NO_TRIGGER}

\* What a search can be left with.
LeftOvers == {left \in [lo : 0..MACRO_INDEX_COUNT, n : 0..MACRO_INDEX_COUNT] :
                 left.lo + left.n <= MACRO_INDEX_COUNT}

\* The keys of an index that is being moved: none is lower than one before it.
Rising(ix) ==
    /\ \A i \in Entries : ix[i].keys \in Keys
    /\ \A i, j \in Entries : i < j => ix[i].keys <= ix[j].keys

\* The constants as the proofs use them.
LEMMA Sizes ==
    /\ MACRO_INDEX_COUNT \in Nat \ {0} /\ MACRO_INDEX_COUNT <= 255
    /\ STORAGE_SIZE \in Nat /\ MACROS_SIZE \in Nat /\ MACROS_SIZE <= STORAGE_SIZE
    /\ STORAGE_SIZE <= 32768
    /\ MACRO_DATA_HEADER_LEN \in Nat \ {0}
    /\ NO_TRIGGER \in Nat /\ \A k \in Triggers : k \in Nat /\ 0 < k /\ k < NO_TRIGGER
    /\ \A k \in Keys : k \in Nat /\ k <= NO_TRIGGER
    /\ Entries \subseteq Nat /\ Addresses \subseteq Nat
  BY MacroSizes DEF Keys, Entries, Addresses

\* The middle of what is left, by halves.
LEMMA Halves ==
    ASSUME NEW n \in Nat
    PROVE  /\ n \div 2 \in Nat /\ n \div 2 <= n
           /\ n # 0 => n \div 2 < n /\ n - n \div 2 - 1 \in Nat
  OBVIOUS

\* A turn of the search.
LEMMA TurnType ==
    ASSUME NEW ix, NEW k, NEW left \in LeftOvers
    PROVE  /\ SearchTurn(ix, k, left) \in LeftOvers
           /\ left.n # 0 => Middle(left) \in Entries
<1> DEFINE lo == left.lo
           n == left.n
           h == n \div 2
           N == MACRO_INDEX_COUNT
<1>1. lo \in Nat /\ n \in Nat /\ lo + n <= N /\ N \in Nat
  BY Sizes DEF LeftOvers
<1>2. h \in Nat /\ h <= n /\ (n # 0 => h < n /\ n - h - 1 \in Nat)
  BY <1>1, Halves
<1>3. Middle(left) = lo + h
  BY DEF Middle
<1>4. SearchTurn(ix, k, left) \in {left, [lo |-> lo + h + 1, n |-> n - h - 1], [lo |-> lo, n |-> h]}
      /\ (n = 0 => SearchTurn(ix, k, left) = left)
  BY DEF SearchTurn, Middle
<1>5. [lo |-> lo, n |-> h] \in LeftOvers
  <2> HIDE DEF lo, n, h, N
  <2> QED BY <1>1, <1>2 DEF LeftOvers, N
<1>6. n # 0 => [lo |-> lo + h + 1, n |-> n - h - 1] \in LeftOvers
  <2> HIDE DEF lo, n, h, N
  <2> QED BY <1>1, <1>2 DEF LeftOvers, N
<1>7. n # 0 => lo + h \in 0..(N - 1)
  <2> HIDE DEF lo, n, h, N
  <2> QED BY <1>1, <1>2
<1> QED
  BY <1>3, <1>4, <1>5, <1>6, <1>7 DEF Entries

\* The recursive definition of the search is what it says.
LEMMA SearchUnfolds ==
    ASSUME NEW ix, NEW k
    PROVE  /\ Search(ix, k) \in [0..MACRO_INDEX_COUNT -> LeftOvers]
           /\ Search(ix, k)[0] = [lo |-> 0, n |-> MACRO_INDEX_COUNT]
           /\ \A t \in 1..MACRO_INDEX_COUNT :
                 Search(ix, k)[t] = SearchTurn(ix, k, Search(ix, k)[t - 1])
<1> DEFINE n == MACRO_INDEX_COUNT
           v == [lo |-> 0, n |-> n]
           step == [t \in 0..(n - 1) |-> [l \in LeftOvers |-> SearchTurn(ix, k, l)]]
           Body(f) == [t \in 0..n |-> IF t = 0 THEN v ELSE SearchTurn(ix, k, f[t - 1])]
<1>1. n \in Nat /\ v \in LeftOvers
  BY Sizes DEF LeftOvers
<1>2. step \in [0..(n - 1) -> [LeftOvers -> LeftOvers]]
  BY TurnType
<1>3. PICK f : IsRun(n, LeftOvers, v, step, f)
  <2>1. IsLoop(n, LeftOvers, v, step)
    BY <1>1, <1>2 DEF IsLoop
  <2> HIDE DEF step, n, v
  <2> QED BY <2>1, LoopExists
<1>4. ASSUME NEW t \in 1..n PROVE f[t] = SearchTurn(ix, k, f[t - 1])
  <2>1. t - 1 \in 0..(n - 1) /\ t - 1 \in 0..n
    BY <1>1
  <2> QED BY <2>1, <1>3 DEF IsRun
<1>5. f = Body(f)
  <2> HIDE DEF n, v
  <2>1. \A t \in 0..n : t # 0 => t \in 1..n
    BY <1>1
  <2> QED BY <1>3, <1>4, <2>1 DEF IsRun
<1>6. Search(ix, k) = CHOOSE g : g = Body(g)
  BY DEF Search
<1>7. Search(ix, k) = Body(Search(ix, k))
  <2> HIDE DEF Body, n
  <2> QED BY <1>5, <1>6
<1> DEFINE g == Search(ix, k)
<1>8. /\ g = [t \in 0..n |-> g[t]]
      /\ g[0] = v
      /\ \A t \in 1..n : g[t] = SearchTurn(ix, k, g[t - 1])
  <2> HIDE DEF g, v
  <2>1. g = Body(g)
    BY <1>7 DEF g
  <2> QED BY <2>1, <1>1
<1>9. \A t \in 0..n : g[t] \in LeftOvers
  <2> DEFINE T == {t \in 0..n : g[t] \in LeftOvers}
  <2>1. 0 \in T
    BY <1>1, <1>8
  <2>2. \A t \in 0..(n - 1) : t \in T => t + 1 \in T
    <3> SUFFICES ASSUME NEW t \in 0..(n - 1), g[t] \in LeftOvers PROVE g[t + 1] \in LeftOvers
      BY <1>1
    <3>1. t + 1 \in 1..n /\ (t + 1) - 1 = t
      BY <1>1
    <3>2. g[t + 1] = SearchTurn(ix, k, g[t])
      BY <1>8, <3>1
    <3> QED BY <3>2, TurnType
  <2> HIDE DEF T
  <2>3. \A t \in 0..n : t \in T
    BY <1>1, <2>1, <2>2, IntervalInduction
  <2> QED BY <2>3 DEF T
<1> QED
  BY <1>8, <1>9

\* What every turn keeps: the entries with the key are all among those that are
\* left, and there are fewer of these with every turn.
Narrowed(ix, k, t, left) ==
    /\ \A i \in Entries : ix[i].keys = k => left.lo <= i /\ i < left.lo + left.n
    /\ left.n = 0 \/ ix[Middle(left)].keys = k \/ left.n + t <= MACRO_INDEX_COUNT

\* A turn of the search keeps that.
LEMMA TurnNarrows ==
    ASSUME NEW ix, Rising(ix), NEW k \in Keys, NEW t \in Nat, NEW left \in LeftOvers,
           Narrowed(ix, k, t, left)
    PROVE  Narrowed(ix, k, t + 1, SearchTurn(ix, k, left))
<1> DEFINE lo == left.lo
           n == left.n
           h == n \div 2
           m == lo + h
           N == MACRO_INDEX_COUNT
           x == ix[m].keys
<1>1. lo \in Nat /\ n \in Nat /\ lo + n <= N /\ N \in Nat
  BY Sizes DEF LeftOvers
<1>2. h \in Nat /\ h <= n /\ (n # 0 => h < n /\ n - h - 1 \in Nat)
  BY <1>1, Halves
<1>3. Middle(left) = m
  BY DEF Middle
<1>4. CASE n = 0 \/ x = k
  BY <1>3, <1>4 DEF SearchTurn, Narrowed
<1>5. CASE n # 0 /\ x # k
  <2>1. n + t <= N
    BY <1>3, <1>5 DEF Narrowed
  <2>2. m \in Entries /\ x \in Keys
    BY <1>3, <1>5, TurnType DEF Rising
  <2>3. x \in Nat /\ k \in Nat /\ m \in Nat
    <3> HIDE DEF x, m
    <3> QED BY <2>2, Sizes
  <2>4. \A i \in Entries : i \in Nat /\ ix[i].keys \in Nat
    BY Sizes DEF Rising
  <2>5. CASE x < k
    <3> DEFINE new == [lo |-> m + 1, n |-> n - h - 1]
    <3>1. SearchTurn(ix, k, left) = new
      BY <1>3, <1>5, <2>5 DEF SearchTurn
    <3>2. ASSUME NEW i \in Entries, ix[i].keys = k PROVE m + 1 <= i /\ i < (m + 1) + (n - h - 1)
      <4>1. lo <= i /\ i < lo + n
        BY <3>2 DEF Narrowed
      <4>2. ~(i <= m)
        <5>1. i < m => ix[i].keys <= x
          BY <2>2 DEF Rising
        <5> QED BY <2>3, <2>4, <2>5, <3>2, <5>1
      <4>3. i \in Nat
        BY <2>4
      <4> HIDE DEF lo, n, h, x
      <4> QED BY <1>1, <1>2, <1>5, <4>1, <4>2, <4>3
    <3>3. (n - h - 1) + (t + 1) <= N
      <4> HIDE DEF lo, n, h, x
      <4> QED BY <1>1, <1>2, <1>5, <2>1
    <3> QED BY <3>1, <3>2, <3>3 DEF Narrowed
  <2>6. CASE ~(x < k)
    <3> DEFINE new == [lo |-> lo, n |-> h]
    <3>1. SearchTurn(ix, k, left) = new
      BY <1>3, <1>5, <2>6 DEF SearchTurn
    <3>2. ASSUME NEW i \in Entries, ix[i].keys = k PROVE lo <= i /\ i < lo + h
      <4>1. lo <= i /\ i < lo + n
        BY <3>2 DEF Narrowed
      <4>2. ~(m <= i)
        <5>1. m < i => x <= ix[i].keys
          BY <2>2 DEF Rising
        <5> QED BY <1>5, <2>3, <2>4, <2>6, <3>2, <5>1
      <4>3. i \in Nat
        BY <2>4
      <4> HIDE DEF lo, n, h, x
      <4> QED BY <1>1, <1>2, <1>5, <4>1, <4>2, <4>3
    <3>3. h + (t + 1) <= N
      <4> HIDE DEF lo, n, h, x
      <4> QED BY <1>1, <1>2, <1>5, <2>1
    <3> QED BY <3>1, <3>2, <3>3 DEF Narrowed
  <2> QED BY <2>5, <2>6
<1> QED
  BY <1>4, <1>5

\* The bisection finds an entry with the key, if there is one.
LEMMA LookupFinds ==
    ASSUME NEW ix, Rising(ix), NEW k \in Keys
    PROVE  /\ macro_idx_lookup(ix, k) = NULL => \A i \in Entries : ix[i].keys # k
           /\ macro_idx_lookup(ix, k) # NULL => /\ macro_idx_lookup(ix, k) \in Entries
                                                /\ ix[macro_idx_lookup(ix, k)].keys = k
<1> DEFINE N == MACRO_INDEX_COUNT
           g == Search(ix, k)
           T == {t \in 0..N : Narrowed(ix, k, t, g[t])}
<1>1. /\ g \in [0..N -> LeftOvers] /\ g[0] = [lo |-> 0, n |-> N]
      /\ \A t \in 1..N : g[t] = SearchTurn(ix, k, g[t - 1])
  BY SearchUnfolds
<1>2. N \in Nat
  BY Sizes
<1> HIDE DEF g
<1>3. 0 \in T
  <2>1. Narrowed(ix, k, 0, g[0])
    BY <1>1, <1>2 DEF Narrowed, Entries
  <2> QED BY <1>2, <2>1
<1>4. \A t \in 0..(N - 1) : t \in T => t + 1 \in T
  <2> SUFFICES ASSUME NEW t \in 0..(N - 1), Narrowed(ix, k, t, g[t])
               PROVE  Narrowed(ix, k, t + 1, g[t + 1])
    BY <1>2
  <2>1. t + 1 \in 1..N /\ (t + 1) - 1 = t /\ t \in 0..N /\ t \in Nat
    BY <1>2
  <2>2. g[t + 1] = SearchTurn(ix, k, g[t]) /\ g[t] \in LeftOvers
    BY <1>1, <2>1
  <2> QED BY <2>1, <2>2, TurnNarrows
<1>5. Narrowed(ix, k, N, g[N])
  <2> HIDE DEF T
  <2>1. \A t \in 0..N : t \in T
    BY <1>2, <1>3, <1>4, IntervalInduction
  <2> QED BY <1>2, <2>1 DEF T
<1> DEFINE left == g[N]
           n == left.n
<1>6. left \in LeftOvers /\ n \in Nat /\ left.lo \in Nat
  BY <1>1, <1>2, Sizes DEF LeftOvers
<1>7. macro_idx_lookup(ix, k) = IF n = 0 THEN NULL ELSE Middle(left)
  BY DEF macro_idx_lookup, g
<1> HIDE DEF left, N
<1>8. CASE n = 0
  <2>1. ASSUME NEW i \in Entries, ix[i].keys = k PROVE FALSE
    <3>1. left.lo <= i /\ i < left.lo + n /\ i \in Nat
      BY <1>5, <2>1, Sizes DEF Narrowed, left
    <3> QED BY <1>6, <1>8, <3>1
  <2> QED BY <1>7, <1>8, <2>1
<1>9. CASE n # 0
  <2>1. Middle(left) \in Entries /\ Middle(left) # NULL
    BY <1>6, <1>9, TurnType, Sizes DEF NULL
  <2>2. ix[Middle(left)].keys = k
    <3>1. n + N > N
      BY <1>2, <1>6, <1>9 DEF N
    <3> QED BY <1>5, <1>9, <3>1, <1>2, <1>6 DEF Narrowed, left, N
  <2> QED BY <1>7, <1>9, <2>1, <2>2
<1> QED
  BY <1>8, <1>9

(***************************************************************************)
(* The index: what macro_idx_create and macro_idx_remove make of it.       *)
(***************************************************************************)
EntrySet == [keys : Keys, type : {"MACRO", "PROGRAM"}, data : Nat]

\* IndexSorted of an index.
Sorted(ix) ==
    \A i, j \in Entries : i < j => ix[i].keys < ix[j].keys \/ ix[j].keys = NO_TRIGGER

IndexOK(ix) == ix \in [Entries -> EntrySet] /\ Sorted(ix)

\* The committed macros when entry e is being recorded, and where they start.
Done(ix, e) == {i \in Entries : ix[i].keys # NO_TRIGGER /\ ix[i].type = "MACRO" /\ i # e}

Starts(ix, e) == {ix[i].data : i \in Done(ix, e)}

\* No two of them start at the same place.
OneEach(ix, e) == \A i, j \in Done(ix, e) : ix[i].data = ix[j].data => i = j

\* The types of an entry.
LEMMA EntryType ==
    ASSUME NEW ix, IndexOK(ix), NEW i \in Entries
    PROVE  /\ i \in Nat /\ i < MACRO_INDEX_COUNT /\ ix[i] \in EntrySet
           /\ ix[i].keys \in Keys /\ ix[i].keys \in Nat /\ ix[i].keys <= NO_TRIGGER /\ ix[i].data \in Nat
<1>1. ix[i] \in EntrySet
  BY DEF IndexOK
<1>2. ix[i].keys \in Keys /\ ix[i].data \in Nat
  BY <1>1 DEF EntrySet
<1> QED
  BY <1>1, <1>2, Sizes DEF Entries

\* A sorted index can be searched.
LEMMA SortedRises ==
    ASSUME NEW ix, IndexOK(ix)
    PROVE  Rising(ix)
<1>1. ASSUME NEW i \in Entries, NEW j \in Entries, i < j PROVE ix[i].keys <= ix[j].keys
  <2>1. ix[i].keys < ix[j].keys \/ ix[j].keys = NO_TRIGGER
    BY <1>1 DEF IndexOK, Sorted
  <2>2. ix[i].keys \in Nat /\ ix[j].keys \in Nat /\ ix[i].keys <= NO_TRIGGER
    BY EntryType
  <2> QED BY <2>1, <2>2
<1> QED
  BY <1>1, EntryType DEF Rising

\* Behind an unused entry there is none.
LEMMA UnusedBehind ==
    ASSUME NEW ix, IndexOK(ix), NEW i \in Entries, NEW j \in Entries, i <= j, ix[i].keys = NO_TRIGGER
    PROVE  ix[j].keys = NO_TRIGGER
<1>1. ix[i].keys <= ix[j].keys
  <2>1. CASE i = j
    BY <2>1, EntryType
  <2>2. CASE i < j
    BY <2>2, SortedRises DEF Rising
  <2> QED BY <2>1, <2>2, EntryType
<1> QED
  BY <1>1, EntryType, Sizes

\* The place of a new key: all lower ones are before it, all others are not.
LEMMA PositionIs ==
    ASSUME NEW ix, IndexOK(ix), NEW k \in Triggers, \A i \in Entries : ix[i].keys # k,
           ~IndexFull(ix)
    PROVE  /\ CreatePosition(ix, k) \in Entries
           /\ \A i \in Entries : i < CreatePosition(ix, k) => ix[i].keys < k
           /\ \A i \in Entries : i >= CreatePosition(ix, k) => k < ix[i].keys
<1> DEFINE S == {i \in Entries : i = 0 \/ k >= ix[i - 1].keys}
           p == CreatePosition(ix, k)
           N == MACRO_INDEX_COUNT
<1>0. N \in Nat \ {0} /\ k \in Nat /\ k < NO_TRIGGER /\ NO_TRIGGER \in Nat /\ Entries = 0..(N - 1)
  BY Sizes DEF Entries
<1>1. S \in SUBSET Int /\ 0 \in S /\ \A x \in S : x <= N
  BY <1>0
<1>2. PICK m \in S : \A y \in S : m >= y
  <2>1. S # {}
    BY <1>1
  <2>0. N \in Int
    BY <1>0
  <2> HIDE DEF S
  <2> QED BY <1>1, <2>0, <2>1, GreatestElement
<1>3. p \in S /\ \A y \in S : p >= y
  <2>1. p = CHOOSE x \in S : \A y \in S : x >= y
    BY DEF CreatePosition, Max
  <2> HIDE DEF S, p
  <2> QED BY <1>2, <2>1
<1> HIDE DEF p
<1>4. p \in Entries /\ p \in Nat
  BY <1>0, <1>3
<1>5. ASSUME NEW i \in Entries, i < p PROVE ix[i].keys < k
  <2>1. p - 1 \in Entries /\ k >= ix[p - 1].keys /\ i <= p - 1
    <3>1. i \in Nat /\ p # 0
      BY <1>0, <1>4, <1>5
    <3>2. k >= ix[p - 1].keys
      BY <1>3, <3>1
    <3> QED BY <1>0, <1>4, <1>5, <3>1, <3>2
  <2> DEFINE x == ix[p - 1].keys
             y == ix[i].keys
  <2>2. x \in Nat /\ y \in Nat /\ y # k
    BY <2>1, EntryType
  <2>3. i = p - 1 \/ i < p - 1
    BY <2>1, <1>0, <1>4
  <2>4. y <= x
    <3>1. i = p - 1 => y = x
      OBVIOUS
    <3>2. i < p - 1 => y <= x
      BY <2>1, SortedRises DEF Rising
    <3> HIDE DEF x, y
    <3> QED BY <2>2, <2>3, <3>1, <3>2
  <2>5. k >= x
    BY <2>1
  <2> HIDE DEF x, y
  <2>6. y < k
    BY <1>0, <2>2, <2>4, <2>5
  <2> QED BY <2>6 DEF y
<1>6. k < ix[p].keys
  <2>1. ix[p].keys \in Nat
    BY <1>4, EntryType
  <2>2. CASE p = N - 1
    <3>1. ix[p].keys = NO_TRIGGER
      BY <2>2 DEF IndexFull
    <3> QED BY <1>0, <3>1
  <2>3. CASE p # N - 1
    <3>1. p + 1 \in Entries /\ (p + 1) - 1 = p /\ ~(p >= p + 1) /\ p + 1 # 0
      BY <1>0, <1>4, <2>3
    <3>2. p + 1 \notin S
      BY <1>3, <3>1
    <3>3. ~(k >= ix[p].keys)
      BY <3>1, <3>2
    <3> QED BY <1>0, <2>1, <3>3
  <2> QED BY <2>2, <2>3
<1>7. ASSUME NEW i \in Entries, i >= p PROVE k < ix[i].keys
  <2>1. ix[i].keys \in Nat /\ ix[p].keys \in Nat /\ i \in Nat
    BY <1>4, EntryType
  <2>2. i = p \/ p < i
    BY <1>4, <1>7, <2>1
  <2>3. p < i => ix[p].keys <= ix[i].keys
    BY <1>4, SortedRises DEF Rising
  <2> QED BY <1>0, <1>6, <2>1, <2>2, <2>3
<1> QED
  BY <1>4, <1>5, <1>7 DEF p

\* The index with a new entry en for the key in its place.
Inserted(ix, k, en) == [macro_idx_create(ix, k) EXCEPT ![CreatePosition(ix, k)] = en]

\* What is where in it.
LEMMA InsertedAt ==
    ASSUME NEW ix, IndexOK(ix), NEW k \in Triggers, \A i \in Entries : ix[i].keys # k,
           ~IndexFull(ix), NEW en \in EntrySet, en.keys = k, NEW p, p = CreatePosition(ix, k),
           NEW new, new = Inserted(ix, k, en)
    PROVE  /\ p \in Entries /\ new \in [Entries -> EntrySet] /\ new[p] = en
           /\ \A i \in Entries : i < p => new[i] = ix[i]
           /\ \A i \in Entries : i > p => /\ i - 1 \in Entries /\ new[i].keys = ix[i - 1].keys
                                          /\ new[i].keys # NO_TRIGGER => new[i] = ix[i - 1]
           /\ \A i \in Entries : i >= p /\ ix[i].keys # NO_TRIGGER =>
                 i + 1 \in Entries /\ new[i + 1] = ix[i]
<1>0. p \in Entries /\ p \in Nat /\ MACRO_INDEX_COUNT \in Nat \ {0} /\ Entries = 0..(MACRO_INDEX_COUNT - 1)
  BY PositionIs, Sizes DEF Entries
<1> DEFINE cr == macro_idx_create(ix, k)
<1>a. cr = [i \in Entries |->
               CASE i < p -> ix[i]
                 [] i = p -> [ix[i] EXCEPT !.keys = k]
                 [] i > p /\ ix[i - 1].keys # NO_TRIGGER -> ix[i - 1]
                 [] OTHER -> ix[i]]
  BY DEF macro_idx_create
<1>b. new = [cr EXCEPT ![p] = en]
  BY DEF Inserted
<1> HIDE DEF cr
<1>1. /\ new = [i \in Entries |-> new[i]] /\ new[p] = en
      /\ \A i \in Entries : i # p =>
            new[i] = CASE i < p -> ix[i]
                       [] i = p -> [ix[i] EXCEPT !.keys = k]
                       [] i > p /\ ix[i - 1].keys # NO_TRIGGER -> ix[i - 1]
                       [] OTHER -> ix[i]
  BY <1>0, <1>a, <1>b
<1>2. \A i \in Entries : i \in Nat
  BY <1>0
<1>3. ASSUME NEW i \in Entries, i < p PROVE new[i] = ix[i]
  BY <1>0, <1>1, <1>2, <1>3
<1>4. new[p] = en
  BY <1>0, <1>1
<1>5. ASSUME NEW i \in Entries, i > p
      PROVE  /\ i - 1 \in Entries
             /\ new[i] = IF ix[i - 1].keys # NO_TRIGGER THEN ix[i - 1] ELSE ix[i]
  <2>1. i \in Nat /\ i # p /\ ~(i < p) /\ i - 1 \in Entries
    BY <1>0, <1>2, <1>5
  <2> QED BY <1>1, <1>5, <2>1
<1>6. ASSUME NEW i \in Entries, i > p
      PROVE  /\ new[i].keys = ix[i - 1].keys
             /\ new[i].keys # NO_TRIGGER => new[i] = ix[i - 1]
  <2>1. i - 1 \in Entries /\ i - 1 <= i
    BY <1>2, <1>5, <1>6
  <2>2. ix[i - 1].keys = NO_TRIGGER => ix[i].keys = NO_TRIGGER
    BY <2>1, UnusedBehind
  <2> QED BY <1>5, <1>6, <2>2
<1>7. ASSUME NEW i \in Entries, i >= p, ix[i].keys # NO_TRIGGER
      PROVE  i + 1 \in Entries /\ new[i + 1] = ix[i]
  <2>1. i # MACRO_INDEX_COUNT - 1
    BY <1>7 DEF IndexFull
  <2>2. i + 1 \in Entries /\ i + 1 > p /\ (i + 1) - 1 = i
    BY <1>0, <1>2, <1>7, <2>1
  <2> QED BY <1>5, <1>7, <2>2
<1>8. ASSUME NEW i \in Entries PROVE new[i] \in EntrySet
  <2>1. i \in Nat /\ (i < p \/ i = p \/ i > p)
    BY <1>0, <1>2
  <2> QED BY <1>3, <1>4, <1>5, <2>1, EntryType
<1>9. new \in [Entries -> EntrySet]
  BY <1>1, <1>8
<1> QED
  BY <1>0, <1>3, <1>4, <1>5, <1>6, <1>7, <1>9

\* It is sorted, and the committed macros are the same.
LEMMA InsertedOK ==
    ASSUME NEW ix, IndexOK(ix), NEW k \in Triggers, \A i \in Entries : ix[i].keys # k,
           ~IndexFull(ix), NEW en \in EntrySet, en.keys = k, NEW p, p = CreatePosition(ix, k),
           NEW new, new = Inserted(ix, k, en)
    PROVE  /\ IndexOK(new) /\ Starts(new, p) = Starts(ix, NULL)
           /\ OneEach(ix, NULL) => OneEach(new, p)
<1>0. p \in Entries /\ NULL \notin Entries /\ k \in Nat /\ k < NO_TRIGGER /\ p \in Nat
  <2>1. p \in Entries
    BY PositionIs
  <2>2. k \in Nat /\ k < NO_TRIGGER /\ p \in Nat
    BY <2>1, Sizes
  <2> QED BY <2>1, <2>2 DEF NULL, Entries
<1>1. /\ new \in [Entries -> EntrySet] /\ new[p] = en
      /\ \A i \in Entries : i < p => new[i] = ix[i]
  BY InsertedAt
<1>2. \A i \in Entries : i > p => /\ i - 1 \in Entries /\ new[i].keys = ix[i - 1].keys
                                  /\ new[i].keys # NO_TRIGGER => new[i] = ix[i - 1]
  BY InsertedAt
<1>3. \A i \in Entries : i >= p /\ ix[i].keys # NO_TRIGGER => i + 1 \in Entries /\ new[i + 1] = ix[i]
  BY InsertedAt
<1>4. \A i \in Entries : i \in Nat
  BY Sizes
<1>5. ASSUME NEW i \in Entries, NEW j \in Entries, i < j
      PROVE  new[i].keys < new[j].keys \/ new[j].keys = NO_TRIGGER
  <2>0. i \in Nat /\ j \in Nat
    BY <1>4
  <2>1. CASE j < p
    <3>1. i < p
      BY <1>0, <1>5, <2>0, <2>1
    <3> QED BY <1>1, <1>5, <2>1, <3>1 DEF IndexOK, Sorted
  <2>2. CASE j = p
    <3>1. new[i] = ix[i] /\ ix[i].keys < k
      BY <1>1, <1>5, <2>2, PositionIs
    <3> QED BY <1>1, <2>2, <3>1
  <2>3. CASE j > p /\ i = p
    <3>1. j - 1 \in Entries /\ new[j].keys = ix[j - 1].keys /\ j - 1 >= p
      BY <1>0, <1>2, <2>0, <2>3
    <3>2. k < ix[j - 1].keys
      BY <3>1, PositionIs
    <3> QED BY <1>1, <2>3, <3>1, <3>2
  <2>4. CASE j > p /\ i < p
    <3>1. j - 1 \in Entries /\ new[j].keys = ix[j - 1].keys /\ j - 1 >= p
      BY <1>0, <1>2, <2>0, <2>4
    <3>2. k < ix[j - 1].keys /\ ix[i].keys < k /\ new[i] = ix[i]
      BY <1>1, <2>4, <3>1, PositionIs
    <3>3. ix[i].keys \in Nat /\ ix[j - 1].keys \in Nat
      BY <3>1, EntryType
    <3> QED BY <1>0, <3>1, <3>2, <3>3
  <2>5. CASE j > p /\ i > p
    <3>1. /\ j - 1 \in Entries /\ new[j].keys = ix[j - 1].keys
          /\ i - 1 \in Entries /\ new[i].keys = ix[i - 1].keys /\ i - 1 < j - 1
      BY <1>2, <1>5, <2>0, <2>5
    <3>2. ix[i - 1].keys < ix[j - 1].keys \/ ix[j - 1].keys = NO_TRIGGER
      BY <3>1 DEF IndexOK, Sorted
    <3> QED BY <3>1, <3>2
  <2> QED BY <1>0, <2>0, <2>1, <2>2, <2>3, <2>4, <2>5
<1>6. IndexOK(new)
  BY <1>1, <1>5 DEF IndexOK, Sorted
<1>7. ASSUME NEW j \in Done(new, p)
      PROVE  \E i \in Done(ix, NULL) : new[j] = ix[i] /\ (j < p => i = j) /\ (j >= p => i = j - 1 /\ j > p)
  <2>1. j \in Entries /\ new[j].keys # NO_TRIGGER /\ new[j].type = "MACRO" /\ j # p /\ j \in Nat
    BY <1>4 DEF Done
  <2>2. CASE j < p
    <3>1. new[j] = ix[j] /\ j # NULL
      BY <1>0, <1>1, <2>1, <2>2
    <3>2. j \in Done(ix, NULL)
      BY <2>1, <3>1 DEF Done
    <3> QED BY <1>0, <2>1, <2>2, <3>1, <3>2
  <2>3. CASE j > p
    <3>1. new[j] = ix[j - 1] /\ j - 1 \in Entries /\ j - 1 # NULL
      BY <1>0, <1>2, <2>1, <2>3
    <3>2. j - 1 \in Done(ix, NULL)
      BY <2>1, <3>1 DEF Done
    <3> QED BY <1>0, <2>1, <2>3, <3>1, <3>2
  <2> QED BY <1>0, <2>1, <2>2, <2>3
<1>8. ASSUME NEW i \in Done(ix, NULL) PROVE \E j \in Done(new, p) : new[j] = ix[i]
  <2>1. i \in Entries /\ ix[i].keys # NO_TRIGGER /\ ix[i].type = "MACRO" /\ i \in Nat
    BY <1>4 DEF Done
  <2>2. CASE i < p
    <3>1. new[i] = ix[i] /\ i # p
      BY <1>0, <1>1, <2>1, <2>2
    <3> QED BY <2>1, <3>1 DEF Done
  <2>3. CASE i >= p
    <3>1. new[i + 1] = ix[i] /\ i + 1 \in Entries /\ i + 1 # p
      BY <1>0, <1>3, <2>1, <2>3
    <3>2. i + 1 \in Done(new, p)
      BY <2>1, <3>1 DEF Done
    <3> QED BY <3>1, <3>2
  <2> QED BY <1>0, <2>1, <2>2, <2>3
<1>9. Starts(new, p) = Starts(ix, NULL)
  BY <1>7, <1>8 DEF Starts
<1>10. ASSUME OneEach(ix, NULL), NEW j \in Done(new, p), NEW m \in Done(new, p),
              new[j].data = new[m].data
       PROVE  j = m
  <2>1. PICK i \in Done(ix, NULL) : new[j] = ix[i] /\ (j < p => i = j) /\ (j >= p => i = j - 1 /\ j > p)
    BY <1>7
  <2>2. PICK l \in Done(ix, NULL) : new[m] = ix[l] /\ (m < p => l = m) /\ (m >= p => l = m - 1 /\ m > p)
    BY <1>7
  <2>3. i = l
    BY <1>10, <2>1, <2>2 DEF OneEach
  <2>4. j \in Nat /\ m \in Nat /\ i \in Nat
    BY <1>4 DEF Done
  <2> QED BY <1>0, <2>1, <2>2, <2>3, <2>4
<1> QED
  BY <1>6, <1>9, <1>10 DEF OneEach

\* Where macro_idx_remove stops: the first entry from e on that becomes unused.
LEMMA StopIs ==
    ASSUME NEW ix, NEW e \in Entries,
           NEW stop, stop = Min({i \in Entries : i >= e /\ MovedDown(ix, i).keys = NO_TRIGGER})
    PROVE  /\ stop \in Entries /\ stop >= e /\ MovedDown(ix, stop).keys = NO_TRIGGER
           /\ \A i \in Entries : i >= e /\ MovedDown(ix, i).keys = NO_TRIGGER => stop <= i
<1> DEFINE S == {i \in Entries : i >= e /\ MovedDown(ix, i).keys = NO_TRIGGER}
           N == MACRO_INDEX_COUNT
<1>1. N \in Nat \ {0} /\ e \in Nat /\ e <= N - 1 /\ Entries = 0..(N - 1)
  BY Sizes DEF Entries
<1>2. N - 1 \in S
  BY <1>1 DEF MovedDown, empty_entry
<1>3. S \in SUBSET Nat /\ S # {}
  BY <1>1, <1>2
<1>4. stop = CHOOSE x \in S : \A y \in S : x <= y
  BY DEF Min
<1> HIDE DEF S
<1>5. PICK m \in S : \A y \in S : m <= y
  BY <1>3, LeastElement
<1>6. stop \in S /\ \A y \in S : stop <= y
  BY <1>4, <1>5
<1> QED
  BY <1>6 DEF S

\* What is where after macro_idx_remove.
LEMMA RemovedAt ==
    ASSUME NEW ix, IndexOK(ix), NEW e \in Entries, NEW new, new = macro_idx_remove(ix, e)
    PROVE  /\ new \in [Entries -> EntrySet]
           /\ \A i \in Entries : i < e => new[i] = ix[i]
           /\ \A i \in Entries : i >= e /\ new[i].keys # NO_TRIGGER =>
                 i + 1 \in Entries /\ new[i] = ix[i + 1]
           /\ \A i \in Entries : i > e /\ ix[i].keys # NO_TRIGGER =>
                 i - 1 \in Entries /\ new[i - 1] = ix[i]
           /\ \A i \in Entries : i >= e /\ i + 1 \in Entries => new[i].keys = ix[i + 1].keys
<1> DEFINE stop == Min({i \in Entries : i >= e /\ MovedDown(ix, i).keys = NO_TRIGGER})
           N == MACRO_INDEX_COUNT
<1>0. N \in Nat \ {0} /\ e \in Nat /\ e <= N - 1 /\ Entries = 0..(N - 1)
  BY Sizes DEF Entries
<1>1. /\ stop \in Entries /\ stop >= e /\ MovedDown(ix, stop).keys = NO_TRIGGER
      /\ \A i \in Entries : i >= e /\ MovedDown(ix, i).keys = NO_TRIGGER => stop <= i
  BY StopIs
<1>2. new = [i \in Entries |-> IF i \in e..stop THEN MovedDown(ix, i) ELSE ix[i]]
  BY DEF macro_idx_remove
<1> HIDE DEF stop
<1>3. \A i \in Entries : i \in Nat /\ (i = N - 1 \/ i + 1 \in Entries)
  BY <1>0
<1>4. empty_entry \in EntrySet /\ empty_entry.keys = NO_TRIGGER
  BY DEF empty_entry, EntrySet, Keys
<1>5. ASSUME NEW i \in Entries
      PROVE  /\ i = N - 1 => MovedDown(ix, i) = empty_entry
             /\ i # N - 1 => MovedDown(ix, i) = ix[i + 1] /\ i + 1 \in Entries
  BY <1>3 DEF MovedDown
<1>6. ASSUME NEW i \in Entries PROVE MovedDown(ix, i) \in EntrySet
  BY <1>4, <1>5, EntryType
<1>7. new \in [Entries -> EntrySet]
  <2>1. ASSUME NEW i \in Entries PROVE new[i] \in EntrySet
    BY <1>2, <1>6, EntryType
  <2> QED BY <1>2, <2>1
<1>8. ASSUME NEW i \in Entries, i < e PROVE new[i] = ix[i]
  BY <1>0, <1>2, <1>3, <1>8
<1>9. ASSUME NEW i \in Entries, i > stop PROVE ix[i].keys = NO_TRIGGER /\ MovedDown(ix, i).keys = NO_TRIGGER
  <2>1. i \in Nat /\ stop \in Nat /\ stop # N - 1 /\ stop + 1 <= i
    BY <1>0, <1>1, <1>3, <1>9
  <2>2. stop + 1 \in Entries /\ ix[stop + 1].keys = NO_TRIGGER
    BY <1>1, <1>5, <2>1
  <2>3. ix[i].keys = NO_TRIGGER
    BY <2>1, <2>2, UnusedBehind
  <2>4. i # N - 1 => ix[i + 1].keys = NO_TRIGGER
    BY <1>5, <2>1, <2>3, UnusedBehind
  <2> QED BY <1>4, <1>5, <2>3, <2>4
<1>10. ASSUME NEW i \in Entries, i >= e PROVE new[i].keys = MovedDown(ix, i).keys
  <2>1. CASE i <= stop
    BY <1>0, <1>1, <1>2, <1>3, <1>10, <2>1
  <2>2. CASE i > stop
    <3>1. new[i] = ix[i]
      BY <1>0, <1>1, <1>2, <1>3, <2>2
    <3> QED BY <1>9, <2>2, <3>1
  <2>3. i \in Nat /\ stop \in Nat
    BY <1>1, <1>3
  <2> QED BY <2>1, <2>2, <2>3
<1>11. ASSUME NEW i \in Entries, i >= e, MovedDown(ix, i).keys # NO_TRIGGER
       PROVE  new[i] = ix[i + 1] /\ i + 1 \in Entries
  <2>0. i \in Nat /\ stop \in Nat
    BY <1>1, <1>3
  <2>1. i <= stop
    BY <1>9, <1>11, <2>0
  <2>2. new[i] = MovedDown(ix, i)
    BY <1>0, <1>1, <1>2, <1>3, <1>11, <2>1
  <2> QED BY <1>4, <1>5, <1>11, <2>2
<1>12. ASSUME NEW i \in Entries, i > e, ix[i].keys # NO_TRIGGER
       PROVE  i - 1 \in Entries /\ new[i - 1] = ix[i]
  <2>1. i - 1 \in Entries /\ i - 1 >= e /\ (i - 1) + 1 = i /\ i - 1 # N - 1
    BY <1>0, <1>3, <1>12
  <2>2. MovedDown(ix, i - 1) = ix[i]
    BY <1>5, <2>1
  <2> QED BY <1>11, <1>12, <2>1, <2>2
<1>13. ASSUME NEW i \in Entries, i >= e, i + 1 \in Entries PROVE new[i].keys = ix[i + 1].keys
  <2>1. i # N - 1
    BY <1>0, <1>3, <1>13
  <2> QED BY <1>5, <1>10, <1>13, <2>1
<1> QED
  BY <1>7, <1>8, <1>10, <1>11, <1>12, <1>13

\* The index stays sorted, and the other committed macros are the same.
LEMMA RemovedOK ==
    ASSUME NEW ix, IndexOK(ix), NEW e \in Entries, NEW new, new = macro_idx_remove(ix, e)
    PROVE  /\ IndexOK(new) /\ Starts(new, NULL) = Starts(ix, e)
           /\ OneEach(ix, e) => OneEach(new, NULL)
<1>0. e \in Nat /\ NULL \notin Entries
  BY Sizes DEF NULL, Entries
<1>1. /\ new \in [Entries -> EntrySet]
      /\ \A i \in Entries : i < e => new[i] = ix[i]
      /\ \A i \in Entries : i >= e /\ new[i].keys # NO_TRIGGER => i + 1 \in Entries /\ new[i] = ix[i + 1]
  BY RemovedAt
<1>2. \A i \in Entries : i > e /\ ix[i].keys # NO_TRIGGER => i - 1 \in Entries /\ new[i - 1] = ix[i]
  BY RemovedAt
<1>4. \A i \in Entries : i \in Nat
  BY Sizes
<1>3. \A i \in Entries : i >= e /\ i + 1 \in Entries => new[i].keys = ix[i + 1].keys
  BY RemovedAt
<1>5. ASSUME NEW i \in Entries, NEW j \in Entries, i < j, new[j].keys # NO_TRIGGER
      PROVE  new[i].keys < new[j].keys
  <2>0. i \in Nat /\ j \in Nat
    BY <1>4
  <2>1. CASE j < e
    <3>1. i < e /\ new[i] = ix[i] /\ new[j] = ix[j]
      BY <1>0, <1>1, <1>5, <2>0, <2>1
    <3> QED BY <1>5, <3>1 DEF IndexOK, Sorted
  <2>2. CASE j >= e /\ i < e
    <3>1. new[i] = ix[i] /\ new[j] = ix[j + 1] /\ j + 1 \in Entries /\ i < j + 1
      BY <1>0, <1>1, <1>5, <2>0, <2>2
    <3> QED BY <1>5, <3>1 DEF IndexOK, Sorted
  <2>3. CASE i >= e
    <3>1. j >= e
      BY <1>0, <1>5, <2>0, <2>3
    <3>2. new[j] = ix[j + 1] /\ j + 1 \in Entries /\ i + 1 \in Entries /\ i + 1 < j + 1
      <4>1. new[j] = ix[j + 1] /\ j + 1 \in Entries
        BY <1>1, <1>5, <3>1
      <4>2. i + 1 \in Entries /\ i + 1 < j + 1
        BY <1>5, <2>0, Sizes DEF Entries
      <4> QED BY <4>1, <4>2
    <3>3. new[i].keys = ix[i + 1].keys
      BY <1>3, <2>3, <3>2
    <3> QED BY <1>5, <3>2, <3>3 DEF IndexOK, Sorted
  <2> QED BY <1>0, <2>0, <2>1, <2>2, <2>3
<1>6. IndexOK(new)
  BY <1>1, <1>5 DEF IndexOK, Sorted
<1>7. ASSUME NEW j \in Done(new, NULL)
      PROVE  \E i \in Done(ix, e) : new[j] = ix[i] /\ (j < e => i = j) /\ (j >= e => i = j + 1)
  <2>1. j \in Entries /\ new[j].keys # NO_TRIGGER /\ new[j].type = "MACRO" /\ j \in Nat
    BY <1>4 DEF Done
  <2>2. CASE j < e
    <3>1. new[j] = ix[j] /\ j # e
      BY <1>0, <1>1, <2>1, <2>2
    <3>2. j \in Done(ix, e)
      BY <2>1, <3>1 DEF Done
    <3> QED BY <1>0, <2>1, <2>2, <3>1, <3>2
  <2>3. CASE j >= e
    <3>1. new[j] = ix[j + 1] /\ j + 1 \in Entries /\ j + 1 # e
      BY <1>0, <1>1, <2>1, <2>3
    <3>2. j + 1 \in Done(ix, e)
      BY <2>1, <3>1 DEF Done
    <3> QED BY <1>0, <2>1, <2>3, <3>1, <3>2
  <2> QED BY <1>0, <2>1, <2>2, <2>3
<1>8. ASSUME NEW i \in Done(ix, e) PROVE \E j \in Done(new, NULL) : new[j] = ix[i]
  <2>1. i \in Entries /\ ix[i].keys # NO_TRIGGER /\ ix[i].type = "MACRO" /\ i # e /\ i \in Nat
    BY <1>4 DEF Done
  <2>2. CASE i < e
    <3>1. new[i] = ix[i] /\ i # NULL
      BY <1>0, <1>1, <2>1, <2>2
    <3> QED BY <2>1, <3>1 DEF Done
  <2>3. CASE i > e
    <3>1. new[i - 1] = ix[i] /\ i - 1 \in Entries /\ i - 1 # NULL
      BY <1>0, <1>2, <2>1, <2>3
    <3>2. i - 1 \in Done(new, NULL)
      BY <2>1, <3>1 DEF Done
    <3> QED BY <3>1, <3>2
  <2> QED BY <1>0, <2>1, <2>2, <2>3
<1>9. Starts(new, NULL) = Starts(ix, e)
  BY <1>7, <1>8 DEF Starts
<1>10. ASSUME OneEach(ix, e), NEW j \in Done(new, NULL), NEW m \in Done(new, NULL),
              new[j].data = new[m].data
       PROVE  j = m
  <2>1. PICK i \in Done(ix, e) : new[j] = ix[i] /\ (j < e => i = j) /\ (j >= e => i = j + 1)
    BY <1>7
  <2>2. PICK l \in Done(ix, e) : new[m] = ix[l] /\ (m < e => l = m) /\ (m >= e => l = m + 1)
    BY <1>7
  <2>3. i = l
    BY <1>10, <2>1, <2>2 DEF OneEach
  <2>4. j \in Nat /\ m \in Nat /\ i \in Nat
    BY <1>4 DEF Done
  <2> QED BY <1>0, <2>1, <2>2, <2>3, <2>4
<1> QED
  BY <1>6, <1>9, <1>10 DEF OneEach

(***************************************************************************)
(* The macro data: tiles that start at the places of S, each as long as    *)
(* the length stored at its start says, and fill the area up to the end.   *)
(***************************************************************************)
Size(data, s) == data[s] + MACRO_DATA_HEADER_LEN

Tiles(S, data, end) ==
    /\ end \in Nat /\ S \in SUBSET Nat
    /\ \A s \in S : data[s] \in Nat
    /\ \A s \in S : s + Size(data, s) <= end
    /\ \A s, t \in S : s < t => s + Size(data, s) <= t
    /\ \A a \in 0..(end - 1) : \E s \in S : s <= a /\ a < s + Size(data, s)

\* The types of a tile.
LEMMA TileType ==
    ASSUME NEW S, NEW data, NEW end, Tiles(S, data, end), NEW s \in S
    PROVE  s \in Nat /\ Size(data, s) \in Nat /\ Size(data, s) > 0 /\ s < end /\ end \in Nat
<1>1. s \in Nat /\ data[s] \in Nat /\ s + Size(data, s) <= end /\ end \in Nat
  BY DEF Tiles
<1>2. Size(data, s) \in Nat /\ Size(data, s) > 0
  BY <1>1, Sizes DEF Size
<1> QED
  BY <1>1, <1>2

\* They stay when what is behind the end is written.
LEMMA TilesKept ==
    ASSUME NEW S, NEW data, NEW end, Tiles(S, data, end), NEW new,
           \A a \in 0..(end - 1) : new[a] = data[a]
    PROVE  Tiles(S, new, end)
<1>1. ASSUME NEW s \in S PROVE new[s] = data[s]
  <2>1. s \in 0..(end - 1)
    BY TileType
  <2> QED BY <2>1
<1>2. \A s \in S : Size(new, s) = Size(data, s)
  BY <1>1 DEF Size
<1> QED
  BY <1>1, <1>2 DEF Tiles

\* One more tile behind the others.
LEMMA TilesMore ==
    ASSUME NEW S, NEW data, NEW end, Tiles(S, data, end), data[end] \in Nat
    PROVE  Tiles(S \cup {end}, data, end + Size(data, end))
<1> DEFINE l == Size(data, end)
           T == S \cup {end}
<1>1. l \in Nat /\ l > 0 /\ end \in Nat
  BY Sizes DEF Size, Tiles
<1>2. \A s \in S : /\ s \in Nat /\ s < end /\ Size(data, s) \in Nat /\ s + Size(data, s) <= end
                   /\ data[s] \in Nat
  BY TileType DEF Tiles
<1>3. ASSUME NEW s \in T PROVE data[s] \in Nat /\ s \in Nat
  BY <1>1, <1>2
<1>4. ASSUME NEW s \in T PROVE s + Size(data, s) <= end + l
  <2>1. CASE s = end
    BY <2>1, <1>1
  <2>2. CASE s # end
    <3>1. s \in Nat /\ Size(data, s) \in Nat /\ s + Size(data, s) <= end
      BY <1>2, <2>2
    <3> HIDE DEF l
    <3> QED BY <1>1, <3>1
  <2> QED BY <2>1, <2>2
<1>5. ASSUME NEW s \in T, NEW t \in T, s < t PROVE s + Size(data, s) <= t
  <2>1. s # end
    BY <1>1, <1>2, <1>5
  <2>2. CASE t = end
    BY <1>2, <2>1, <2>2
  <2>3. CASE t # end
    BY <1>5, <2>1, <2>3 DEF Tiles
  <2> QED BY <2>2, <2>3
<1>6. ASSUME NEW a \in 0..((end + l) - 1) PROVE \E s \in T : s <= a /\ a < s + Size(data, s)
  <2>0. a \in Nat /\ a < end + l
    BY <1>1
  <2>1. CASE a < end
    <3>1. a \in 0..(end - 1)
      BY <1>1, <2>0, <2>1
    <3> QED BY <3>1 DEF Tiles
  <2>2. CASE a >= end
    BY <1>1, <2>0, <2>2
  <2> QED BY <1>1, <2>0, <2>1, <2>2
<1>7. T \in SUBSET Nat /\ end + l \in Nat
  BY <1>1, <1>3
<1> HIDE DEF T, l
<1>8. Tiles(T, data, end + l)
  BY <1>3, <1>4, <1>5, <1>6, <1>7 DEF Tiles
<1> QED
  BY <1>8 DEF T, l

\* Where a tile starts once the one at o, of length l, is taken out.
Lower(s, o, l) == IF s < o THEN s ELSE s - l

Lowered(S, o, l) == {Lower(s, o, l) : s \in S \ {o}}

\* The tiles behind move down by its length.
LEMMA TilesLess ==
    ASSUME NEW S, NEW data, NEW end, Tiles(S, data, end), NEW o \in S,
           NEW l, l = Size(data, o), NEW new,
           \A a \in 0..(end - l - 1) : new[a] = data[IF a < o THEN a ELSE a + l]
    PROVE  /\ Tiles(Lowered(S, o, l), new, end - l)
           /\ \A s \in S \ {o} : s < o \/ o + l <= s
<1> DEFINE T == S \ {o}
           D(s) == Lower(s, o, l)
           Z(s) == Size(data, s)
           U == {D(s) : s \in T}
<1>1. o \in Nat /\ l \in Nat /\ l > 0 /\ end \in Nat /\ o + l <= end
  BY TileType DEF Tiles
<1>2. ASSUME NEW s \in T
      PROVE  /\ s \in Nat /\ Z(s) \in Nat /\ Z(s) > 0 /\ s + Z(s) <= end
             /\ s < o => s + Z(s) <= o
             /\ s < o \/ o + l <= s
  <2>1. s \in Nat /\ Z(s) \in Nat /\ Z(s) > 0 /\ s + Z(s) <= end
    BY TileType DEF Tiles
  <2>2. s < o => s + Z(s) <= o
    BY DEF Tiles
  <2>3. o < s => o + l <= s
    BY DEF Tiles
  <2> QED BY <1>1, <2>1, <2>2, <2>3
<1>3. ASSUME NEW s \in T
      PROVE  /\ s < o => D(s) = s
             /\ ~(s < o) => D(s) = s - l
             /\ D(s) \in Nat /\ D(s) + Z(s) <= end - l
  <2>1. s < o => D(s) = s
    BY DEF Lower
  <2>2. ~(s < o) => D(s) = s - l
    BY DEF Lower
  <2> DEFINE d == D(s)
             z == Z(s)
  <2>3. /\ s \in Nat /\ z \in Nat /\ z > 0 /\ s + z <= end
        /\ s < o => s + z <= o
        /\ s < o \/ o + l <= s
    BY <1>2
  <2>4. (s < o => d = s) /\ (~(s < o) => d = s - l)
    BY <2>1, <2>2
  <2> HIDE DEF d, z
  <2>5. d \in Nat /\ d + z <= end - l
    BY <1>1, <2>3, <2>4
  <2> QED BY <2>1, <2>2, <2>5 DEF d, z
<1>4. ASSUME NEW s \in T PROVE new[D(s)] = data[s] /\ Size(new, D(s)) = Z(s) /\ data[s] \in Nat
  <2> DEFINE d == D(s)
             z == Z(s)
  <2>1. /\ s \in Nat /\ z \in Nat /\ z > 0
        /\ s < o \/ o + l <= s
        /\ s < o => d = s
        /\ ~(s < o) => d = s - l
        /\ d \in Nat /\ d + z <= end - l
    BY <1>2, <1>3
  <2>2. d \in 0..(end - l - 1) /\ (IF d < o THEN d ELSE d + l) = s
    <3> HIDE DEF d, z
    <3> QED BY <1>1, <2>1
  <2>3. new[d] = data[s]
    <3> HIDE DEF d, z
    <3> QED BY <2>2
  <2> QED BY <2>3 DEF Size, Tiles
<1> HIDE DEF Z, D, T
<1>5. ASSUME NEW s \in T, NEW t \in T, D(s) < D(t) PROVE D(s) + Z(s) <= D(t)
  <2> DEFINE ds == D(s)
             dt == D(t)
             z == Z(s)
  <2>1. /\ s \in Nat /\ z \in Nat /\ z > 0 /\ s + z <= end
        /\ s < o => s + z <= o
        /\ s < o \/ o + l <= s
        /\ s < o => ds = s
        /\ ~(s < o) => ds = s - l
    BY <1>2, <1>3
  <2>2. /\ t \in Nat
        /\ t < o \/ o + l <= t
        /\ t < o => dt = t
        /\ ~(t < o) => dt = t - l
    BY <1>2, <1>3
  <2>3. s < t => s + z <= t
    BY DEF Tiles, Z, T
  <2>4. ds < dt
    BY <1>5
  <2> HIDE DEF ds, dt, z
  <2>5. ds + z <= dt
    BY <1>1, <2>1, <2>2, <2>3, <2>4
  <2> QED BY <2>5 DEF ds, dt, z
<1>6. ASSUME NEW a \in 0..((end - l) - 1)
      PROVE  \E s \in T : D(s) <= a /\ a < D(s) + Z(s)
  <2> DEFINE b == IF a < o THEN a ELSE a + l
  <2>0. a \in Nat /\ b \in 0..(end - 1)
    BY <1>1
  <2>1. PICK s \in S : s <= b /\ b < s + Z(s)
    BY <2>0 DEF Tiles, Z
  <2>2. s # o
    <3>1. Z(o) = l
      BY DEF Z
    <3> QED BY <1>1, <2>0, <2>1, <3>1
  <2>3. s \in T
    BY <2>2 DEF T
  <2> DEFINE d == D(s)
             z == Z(s)
  <2>4. /\ s \in Nat /\ z \in Nat /\ z > 0
        /\ s < o => s + z <= o
        /\ s < o \/ o + l <= s
        /\ s < o => d = s
        /\ ~(s < o) => d = s - l
        /\ s <= b /\ b < s + z
    BY <1>2, <1>3, <2>1, <2>3
  <2>5. d <= a /\ a < d + z
    <3> HIDE DEF d, z
    <3> QED BY <1>1, <2>0, <2>4
  <2> QED BY <2>3, <2>5
<1>7. U \in SUBSET Nat /\ end - l \in Nat
  BY <1>1, <1>3
<1>8. \A u \in U : new[u] \in Nat /\ u + Size(new, u) <= end - l
  BY <1>3, <1>4
<1>9. ASSUME NEW u \in U, NEW v \in U, u < v PROVE u + Size(new, u) <= v
  <2>1. PICK s \in T : u = D(s)
    OBVIOUS
  <2>2. PICK t \in T : v = D(t)
    OBVIOUS
  <2> QED BY <1>4, <1>5, <1>9, <2>1, <2>2
<1>10. ASSUME NEW a \in 0..((end - l) - 1) PROVE \E u \in U : u <= a /\ a < u + Size(new, u)
  <2>1. PICK s \in T : D(s) <= a /\ a < D(s) + Z(s)
    BY <1>6
  <2>2. D(s) \in U /\ Size(new, D(s)) = Z(s)
    BY <1>4
  <2> QED BY <2>1, <2>2
<1> HIDE DEF U
<1>11. Tiles(U, new, end - l)
  BY <1>7, <1>8, <1>9, <1>10 DEF Tiles
<1> QED
  BY <1>2, <1>11 DEF U, D, T, Lowered

(***************************************************************************)
(* delete_macro_data.                                                      *)
(***************************************************************************)

\* The storage between two calls of the same recording.
DataOK(ix, e, data, end) ==
    /\ IndexOK(ix) /\ OneEach(ix, e)
    /\ IsArray(data, Addresses) /\ end \in 0..STORAGE_SIZE
    /\ Tiles(Starts(ix, e), data, end)

\* An offset that fits its 16 bits does not wrap.
LEMMA NoWrap ==
    ASSUME NEW x \in Nat, x < 65536
    PROVE  x % 65536 = x
  OBVIOUS

\* The entry of a program keeps what is stored.
LEMMA DeletedProgram ==
    ASSUME NEW ix, NEW data, NEW end, NEW e, ix[e].type # "MACRO"
    PROVE  delete_macro_data(ix, end, data, e) = [index |-> ix, end |-> end, data |-> data]
  BY DEF delete_macro_data

\* What is left when the macro of entry e is deleted.
LEMMA DeletedMacro ==
    ASSUME NEW ix, NEW data, NEW end, DataOK(ix, NULL, data, end), NEW e \in Done(ix, NULL),
           NEW left, left = delete_macro_data(ix, end, data, e),
           NEW o, o = ix[e].data, NEW l, l = Size(data, o)
    PROVE  /\ o \in Nat /\ l \in Nat /\ l > 0 /\ o + l <= end
           /\ left.end = end - l
           /\ left.index \in [Entries -> EntrySet]
           /\ \A i \in Entries : /\ left.index[i].keys = ix[i].keys
                                 /\ left.index[i].type = ix[i].type
           /\ \A i \in Done(ix, NULL) \ {e} : left.index[i].data = Lower(ix[i].data, o, l)
           /\ IsArray(left.data, Addresses)
           /\ \A a \in 0..(end - l - 1) : left.data[a] = data[IF a < o THEN a ELSE a + l]
<1> DEFINE rest == (end - (o + l)) % 65536
           S == Starts(ix, NULL)
<1>1. o \in S /\ Tiles(S, data, end) /\ IndexOK(ix) /\ IsArray(data, Addresses) /\ end \in 0..STORAGE_SIZE
  BY DEF DataOK, Starts
<1> HIDE DEF S
<1>2. o \in Nat /\ l \in Nat /\ l > 0 /\ end \in Nat /\ o + l <= end
  <2>1. o \in Nat /\ l \in Nat /\ l > 0 /\ end \in Nat
    BY <1>1, TileType
  <2>2. o + l <= end
    BY <1>1 DEF Tiles
  <2> QED BY <2>1, <2>2
<1>3. end <= 32768 /\ STORAGE_SIZE \in Nat /\ end <= STORAGE_SIZE
  BY <1>1, <1>2, Sizes
<1>4. rest = end - (o + l) /\ (end - l) % 65536 = end - l
  <2> DEFINE x == end - (o + l)
             y == end - l
  <2>1. x \in Nat /\ x < 65536 /\ y \in Nat /\ y < 65536
    BY <1>2, <1>3
  <2>2. rest = x % 65536
    OBVIOUS
  <2> HIDE DEF x, y, rest
  <2>3. x % 65536 = x /\ y % 65536 = y
    BY <2>1, NoWrap
  <2> QED BY <2>2, <2>3 DEF x, y
<1>5. ix[e].type = "MACRO" /\ e \in Entries
  BY DEF Done
<1>6. left = [index |-> IF rest # 0 THEN ShiftDown(ix, o, l) ELSE ix,
              end   |-> (end - l) % 65536,
              data  |-> IF rest # 0 THEN MoveDown(data, o, o + l, rest) ELSE data]
  BY <1>5 DEF delete_macro_data, Size
<1> HIDE DEF rest
<1>7. left.end = end - l
  BY <1>4, <1>6
<1>8. CASE rest = 0
  <2>1. left.index = ix /\ left.data = data /\ end = o + l
    BY <1>2, <1>4, <1>6, <1>8
  <2>2. ASSUME NEW i \in Done(ix, NULL) \ {e} PROVE ix[i].data = Lower(ix[i].data, o, l)
    <3>1. ix[i].data \in S
      BY DEF S, Starts
    <3>2. ix[i].data # o
      BY <1>1 DEF DataOK, OneEach
    <3> DEFINE s == ix[i].data
    <3>3. s \in Nat /\ s < end /\ (o < s => o + l <= s)
      <4>1. s \in Nat /\ s < end
        BY <1>1, <3>1, TileType
      <4>2. o < s => o + l <= s
        BY <1>1, <3>1 DEF Tiles
      <4> QED BY <4>1, <4>2
    <3> HIDE DEF s
    <3>4. s < o
      BY <1>2, <2>1, <3>2, <3>3 DEF s
    <3> QED BY <3>4 DEF Lower, s
  <2>3. ASSUME NEW a \in 0..(end - l - 1) PROVE a < o
    BY <1>2, <2>1
  <2>4. left.index \in [Entries -> EntrySet]
    BY <1>1, <2>1 DEF IndexOK
  <2> QED BY <1>1, <1>2, <1>7, <2>1, <2>2, <2>3, <2>4
<1>9. CASE rest # 0
  <2>1. left.index = ShiftDown(ix, o, l) /\ left.data = MoveDown(data, o, o + l, rest)
    BY <1>6, <1>9
  <2>2. ASSUME NEW i \in Entries
        PROVE  /\ left.index[i].keys = ix[i].keys /\ left.index[i].type = ix[i].type
               /\ left.index[i] \in EntrySet
    <3> DEFINE en == ix[i]
    <3>0. en \in EntrySet /\ en.data \in Nat
      BY <1>1, EntryType
    <3>1. \/ left.index[i] = en
          \/ en.data > o /\ en.type = "MACRO" /\ (\A j \in 0..i : ix[j].keys # NO_TRIGGER)
                /\ left.index[i] = [en EXCEPT !.data = @ - l]
      BY <2>1 DEF ShiftDown
    <3>2. CASE left.index[i] = en
      BY <3>0, <3>2
    <3>3. CASE en.data > o /\ en.type = "MACRO" /\ (\A j \in 0..i : ix[j].keys # NO_TRIGGER)
                /\ left.index[i] = [en EXCEPT !.data = @ - l]
      <4>1. en.data \in S
        <5>1. i \in Nat /\ i \in 0..i /\ NULL \notin Entries
          BY Sizes DEF NULL, Entries
        <5>2. i \in Done(ix, NULL)
          BY <3>3, <5>1 DEF Done
        <5> QED BY <5>2 DEF S, Starts
      <4>2. en.data - l \in Nat
        <5> DEFINE s == en.data
        <5>1. s \in Nat /\ (o < s => o + l <= s) /\ s > o
          BY <1>1, <3>0, <3>3, <4>1 DEF Tiles
        <5> HIDE DEF s
        <5>2. s - l \in Nat
          BY <1>2, <5>1
        <5> QED BY <5>2 DEF s
      <4> HIDE DEF en
      <4> QED BY <3>0, <3>3, <4>2 DEF EntrySet, en
    <3> QED BY <3>1, <3>2, <3>3
  <2>3. left.index \in [Entries -> EntrySet]
    <3>1. left.index = [i \in Entries |-> left.index[i]]
      BY <2>1 DEF ShiftDown
    <3> QED BY <2>2, <3>1
  <2>4. ASSUME NEW i \in Done(ix, NULL) \ {e} PROVE left.index[i].data = Lower(ix[i].data, o, l)
    <3> DEFINE s == ix[i].data
    <3>1. i \in Entries /\ ix[i].keys # NO_TRIGGER /\ ix[i].type = "MACRO" /\ s \in S
      BY DEF Done, S, Starts
    <3>2. s # o
      BY <1>1 DEF DataOK, OneEach
    <3>3. s \in Nat
      BY <1>1, <3>1, TileType
    <3>4. \A j \in 0..i : ix[j].keys # NO_TRIGGER
      <4> SUFFICES ASSUME NEW j \in 0..i, ix[j].keys = NO_TRIGGER PROVE FALSE
        OBVIOUS
      <4>1. j \in Entries /\ j <= i
        BY <3>1, Sizes DEF Entries
      <4> QED BY <1>1, <3>1, <4>1, UnusedBehind
    <3>5. CASE s > o
      <4>1. left.index[i] = [ix[i] EXCEPT !.data = @ - l]
        BY <2>1, <3>1, <3>4, <3>5 DEF ShiftDown
      <4>2. left.index[i].data = s - l
        BY <1>1, <3>1, <4>1, EntryType DEF EntrySet
      <4> HIDE DEF s
      <4> QED BY <1>2, <3>3, <3>5, <4>2 DEF Lower, s
    <3>6. CASE ~(s > o)
      <4>1. left.index[i] = ix[i]
        BY <2>1, <3>1, <3>6 DEF ShiftDown
      <4>2. left.index[i].data = s
        BY <4>1
      <4>3. s < o
        <5> HIDE DEF s
        <5> QED BY <1>2, <3>2, <3>3, <3>6 DEF s
      <4> QED BY <4>2, <4>3 DEF Lower
    <3> QED BY <3>5, <3>6
  <2>5. IsArray(left.data, Addresses)
    BY <2>1 DEF MoveDown, IsArray
  <2>6. ASSUME NEW a \in 0..(end - l - 1)
        PROVE  left.data[a] = data[IF a < o THEN a ELSE a + l]
    <3>1. a \in Nat /\ a \in Addresses /\ a + l \in Addresses /\ (o + l) - o = l
      BY <1>2, <1>3 DEF Addresses
    <3>2. a \in o..(o + rest - 1) <=> ~(a < o)
      BY <1>2, <1>4, <3>1
    <3>3. left.data[a] = IF a \in o..(o + rest - 1) /\ a + l \in Addresses THEN data[a + l] ELSE data[a]
      BY <2>1, <3>1 DEF MoveDown
    <3> QED BY <3>1, <3>2, <3>3
  <2> QED BY <1>2, <1>7, <2>2, <2>3, <2>4, <2>5, <2>6
<1> QED
  BY <1>8, <1>9

(***************************************************************************)
(* What the operations of Macros make of a storage that is in order.       *)
(***************************************************************************)

\* A recording goes right behind the committed macros, into an entry of its own.
RecordingOK(ix, end, rec) ==
    \/ rec = NotRecording
    \/ /\ rec \in [macro : Nat, cursor : Nat, index_entry : Entries]
       /\ rec.macro = end /\ EventsAt(end) <= rec.cursor
       /\ rec.cursor > EventsAt(end) => rec.cursor <= STORAGE_SIZE
       /\ ix[rec.index_entry].data = end
       /\ ix[rec.index_entry].keys # NO_TRIGGER /\ ix[rec.index_entry].type = "MACRO"

StorageOK(ix, end, data, rec) ==
    DataOK(ix, rec.index_entry, data, end) /\ RecordingOK(ix, end, rec)

\* Recording a key again: its macro goes, its entry waits for the new one.
LEMMA AgainOK ==
    ASSUME NEW ix, NEW data, NEW end, DataOK(ix, NULL, data, end),
           NEW e \in Entries, ix[e].keys # NO_TRIGGER,
           NEW left, left = delete_macro_data(ix, end, data, e),
           NEW new, new = EntryAt(left.index, e, left.end)
    PROVE  /\ DataOK(new, e, left.data, left.end) /\ left.end \in Nat
           /\ new[e] = [keys |-> ix[e].keys, type |-> "MACRO", data |-> left.end]
<1>0. NULL \notin Entries /\ IndexOK(ix)
  BY Sizes DEF NULL, Entries, DataOK
<1>1. CASE ix[e].type # "MACRO"
  <2>1. left.index = ix /\ left.end = end /\ left.data = data
    BY <1>1, DeletedProgram
  <2>2. new = [ix EXCEPT ![e] = [keys |-> ix[e].keys, type |-> "MACRO", data |-> end]]
    BY <2>1 DEF EntryAt
  <2>3. end \in Nat
    BY Sizes DEF DataOK, Tiles
  <2> DEFINE en == [keys |-> ix[e].keys, type |-> "MACRO", data |-> end]
  <2>4. en \in EntrySet
    BY <1>0, <2>3, EntryType DEF EntrySet
  <2>5. ix \in [Entries -> EntrySet]
    BY <1>0 DEF IndexOK
  <2>6. new \in [Entries -> EntrySet] /\ new[e] = en /\ \A i \in Entries : i # e => new[i] = ix[i]
    <3> HIDE DEF en
    <3> QED BY <2>2, <2>4, <2>5 DEF en
  <2>7. \A i \in Entries : new[i].keys = ix[i].keys
    BY <2>6
  <2>8. IndexOK(new)
    BY <1>0, <2>6, <2>7 DEF IndexOK, Sorted
  <2>9. Done(new, e) = Done(ix, NULL) /\ \A i \in Done(ix, NULL) : new[i] = ix[i]
    BY <1>0, <1>1, <2>6 DEF Done
  <2>10. Starts(new, e) = Starts(ix, NULL) /\ OneEach(new, e)
    BY <2>9 DEF Starts, OneEach, DataOK
  <2> QED BY <2>1, <2>3, <2>6, <2>8, <2>10 DEF DataOK
<1>2. CASE ix[e].type = "MACRO"
  <2> DEFINE o == ix[e].data
             l == Size(data, o)
             S == Starts(ix, NULL)
  <2>1. e \in Done(ix, NULL)
    BY <1>0, <1>2 DEF Done
  <2>2. /\ o \in Nat /\ l \in Nat /\ l > 0 /\ o + l <= end
        /\ left.end = end - l /\ left.index \in [Entries -> EntrySet]
        /\ \A i \in Entries : left.index[i].keys = ix[i].keys /\ left.index[i].type = ix[i].type
        /\ \A i \in Done(ix, NULL) \ {e} : left.index[i].data = Lower(ix[i].data, o, l)
        /\ IsArray(left.data, Addresses)
        /\ \A a \in 0..(end - l - 1) : left.data[a] = data[IF a < o THEN a ELSE a + l]
    BY <2>1, DeletedMacro
  <2>3. o \in S /\ Tiles(S, data, end)
    BY <2>1 DEF Starts, DataOK
  <2>4. /\ Tiles(Lowered(S, o, l), left.data, left.end)
        /\ \A s \in S \ {o} : s < o \/ o + l <= s
    <3>1. \A a \in 0..(end - l - 1) : left.data[a] = data[IF a < o THEN a ELSE a + l]
      BY <2>2
    <3>2. left.end = end - l /\ l = Size(data, o)
      BY <2>2
    <3> HIDE DEF o, S, l
    <3> QED BY <2>3, <3>1, <3>2, TilesLess
  <2> HIDE DEF l
  <2>5. end \in Nat /\ left.end \in Nat /\ left.end \in 0..STORAGE_SIZE
    <3>1. end \in Nat /\ end \in 0..STORAGE_SIZE /\ STORAGE_SIZE \in Nat
      BY Sizes DEF DataOK, Tiles
    <3> HIDE DEF o
    <3> QED BY <2>2, <3>1
  <2> DEFINE en == [keys |-> ix[e].keys, type |-> "MACRO", data |-> left.end]
  <2>6. en \in EntrySet
    BY <1>0, <2>5, EntryType DEF EntrySet
  <2>7. new = [left.index EXCEPT ![e] = en]
    BY <2>2 DEF EntryAt
  <2>8. new \in [Entries -> EntrySet] /\ new[e] = en /\ \A i \in Entries : i # e => new[i] = left.index[i]
    <3> HIDE DEF en
    <3> QED BY <2>2, <2>6, <2>7
  <2>9. \A i \in Entries : new[i].keys = ix[i].keys
    BY <2>2, <2>8
  <2>10. IndexOK(new)
    BY <1>0, <2>8, <2>9 DEF IndexOK, Sorted
  <2>11. Done(new, e) = Done(ix, NULL) \ {e}
    BY <1>0, <2>2, <2>8, <2>9 DEF Done
  <2>12. \A i \in Done(new, e) : new[i].data = Lower(ix[i].data, o, l)
    BY <2>2, <2>8, <2>11 DEF Done
  <2>13. \A i \in Done(ix, NULL) \ {e} : ix[i].data \in S \ {o}
    BY <2>1 DEF DataOK, OneEach, Starts
  <2>14. \A s \in S \ {o} : \E i \in Done(ix, NULL) \ {e} : ix[i].data = s
    BY DEF Starts
  <2> HIDE DEF o
  <2>15. Starts(new, e) = Lowered(S, o, l)
    <3>1. ASSUME NEW x \in Starts(new, e) PROVE x \in Lowered(S, o, l)
      <4>1. PICK i \in Done(new, e) : x = new[i].data
        BY DEF Starts
      <4> QED BY <2>11, <2>12, <2>13, <4>1 DEF Lowered
    <3>2. ASSUME NEW s \in S \ {o} PROVE Lower(s, o, l) \in Starts(new, e)
      <4>1. PICK i \in Done(ix, NULL) \ {e} : ix[i].data = s
        BY <2>14
      <4> QED BY <2>11, <2>12, <4>1 DEF Starts
    <3> QED BY <3>1, <3>2 DEF Lowered
  <2>16. OneEach(new, e)
    <3> SUFFICES ASSUME NEW i \in Done(new, e), NEW j \in Done(new, e), new[i].data = new[j].data
                 PROVE  i = j
      BY DEF OneEach
    <3> DEFINE s == ix[i].data
               t == ix[j].data
    <3>1. s \in S \ {o} /\ t \in S \ {o} /\ Lower(s, o, l) = Lower(t, o, l)
      BY <2>11, <2>12, <2>13
    <3>2. s \in Nat /\ t \in Nat /\ (s < o \/ o + l <= s) /\ (t < o \/ o + l <= t)
      BY <2>3, <2>4, <3>1, TileType
    <3>3. s = t
      <4> HIDE DEF s, t
      <4> QED BY <2>2, <3>1, <3>2 DEF Lower
    <3> QED BY <2>11, <3>3 DEF DataOK, OneEach
  <2> QED BY <2>2, <2>4, <2>5, <2>8, <2>10, <2>15, <2>16 DEF DataOK
<1> QED
  BY <1>1, <1>2

\* A new entry, for a recording or a program.
LEMMA NewOK ==
    ASSUME NEW ix, NEW data, NEW end, DataOK(ix, NULL, data, end), NEW k \in Triggers,
           macro_idx_lookup(ix, k) = NULL, ~IndexFull(ix), NEW en \in EntrySet, en.keys = k,
           NEW p, p = CreatePosition(ix, k), NEW new, new = Inserted(ix, k, en)
    PROVE  /\ p \in Entries /\ new[p] = en /\ DataOK(new, p, data, end)
           /\ en.type # "MACRO" => DataOK(new, NULL, data, end)
<1>1. IndexOK(ix) /\ OneEach(ix, NULL)
  BY DEF DataOK
<1>2. \A i \in Entries : ix[i].keys # k
  <2>1. k \in Keys
    BY DEF Keys
  <2> QED BY <1>1, <2>1, SortedRises, LookupFinds
<1>3. p \in Entries /\ new[p] = en
  BY <1>1, <1>2, InsertedAt
<1>4. IndexOK(new) /\ Starts(new, p) = Starts(ix, NULL) /\ OneEach(new, p)
  BY <1>1, <1>2, InsertedOK
<1>5. DataOK(new, p, data, end)
  BY <1>4 DEF DataOK
<1>6. ASSUME en.type # "MACRO" PROVE Done(new, p) = Done(new, NULL)
  BY <1>3, <1>6, Sizes DEF Done, NULL, Entries
<1>7. ASSUME en.type # "MACRO" PROVE DataOK(new, NULL, data, end)
  <2>1. Done(new, p) = Done(new, NULL)
    BY <1>6, <1>7
  <2>2. Starts(new, p) = Starts(new, NULL)
    BY <2>1 DEF Starts
  <2>3. OneEach(new, NULL)
    BY <1>4, <2>1 DEF OneEach
  <2> QED BY <1>5, <2>2, <2>3 DEF DataOK
<1> QED
  BY <1>3, <1>5, <1>7

\* The recorded macro is committed.
LEMMA CommitOK ==
    ASSUME NEW ix, NEW data, NEW end, NEW rec, StorageOK(ix, end, data, rec), rec # NotRecording,
           NEW r, r = rec.cursor - EventsAt(rec.macro), r # 0,
           NEW new, new = [data EXCEPT ![rec.macro] = r]
    PROVE  /\ DataOK(ix, NULL, new, (end + r + MACRO_DATA_HEADER_LEN) % 65536)
           /\ r \in Nat /\ rec.macro \in Addresses
<1> DEFINE e == rec.index_entry
           h == MACRO_DATA_HEADER_LEN
           c == rec.cursor
<1>0. end \in Nat /\ h \in Nat \ {0} /\ STORAGE_SIZE \in Nat /\ STORAGE_SIZE <= 32768
  BY Sizes DEF StorageOK, DataOK, Tiles
<1>1. /\ rec.macro = end /\ c \in Nat /\ e \in Entries
      /\ end + h <= c /\ (c > end + h => c <= STORAGE_SIZE)
      /\ ix[e].data = end /\ ix[e].keys # NO_TRIGGER /\ ix[e].type = "MACRO"
  BY DEF StorageOK, RecordingOK, EventsAt
<1>2. r = c - (end + h)
  BY <1>1 DEF EventsAt
<1>3. DataOK(ix, e, data, end)
  BY DEF StorageOK
<1> HIDE DEF e, h, c
<1>4. r \in Nat /\ r > 0 /\ end + r + h = c /\ c <= STORAGE_SIZE /\ end < STORAGE_SIZE /\ c < 65536
  BY <1>0, <1>1, <1>2
<1>5. (end + r + h) % 65536 = c
  BY <1>1, <1>4, NoWrap
<1>6. end \in Addresses /\ new = [data EXCEPT ![end] = r] /\ IsArray(data, Addresses)
  BY <1>0, <1>1, <1>3, <1>4 DEF Addresses, DataOK
<1>7. IsArray(new, Addresses) /\ new[end] = r /\ \A a \in Addresses : a # end => new[a] = data[a]
  BY <1>6 DEF IsArray
<1>8. Tiles(Starts(ix, e), new, end)
  <2>1. \A a \in 0..(end - 1) : a \in Addresses /\ a # end
    BY <1>0, <1>4 DEF Addresses
  <2>2. \A a \in 0..(end - 1) : new[a] = data[a]
    BY <1>7, <2>1
  <2>3. Tiles(Starts(ix, e), data, end)
    BY <1>3 DEF DataOK
  <2> QED BY <2>2, <2>3, TilesKept
<1>9. Tiles(Starts(ix, e) \cup {end}, new, c)
  <2>1. Size(new, end) = r + h /\ end + (r + h) = c
    BY <1>0, <1>4, <1>7 DEF Size, h
  <2>2. Tiles(Starts(ix, e) \cup {end}, new, end + Size(new, end))
    <3>1. new[end] \in Nat
      BY <1>4, <1>7
    <3> QED BY <1>8, <3>1, TilesMore
  <2> QED BY <2>1, <2>2
<1>10. Done(ix, NULL) = Done(ix, e) \cup {e}
  BY <1>1, Sizes DEF Done, NULL, Entries
<1>11. Starts(ix, NULL) = Starts(ix, e) \cup {end}
  BY <1>1, <1>10 DEF Starts
<1>12. OneEach(ix, NULL)
  <2>1. \A i \in Done(ix, e) : ix[i].data # end
    <3> SUFFICES ASSUME NEW i \in Done(ix, e), ix[i].data = end PROVE FALSE
      OBVIOUS
    <3>1. end \in Starts(ix, e)
      BY DEF Starts
    <3>2. end < end
      BY <1>8, <3>1, TileType
    <3> QED BY <1>0, <3>2
  <2> QED BY <1>1, <1>3, <1>10, <2>1 DEF OneEach, DataOK
<1>13. c \in 0..STORAGE_SIZE
  BY <1>0, <1>1, <1>4
<1> QED
  BY <1>1, <1>3, <1>4, <1>5, <1>6, <1>7, <1>9, <1>11, <1>12, <1>13 DEF DataOK, h

\* The recording is given up.
LEMMA AbortOK ==
    ASSUME NEW ix, NEW data, NEW end, NEW rec, StorageOK(ix, end, data, rec), rec # NotRecording
    PROVE  DataOK(macro_idx_remove(ix, rec.index_entry), NULL, data, end)
<1>1. rec.index_entry \in Entries /\ DataOK(ix, rec.index_entry, data, end)
  BY DEF StorageOK, RecordingOK
<1> QED
  BY <1>1, RemovedOK DEF DataOK

\* An event is recorded.
LEMMA AppendOK ==
    ASSUME NEW ix, NEW data, NEW end, NEW rec, StorageOK(ix, end, data, rec), rec # NotRecording,
           rec.cursor \in Addresses, NEW v, NEW new, new = [data EXCEPT ![rec.cursor] = v],
           NEW rec2, rec2 = [rec EXCEPT !.cursor = @ + 1]
    PROVE  StorageOK(ix, end, new, rec2)
<1> DEFINE e == rec.index_entry
           h == MACRO_DATA_HEADER_LEN
           c == rec.cursor
<1>0. end \in Nat /\ h \in Nat \ {0} /\ STORAGE_SIZE \in Nat
  BY Sizes DEF StorageOK, DataOK, Tiles
<1>1. /\ rec \in [macro : Nat, cursor : Nat, index_entry : Entries]
      /\ rec.macro = end /\ c \in Nat /\ e \in Entries /\ end + h <= c
      /\ ix[e].data = end /\ ix[e].keys # NO_TRIGGER /\ ix[e].type = "MACRO"
  BY DEF StorageOK, RecordingOK, EventsAt
<1>2. c < STORAGE_SIZE /\ IsArray(data, Addresses) /\ DataOK(ix, e, data, end)
  BY <1>0, <1>1 DEF Addresses, StorageOK, DataOK
<1>3. /\ rec2 \in [macro : Nat, cursor : Nat, index_entry : Entries]
      /\ rec2.macro = end /\ rec2.cursor = c + 1 /\ rec2.index_entry = e
  BY <1>1
<1> HIDE DEF e, h, c
<1>4. end + h <= c + 1 /\ c + 1 <= STORAGE_SIZE
  BY <1>0, <1>1, <1>2
<1>5. RecordingOK(ix, end, rec2)
  BY <1>1, <1>3, <1>4 DEF RecordingOK, EventsAt, h
<1>6. IsArray(new, Addresses) /\ \A a \in Addresses : a # c => new[a] = data[a]
  BY <1>2 DEF IsArray, c
<1>7. \A a \in 0..(end - 1) : a \in Addresses /\ a # c
  BY <1>0, <1>1, <1>2 DEF Addresses
<1>8. Tiles(Starts(ix, e), new, end)
  <2>1. \A a \in 0..(end - 1) : new[a] = data[a]
    BY <1>6, <1>7
  <2>2. Tiles(Starts(ix, e), data, end)
    BY <1>2 DEF DataOK
  <2> QED BY <2>1, <2>2, TilesKept
<1> QED
  BY <1>2, <1>3, <1>5, <1>6, <1>8 DEF StorageOK, DataOK

(***************************************************************************)
(* The storage after config_reset_fully.                                   *)
(***************************************************************************)
Defs == DOMAIN macro_def_infos
DefKey(n) == macro_def_infos[n].lkey
DefEnd == Len(macro_def_infos) * DefSize

\* The table of the factory macros.
LEMMA DefsAre ==
    /\ Len(macro_def_infos) \in Nat /\ Defs = 1..Len(macro_def_infos)
    /\ \A n \in Defs : DefKey(n) \in Triggers /\ Len(macro_def_infos[n].hkeys) \in Nat
<1> DEFINE R == [lkey : Triggers, hkeys : Seq(Nat)]
<1>1. macro_def_infos \in Seq(R)
  BY MacroSizes
<1>2. \A r \in R : r.lkey \in Triggers /\ Len(r.hkeys) \in Nat
  OBVIOUS
<1> HIDE DEF R
<1>3. Len(macro_def_infos) \in Nat /\ Defs = 1..Len(macro_def_infos) /\ \A n \in Defs : macro_def_infos[n] \in R
  BY <1>1 DEF Defs
<1> QED
  BY <1>2, <1>3 DEF DefKey

\* Where the factory macros start.
LEMMA DefStarts ==
    ASSUME NEW n \in Defs
    PROVE  /\ DefStart(n) \in Nat /\ DefStart(n) + DefSize <= DefEnd
           /\ DefSize \in Nat \ {0} /\ DefLen \in Nat /\ DefSize = DefLen + MACRO_DATA_HEADER_LEN
           /\ DefEnd <= STORAGE_SIZE /\ DefEnd \in Nat
           /\ \A m \in Defs : n < m => DefStart(n) + DefSize <= DefStart(m)
<1> DEFINE N == Len(macro_def_infos)
           d == DefSize
<1>1. N \in Nat /\ Defs = 1..N
  BY DefsAre
<1>2. macro_def_infos # <<>> /\ 1 \in Defs /\ n \in 1..N
  BY <1>1
<1>4. DefLen = Len(macro_def_infos[1].hkeys) /\ DefLen \in Nat
  BY <1>2, DefsAre DEF DefLen
<1>5. d = DefLen + MACRO_DATA_HEADER_LEN /\ d \in Nat \ {0}
  BY <1>4, Sizes DEF DefSize
<1>6. N * d <= MACROS_SIZE
  BY <1>2, <1>4, <1>5, MacroSizes DEF Defs
<1> HIDE DEF N, d
<1>7. DefStart(n) = (n - 1) * d /\ \A m \in Defs : DefStart(m) = (m - 1) * d
  BY DEF DefStart, d
<1>8. (n - 1) * d \in Nat /\ (n - 1) * d + d <= N * d /\ N * d \in Nat
  BY <1>1, <1>2, <1>5
<1>9. ASSUME NEW m \in Defs, n < m PROVE (n - 1) * d + d <= (m - 1) * d
  <2>1. m \in Nat /\ n \in Nat
    BY <1>1, <1>2
  <2> QED BY <1>5, <1>9, <2>1
<1>10. N * d <= STORAGE_SIZE
  <2>1. STORAGE_SIZE \in Nat /\ MACROS_SIZE \in Nat /\ MACROS_SIZE <= STORAGE_SIZE
    BY Sizes
  <2> DEFINE x == N * d
  <2>2. x \in Nat /\ x <= MACROS_SIZE
    BY <1>6, <1>8
  <2> HIDE DEF x
  <2>3. x <= STORAGE_SIZE
    BY <2>1, <2>2
  <2> QED BY <2>3 DEF x
<1> QED
  BY <1>4, <1>5, <1>7, <1>8, <1>9, <1>10 DEF DefEnd, N, d

\* The triggers of the factory macros.
LEMMA DefKeysAre ==
    /\ DefKeys \in SUBSET Int /\ DefKeys \subseteq Triggers /\ IsFiniteSet(DefKeys)
    /\ Cardinality(DefKeys) \in Nat /\ Cardinality(DefKeys) <= MACRO_INDEX_COUNT
    /\ \A n \in Defs : DefKey(n) \in DefKeys /\ n \in Nat
    /\ \A m, n \in Defs : DefKey(m) = DefKey(n) => m = n
    /\ \A k \in DefKeys : \E n \in Defs : DefKey(n) = k
<1> DEFINE N == Len(macro_def_infos)
           f == [n \in Defs |-> DefKey(n)]
<1>1. N \in Nat /\ Defs = 1..N
  BY DefsAre
<1>2. \A n \in Defs : DefKey(n) \in Triggers
  BY DefsAre
<1>3. \A k \in Triggers : k \in Nat /\ k # 0 /\ k \in Int
  BY Sizes
<1>4. DefKeys = {DefKey(n) : n \in Defs}
  BY <1>2, <1>3 DEF DefKeys, DefKey, Defs
<1>5. \A m, n \in Defs : DefKey(m) = DefKey(n) => m = n
  BY MacroSizes DEF DefKey, Defs
<1>6. IsFiniteSet(Defs) /\ Cardinality(Defs) = N
  <2>1. IsFiniteSet(1..N) /\ Cardinality(1..N) = IF 1 > N THEN 0 ELSE N - 1 + 1
    BY <1>1, FS_Interval
  <2> QED BY <1>1, <2>1
<1>7. f \in Surjection(Defs, DefKeys)
  <2>1. f \in [Defs -> DefKeys]
    BY <1>4
  <2>2. \A k \in DefKeys : \E n \in Defs : f[n] = k
    BY <1>4
  <2> HIDE DEF f
  <2> QED BY <2>1, <2>2 DEF Surjection
<1>8. IsFiniteSet(DefKeys) /\ Cardinality(DefKeys) <= N /\ Cardinality(DefKeys) \in Nat
  <2> HIDE DEF f
  <2>1. IsFiniteSet(DefKeys) /\ Cardinality(DefKeys) <= Cardinality(Defs)
    BY <1>6, <1>7, FS_Surjection
  <2> QED BY <1>6, <2>1, FS_CardinalityType
<1>9. N <= MACRO_INDEX_COUNT
  BY MacroSizes
<1>10. Cardinality(DefKeys) <= MACRO_INDEX_COUNT
  BY <1>1, <1>8, <1>9, Sizes
<1>11. DefKeys \in SUBSET Int /\ DefKeys \subseteq Triggers
  BY <1>2, <1>3, <1>4
<1> QED
  BY <1>1, <1>4, <1>5, <1>8, <1>10, <1>11

\* The ranks of numbers ascend with the numbers.
LEMMA RankAscends ==
    ASSUME NEW S \in SUBSET Int, IsFiniteSet(S), NEW a \in S, NEW b \in S,
           RankIn(S, a) < RankIn(S, b)
    PROVE  a < b
<1> SUFFICES ASSUME ~(a < b) PROVE FALSE
  OBVIOUS
<1> DEFINE A == {z \in S : z < a}
           B == {z \in S : z < b}
<1>1. B \in SUBSET A /\ A \in SUBSET S
  <2>1. a \in Int /\ b \in Int /\ \A z \in S : z \in Int
    OBVIOUS
  <2>2. \A z \in S : z < b => z < a
    BY <2>1
  <2> QED BY <2>2
<1> HIDE DEF A, B
<1>2. IsFiniteSet(A) /\ IsFiniteSet(B) /\ Cardinality(B) <= Cardinality(A)
  BY <1>1, FS_Subset
<1>3. Cardinality(A) \in Nat /\ Cardinality(B) \in Nat
  BY <1>2, FS_CardinalityType
<1>4. Cardinality(A) < Cardinality(B)
  BY DEF RankIn, A, B
<1> QED
  BY <1>2, <1>3, <1>4

\* The nth macro of the table has the entry of its trigger's rank.
LEMMA FactoryEntries ==
    /\ \A n \in Defs : /\ RankIn(DefKeys, DefKey(n)) \in Entries
                       /\ FactoryEntry(RankIn(DefKeys, DefKey(n))) =
                             [keys |-> DefKey(n), type |-> "MACRO", data |-> DefStart(n)]
    /\ \A i \in Entries : \/ FactoryEntry(i) = empty_entry /\ i >= Cardinality(DefKeys)
                          \/ \E n \in Defs :
                               /\ i = RankIn(DefKeys, DefKey(n))
                               /\ FactoryEntry(i) =
                                    [keys |-> DefKey(n), type |-> "MACRO", data |-> DefStart(n)]
<1> DEFINE K == DefKeys
           def(i) == {n \in Defs : DefKey(n) \in K /\ RankIn(K, DefKey(n)) = i}
           At(n) == [keys |-> DefKey(n), type |-> "MACRO", data |-> DefStart(n)]
<1>1. \A i : FactoryEntry(i) = IF def(i) = {} THEN empty_entry ELSE At(CHOOSE n \in def(i) : TRUE)
  BY DEF FactoryEntry, Defs, DefKey
<1>2. ASSUME NEW i, NEW n \in def(i) PROVE def(i) = {n}
  <2>1. ASSUME NEW m \in def(i) PROVE m = n
    <3> DEFINE x == DefKey(m)
               y == DefKey(n)
    <3>1. m \in Defs /\ n \in Defs /\ x \in K /\ y \in K /\ RankIn(K, x) = RankIn(K, y)
      OBVIOUS
    <3>2. x = y
      <4> HIDE DEF x, y
      <4> QED BY <3>1, DefKeysAre, RankInjective
    <3> QED BY <3>1, <3>2, DefKeysAre
  <2> QED BY <2>1
<1>3. ASSUME NEW i, NEW n \in def(i) PROVE FactoryEntry(i) = At(n)
  <2>1. def(i) = {n}
    BY <1>2
  <2> HIDE DEF def, At
  <2>2. (CHOOSE x \in def(i) : TRUE) = n
    BY <2>1
  <2> QED BY <1>1, <2>1, <2>2
<1>4. ASSUME NEW n \in Defs
      PROVE  RankIn(K, DefKey(n)) \in Entries /\ FactoryEntry(RankIn(K, DefKey(n))) = At(n)
  <2>1. DefKey(n) \in K /\ n \in def(RankIn(K, DefKey(n)))
    BY DefKeysAre
  <2>2. RankIn(K, DefKey(n)) \in 0..(Cardinality(K) - 1)
    BY <2>1, DefKeysAre, RankRange
  <2>3. RankIn(K, DefKey(n)) \in Entries
    BY <2>2, DefKeysAre, Sizes DEF Entries
  <2> HIDE DEF def, At
  <2> QED BY <1>3, <2>1, <2>3
<1>5. ASSUME NEW i \in Entries
      PROVE  \/ FactoryEntry(i) = empty_entry /\ i >= Cardinality(K)
             \/ \E n \in Defs : i = RankIn(K, DefKey(n)) /\ FactoryEntry(i) = At(n)
  <2>1. CASE def(i) = {}
    <3>1. FactoryEntry(i) = empty_entry
      <4> HIDE DEF def, At
      <4> QED BY <1>1, <2>1
    <3>2. ~(i \in 0..(Cardinality(K) - 1))
      <4> SUFFICES ASSUME i \in 0..(Cardinality(K) - 1) PROVE FALSE
        OBVIOUS
      <4>1. PICK k \in K : RankIn(K, k) = i
        BY DefKeysAre, RankSurjective
      <4>2. PICK n \in Defs : DefKey(n) = k
        BY DefKeysAre
      <4> QED BY <2>1, <4>1, <4>2
    <3>3. i >= Cardinality(K)
      BY <3>2, DefKeysAre, Sizes
    <3> QED BY <3>1, <3>3
  <2>2. CASE def(i) # {}
    <3>1. PICK n \in def(i) : TRUE
      BY <2>2
    <3>2. FactoryEntry(i) = At(n)
      BY <1>3
    <3> QED BY <3>1, <3>2
  <2> QED BY <2>1, <2>2
<1> QED
  BY <1>4, <1>5

\* The index after a reset is sorted and leads to the factory macros.
LEMMA FactoryIndexOK ==
    /\ IndexOK(FactoryIndex) /\ OneEach(FactoryIndex, NULL)
    /\ Starts(FactoryIndex, NULL) = {DefStart(n) : n \in Defs}
<1> DEFINE K == DefKeys
           R(n) == RankIn(K, DefKey(n))
           At(n) == [keys |-> DefKey(n), type |-> "MACRO", data |-> DefStart(n)]
           ix == FactoryIndex
<1>1. \A n \in Defs : R(n) \in Entries /\ ix[R(n)] = At(n)
  BY FactoryEntries DEF FactoryIndex
<1>2. \A i \in Entries : \/ ix[i] = empty_entry /\ i >= Cardinality(K)
                         \/ \E n \in Defs : i = R(n) /\ ix[i] = At(n)
  BY FactoryEntries DEF FactoryIndex
<1>3. ix = [i \in Entries |-> ix[i]]
  BY DEF FactoryIndex
<1>4. \A n \in Defs : /\ DefKey(n) \in K /\ DefKey(n) \in Triggers /\ DefKey(n) \in Int
                      /\ DefKey(n) # NO_TRIGGER /\ DefStart(n) \in Nat
  <2>1. \A n \in Defs : DefKey(n) \in K /\ DefKey(n) \in Triggers /\ DefStart(n) \in Nat
    BY DefKeysAre, DefStarts
  <2>2. \A k \in Triggers : k \in Int /\ k # NO_TRIGGER
    BY Sizes
  <2> QED BY <2>1, <2>2
<1>5. empty_entry \in EntrySet /\ empty_entry.keys = NO_TRIGGER
  BY DEF empty_entry, EntrySet, Keys
<1>6. \A n \in Defs : At(n) \in EntrySet /\ At(n).keys = DefKey(n) /\ At(n).type = "MACRO"
                      /\ At(n).data = DefStart(n)
  BY <1>4 DEF EntrySet, Keys
<1>7. \A n \in Defs : R(n) \in 0..(Cardinality(K) - 1)
  BY <1>4, DefKeysAre, RankRange
<1>8. K \in SUBSET Int /\ IsFiniteSet(K) /\ Cardinality(K) \in Nat
  BY DefKeysAre
<1> HIDE DEF ix, At
<1>9. ix \in [Entries -> EntrySet]
  BY <1>2, <1>3, <1>5, <1>6
<1>10. ASSUME NEW i \in Entries, NEW j \in Entries, i < j, ix[j].keys # NO_TRIGGER
       PROVE  ix[i].keys < ix[j].keys
  <2>1. PICK n \in Defs : j = R(n) /\ ix[j] = At(n)
    BY <1>2, <1>5, <1>10
  <2>2. i < Cardinality(K)
    <3>1. j < Cardinality(K) /\ j \in Nat /\ i \in Nat
      BY <1>7, <1>8, <2>1, Sizes
    <3> QED BY <1>8, <1>10, <3>1
  <2>3. ~(i >= Cardinality(K))
    BY <1>8, <2>2, Sizes
  <2>4. PICK m \in Defs : i = R(m) /\ ix[i] = At(m)
    BY <1>2, <2>3
  <2>5. DefKey(m) < DefKey(n)
    BY <1>4, <1>8, <1>10, <2>1, <2>4, RankAscends
  <2> QED BY <1>6, <2>1, <2>4, <2>5
<1>11. IndexOK(ix)
  BY <1>9, <1>10 DEF IndexOK, Sorted
<1>12. ASSUME NEW i \in Done(ix, NULL) PROVE \E n \in Defs : i = R(n) /\ ix[i].data = DefStart(n)
  <2>1. i \in Entries /\ ix[i].keys # NO_TRIGGER
    BY DEF Done
  <2>2. PICK n \in Defs : i = R(n) /\ ix[i] = At(n)
    BY <1>2, <1>5, <2>1
  <2> QED BY <1>6, <2>2
<1>13. ASSUME NEW n \in Defs PROVE R(n) \in Done(ix, NULL) /\ ix[R(n)].data = DefStart(n)
  <2>1. R(n) \in Entries /\ ix[R(n)] = At(n)
    BY <1>1
  <2>2. ix[R(n)].keys # NO_TRIGGER /\ ix[R(n)].type = "MACRO" /\ ix[R(n)].data = DefStart(n)
    BY <1>4, <1>6, <2>1
  <2>3. R(n) # NULL
    <3>1. NULL \notin Entries
      BY DEF NULL, Entries
    <3> QED BY <2>1, <3>1
  <2> QED BY <2>1, <2>2, <2>3 DEF Done
<1>14. Starts(ix, NULL) = {DefStart(n) : n \in Defs}
  <2> HIDE DEF R
  <2> QED BY <1>12, <1>13 DEF Starts
<1>15. ASSUME NEW i \in Done(ix, NULL), NEW j \in Done(ix, NULL), ix[i].data = ix[j].data PROVE i = j
  <2>1. PICK m \in Defs : i = R(m) /\ ix[i].data = DefStart(m)
    BY <1>12
  <2>2. PICK n \in Defs : j = R(n) /\ ix[j].data = DefStart(n)
    BY <1>12
  <2>3. m \in Nat /\ n \in Nat /\ DefStart(m) = DefStart(n)
    BY <1>15, <2>1, <2>2, DefKeysAre
  <2>4. DefStart(m) \in Nat /\ DefSize \in Nat \ {0}
    BY DefStarts
  <2>5. ~(m < n)
    BY <2>3, <2>4, DefStarts
  <2>6. ~(n < m)
    BY <2>3, <2>4, DefStarts
  <2>7. m = n
    BY <2>3, <2>5, <2>6
  <2> QED BY <2>1, <2>2, <2>7
<1> QED
  BY <1>11, <1>14, <1>15 DEF ix, OneEach

\* The storage after a reset is in order.
LEMMA FactoryOK ==
    ASSUME NEW old, NEW data, data = [a \in Addresses |-> FactoryByte(a, old[a])]
    PROVE  DataOK(FactoryIndex, NULL, data, DefEnd)
<1> DEFINE S == {DefStart(n) : n \in Defs}
           N == Len(macro_def_infos)
           d == DefSize
<1>1. Defs = 1..N /\ N \in Nat
  BY MacroSizes DEF Defs
<1>2. CASE Defs = {}
  <2>1. N = 0 /\ macro_def_infos = <<>>
    BY <1>1, <1>2, MacroSizes
  <2>2. DefLen = 0
    BY <2>1 DEF DefLen
  <2>3. DefEnd = 0
    BY <2>1, <2>2, Sizes DEF DefEnd, DefSize
  <2>4. S = {} /\ IsArray(data, Addresses) /\ 0 \in 0..STORAGE_SIZE
    BY <1>2, Sizes DEF IsArray
  <2>5. Tiles(S, data, DefEnd)
    BY <2>3, <2>4 DEF Tiles
  <2> QED BY <2>3, <2>4, <2>5, FactoryIndexOK DEF DataOK
<1>3. CASE Defs # {}
  <2>0. PICK x \in Defs : TRUE
    BY <1>3
  <2>1. /\ d \in Nat \ {0} /\ DefLen \in Nat /\ d = DefLen + MACRO_DATA_HEADER_LEN
        /\ DefEnd <= STORAGE_SIZE /\ DefEnd \in Nat /\ STORAGE_SIZE \in Nat
    BY <2>0, DefStarts, Sizes
  <2>2. \A n \in Defs : /\ n \in Nat /\ DefStart(n) \in Nat /\ DefStart(n) + d <= DefEnd
                        /\ \A m \in Defs : n < m => DefStart(n) + d <= DefStart(m)
    BY DefStarts, DefKeysAre
  <2> HIDE DEF d
  <2>3. ASSUME NEW n \in Defs PROVE DefStart(n) \in Addresses /\ data[DefStart(n)] = DefLen
    <3> DEFINE a == DefStart(n)
               here == {m \in Defs : a - DefStart(m) \in 0..(d - 1)}
               c == CHOOSE m \in here : TRUE
    <3>1. a \in Addresses
      BY <2>1, <2>2 DEF Addresses
    <3>2. n \in here
      BY <2>1, <2>2
    <3>3. c \in here
      BY <3>2
    <3>4. DefStart(c) = a
      <4> HIDE DEF c
      <4>1. c \in Defs /\ a - DefStart(c) \in 0..(d - 1)
        BY <3>3
      <4> DEFINE b == DefStart(c)
      <4>2. /\ b \in Nat /\ a \in Nat /\ c \in Nat /\ n \in Nat
            /\ c < n => b + d <= a
            /\ n < c => a + d <= b
            /\ c = n => b = a
            /\ a - b \in 0..(d - 1)
        BY <2>2, <4>1
      <4> HIDE DEF a, b
      <4>3. b = a
        BY <2>1, <4>2
      <4> QED BY <4>3 DEF b
    <3>5. FactoryByte(a, old[a]) = DefLen
      <4>1. here # {} /\ a - DefStart(c) = 0
        BY <2>2, <3>2, <3>4
      <4>2. FactoryByte(a, old[a]) =
              CASE here = {} -> old[a]
                [] here # {} /\ a - DefStart(c) = 0 -> DefLen
                [] here # {} /\ a - DefStart(c) \in 1..(MACRO_DATA_HEADER_LEN - 1) -> 0
                [] OTHER -> macro_def_infos[c].hkeys[(a - DefStart(c)) - MACRO_DATA_HEADER_LEN + 1]
        BY DEF FactoryByte, d, Defs
      <4> HIDE DEF a, c, here
      <4> QED BY <4>1, <4>2
    <3> QED BY <3>1, <3>5
  <2>4. \A s \in S : data[s] = DefLen /\ Size(data, s) = d
    BY <2>1, <2>3 DEF Size
  <2>5. S \in SUBSET Nat /\ \A s \in S : s + d <= DefEnd
    BY <2>2
  <2>6. ASSUME NEW s \in S, NEW t \in S, s < t PROVE s + d <= t
    <3>1. PICK m \in Defs : s = DefStart(m)
      OBVIOUS
    <3>2. PICK n \in Defs : t = DefStart(n)
      OBVIOUS
    <3>3. /\ m \in Nat /\ n \in Nat /\ s \in Nat /\ t \in Nat
          /\ (m < n => s + d <= t) /\ (n < m => t + d <= s) /\ (m = n => s = t)
      BY <2>2, <3>1, <3>2
    <3> QED BY <2>1, <2>6, <3>3
  <2>7. ASSUME NEW a \in 0..(DefEnd - 1) PROVE \E s \in S : s <= a /\ a < s + d
    <3> DEFINE B == {n \in Defs : DefStart(n) <= a}
    <3>0. a \in Nat /\ a < DefEnd
      BY <2>1
    <3>1. 1 \in B /\ B \in SUBSET Int /\ \A n \in B : n <= N
      <4>1. 1 \in Defs /\ DefStart(1) = 0
        BY <1>1, <1>3, <2>1 DEF DefStart, d
      <4>2. DefStart(1) <= a
        BY <3>0, <4>1
      <4> QED BY <1>1, <4>1, <4>2
    <3>2. PICK n \in B : \A m \in B : n >= m
      <4> HIDE DEF B
      <4>1. B # {} /\ N \in Int
        BY <1>1, <3>1
      <4> QED BY <3>1, <4>1, GreatestElement
    <3>3. n \in Defs /\ DefStart(n) <= a /\ n \in Nat /\ DefStart(n) \in Nat
      BY <2>2
    <3>4. a < DefStart(n) + d
      <4>1. CASE n = N
        <5>1. DefStart(n) + d = DefEnd
          BY <1>1, <2>1, <3>3, <4>1 DEF DefStart, DefEnd, d
        <5> QED BY <3>0, <5>1
      <4>2. CASE n # N
        <5>1. n + 1 \in Defs /\ ~(n >= n + 1)
          BY <1>1, <3>3, <4>2
        <5>2. n + 1 \notin B
          BY <3>2, <5>1
        <5>3. ~(DefStart(n + 1) <= a) /\ DefStart(n + 1) \in Nat
          BY <2>2, <5>1, <5>2
        <5>4. DefStart(n + 1) = DefStart(n) + d
          BY <2>1, <3>3 DEF DefStart, d
        <5> QED BY <3>0, <5>3, <5>4
      <4> QED BY <4>1, <4>2
    <3> QED BY <3>3, <3>4
  <2> HIDE DEF S
  <2>8. Tiles(S, data, DefEnd)
    BY <2>1, <2>4, <2>5, <2>6, <2>7 DEF Tiles
  <2>9. IsArray(data, Addresses) /\ DefEnd \in 0..STORAGE_SIZE
    BY <2>1 DEF IsArray
  <2> QED BY <2>8, <2>9, FactoryIndexOK DEF DataOK, S
<1> QED
  BY <1>2, <1>3

(***************************************************************************)
(* What the lists of writes lead to.                                       *)
(***************************************************************************)

\* A list that writes each place of S once, in the order s gives, and nothing
\* else.
ListsOnce(s, n, S) ==
    /\ n \in Nat /\ \A i \in 1..n : s[i] \in S
    /\ \A i, j \in 1..n : s[i] = s[j] => i = j
    /\ \A x \in S : \E i \in 1..n : s[i] = x

OnceWrites(part, s, n, new) == [i \in 1..n |-> Write(part, s[i], new[s[i]])]

\* What such a list leaves in the places.
LEMMA OnceYields ==
    ASSUME NEW s, NEW n, NEW S, ListsOnce(s, n, S), NEW part, NEW new,
           NEW ws, ws = OnceWrites(part, s, n, new)
    PROVE  /\ IsList(ws) /\ Len(ws) = n /\ \A i \in 1..Len(ws) : ws[i].part = part
           /\ \A p, at : p # part \/ at \notin S => Untouched(ws, p, at)
           /\ \A x \in S : \A old : Yields(ws, part, x, old, new[x])
<1>1. n \in Nat /\ Len(ws) = n
  BY DEF ListsOnce, OnceWrites
<1>2. ws = [i \in 1..n |-> ws[i]]
  BY DEF OnceWrites
<1>3. IsList(ws)
  BY <1>1, <1>2 DEF IsList
<1>4. \A i \in 1..n : ws[i].part = part /\ ws[i].at = s[i] /\ ws[i].value = new[s[i]]
  BY DEF Write, OnceWrites
<1>5. ASSUME NEW p, NEW at, p # part \/ at \notin S PROVE Untouched(ws, p, at)
  BY <1>1, <1>4, <1>5 DEF Untouched, To, ListsOnce
<1>6. ASSUME NEW x \in S, NEW old PROVE Yields(ws, part, x, old, new[x])
  <2>1. PICK i \in 1..n : s[i] = x
    BY DEF ListsOnce
  <2>2. ASSUME NEW j \in 1..Len(ws), To(ws[j], part, x) PROVE j = i
    BY <1>1, <1>4, <2>1, <2>2 DEF To, ListsOnce
  <2>3. i \in 1..Len(ws) /\ Len(ws) \in Nat /\ To(ws[i], part, x) /\ ws[i].value = new[x]
    BY <1>1, <1>4, <2>1 DEF To
  <2> QED BY <2>2, <2>3, YieldsOnce
<1> QED
  BY <1>1, <1>3, <1>4, <1>5, <1>6

\* A list of one write.
LEMMA OneYields ==
    ASSUME NEW part, NEW at, NEW v, NEW ws, ws = <<Write(part, at, v)>>
    PROVE  /\ IsList(ws) /\ Len(ws) = 1 /\ ws[1].part = part /\ ws[1].at = at
           /\ \A p, x : p # part \/ x # at => Untouched(ws, p, x)
           /\ \A old : Yields(ws, part, at, old, v)
<1>1. Len(ws) = 1 /\ ws[1].part = part /\ ws[1].at = at /\ ws[1].value = v
  BY DEF Write
<1>2. IsList(ws)
  <2>1. ws = [i \in 1..1 |-> ws[i]]
    OBVIOUS
  <2> QED BY <2>1 DEF IsList
<1>3. 1 \in 1..Len(ws) /\ Len(ws) \in Nat /\ \A j \in 1..Len(ws) : j = 1
  BY <1>1
<1>4. ASSUME NEW old PROVE Yields(ws, part, at, old, v)
  BY <1>1, <1>3, YieldsOnce DEF To
<1> QED
  BY <1>1, <1>2, <1>3, <1>4 DEF Untouched, To

\* The empty list.
LEMMA NoneYields ==
    /\ IsList(<<>>) /\ Len(<<>>) = 0
    /\ \A part, at : Untouched(<<>>, part, at)
<1>1. Len(<<>>) = 0 /\ IsList(<<>>)
  BY DEF IsList
<1> QED
  BY <1>1 DEF Untouched

\* Ascending and Descending list their set.
LEMMA AscendingOnce ==
    ASSUME NEW S \in SUBSET Int, IsFiniteSet(S)
    PROVE  ListsOnce(Ascending(S), Len(Ascending(S)), S)
<1> DEFINE s == Ascending(S)
           n == Cardinality(S)
<1>1. n \in Nat /\ Len(s) = n
  BY FS_CardinalityType, AscendingLen
<1>2. \A i \in 1..n : s[i] \in S /\ RankIn(S, s[i]) = i - 1
  BY AscendingAt
<1>3. \A x \in S : \E i \in 1..n : s[i] = x
  BY AscendingAll
<1> HIDE DEF s, n
<1>4. ASSUME NEW i \in 1..n, NEW j \in 1..n, s[i] = s[j] PROVE i = j
  <2>1. i - 1 = j - 1
    BY <1>2, <1>4
  <2> QED BY <1>1, <2>1
<1>5. ListsOnce(s, n, S)
  BY <1>1, <1>2, <1>3, <1>4 DEF ListsOnce
<1> QED
  BY <1>1, <1>5 DEF s

\* The same from the end.
LEMMA DescendingOnce ==
    ASSUME NEW S \in SUBSET Int, IsFiniteSet(S)
    PROVE  ListsOnce(Descending(S), Len(Descending(S)), S)
<1> DEFINE s == Ascending(S)
           t == Descending(S)
           n == Cardinality(S)
<1>1. n \in Nat /\ Len(s) = n
  BY FS_CardinalityType, AscendingLen
<1>2. ListsOnce(s, n, S)
  BY <1>1, AscendingOnce
<1>3. t = [i \in 1..n |-> s[n + 1 - i]]
  BY DEF Descending
<1> HIDE DEF s, t, n
<1>4. Len(t) = n
  BY <1>1, <1>3
<1>5. \A i \in 1..n : n + 1 - i \in 1..n /\ n + 1 - (n + 1 - i) = i /\ t[i] = s[n + 1 - i]
  BY <1>1, <1>3
<1>6. ASSUME NEW i \in 1..n, NEW j \in 1..n, t[i] = t[j] PROVE i = j
  <2>1. n + 1 - i = n + 1 - j
    BY <1>2, <1>5, <1>6 DEF ListsOnce
  <2> QED BY <1>1, <2>1
<1>7. ASSUME NEW x \in S PROVE \E i \in 1..n : t[i] = x
  <2>1. PICK i \in 1..n : s[i] = x
    BY <1>2 DEF ListsOnce
  <2>2. n + 1 - i \in 1..n /\ t[n + 1 - i] = s[n + 1 - (n + 1 - i)] /\ n + 1 - (n + 1 - i) = i
    BY <1>5
  <2> QED BY <2>1, <2>2
<1>8. ListsOnce(t, n, S)
  BY <1>1, <1>2, <1>5, <1>6, <1>7 DEF ListsOnce
<1> QED
  BY <1>4, <1>8 DEF t

\* Sets of entries and of addresses are finite.
LEMMA PlacesFinite ==
    ASSUME NEW S, S \in SUBSET Entries \/ S \in SUBSET Addresses
    PROVE  S \in SUBSET Int /\ IsFiniteSet(S)
<1>1. IsFiniteSet(Entries) /\ IsFiniteSet(Addresses)
  <2>1. IsFiniteSet(0..(MACRO_INDEX_COUNT - 1)) /\ IsFiniteSet(0..(STORAGE_SIZE - 1))
    BY Sizes, FS_Interval
  <2> QED BY <2>1 DEF Entries, Addresses
<1>2. IsFiniteSet(S)
  BY <1>1, FS_Subset
<1>3. ASSUME NEW x \in S PROVE x \in Int
  <2>1. x \in Entries \/ x \in Addresses
    OBVIOUS
  <2> QED BY <2>1 DEF Entries, Addresses
<1> QED
  BY <1>2, <1>3

\* The writes to the end offset are all to the same place.
EndAtZero(ws) == \A i \in 1..Len(ws) : ws[i].part = "end" => ws[i].at = 0

\* The same for one list behind the other.
LEMMA EndAtZeroBoth ==
    ASSUME NEW s, NEW t, IsList(s), IsList(t), EndAtZero(s), EndAtZero(t)
    PROVE  EndAtZero(s \o t)
<1>1. Len(s) \in Nat /\ Len(t) \in Nat /\ Len(s \o t) = Len(s) + Len(t)
  BY ListBoth
<1>2. \A i \in 1..Len(s) : (s \o t)[i] = s[i]
  BY ListBoth
<1>3. \A i \in 1..Len(t) : (s \o t)[Len(s) + i] = t[i]
  BY ListBoth
<1>4. ASSUME NEW i \in 1..Len(s \o t), (s \o t)[i].part = "end" PROVE (s \o t)[i].at = 0
  <2>1. CASE i <= Len(s)
    <3>1. i \in 1..Len(s)
      BY <1>1, <2>1
    <3> QED BY <1>2, <1>4, <3>1 DEF EndAtZero
  <2>2. CASE i > Len(s)
    <3>1. i - Len(s) \in 1..Len(t) /\ Len(s) + (i - Len(s)) = i
      BY <1>1, <2>2
    <3> QED BY <1>3, <1>4, <3>1 DEF EndAtZero
  <2> QED BY <1>1, <2>1, <2>2
<1> QED
  BY <1>4 DEF EndAtZero

\* A list leads from the storage s to the storage r.
Leads(ws, s, r) ==
    /\ YieldsAll(ws, "index", Entries, s.index, r.index)
    /\ YieldsAll(ws, "data", Addresses, s.data, r.data)
    /\ Yields(ws, "end", 0, s.end, r.end)

\* One list behind the other.
LEMMA LeadsBoth ==
    ASSUME NEW v, NEW w, IsList(v), IsList(w), EndAtZero(v), EndAtZero(w),
           NEW r, NEW s, NEW t, Leads(v, r, s), Leads(w, s, t)
    PROVE  IsList(v \o w) /\ EndAtZero(v \o w) /\ Leads(v \o w, r, t)
<1>1. IsList(v \o w) /\ EndAtZero(v \o w)
  BY ListBoth, EndAtZeroBoth
<1>2. ASSUME NEW i \in Entries PROVE Yields(v \o w, "index", i, r.index[i], t.index[i])
  <2>1. Yields(v, "index", i, r.index[i], s.index[i]) /\ Yields(w, "index", i, s.index[i], t.index[i])
    BY DEF Leads, YieldsAll
  <2> QED BY <2>1, YieldsBoth
<1>3. ASSUME NEW a \in Addresses PROVE Yields(v \o w, "data", a, r.data[a], t.data[a])
  <2>1. Yields(v, "data", a, r.data[a], s.data[a]) /\ Yields(w, "data", a, s.data[a], t.data[a])
    BY DEF Leads, YieldsAll
  <2> QED BY <2>1, YieldsBoth
<1>4. Yields(v \o w, "end", 0, r.end, t.end)
  <2>1. Yields(v, "end", 0, r.end, s.end) /\ Yields(w, "end", 0, s.end, t.end)
    BY DEF Leads
  <2> QED BY <2>1, YieldsBoth
<1> QED
  BY <1>1, <1>2, <1>3, <1>4 DEF Leads, YieldsAll

\* The storage as the writes see it.
Store3(index, end, data) == [index |-> index, end |-> end, data |-> data]

\* A list that writes each of some entries once.
LEMMA LeadsIndex ==
    ASSUME NEW s, NEW n, NEW S, ListsOnce(s, n, S), NEW new,
           NEW ws, ws = OnceWrites("index", s, n, new),
           NEW old, NEW end, NEW data, \A i \in Entries : i \notin S => new[i] = old[i]
    PROVE  /\ IsList(ws) /\ EndAtZero(ws) /\ Len(ws) = n
           /\ Leads(ws, Store3(old, end, data), Store3(new, end, data))
<1>1. /\ IsList(ws) /\ Len(ws) = n /\ \A i \in 1..Len(ws) : ws[i].part = "index"
      /\ \A p, at : p # "index" \/ at \notin S => Untouched(ws, p, at)
      /\ \A x \in S : \A o : Yields(ws, "index", x, o, new[x])
  <2> DEFINE part == "index"
  <2>1. ws = OnceWrites(part, s, n, new)
    OBVIOUS
  <2> HIDE DEF part
  <2>2. IsList(ws) /\ Len(ws) = n /\ \A i \in 1..Len(ws) : ws[i].part = part
    BY <2>1, OnceYields
  <2>3. \A p, at : p # part \/ at \notin S => Untouched(ws, p, at)
    BY <2>1, OnceYields
  <2>4. \A x \in S : \A o : Yields(ws, part, x, o, new[x])
    BY <2>1, OnceYields
  <2> QED BY <2>2, <2>3, <2>4 DEF part
<1>2. ASSUME NEW i \in Entries PROVE Yields(ws, "index", i, old[i], new[i])
  BY <1>1, UntouchedYields
<1>3. ASSUME NEW a \in Addresses PROVE Yields(ws, "data", a, data[a], data[a])
  BY <1>1, UntouchedYields
<1>4. Yields(ws, "end", 0, end, end)
  BY <1>1, UntouchedYields
<1> QED
  BY <1>1, <1>2, <1>3, <1>4 DEF Leads, YieldsAll, Store3, EndAtZero

\* A list that writes each of some bytes once.
LEMMA LeadsData ==
    ASSUME NEW s, NEW n, NEW S, ListsOnce(s, n, S), NEW new,
           NEW ws, ws = OnceWrites("data", s, n, new),
           NEW index, NEW end, NEW old, \A a \in Addresses : a \notin S => new[a] = old[a]
    PROVE  /\ IsList(ws) /\ EndAtZero(ws)
           /\ Leads(ws, Store3(index, end, old), Store3(index, end, new))
<1>1. /\ IsList(ws) /\ Len(ws) = n /\ \A i \in 1..Len(ws) : ws[i].part = "data"
      /\ \A p, at : p # "data" \/ at \notin S => Untouched(ws, p, at)
      /\ \A x \in S : \A o : Yields(ws, "data", x, o, new[x])
  <2> DEFINE part == "data"
  <2>1. ws = OnceWrites(part, s, n, new)
    OBVIOUS
  <2> HIDE DEF part
  <2>2. IsList(ws) /\ Len(ws) = n /\ \A i \in 1..Len(ws) : ws[i].part = part
    BY <2>1, OnceYields
  <2>3. \A p, at : p # part \/ at \notin S => Untouched(ws, p, at)
    BY <2>1, OnceYields
  <2>4. \A x \in S : \A o : Yields(ws, part, x, o, new[x])
    BY <2>1, OnceYields
  <2> QED BY <2>2, <2>3, <2>4 DEF part
<1>2. ASSUME NEW i \in Entries PROVE Yields(ws, "index", i, index[i], index[i])
  BY <1>1, UntouchedYields
<1>3. ASSUME NEW a \in Addresses PROVE Yields(ws, "data", a, old[a], new[a])
  BY <1>1, UntouchedYields
<1>4. Yields(ws, "end", 0, end, end)
  BY <1>1, UntouchedYields
<1> QED
  BY <1>1, <1>2, <1>3, <1>4 DEF Leads, YieldsAll, Store3, EndAtZero

\* One write of the index, of the data or of the end offset.
LEMMA LeadsOne ==
    ASSUME NEW index, NEW end, NEW data
    PROVE  /\ \A e \in Entries : \A v :
                 IsArray(index, Entries) =>
                 /\ IsList(<<Write("index", e, v)>>) /\ EndAtZero(<<Write("index", e, v)>>)
                 /\ Leads(<<Write("index", e, v)>>, Store3(index, end, data),
                          Store3([index EXCEPT ![e] = v], end, data))
           /\ \A a \in Addresses : \A v :
                 IsArray(data, Addresses) =>
                 /\ IsList(<<Write("data", a, v)>>) /\ EndAtZero(<<Write("data", a, v)>>)
                 /\ Leads(<<Write("data", a, v)>>, Store3(index, end, data),
                          Store3(index, end, [data EXCEPT ![a] = v]))
           /\ \A v : /\ IsList(<<Write("end", 0, v)>>) /\ EndAtZero(<<Write("end", 0, v)>>)
                     /\ Leads(<<Write("end", 0, v)>>, Store3(index, end, data), Store3(index, v, data))
           /\ IsList(<<>>) /\ EndAtZero(<<>>)
           /\ Leads(<<>>, Store3(index, end, data), Store3(index, end, data))
<1>1. ASSUME NEW e \in Entries, NEW v, IsArray(index, Entries)
      PROVE  /\ IsList(<<Write("index", e, v)>>) /\ EndAtZero(<<Write("index", e, v)>>)
             /\ Leads(<<Write("index", e, v)>>, Store3(index, end, data),
                      Store3([index EXCEPT ![e] = v], end, data))
  <2> DEFINE ws == <<Write("index", e, v)>>
             new == [index EXCEPT ![e] = v]
  <2>1. /\ IsList(ws) /\ Len(ws) = 1 /\ ws[1].part = "index"
        /\ \A p, x : p # "index" \/ x # e => Untouched(ws, p, x)
        /\ \A old : Yields(ws, "index", e, old, v)
    BY OneYields
  <2>2. new[e] = v /\ \A i \in Entries : i # e => new[i] = index[i]
    BY <1>1 DEF IsArray
  <2> HIDE DEF ws, new
  <2>3. EndAtZero(ws)
    BY <2>1 DEF EndAtZero
  <2>4. ASSUME NEW i \in Entries PROVE Yields(ws, "index", i, index[i], new[i])
    BY <2>1, <2>2, UntouchedYields
  <2>5. ASSUME NEW a \in Addresses PROVE Yields(ws, "data", a, data[a], data[a])
    BY <2>1, UntouchedYields
  <2>6. Yields(ws, "end", 0, end, end)
    BY <2>1, UntouchedYields
  <2>7. Leads(ws, Store3(index, end, data), Store3(new, end, data))
    BY <2>4, <2>5, <2>6 DEF Leads, YieldsAll, Store3
  <2> QED BY <2>1, <2>3, <2>7 DEF ws, new
<1>2. ASSUME NEW a \in Addresses, NEW v, IsArray(data, Addresses)
      PROVE  /\ IsList(<<Write("data", a, v)>>) /\ EndAtZero(<<Write("data", a, v)>>)
             /\ Leads(<<Write("data", a, v)>>, Store3(index, end, data),
                      Store3(index, end, [data EXCEPT ![a] = v]))
  <2> DEFINE ws == <<Write("data", a, v)>>
             new == [data EXCEPT ![a] = v]
  <2>1. /\ IsList(ws) /\ Len(ws) = 1 /\ ws[1].part = "data"
        /\ \A p, x : p # "data" \/ x # a => Untouched(ws, p, x)
        /\ \A old : Yields(ws, "data", a, old, v)
    BY OneYields
  <2>2. new[a] = v /\ \A b \in Addresses : b # a => new[b] = data[b]
    BY <1>2 DEF IsArray
  <2> HIDE DEF ws, new
  <2>3. EndAtZero(ws)
    BY <2>1 DEF EndAtZero
  <2>4. ASSUME NEW b \in Addresses PROVE Yields(ws, "data", b, data[b], new[b])
    BY <2>1, <2>2, UntouchedYields
  <2>5. ASSUME NEW i \in Entries PROVE Yields(ws, "index", i, index[i], index[i])
    BY <2>1, UntouchedYields
  <2>6. Yields(ws, "end", 0, end, end)
    BY <2>1, UntouchedYields
  <2>7. Leads(ws, Store3(index, end, data), Store3(index, end, new))
    BY <2>4, <2>5, <2>6 DEF Leads, YieldsAll, Store3
  <2> QED BY <2>1, <2>3, <2>7 DEF ws, new
<1>3. ASSUME NEW v
      PROVE  /\ IsList(<<Write("end", 0, v)>>) /\ EndAtZero(<<Write("end", 0, v)>>)
             /\ Leads(<<Write("end", 0, v)>>, Store3(index, end, data), Store3(index, v, data))
  <2> DEFINE ws == <<Write("end", 0, v)>>
  <2>1. /\ IsList(ws) /\ Len(ws) = 1 /\ ws[1].part = "end" /\ ws[1].at = 0
        /\ \A p, x : p # "end" \/ x # 0 => Untouched(ws, p, x)
        /\ \A old : Yields(ws, "end", 0, old, v)
    BY OneYields
  <2> HIDE DEF ws
  <2>2. \A j \in 1..Len(ws) : j = 1
    BY <2>1
  <2>3. EndAtZero(ws)
    BY <2>1, <2>2 DEF EndAtZero
  <2>4. ASSUME NEW b \in Addresses PROVE Yields(ws, "data", b, data[b], data[b])
    BY <2>1, UntouchedYields
  <2>5. ASSUME NEW i \in Entries PROVE Yields(ws, "index", i, index[i], index[i])
    BY <2>1, UntouchedYields
  <2>7. Leads(ws, Store3(index, end, data), Store3(index, v, data))
    BY <2>1, <2>4, <2>5 DEF Leads, YieldsAll, Store3
  <2> QED BY <2>1, <2>3, <2>7 DEF ws
<1>4. /\ IsList(<<>>) /\ EndAtZero(<<>>)
      /\ Leads(<<>>, Store3(index, end, data), Store3(index, end, data))
  <2>1. IsList(<<>>) /\ EndAtZero(<<>>)
    BY NoneYields DEF EndAtZero
  <2>2. \A part, at, old : Yields(<<>>, part, at, old, old)
    BY NoneYields, UntouchedYields
  <2> QED BY <2>1, <2>2 DEF Leads, YieldsAll, Store3
<1> QED
  BY <1>1, <1>2, <1>3, <1>4

\* delete_macro_data: data, entries and end offset as Left says.
LEMMA DeleteLeads ==
    ASSUME NEW e, NEW left, left = Left(e)
    PROVE  /\ IsList(DeleteWrites(e)) /\ EndAtZero(DeleteWrites(e))
           /\ Leads(DeleteWrites(e), Store3(macro_index, macros_end_offset, macros),
                    Store3(left.index, left.end, left.data))
<1> DEFINE A == {a \in Addresses : left.data[a] # macros[a]}
           M == {i \in Entries : left.index[i] # macro_index[i]}
           u == OnceWrites("data", Ascending(A), Len(Ascending(A)), left.data)
           v == OnceWrites("index", Ascending(M), Len(Ascending(M)), left.index)
           w == IF left.end # macros_end_offset THEN <<Write("end", 0, left.end)>> ELSE <<>>
           s0 == Store3(macro_index, macros_end_offset, macros)
           s1 == Store3(macro_index, macros_end_offset, left.data)
           s2 == Store3(left.index, macros_end_offset, left.data)
           s3 == Store3(left.index, left.end, left.data)
<1>1. DeleteWrites(e) = u \o v \o w
  BY DEF DeleteWrites, OnceWrites
<1>2. ListsOnce(Ascending(A), Len(Ascending(A)), A) /\ \A a \in Addresses : a \notin A => left.data[a] = macros[a]
  <2>1. A \in SUBSET Addresses /\ \A a \in Addresses : a \notin A => left.data[a] = macros[a]
    OBVIOUS
  <2> HIDE DEF A
  <2> QED BY <2>1, PlacesFinite, AscendingOnce
<1>3. ListsOnce(Ascending(M), Len(Ascending(M)), M) /\ \A i \in Entries : i \notin M => left.index[i] = macro_index[i]
  <2>1. M \in SUBSET Entries /\ \A i \in Entries : i \notin M => left.index[i] = macro_index[i]
    OBVIOUS
  <2> HIDE DEF M
  <2> QED BY <2>1, PlacesFinite, AscendingOnce
<1> HIDE DEF A, M
<1>4. IsList(u) /\ EndAtZero(u) /\ Leads(u, s0, s1)
  BY <1>2, LeadsData
<1>5. IsList(v) /\ EndAtZero(v) /\ Leads(v, s1, s2)
  BY <1>3, LeadsIndex
<1>6. IsList(w) /\ EndAtZero(w) /\ Leads(w, s2, s3)
  <2>1. CASE left.end = macros_end_offset
    BY <2>1, LeadsOne
  <2>2. CASE left.end # macros_end_offset
    BY <2>2, LeadsOne
  <2> QED BY <2>1, <2>2
<1> HIDE DEF u, v, w, s0, s1, s2, s3
<1>7. IsList(u \o v) /\ EndAtZero(u \o v) /\ Leads(u \o v, s0, s2)
  BY <1>4, <1>5, LeadsBoth
<1>8. IsList(u \o v \o w) /\ EndAtZero(u \o v \o w) /\ Leads(u \o v \o w, s0, s3)
  BY <1>6, <1>7, LeadsBoth
<1> QED
  BY <1>1, <1>8 DEF s0, s3

\* One more write behind a list: it is not the empty one.
LEMMA NotEmptyBoth ==
    ASSUME NEW s, IsList(s), NEW x
    PROVE  s \o <<x>> # <<>>
<1>1. IsList(<<x>>)
  <2>1. <<x>> = [i \in 1..1 |-> <<x>>[i]]
    OBVIOUS
  <2> QED BY <2>1 DEF IsList
<1>2. Len(s) \in Nat /\ Len(s \o <<x>>) = Len(s) + Len(<<x>>)
  BY <1>1, ListBoth
<1>3. Len(s \o <<x>>) # 0
  BY <1>2
<1> QED
  BY <1>3

\* macros_start_macro for a key that has an entry.
LEMMA AgainLeads ==
    ASSUME DataOK(macro_index, NULL, macros, macros_end_offset), NEW e \in Entries,
           macro_index[e].keys # NO_TRIGGER, NEW left, left = Left(e)
    PROVE  /\ IsList(AgainWrites(e)) /\ EndAtZero(AgainWrites(e)) /\ AgainWrites(e) # <<>>
           /\ Leads(AgainWrites(e), Store3(macro_index, macros_end_offset, macros),
                    Store3(EntryAt(left.index, e, left.end), left.end, left.data))
<1> DEFINE u == DeleteWrites(e)
           s0 == Store3(macro_index, macros_end_offset, macros)
           s1 == Store3(left.index, left.end, left.data)
           last == EntryAt(left.index, e, left.end)
           s2 == Store3(last, left.end, left.data)
<1>1. IsArray(left.index, Entries) /\ left.index[e].keys = macro_index[e].keys
  <2>1. CASE macro_index[e].type # "MACRO"
    <3>1. left.index = macro_index
      BY <2>1, DeletedProgram DEF Left
    <3> QED BY <3>1 DEF DataOK, IndexOK, IsArray
  <2>2. CASE macro_index[e].type = "MACRO"
    <3>1. e # NULL
      BY Sizes DEF NULL, Entries
    <3>2. e \in Done(macro_index, NULL)
      BY <2>2, <3>1 DEF Done
    <3>3. left.index \in [Entries -> EntrySet] /\ left.index[e].keys = macro_index[e].keys
      BY <3>2, DeletedMacro DEF Left
    <3> QED BY <3>3 DEF IsArray
  <2> QED BY <2>1, <2>2
<1> DEFINE x == [keys |-> macro_index[e].keys, type |-> "MACRO", data |-> left.end]
           w == <<Write("index", e, x)>>
<1>2. AgainWrites(e) = u \o w
  BY DEF AgainWrites, SetData
<1>3. last = [left.index EXCEPT ![e] = x]
  BY <1>1 DEF EntryAt
<1> HIDE DEF x, last
<1>4. IsList(u) /\ EndAtZero(u) /\ Leads(u, s0, s1)
  BY DeleteLeads
<1>5. IsList(w) /\ EndAtZero(w) /\ Leads(w, s1, s2)
  BY <1>1, <1>3, LeadsOne
<1>6. u \o w # <<>>
  BY <1>4, NotEmptyBoth
<1> HIDE DEF u, w, s0, s1, s2
<1>7. IsList(u \o w) /\ EndAtZero(u \o w) /\ Leads(u \o w, s0, s2)
  BY <1>4, <1>5, LeadsBoth
<1> QED
  BY <1>2, <1>6, <1>7 DEF s0, s2, last

\* macros_start_macro for a key that has none.
LEMMA NewLeads ==
    ASSUME DataOK(macro_index, NULL, macros, macros_end_offset), NEW k \in Triggers,
           NEW p \in Entries, p = CreatePosition(macro_index, k)
    PROVE  /\ IsList(NewWrites(k)) /\ EndAtZero(NewWrites(k)) /\ NewWrites(k) # <<>>
           /\ Leads(NewWrites(k), Store3(macro_index, macros_end_offset, macros),
                    Store3(EntryAt(macro_idx_create(macro_index, k), p, macros_end_offset),
                           macros_end_offset, macros))
<1> DEFINE ix == macro_index
           end == macros_end_offset
           S == {i \in Entries : i > p /\ ix[i - 1].keys # NO_TRIGGER}
           s == Descending(S)
           up == [i \in Entries |-> IF i \in S THEN ix[i - 1] ELSE ix[i]]
           x == [ix[p] EXCEPT !.keys = k]
           y == [keys |-> k, type |-> "MACRO", data |-> end]
           new == macro_idx_create(ix, k)
           u == OnceWrites("index", s, Len(s), up)
           v == <<Write("index", p, x)>>
           w == <<Write("index", p, y)>>
           s0 == Store3(ix, end, macros)
           s1 == Store3(up, end, macros)
           s2 == Store3(new, end, macros)
           last == EntryAt(new, p, end)
           s3 == Store3(last, end, macros)
<1>1. S \in SUBSET Entries /\ p \notin S
  BY Sizes
<1>2. ListsOnce(s, Len(s), S)
  <2> HIDE DEF S
  <2> QED BY <1>1, PlacesFinite, DescendingOnce
<1>3. up[p] = ix[p] /\ \A i \in Entries : i \notin S => up[i] = ix[i]
  BY <1>1
<1>4. NewWrites(k) = u \o v \o w
  <2>1. \A i \in 1..Len(s) : s[i] \in Entries /\ up[s[i]] = ix[s[i] - 1]
    <3> HIDE DEF s
    <3>1. \A i \in 1..Len(s) : s[i] \in S
      BY <1>2 DEF ListsOnce
    <3> QED BY <1>1, <3>1
  <2>2. MoveUpWrites(p) = [i \in 1..Len(s) |-> Write("index", s[i], ix[s[i] - 1])]
    BY DEF MoveUpWrites
  <2>3. MoveUpWrites(p) = u
    <3> HIDE DEF s, up
    <3> QED BY <2>1, <2>2 DEF OnceWrites
  <2>4. NewWrites(k) = MoveUpWrites(p) \o v \o w
    BY DEF NewWrites, SetData
  <2> QED BY <2>3, <2>4
<1>5. new = [up EXCEPT ![p] = x]
  <2>1. new = [i \in Entries |->
                 CASE i < p -> ix[i]
                   [] i = p -> x
                   [] i > p /\ ix[i - 1].keys # NO_TRIGGER -> ix[i - 1]
                   [] OTHER -> ix[i]]
    BY DEF macro_idx_create
  <2>2. ASSUME NEW i \in Entries PROVE new[i] = [up EXCEPT ![p] = x][i]
    <3>1. i \in Nat /\ p \in Nat
      BY Sizes
    <3>2. CASE i < p
      BY <2>1, <3>1, <3>2
    <3>3. CASE i = p
      BY <2>1, <3>1, <3>3
    <3>4. CASE i > p /\ ix[i - 1].keys # NO_TRIGGER
      <4>1. new[i] = ix[i - 1]
        BY <2>1, <3>1, <3>4
      <4>2. i \in S /\ i # p
        BY <3>1, <3>4
      <4> QED BY <4>1, <4>2
    <3>5. CASE i > p /\ ix[i - 1].keys = NO_TRIGGER
      <4>1. new[i] = ix[i]
        BY <2>1, <3>1, <3>5
      <4>2. i \notin S /\ i # p
        BY <3>1, <3>5
      <4> QED BY <4>1, <4>2
    <3> QED BY <3>1, <3>2, <3>3, <3>4, <3>5
  <2>3. new = [i \in Entries |-> new[i]] /\ [up EXCEPT ![p] = x] = [i \in Entries |-> [up EXCEPT ![p] = x][i]]
    BY <2>1
  <2> HIDE DEF new, up, x
  <2> QED BY <2>2, <2>3
<1>6. new[p].keys = k
  <2>1. new[p] = x
    BY <1>5
  <2>2. ix[p] \in EntrySet
    BY EntryType DEF DataOK
  <2> QED BY <2>1, <2>2 DEF EntrySet
<1>7. last = [new EXCEPT ![p] = y]
  BY <1>6 DEF EntryAt
<1>8. IsArray(up, Entries) /\ IsArray(new, Entries)
  BY <1>5 DEF IsArray
<1> HIDE DEF S, s, up, x, y, new, last
<1>9. IsList(u) /\ EndAtZero(u) /\ Leads(u, s0, s1)
  BY <1>2, <1>3, LeadsIndex
<1>10. IsList(v) /\ EndAtZero(v) /\ Leads(v, s1, s2)
  BY <1>5, <1>8, LeadsOne
<1>11. IsList(w) /\ EndAtZero(w) /\ Leads(w, s2, s3)
  BY <1>7, <1>8, LeadsOne
<1> HIDE DEF u, v, s0, s1, s2, s3
<1>12. IsList(u \o v) /\ EndAtZero(u \o v) /\ Leads(u \o v, s0, s2)
  BY <1>9, <1>10, LeadsBoth
<1>13. IsList(u \o v \o w) /\ EndAtZero(u \o v \o w) /\ Leads(u \o v \o w, s0, s3)
  BY <1>11, <1>12, LeadsBoth
<1>14. u \o v \o w # <<>>
  BY <1>12, NotEmptyBoth
<1> QED
  BY <1>4, <1>13, <1>14 DEF s0, s3, new, last

\* macros_abort_macro, and macros_commit_macro after an empty recording.
LEMMA RemoveLeads ==
    ASSUME NEW e \in Entries
    PROVE  /\ IsList(RemoveWrites(e)) /\ EndAtZero(RemoveWrites(e)) /\ RemoveWrites(e) # <<>>
           /\ Leads(RemoveWrites(e), Store3(macro_index, macros_end_offset, macros),
                    Store3(macro_idx_remove(macro_index, e), macros_end_offset, macros))
<1> DEFINE ix == macro_index
           stop == Min({i \in Entries : i >= e /\ MovedDown(ix, i).keys = NO_TRIGGER})
           new == macro_idx_remove(ix, e)
           n == stop - e + 1
           s == [i \in 1..n |-> e + i - 1]
           u == OnceWrites("index", s, n, new)
<1>1. stop \in Nat /\ stop >= e /\ e \in Nat
  <2>1. stop \in Entries /\ stop >= e
    BY StopIs
  <2> HIDE DEF stop
  <2> QED BY <2>1, Sizes
<1>2. \A i \in Entries : i \notin e..stop => new[i] = ix[i]
  BY DEF macro_idx_remove
<1>3. RemoveWrites(e) = u
  BY DEF RemoveWrites, OnceWrites
<1> HIDE DEF stop, new
<1>4. n \in Nat /\ n # 0
  BY <1>1
<1>5. ListsOnce(s, n, e..stop)
  <2>1. \A i \in 1..n : s[i] = e + i - 1 /\ s[i] \in e..stop
    BY <1>1
  <2>2. \A x \in e..stop : x - e + 1 \in 1..n /\ s[x - e + 1] = x
    BY <1>1
  <2>3. \A i, j \in 1..n : e + i - 1 = e + j - 1 => i = j
    BY <1>1
  <2> HIDE DEF s, n
  <2>4. \A i, j \in 1..n : s[i] = s[j] => i = j
    BY <2>1, <2>3
  <2>5. \A x \in e..stop : \E i \in 1..n : s[i] = x
    BY <2>2
  <2> QED BY <1>4, <2>1, <2>4, <2>5 DEF ListsOnce
<1> HIDE DEF s, n
<1>6. /\ IsList(u) /\ EndAtZero(u) /\ Len(u) = n
      /\ Leads(u, Store3(ix, macros_end_offset, macros), Store3(new, macros_end_offset, macros))
  BY <1>2, <1>5, LeadsIndex
<1> HIDE DEF u
<1>7. u # <<>>
  BY <1>4, <1>6
<1> QED
  BY <1>3, <1>6, <1>7 DEF new

\* macros_commit_macro: first the length of the macro, then the end offset.
LEMMA CommitLeads ==
    ASSUME IsArray(macros, Addresses), recording_state.macro \in Addresses
    PROVE  /\ IsList(CommitWrites) /\ EndAtZero(CommitWrites) /\ CommitWrites # <<>>
           /\ Leads(CommitWrites, Store3(macro_index, macros_end_offset, macros),
                    Store3(macro_index,
                           (macros_end_offset + Recorded + MACRO_DATA_HEADER_LEN) % 65536,
                           [macros EXCEPT ![recording_state.macro] = Recorded]))
<1> DEFINE new == [macros EXCEPT ![recording_state.macro] = Recorded]
           end == (macros_end_offset + Recorded + MACRO_DATA_HEADER_LEN) % 65536
           v == <<Write("data", recording_state.macro, Recorded)>>
           w == <<Write("end", 0, end)>>
           s0 == Store3(macro_index, macros_end_offset, macros)
           s1 == Store3(macro_index, macros_end_offset, new)
           s2 == Store3(macro_index, end, new)
<1>1. CommitWrites = v \o w
  BY DEF CommitWrites
<1> HIDE DEF end
<1>2. IsList(v) /\ EndAtZero(v) /\ Leads(v, s0, s1)
  BY LeadsOne
<1>3. IsList(w) /\ EndAtZero(w) /\ Leads(w, s1, s2)
  BY LeadsOne
<1> HIDE DEF v, s0, s1, s2
<1>4. IsList(v \o w) /\ EndAtZero(v \o w) /\ Leads(v \o w, s0, s2)
  BY <1>2, <1>3, LeadsBoth
<1>5. v \o w # <<>>
  BY <1>2, NotEmptyBoth
<1> QED
  BY <1>1, <1>4, <1>5 DEF s0, s2, end

-----------------------------------------------------------------------------
(***************************************************************************)
(* The calls: what each makes of a storage s.                              *)
(***************************************************************************)
Started(index, end, data, entry) ==
    [index |-> EntryAt(index, entry, end), end |-> end, data |-> data,
     recording |-> [macro |-> end, cursor |-> EventsAt(end), index_entry |-> entry]]

LeftOf(s, k) == delete_macro_data(s.index, s.end, s.data, macro_idx_lookup(s.index, k))

AgainAfter(s, k) ==
    Started(LeftOf(s, k).index, LeftOf(s, k).end, LeftOf(s, k).data, macro_idx_lookup(s.index, k))

NewAfter(s, k) ==
    Started(macro_idx_create(s.index, k), s.end, s.data, CreatePosition(s.index, k))

RecordedIn(s) == s.recording.cursor - EventsAt(s.recording.macro)

CommitAfter(s) ==
    [index |-> s.index, end |-> (s.end + RecordedIn(s) + MACRO_DATA_HEADER_LEN) % 65536,
     data |-> [s.data EXCEPT ![s.recording.macro] = RecordedIn(s)], recording |-> NotRecording]

AbortAfter(s) ==
    [index |-> macro_idx_remove(s.index, s.recording.index_entry), end |-> s.end,
     data |-> s.data, recording |-> NotRecording]

\* macros_start_macro(k) makes r of s, and so do macros_commit_macro and
\* macros_abort_macro.
StartMakes(s, k, r) ==
    /\ s.recording = NotRecording /\ k \in Triggers
    /\ \/ macro_idx_lookup(s.index, k) # NULL /\ r = AgainAfter(s, k)
       \/ /\ macro_idx_lookup(s.index, k) = NULL /\ ~IndexFull(s.index)
          /\ r = NewAfter(s, k)

EndMakes(s, r) ==
    /\ s.recording # NotRecording
    /\ (RecordedIn(s) # 0 /\ r = CommitAfter(s)) \/ r = AbortAfter(s)

Sound(s) == StorageOK(s.index, s.end, s.data, s.recording)

\* When nothing is recorded every entry is a committed one.
LEMMA SoundIdle ==
    ASSUME NEW s, Sound(s), s.recording = NotRecording
    PROVE  DataOK(s.index, NULL, s.data, s.end)
  BY DEF Sound, StorageOK, NotRecording

\* The entry a search finds is in use.
LEMMA FoundEntry ==
    ASSUME NEW ix, IndexOK(ix), NEW k \in Triggers, macro_idx_lookup(ix, k) # NULL
    PROVE  /\ macro_idx_lookup(ix, k) \in Entries
           /\ ix[macro_idx_lookup(ix, k)].keys = k /\ k # NO_TRIGGER
<1>1. k \in Keys /\ k # NO_TRIGGER
  <2>1. k < NO_TRIGGER /\ k \in Nat /\ NO_TRIGGER \in Nat
    BY Sizes
  <2> QED BY <2>1 DEF Keys
<1>2. Rising(ix)
  BY SortedRises
<1> QED
  BY <1>1, <1>2, LookupFinds

\* A recording that starts at the end of the data.
LEMMA StartedOK ==
    ASSUME NEW ix, NEW end \in Nat, NEW data, NEW e \in Entries, NEW new, new = EntryAt(ix, e, end),
           DataOK(new, e, data, end), new[e].data = end, new[e].keys # NO_TRIGGER, new[e].type = "MACRO"
    PROVE  Sound(Started(ix, end, data, e))
<1> DEFINE rec == [macro |-> end, cursor |-> EventsAt(end), index_entry |-> e]
           r == Started(ix, end, data, e)
<1>1. EventsAt(end) \in Nat /\ EventsAt(end) <= EventsAt(end) /\ ~(EventsAt(end) > EventsAt(end))
  BY Sizes DEF EventsAt
<1>2. rec \in [macro : Nat, cursor : Nat, index_entry : Entries]
  BY <1>1
<1>3. RecordingOK(new, end, rec)
  BY <1>1, <1>2 DEF RecordingOK
<1>4. r.index = new /\ r.end = end /\ r.data = data /\ r.recording = rec
  BY DEF Started
<1>5. rec.index_entry = e
  OBVIOUS
<1> HIDE DEF r, rec
<1> QED
  BY <1>3, <1>4, <1>5 DEF Sound, StorageOK, r

\* Every call makes a sound storage of a sound one.
LEMMA CallsSound ==
    ASSUME NEW s, NEW k, NEW r, Sound(s), StartMakes(s, k, r) \/ EndMakes(s, r)
    PROVE  Sound(r)
<1> DEFINE ix == s.index
           data == s.data
           end == s.end
           rec == s.recording
           e == macro_idx_lookup(ix, k)
<1>1. CASE StartMakes(s, k, r) /\ e # NULL
  <2> DEFINE left == delete_macro_data(ix, end, data, e)
             new == EntryAt(left.index, e, left.end)
  <2>1. DataOK(ix, NULL, data, end) /\ k \in Triggers
    BY <1>1, SoundIdle DEF StartMakes
  <2>2. e \in Entries /\ ix[e].keys = k /\ k # NO_TRIGGER
    BY <1>1, <2>1, FoundEntry DEF DataOK
  <2>3. r = Started(left.index, left.end, left.data, e)
    BY <1>1 DEF StartMakes, AgainAfter, LeftOf
  <2>4. /\ DataOK(new, e, left.data, left.end) /\ left.end \in Nat
        /\ new[e] = [keys |-> ix[e].keys, type |-> "MACRO", data |-> left.end]
    <3> HIDE DEF ix, data, end, e
    <3> QED BY <2>1, <2>2, AgainOK
  <2>5. new[e].data = left.end /\ new[e].keys # NO_TRIGGER /\ new[e].type = "MACRO"
    BY <2>2, <2>4
  <2> HIDE DEF left, new, e
  <2> QED BY <2>2, <2>3, <2>4, <2>5, StartedOK DEF new
<1>2. CASE StartMakes(s, k, r) /\ e = NULL
  <2> DEFINE p == CreatePosition(ix, k)
             up == macro_idx_create(ix, k)
             en == [keys |-> k, type |-> "MACRO", data |-> end]
             new == EntryAt(up, p, end)
  <2>1. DataOK(ix, NULL, data, end) /\ k \in Triggers /\ ~IndexFull(ix) /\ e = NULL
    BY <1>2, SoundIdle DEF StartMakes
  <2>2. r = Started(up, end, data, p)
    BY <1>2 DEF StartMakes, NewAfter
  <2>3. end \in Nat /\ k \in Keys /\ k # NO_TRIGGER /\ k \in Nat
    <3>1. end \in Nat
      BY <2>1 DEF DataOK, Tiles
    <3>2. k < NO_TRIGGER /\ k \in Nat /\ NO_TRIGGER \in Nat
      BY <2>1, Sizes
    <3> QED BY <3>1, <3>2, <2>1 DEF Keys
  <2>4. en \in EntrySet /\ en.keys = k
    BY <2>3 DEF EntrySet
  <2>5. p \in Entries /\ Inserted(ix, k, en)[p] = en /\ DataOK(Inserted(ix, k, en), p, data, end)
    <3> HIDE DEF ix, data, end, en
    <3> QED BY <2>1, <2>4, NewOK DEF e
  <2>6. new = Inserted(ix, k, en)
    <3>1. up[p].keys = k
      <4>1. up[p] = [ix[p] EXCEPT !.keys = k]
        <5> HIDE DEF p
        <5>1. p \in Nat /\ ~(p < p)
          <6>1. p \in Entries
            BY <2>5
          <6> QED BY <6>1, Sizes
        <5>2. up = [i \in Entries |->
                 CASE i < p -> ix[i]
                   [] i = p -> [ix[i] EXCEPT !.keys = k]
                   [] i > p /\ ix[i - 1].keys # NO_TRIGGER -> ix[i - 1]
                   [] OTHER -> ix[i]]
          BY DEF macro_idx_create, p
        <5> HIDE DEF up
        <5> QED BY <2>5, <5>1, <5>2
      <4>2. ix[p] \in EntrySet
        BY <2>1, <2>5, EntryType DEF DataOK
      <4> HIDE DEF up, p
      <4> QED BY <4>1, <4>2 DEF EntrySet
    <3> QED BY <3>1 DEF EntryAt, Inserted
  <2> HIDE DEF ix, data, end
  <2>7. new[p].data = end /\ new[p].keys # NO_TRIGGER /\ new[p].type = "MACRO"
    BY <2>3, <2>5, <2>6
  <2> HIDE DEF new, en, p, up
  <2>8. Sound(Started(up, end, data, p))
    BY <2>3, <2>5, <2>6, <2>7, StartedOK DEF new
  <2> QED BY <2>2, <2>8
<1>3. CASE EndMakes(s, r) /\ RecordedIn(s) # 0 /\ r = CommitAfter(s)
  <2> DEFINE n == RecordedIn(s)
             new == [data EXCEPT ![rec.macro] = n]
             end2 == (end + n + MACRO_DATA_HEADER_LEN) % 65536
  <2>1. StorageOK(ix, end, data, rec) /\ rec # NotRecording
    BY <1>3 DEF Sound, EndMakes
  <2>2. DataOK(ix, NULL, new, end2)
    <3>1. n = rec.cursor - EventsAt(rec.macro) /\ n # 0
      BY <1>3 DEF RecordedIn
    <3> HIDE DEF ix, data, end, rec, n
    <3> QED BY <2>1, <3>1, CommitOK
  <2>3. r.index = ix /\ r.end = end2 /\ r.data = new /\ r.recording = NotRecording
    BY <1>3 DEF CommitAfter
  <2> HIDE DEF new, end2, ix
  <2> QED BY <2>2, <2>3 DEF Sound, StorageOK, RecordingOK, NotRecording
<1>4. CASE EndMakes(s, r) /\ r = AbortAfter(s)
  <2> DEFINE new == macro_idx_remove(ix, rec.index_entry)
  <2>1. StorageOK(ix, end, data, rec) /\ rec # NotRecording
    BY <1>4 DEF Sound, EndMakes
  <2>2. DataOK(new, NULL, data, end)
    <3> HIDE DEF ix, data, end, rec
    <3> QED BY <2>1, AbortOK
  <2>3. r.index = new /\ r.end = end /\ r.data = data /\ r.recording = NotRecording
    BY <1>4 DEF AbortAfter
  <2> HIDE DEF new, end, data
  <2> QED BY <2>2, <2>3 DEF Sound, StorageOK, RecordingOK, NotRecording
<1> QED
  BY <1>1, <1>2, <1>3, <1>4 DEF EndMakes

\* What is left of it when the host changed the storage under a recording: the
\* index is in order, and the recording has a place in the chip.
LooseRecording(rec) ==
    \/ rec = NotRecording
    \/ /\ rec \in [macro : Nat, cursor : Nat, index_entry : Entries]
       /\ EventsAt(rec.macro) <= rec.cursor
       /\ rec.cursor > EventsAt(rec.macro) => rec.cursor <= STORAGE_SIZE

Loose(s) == IndexOK(s.index) /\ IsArray(s.data, Addresses) /\ LooseRecording(s.recording)

\* What is sound is loose.
LEMMA SoundLoose ==
    ASSUME NEW s, Sound(s)
    PROVE  Loose(s)
  BY DEF Sound, StorageOK, DataOK, RecordingOK, Loose, LooseRecording

\* A recording with events has its length in the chip.
LEMMA LooseMacro ==
    ASSUME NEW rec, LooseRecording(rec), rec # NotRecording, NEW n,
           n = rec.cursor - EventsAt(rec.macro), n # 0
    PROVE  rec.macro \in Addresses
<1> DEFINE m == rec.macro
           c == rec.cursor
           h == MACRO_DATA_HEADER_LEN
<1>1. /\ m \in Nat /\ c \in Nat /\ m + h <= c /\ (c > m + h => c <= STORAGE_SIZE)
      /\ n = c - (m + h)
  BY DEF LooseRecording, EventsAt
<1>2. h \in Nat \ {0} /\ STORAGE_SIZE \in Nat
  BY Sizes
<1> HIDE DEF m, c, h
<1>3. m < STORAGE_SIZE
  BY <1>1, <1>2
<1> QED
  BY <1>1, <1>2, <1>3 DEF Addresses, m

\* A recording of a loose storage ends in a loose one.
LEMMA EndLoose ==
    ASSUME NEW s, Loose(s), NEW r, EndMakes(s, r)
    PROVE  Loose(r)
<1>1. s.recording.index_entry \in Entries
  BY DEF EndMakes, Loose, LooseRecording
<1>2. CASE RecordedIn(s) # 0 /\ r = CommitAfter(s)
  <2>1. IsArray([s.data EXCEPT ![s.recording.macro] = RecordedIn(s)], Addresses)
    <3> DEFINE m == s.recording.macro
               n == RecordedIn(s)
    <3> HIDE DEF m, n
    <3> QED BY DEF Loose, IsArray, m, n
  <2>2. /\ r.index = s.index /\ r.recording = NotRecording
        /\ r.data = [s.data EXCEPT ![s.recording.macro] = RecordedIn(s)]
    BY <1>2 DEF CommitAfter
  <2> QED BY <2>1, <2>2 DEF Loose, LooseRecording
<1>3. CASE r = AbortAfter(s)
  <2>1. IndexOK(macro_idx_remove(s.index, s.recording.index_entry))
    BY <1>1, RemovedOK DEF Loose
  <2>2. /\ r.index = macro_idx_remove(s.index, s.recording.index_entry)
        /\ r.data = s.data /\ r.recording = NotRecording
    BY <1>3 DEF AbortAfter
  <2> QED BY <2>1, <2>2 DEF Loose, LooseRecording
<1> QED
  BY <1>2, <1>3 DEF EndMakes

-----------------------------------------------------------------------------
(***************************************************************************)
(* The inductive invariant.  Between two calls the storage is sound, or    *)
(* loose once the host has disturbed it; during one, the storage the call  *)
(* found is, and the writes still to make lead from what is stored now to  *)
(* what the call makes of it.                                              *)
(***************************************************************************)
Now == Store3(macro_index, macros_end_offset, macros)

WritesInv ==
    /\ IsList(writes) /\ EndAtZero(writes)
    /\ IsArray(macro_index, Entries) /\ IsArray(macros, Addresses)

Makes(r) ==
    \/ StartMakes(shown, key, r) /\ playback_state.remaining = 0 /\ ~disturbed
    \/ EndMakes(shown, r)

Fit(s) == Loose(s) /\ (~disturbed => Sound(s))

BetweenInv == Between => Fit(storage)

DuringInv ==
    ~Between => /\ Fit(shown) /\ recording_state = shown.recording
                /\ \E r : Makes(r) /\ outcome = r.recording /\ Leads(writes, Now, r)

MacroInv == WritesInv /\ BetweenInv /\ DuringInv

\* A storage is made of arrays.
LEMMA LooseArrays ==
    ASSUME NEW s, Loose(s)
    PROVE  IsArray(s.index, Entries) /\ IsArray(s.data, Addresses)
  BY DEF Loose, IndexOK, IsArray

\* Every call makes a fit storage of a fit one.
LEMMA CallsFit ==
    ASSUME NEW r, Makes(r), Fit(shown)
    PROVE  Fit(r)
<1>1. ~disturbed => Sound(r)
  BY CallsSound DEF Makes, Fit
<1>2. Loose(r)
  BY <1>1, SoundLoose, EndLoose DEF Makes, Fit
<1> QED
  BY <1>1, <1>2 DEF Fit

\* One write is made.
LEMMA LeadsOn ==
    ASSUME WritesInv, DoWrite, NEW r, Leads(writes, Now, r)
    PROVE  /\ WritesInv' /\ Leads(writes', Now', r)
           /\ Len(writes) = 1 /\ IsArray(r.index, Entries) /\ IsArray(r.data, Addresses) =>
                 macro_index' = r.index /\ macros_end_offset' = r.end /\ macros' = r.data
<1> DEFINE w == Head(writes)
           ix == Written(macro_index, "index", w)
           data == Written(macros, "data", w)
           end == IF w.part # "end" THEN macros_end_offset ELSE w.value
<1>1. /\ macro_index' = ix /\ macros' = data /\ macros_end_offset' = end
      /\ writes # <<>> /\ writes' = Tail(writes)
  BY DEF DoWrite, Written
<1>2. /\ IsList(writes) /\ EndAtZero(writes)
      /\ IsArray(macro_index, Entries) /\ IsArray(macros, Addresses)
  BY DEF WritesInv
<1>3. /\ YieldsAll(writes, "index", Entries, macro_index, r.index)
      /\ YieldsAll(writes, "data", Addresses, macros, r.data)
      /\ Yields(writes, "end", 0, macros_end_offset, r.end)
  BY DEF Leads, Now, Store3
<1>4. /\ IsList(Tail(writes)) /\ Head(writes) = writes[1]
      /\ Len(writes) \in Nat \ {0} /\ Len(Tail(writes)) = Len(writes) - 1
      /\ \A i \in 1..Len(Tail(writes)) : Tail(writes)[i] = writes[i + 1]
  BY <1>1, <1>2, ListTail
<1>5. /\ IsArray(ix, Entries) /\ YieldsAll(Tail(writes), "index", Entries, ix, r.index)
      /\ IsArray(r.index, Entries) /\ Len(writes) = 1 => ix = r.index
  BY <1>1, <1>2, <1>3, ArrayStep
<1>6. /\ IsArray(data, Addresses) /\ YieldsAll(Tail(writes), "data", Addresses, data, r.data)
      /\ IsArray(r.data, Addresses) /\ Len(writes) = 1 => data = r.data
  BY <1>1, <1>2, <1>3, ArrayStep
<1>7. EndAtZero(Tail(writes))
  BY <1>2, <1>4 DEF EndAtZero
<1>8. w.part = "end" => w.at = 0
  BY <1>2, <1>4 DEF EndAtZero
<1>9. Yields(Tail(writes), "end", 0, end, r.end)
  <2>1. To(w, "end", 0) => end = w.value
    BY DEF To
  <2>2. ~To(w, "end", 0) => end = macros_end_offset
    BY <1>8 DEF To
  <2> HIDE DEF end
  <2> QED BY <1>1, <1>2, <1>3, <2>1, <2>2, YieldsTail
<1> HIDE DEF ix, data, end
<1>10. Len(writes) = 1 => end = r.end
  <2> SUFFICES ASSUME Len(writes) = 1 PROVE end = r.end
    OBVIOUS
  <2>1. Tail(writes) = <<>>
    BY <1>1, <1>2, TailEmpty
  <2> QED BY <1>9, <2>1, YieldsNothing
<1>11. WritesInv'
  BY <1>1, <1>4, <1>5, <1>6, <1>7 DEF WritesInv
<1>12. Leads(writes', Now', r)
  BY <1>1, <1>5, <1>6, <1>9 DEF Leads, Now, Store3
<1> QED
  BY <1>1, <1>5, <1>6, <1>10, <1>11, <1>12

\* What a write leaves of the invariant, and what the last one stores.
LEMMA InvWrite ==
    ASSUME MacroInv, DoWrite
    PROVE  /\ MacroInv' /\ ~Between /\ (Between' <=> Len(writes) = 1)
           /\ ~Between' => shown' = shown
           /\ Between' => \E r : /\ Makes(r) /\ Fit(r) /\ recording_state' = r.recording
                                 /\ macro_index' = r.index /\ macros_end_offset' = r.end
                                 /\ macros' = r.data
<1>1. /\ writes # <<>> /\ writes' = Tail(writes) /\ ~Between /\ IsList(writes) /\ WritesInv
      /\ Len(writes) = 1 => recording_state' = outcome
      /\ Len(writes) # 1 => /\ recording_state' = recording_state /\ outcome' = outcome
                            /\ shown' = shown /\ key' = key
      /\ playback_state' = playback_state /\ disturbed' = disturbed
  BY DEF DoWrite, MacroInv, WritesInv, Between
<1>2. Between' <=> Len(writes) = 1
  BY <1>1, TailEmpty DEF Between
<1>3. PICK r : Makes(r) /\ outcome = r.recording /\ Leads(writes, Now, r)
  BY <1>1 DEF MacroInv, DuringInv
<1>4. Fit(shown) /\ recording_state = shown.recording
  BY <1>1 DEF MacroInv, DuringInv
<1>5. Fit(r) /\ Loose(r)
  BY <1>3, <1>4, CallsFit DEF Fit
<1>6. /\ WritesInv' /\ Leads(writes', Now', r)
      /\ Len(writes) = 1 => macro_index' = r.index /\ macros_end_offset' = r.end /\ macros' = r.data
  BY <1>1, <1>3, <1>5, LeadsOn, LooseArrays
<1>7. CASE Len(writes) = 1
  <2>1. /\ storage'.index = r.index /\ storage'.end = r.end /\ storage'.data = r.data
        /\ storage'.recording = r.recording
    BY <1>1, <1>3, <1>6, <1>7 DEF storage
  <2>2. Fit(storage)'
    BY <1>1, <1>5, <2>1 DEF Fit, Sound, Loose
  <2>3. BetweenInv' /\ DuringInv'
    BY <1>2, <1>7, <2>2 DEF BetweenInv, DuringInv
  <2> QED BY <1>1, <1>2, <1>3, <1>5, <1>6, <1>7, <2>3 DEF MacroInv
<1>8. CASE Len(writes) # 1
  <2>1. (Makes(r))'
    BY <1>1, <1>3, <1>8 DEF Makes
  <2>2. Fit(shown)'
    BY <1>1, <1>4, <1>8 DEF Fit
  <2>3. BetweenInv' /\ DuringInv'
    BY <1>1, <1>2, <1>3, <1>4, <1>6, <1>8, <2>1, <2>2 DEF BetweenInv, DuringInv
  <2> QED BY <1>1, <1>2, <1>6, <1>8, <2>3 DEF MacroInv
<1> QED
  BY <1>7, <1>8

\* A call begins.
LEMMA InvBegun ==
    ASSUME MacroInv, NEW list, NEW after, Begin(list, after), IsList(list), EndAtZero(list),
           list # <<>>, NEW r, Leads(list, Now, r), after = r.recording,
           \/ StartMakes(storage, key', r) /\ playback_state.remaining = 0 /\ ~disturbed
           \/ EndMakes(storage, r)
    PROVE  MacroInv' /\ Between /\ ~Between' /\ shown' = storage
<1>1. /\ Between /\ writes' = list /\ outcome' = after /\ shown' = storage
      /\ macro_index' = macro_index /\ macros_end_offset' = macros_end_offset /\ macros' = macros
      /\ recording_state' = recording_state /\ playback_state' = playback_state
      /\ disturbed' = disturbed
  BY DEF Begin, vars
<1>2. ~Between'
  BY <1>1 DEF Between
<1>3. WritesInv' /\ Now' = Now
  BY <1>1 DEF MacroInv, WritesInv, Now, Store3
<1>4. Fit(shown)' /\ recording_state = storage.recording
  <2>1. Fit(storage) /\ recording_state = storage.recording
    BY <1>1 DEF MacroInv, BetweenInv, storage
  <2> QED BY <1>1, <2>1 DEF Fit
<1>5. (Makes(r))'
  BY <1>1 DEF Makes
<1>6. DuringInv'
  BY <1>1, <1>2, <1>3, <1>4, <1>5 DEF DuringInv
<1>7. BetweenInv'
  BY <1>2 DEF BetweenInv
<1> QED
  BY <1>1, <1>2, <1>3, <1>6, <1>7 DEF MacroInv

\* macros_start_macro begins.
LEMMA InvStart ==
    ASSUME MacroInv, NEW k \in Triggers, BeginStart(k)
    PROVE  MacroInv' /\ Between /\ ~Between' /\ shown' = storage
<1> DEFINE e == macro_idx_lookup(macro_index, k)
           left == Left(e)
           p == CreatePosition(macro_index, k)
<1>1. Between /\ Idle /\ key' = k /\ ~disturbed
  BY DEF BeginStart, BeginRecord, Begin
<1>2. Sound(storage) /\ storage.recording = NotRecording /\ playback_state.remaining = 0
  BY <1>1 DEF MacroInv, BetweenInv, Fit, Idle, storage
<1>3. DataOK(macro_index, NULL, macros, macros_end_offset)
  BY <1>2, SoundIdle DEF storage
<1>4. CASE e # NULL
  <2> DEFINE r == AgainAfter(storage, k)
             after == [macro |-> left.end, cursor |-> EventsAt(left.end), index_entry |-> e]
  <2>1. Begin(AgainWrites(e), after)
    BY <1>4 DEF BeginStart, BeginRecord
  <2>2. e \in Entries /\ macro_index[e].keys # NO_TRIGGER
    BY <1>3, <1>4, FoundEntry DEF DataOK
  <2>3. /\ r.index = EntryAt(left.index, e, left.end) /\ r.end = left.end /\ r.data = left.data
        /\ r.recording = after
    BY DEF AgainAfter, LeftOf, Started, Left, storage
  <2>4. /\ IsList(AgainWrites(e)) /\ EndAtZero(AgainWrites(e)) /\ AgainWrites(e) # <<>>
        /\ Leads(AgainWrites(e), Now, Store3(EntryAt(left.index, e, left.end), left.end, left.data))
    BY <1>3, <2>2, AgainLeads DEF Now
  <2>5. StartMakes(storage, k, r)
    BY <1>2, <1>4 DEF StartMakes, storage
  <2> HIDE DEF r, after, left, e
  <2>6. Leads(AgainWrites(e), Now, r)
    BY <2>3, <2>4 DEF Leads, Store3
  <2> QED BY <1>1, <1>2, <2>1, <2>3, <2>4, <2>5, <2>6, InvBegun
<1>5. CASE e = NULL
  <2> DEFINE r == NewAfter(storage, k)
             new == EntryAt(macro_idx_create(macro_index, k), p, macros_end_offset)
             after == [macro |-> macros_end_offset, cursor |-> EventsAt(macros_end_offset),
                       index_entry |-> p]
  <2>1. Begin(NewWrites(k), after) /\ ~IndexFull(macro_index)
    BY <1>5 DEF BeginStart, BeginRecord
  <2>2. p \in Entries
    <3>1. Rising(macro_index) /\ k \in Keys
      BY <1>3, SortedRises DEF DataOK, Keys
    <3>2. \A i \in Entries : macro_index[i].keys # k
      BY <1>5, <3>1, LookupFinds
    <3> QED BY <1>3, <2>1, <3>2, PositionIs DEF DataOK
  <2>3. r.index = new /\ r.end = macros_end_offset /\ r.data = macros /\ r.recording = after
    BY DEF NewAfter, Started, storage
  <2>4. /\ IsList(NewWrites(k)) /\ EndAtZero(NewWrites(k)) /\ NewWrites(k) # <<>>
        /\ Leads(NewWrites(k), Now, Store3(new, macros_end_offset, macros))
    BY <1>3, <2>2, NewLeads DEF Now
  <2>5. StartMakes(storage, k, r)
    BY <1>2, <1>5, <2>1 DEF StartMakes, storage
  <2> HIDE DEF r, after, new
  <2>6. Leads(NewWrites(k), Now, r)
    BY <2>3, <2>4 DEF Leads, Store3
  <2> QED BY <1>1, <1>2, <2>1, <2>3, <2>4, <2>5, <2>6, InvBegun
<1> QED
  BY <1>4, <1>5

\* macros_commit_macro or macros_abort_macro begins.
LEMMA InvEnd ==
    ASSUME MacroInv, BeginEnd
    PROVE  MacroInv' /\ Between /\ ~Between' /\ shown' = storage
<1> DEFINE e == recording_state.index_entry
           new == [macros EXCEPT ![recording_state.macro] = Recorded]
           end == (macros_end_offset + Recorded + MACRO_DATA_HEADER_LEN) % 65536
<1>1. Between /\ recording_state # NotRecording
  BY DEF BeginEnd, Begin
<1>2. storage.recording # NotRecording /\ LooseRecording(recording_state)
  BY <1>1 DEF MacroInv, BetweenInv, Fit, Loose, storage
<1>3. CASE Recorded # 0 /\ Begin(CommitWrites, NotRecording)
  <2> DEFINE r == CommitAfter(storage)
  <2>1. r.index = macro_index /\ r.end = end /\ r.data = new /\ r.recording = NotRecording
    BY DEF CommitAfter, RecordedIn, Recorded, storage
  <2>2. recording_state.macro \in Addresses /\ IsArray(macros, Addresses)
    <3> DEFINE n == Recorded
    <3>1. n = recording_state.cursor - EventsAt(recording_state.macro) /\ n # 0
      BY <1>3 DEF Recorded
    <3> HIDE DEF n
    <3>2. recording_state.macro \in Addresses
      BY <1>1, <1>2, <3>1, LooseMacro
    <3> QED BY <3>2 DEF MacroInv, WritesInv
  <2>3. /\ IsList(CommitWrites) /\ EndAtZero(CommitWrites) /\ CommitWrites # <<>>
        /\ Leads(CommitWrites, Now, Store3(macro_index, end, new))
    BY <2>2, CommitLeads DEF Now
  <2>4. EndMakes(storage, r)
    BY <1>2, <1>3 DEF EndMakes, RecordedIn, Recorded, storage
  <2> HIDE DEF r, new, end
  <2>5. Leads(CommitWrites, Now, r)
    BY <2>1, <2>3 DEF Leads, Store3
  <2> QED BY <1>3, <2>1, <2>3, <2>4, <2>5, InvBegun
<1>4. CASE Begin(RemoveWrites(e), NotRecording)
  <2> DEFINE r == AbortAfter(storage)
             ix == macro_idx_remove(macro_index, e)
  <2>1. e \in Entries
    BY <1>1, <1>2 DEF LooseRecording
  <2>2. /\ r.index = ix /\ r.end = macros_end_offset /\ r.data = macros
        /\ r.recording = NotRecording
    BY DEF AbortAfter, storage
  <2>3. /\ IsList(RemoveWrites(e)) /\ EndAtZero(RemoveWrites(e)) /\ RemoveWrites(e) # <<>>
        /\ Leads(RemoveWrites(e), Now, Store3(ix, macros_end_offset, macros))
    BY <2>1, RemoveLeads DEF Now
  <2>4. EndMakes(storage, r)
    BY <1>2 DEF EndMakes
  <2> HIDE DEF r, ix, e
  <2>5. Leads(RemoveWrites(e), Now, r)
    BY <2>2, <2>3 DEF Leads, Store3
  <2> QED BY <1>4, <2>2, <2>3, <2>4, <2>5, InvBegun
<1> QED
  BY <1>3, <1>4 DEF BeginEnd

\* Nothing is being written before and after a step that leaves a fit storage.
LEMMA InvBetween ==
    ASSUME MacroInv, Between, writes' = writes, Fit(storage)'
    PROVE  MacroInv'
<1>1. Between'
  BY DEF Between
<1>2. BetweenInv' /\ DuringInv'
  BY <1>1 DEF BetweenInv, DuringInv
<1>3. IsArray(storage'.index, Entries) /\ IsArray(storage'.data, Addresses)
  BY LooseArrays DEF Fit
<1>4. WritesInv'
  BY <1>3 DEF MacroInv, WritesInv, storage
<1> QED
  BY <1>2, <1>4 DEF MacroInv

\* An event is recorded, on a storage that the host may have disturbed.
LEMMA AppendLoose ==
    ASSUME NEW rec, LooseRecording(rec), rec # NotRecording, rec.cursor \in Addresses,
           NEW rec2, rec2 = [rec EXCEPT !.cursor = @ + 1]
    PROVE  LooseRecording(rec2)
<1> DEFINE m == rec.macro
           c == rec.cursor
           h == MACRO_DATA_HEADER_LEN
<1>1. /\ rec \in [macro : Nat, cursor : Nat, index_entry : Entries]
      /\ m \in Nat /\ c \in Nat /\ m + h <= c
  BY DEF LooseRecording, EventsAt
<1>2. h \in Nat /\ STORAGE_SIZE \in Nat /\ c < STORAGE_SIZE
  BY Sizes DEF Addresses
<1>3. /\ rec2 \in [macro : Nat, cursor : Nat, index_entry : Entries]
      /\ rec2.macro = m /\ rec2.cursor = c + 1
  BY <1>1
<1> HIDE DEF m, c, h
<1>4. m + h <= c + 1 /\ c + 1 <= STORAGE_SIZE
  BY <1>1, <1>2
<1> QED
  BY <1>3, <1>4 DEF LooseRecording, EventsAt, h

\* The steps between two calls.
LEMMA InvOther ==
    ASSUME MacroInv,
           \/ \E event \in Events : Append1(event)
           \/ \E k \in ProgramTriggers : ClientWrites(k)
           \/ Play \/ Reset
    PROVE  MacroInv' /\ Between /\ Between'
<1>1. Between /\ writes' = writes /\ Between'
  BY DEF Append1, ClientWrites, Play, Reset, Between
<1>2. /\ IndexOK(macro_index) /\ IsArray(macros, Addresses) /\ LooseRecording(recording_state)
      /\ ~disturbed => StorageOK(macro_index, macros_end_offset, macros, recording_state)
  BY <1>1 DEF MacroInv, BetweenInv, Fit, Loose, Sound, storage
<1>3. SUFFICES
        /\ IndexOK(macro_index') /\ IsArray(macros', Addresses) /\ LooseRecording(recording_state')
        /\ ~disturbed' => StorageOK(macro_index', macros_end_offset', macros', recording_state')
  BY <1>1, InvBetween DEF Fit, Loose, Sound, storage
<1> DEFINE Good == /\ IndexOK(macro_index') /\ IsArray(macros', Addresses)
                   /\ LooseRecording(recording_state')
           Whole1 == StorageOK(macro_index', macros_end_offset', macros', recording_state')
<1>4. ASSUME NEW event \in Events, Append1(event) PROVE Good /\ (~disturbed' => Whole1)
  <2>1. /\ recording_state # NotRecording /\ recording_state.cursor \in Addresses
        /\ macros' = [macros EXCEPT ![recording_state.cursor] = event]
        /\ recording_state' = [recording_state EXCEPT !.cursor = @ + 1]
        /\ macro_index' = macro_index /\ macros_end_offset' = macros_end_offset
        /\ disturbed' = disturbed
    BY <1>4 DEF Append1, macros_append
  <2>2. IsArray(macros', Addresses)
    BY <1>2, <2>1 DEF IsArray
  <2>3. LooseRecording(recording_state')
    BY <1>2, <2>1, AppendLoose
  <2>4. ~disturbed' => Whole1
    BY <1>2, <2>1, AppendOK
  <2> QED BY <1>2, <2>1, <2>2, <2>3, <2>4
<1>5. ASSUME NEW k \in ProgramTriggers, ClientWrites(k) PROVE Good /\ (~disturbed' => Whole1)
  <2> DEFINE en == [keys |-> k, type |-> "PROGRAM", data |-> 0]
  <2>1. /\ recording_state' = recording_state
        /\ ~disturbed' => ~disturbed /\ recording_state = NotRecording
        /\ macro_idx_lookup(macro_index, k) = NULL /\ ~IndexFull(macro_index)
        /\ macro_index' = Inserted(macro_index, k, en)
        /\ macros' = macros /\ macros_end_offset' = macros_end_offset
    BY <1>5 DEF ClientWrites, ClientAddsProgram, Inserted
  <2>2. k \in Triggers /\ k \in Keys
    BY MacroSizes DEF Keys
  <2>3. en \in EntrySet /\ en.keys = k /\ en.type # "MACRO"
    BY <2>2 DEF EntrySet
  <2> HIDE DEF en
  <2>4. IndexOK(macro_index')
    <3>1. \A i \in Entries : macro_index[i].keys # k
      BY <1>2, <2>1, <2>2, SortedRises, LookupFinds
    <3> QED BY <1>2, <2>1, <2>2, <2>3, <3>1, InsertedOK
  <2>5. ASSUME ~disturbed' PROVE Whole1
    <3>1. DataOK(macro_index, NULL, macros, macros_end_offset) /\ recording_state' = NotRecording
      BY <1>2, <2>1, <2>5 DEF StorageOK, NotRecording
    <3>2. DataOK(macro_index', NULL, macros, macros_end_offset)
      BY <2>1, <2>2, <2>3, <3>1, NewOK
    <3> QED BY <2>1, <3>1, <3>2 DEF StorageOK, RecordingOK, NotRecording
  <2> QED BY <1>2, <2>1, <2>4, <2>5
<1>6. ASSUME Play PROVE Good /\ (~disturbed' => Whole1)
  <2>1. /\ macro_index' = macro_index /\ macros' = macros /\ recording_state' = recording_state
        /\ macros_end_offset' = macros_end_offset /\ disturbed' = disturbed
    BY <1>6 DEF Play, macros_fill_next_report, macros_start_playback
  <2> QED BY <1>2, <2>1
<1>7. ASSUME Reset PROVE Good /\ (~disturbed' => Whole1)
  <2>1. /\ recording_state' = recording_state /\ macro_index' = FactoryIndex
        /\ macros' = [a \in Addresses |-> FactoryByte(a, macros[a])]
        /\ macros_end_offset' = DefEnd
        /\ ~disturbed' => recording_state = NotRecording
    BY <1>7 DEF Reset, reset_defaults, DefEnd
  <2>2. DataOK(macro_index', NULL, macros', macros_end_offset')
    BY <2>1, FactoryOK
  <2>3. Good
    BY <1>2, <2>1, <2>2 DEF DataOK
  <2>4. ~disturbed' => Whole1
    BY <2>1, <2>2 DEF StorageOK, RecordingOK, NotRecording
  <2> QED BY <2>3, <2>4
<1> QED
  BY <1>4, <1>5, <1>6, <1>7

\* The factory settings.
LEMMA InvInit == StepInit => MacroInv
<1> SUFFICES ASSUME StepInit PROVE MacroInv
  OBVIOUS
<1>1. /\ macro_index = FactoryIndex /\ macros = [a \in Addresses |-> FactoryByte(a, 255)]
      /\ macros_end_offset = DefEnd /\ recording_state = NotRecording /\ writes = <<>>
  BY DEF StepInit, Init, DefEnd
<1>2. DataOK(macro_index, NULL, macros, macros_end_offset)
  <2> DEFINE old == [a \in Addresses |-> 255]
  <2>1. macros = [a \in Addresses |-> FactoryByte(a, old[a])]
    BY <1>1
  <2> HIDE DEF old
  <2> QED BY <1>1, <2>1, FactoryOK
<1>3. StorageOK(macro_index, macros_end_offset, macros, recording_state)
  BY <1>1, <1>2 DEF StorageOK, RecordingOK, NotRecording
<1>4. Fit(storage) /\ Loose(storage)
  <2>1. Sound(storage)
    BY <1>3 DEF Sound, storage
  <2> QED BY <2>1, SoundLoose DEF Fit
<1>5. IsList(writes) /\ EndAtZero(writes)
  BY <1>1, NoneYields DEF EndAtZero
<1>6. IsArray(macro_index, Entries) /\ IsArray(macros, Addresses)
  BY <1>4, LooseArrays DEF storage
<1> QED
  BY <1>1, <1>4, <1>5, <1>6 DEF MacroInv, WritesInv, BetweenInv, DuringInv, Between

\* Every step keeps the invariant.
LEMMA InvStep == MacroInv /\ [StepNext]_stepVars => MacroInv'
<1> SUFFICES ASSUME MacroInv, [StepNext]_stepVars PROVE MacroInv'
  OBVIOUS
<1>1. CASE DoWrite
  BY <1>1, InvWrite
<1>2. CASE PowerLoss \/ UNCHANGED stepVars
  BY <1>2 DEF PowerLoss, stepVars, vars, MacroInv, WritesInv, BetweenInv, DuringInv, Between,
              Makes, Fit, Now, Store3, storage
<1>3. CASE BeginEnd
  BY <1>3, InvEnd
<1>4. CASE \E k \in Triggers : BeginStart(k)
  BY <1>4, InvStart
<1>5. CASE \/ \E event \in Events : Append1(event)
           \/ \E k \in ProgramTriggers : ClientWrites(k)
           \/ Play \/ Reset
  BY <1>5, InvOther
<1> QED
  BY <1>1, <1>2, <1>3, <1>4, <1>5 DEF StepNext

\* What is visible is fit.
LEMMA VisibleFit ==
    ASSUME MacroInv
    PROVE  Fit(Visible)
  BY DEF MacroInv, BetweenInv, DuringInv, Visible

\* macro_idx_create, macro_idx_remove: between two calls the used entries come
\* first and ascend strictly, for any sizes, any keys and any sequence of calls and
\* host requests, also in a recording, so that macro_idx_lookup finds every trigger.
THEOREM IndexStaysSorted == StepSpec => []SortedBetween
<1>1. MacroInv => SortedBetween
  <2> SUFFICES ASSUME MacroInv PROVE SortedBetween
    OBVIOUS
  <2>1. Sorted(Visible.index)
    BY VisibleFit DEF Fit, Loose, IndexOK
  <2> QED
    BY <2>1 DEF Sorted, SortedBetween, Whole!IndexSorted, Whole!Entries, Entries
<1>2. StepInit => MacroInv
  BY InvInit
<1>3. MacroInv /\ [StepNext]_stepVars => MacroInv'
  BY InvStep
<1> QED
  BY <1>1, <1>2, <1>3, PTL DEF StepSpec

\* The bytes of every committed macro.
ByteSets(ix, e, data) ==
    [i \in Done(ix, e) |-> ix[i].data..(ix[i].data + Size(data, ix[i].data) - 1)]

\* They fill the area and are apart.
LEMMA TilesPack ==
    ASSUME NEW ix, NEW e, NEW data, NEW end, DataOK(ix, e, data, end),
           NEW B, B = ByteSets(ix, e, data)
    PROVE  /\ \A a : a \in 0..(end - 1) <=> \E i \in Done(ix, e) : a \in B[i]
           /\ \A i, j \in Done(ix, e) : i # j => B[i] \cap B[j] = {}
<1> DEFINE D == Done(ix, e)
           S == Starts(ix, e)
<1>1. Tiles(S, data, end) /\ OneEach(ix, e) /\ end \in Nat
  BY DEF DataOK, Tiles
<1>2. \A i \in D : B[i] = ix[i].data..(ix[i].data + Size(data, ix[i].data) - 1) /\ ix[i].data \in S
  BY DEF Starts, ByteSets
<1>3. \A i, j \in D : ix[i].data = ix[j].data => i = j
  BY <1>1 DEF OneEach
<1>4. \A t \in S : \E i \in D : t = ix[i].data
  BY DEF Starts
<1> HIDE DEF D, S
<1>5. ASSUME NEW t \in S
      PROVE  t \in Nat /\ Size(data, t) \in Nat /\ Size(data, t) > 0 /\ t + Size(data, t) <= end
  <2>1. t \in Nat /\ Size(data, t) \in Nat /\ Size(data, t) > 0
    BY <1>1, TileType
  <2>2. t + Size(data, t) <= end
    BY <1>1 DEF Tiles
  <2> QED BY <2>1, <2>2
<1>6. ASSUME NEW a \in 0..(end - 1) PROVE \E i \in D : a \in B[i]
  <2>1. PICK t \in S : t <= a /\ a < t + Size(data, t)
    BY <1>1, <1>6 DEF Tiles
  <2>2. PICK i \in D : t = ix[i].data
    BY <1>4
  <2> DEFINE z == Size(data, t)
  <2>3. t \in Nat /\ z \in Nat /\ t <= a /\ a < t + z /\ a \in Nat
    BY <1>5, <2>1
  <2>4. B[i] = t..(t + z - 1)
    BY <1>2, <2>2
  <2> HIDE DEF z
  <2>5. a \in t..(t + z - 1)
    BY <2>3
  <2> QED BY <2>4, <2>5
<1>7. ASSUME NEW i \in D, NEW a \in B[i] PROVE a \in 0..(end - 1)
  <2> DEFINE t == ix[i].data
             z == Size(data, t)
  <2>1. B[i] = t..(t + z - 1) /\ t \in S
    BY <1>2
  <2>2. t \in Nat /\ z \in Nat /\ t + z <= end
    BY <1>5, <2>1
  <2> HIDE DEF t, z
  <2>3. a \in t..(t + z - 1)
    BY <2>1
  <2> QED BY <1>1, <2>2, <2>3
<1>8. ASSUME NEW i \in D, NEW j \in D, i # j PROVE B[i] \cap B[j] = {}
  <2> DEFINE t == ix[i].data
             z == Size(data, t)
             u == ix[j].data
             y == Size(data, u)
  <2>1. B[i] = t..(t + z - 1) /\ t \in S /\ B[j] = u..(u + y - 1) /\ u \in S /\ t # u
    BY <1>2, <1>3, <1>8
  <2>2. t \in Nat /\ z \in Nat /\ u \in Nat /\ y \in Nat
    BY <1>5, <2>1
  <2>3. (t < u => t + z <= u) /\ (u < t => u + y <= t)
    BY <1>1, <2>1 DEF Tiles
  <2> HIDE DEF t, z, u, y
  <2>4. t + z - 1 \in Int /\ u + y - 1 \in Int /\ (t + z - 1 < u \/ u + y - 1 < t)
    BY <2>1, <2>2, <2>3
  <2>5. (t..(t + z - 1)) \cap (u..(u + y - 1)) = {}
    BY <2>2, <2>4
  <2> QED BY <2>1, <2>5
<1>9. \A a : a \in 0..(end - 1) <=> \E i \in D : a \in B[i]
  BY <1>6, <1>7
<1> QED
  BY <1>8, <1>9 DEF D

\* macros_commit_macro, delete_macro_data: between two calls the committed macros
\* fill the area up to the end offset without gaps and overlaps, and a recording
\* goes right behind them, for any sizes and any sequence of calls, resets and
\* index writes; from a host request inside a recording until the next reset
\* outside of one nothing is claimed.
THEOREM MacrosStayPacked == StepSpec => []PackedBetween
<1>1. MacroInv => PackedBetween
  <2> SUFFICES ASSUME MacroInv, ~disturbed PROVE Whole!DataPacked
    BY DEF PackedBetween
  <2> DEFINE ix == Visible.index
             data == Visible.data
             end == Visible.end
             rec == Visible.recording
             e == rec.index_entry
             D == Done(ix, e)
             B == ByteSets(ix, e, data)
  <2>1. DataOK(ix, e, data, end) /\ RecordingOK(ix, end, rec)
    BY VisibleFit DEF Fit, Sound, StorageOK
  <2>2. /\ \A a : a \in 0..(end - 1) <=> \E i \in D : a \in B[i]
        /\ \A i, j \in D : i # j => B[i] \cap B[j] = {}
    <3> HIDE DEF ix, data, end, e
    <3> QED BY <2>1, TilesPack
  <2>3. rec # NotRecording => rec.macro = end /\ ix[e].data = end
    BY <2>1 DEF RecordingOK
  <2>4. Whole!Committed = D
    BY DEF Whole!Committed, Done, Whole!Entries, Entries
  <2>5. \A i \in D : Whole!BytesOf(i) = B[i]
    BY DEF Whole!BytesOf, Whole!SizeOf, Size, ByteSets
  <2>6. UNION {Whole!BytesOf(i) : i \in D} = 0..(end - 1)
    <3> HIDE DEF D, B, end
    <3> QED BY <2>2, <2>5
  <2>7. Whole!NotRecording = NotRecording
    BY DEF Whole!NotRecording, NotRecording, Whole!NULL, NULL
  <2> HIDE DEF D, B
  <2> QED
    BY <2>2, <2>3, <2>4, <2>5, <2>6, <2>7 DEF Whole!DataPacked
<1>2. StepInit => MacroInv
  BY InvInit
<1>3. MacroInv /\ [StepNext]_stepVars => MacroInv'
  BY InvStep
<1> QED
  BY <1>1, <1>2, <1>3, PTL DEF StepSpec

-----------------------------------------------------------------------------
(***************************************************************************)
(* The writes of a call add up to the step Macros takes for it.            *)
(***************************************************************************)

\* The operators of Macros mean the same for the storage the calls show.
LEMMA WholeConstants ==
    /\ Whole!Entries = Entries /\ Whole!Addresses = Addresses
    /\ Whole!NULL = NULL /\ Whole!NotRecording = NotRecording /\ Whole!empty_entry = empty_entry
    /\ \A x : Whole!EventsAt(x) = EventsAt(x)
  BY DEF Whole!Entries, Entries, Whole!Addresses, Addresses, Whole!NULL, NULL,
         Whole!NotRecording, NotRecording, Whole!empty_entry, empty_entry, Whole!EventsAt, EventsAt

\* The search.
LEMMA WholeLookup ==
    ASSUME NEW ix, NEW k
    PROVE  Whole!macro_idx_lookup(ix, k) = macro_idx_lookup(ix, k)
  BY DEF Whole!macro_idx_lookup, macro_idx_lookup, Whole!Search, Search, Whole!SearchTurn, SearchTurn,
         Whole!Middle, Middle, Whole!NULL, NULL

\* New entries.
LEMMA WholeCreate ==
    ASSUME NEW ix, NEW k
    PROVE  /\ Whole!IndexFull(ix) <=> IndexFull(ix)
           /\ Whole!CreatePosition(ix, k) = CreatePosition(ix, k)
           /\ Whole!macro_idx_create(ix, k) = macro_idx_create(ix, k)
<1>1. Whole!IndexFull(ix) <=> IndexFull(ix)
  BY DEF Whole!IndexFull, IndexFull
<1>2. Whole!CreatePosition(ix, k) = CreatePosition(ix, k)
  BY DEF Whole!CreatePosition, CreatePosition, Whole!Max, Max, Whole!Entries, Entries
<1>3. Whole!macro_idx_create(ix, k) = macro_idx_create(ix, k)
  BY <1>2, WholeConstants DEF Whole!macro_idx_create, macro_idx_create
<1> QED
  BY <1>1, <1>2, <1>3

\* Removed entries.
LEMMA WholeRemove ==
    ASSUME NEW ix, NEW e
    PROVE  Whole!macro_idx_remove(ix, e) = macro_idx_remove(ix, e)
<1>1. \A i : Whole!MovedDown(ix, i) = MovedDown(ix, i)
  BY WholeConstants DEF Whole!MovedDown, MovedDown
<1> QED
  BY <1>1, WholeConstants DEF Whole!macro_idx_remove, macro_idx_remove, Whole!Min, Min

\* Deleted data.
LEMMA WholeDelete ==
    ASSUME NEW ix, NEW end, NEW data, NEW e
    PROVE  /\ Whole!delete_macro_data(ix, end, data, e) = delete_macro_data(ix, end, data, e)
           /\ Whole!EntryAt(ix, e, end) = EntryAt(ix, e, end)
<1>1. ASSUME NEW o, NEW l PROVE Whole!ShiftDown(ix, o, l) = ShiftDown(ix, o, l)
  BY WholeConstants DEF Whole!ShiftDown, ShiftDown
<1>2. ASSUME NEW d, NEW s, NEW l PROVE Whole!MoveDown(data, d, s, l) = MoveDown(data, d, s, l)
  BY WholeConstants DEF Whole!MoveDown, MoveDown
<1>3. Whole!EntryAt(ix, e, end) = EntryAt(ix, e, end)
  BY DEF Whole!EntryAt, EntryAt
<1>4. Whole!delete_macro_data(ix, end, data, e) = delete_macro_data(ix, end, data, e)
  BY <1>1, <1>2 DEF Whole!delete_macro_data, delete_macro_data
<1> QED
  BY <1>3, <1>4

\* The factory settings.
LEMMA WholeFactory ==
    /\ Whole!FactoryIndex = FactoryIndex /\ Whole!DefSize = DefSize
    /\ \A a, old : Whole!FactoryByte(a, old) = FactoryByte(a, old)
<1>1. Whole!DefLen = DefLen /\ Whole!DefSize = DefSize
  BY DEF Whole!DefLen, DefLen, Whole!DefSize, DefSize
<1>2. \A n : Whole!DefStart(n) = DefStart(n)
  BY <1>1 DEF Whole!DefStart, DefStart
<1>3. Whole!FactoryIndex = FactoryIndex
  <2>1. Whole!DefKeys = DefKeys
    BY DEF Whole!DefKeys, DefKeys
  <2>2. ASSUME NEW S, NEW x PROVE Whole!RankIn(S, x) = RankIn(S, x)
    BY DEF Whole!RankIn, RankIn, Whole!Cardinality, Cardinality
  <2>3. ASSUME NEW i PROVE Whole!FactoryEntry(i) = FactoryEntry(i)
    BY <1>2, <2>1, <2>2, WholeConstants DEF Whole!FactoryEntry, FactoryEntry
  <2> QED BY <2>3, WholeConstants DEF Whole!FactoryIndex, FactoryIndex
<1>4. \A a, old : Whole!FactoryByte(a, old) = FactoryByte(a, old)
  BY <1>1, <1>2 DEF Whole!FactoryByte, FactoryByte
<1> QED
  BY <1>1, <1>3, <1>4

\* The last write of a call is the step Macros takes for it, the others are none.
LEMMA WriteImplements ==
    ASSUME MacroInv, DoWrite
    PROVE  [Whole!Next]_Whole!vars
<1>1. /\ ~Between /\ Visible = shown /\ playback_state' = playback_state
      /\ disturbed' = disturbed
  BY InvWrite DEF Visible, DoWrite
<1>2. CASE ~Between'
  <2>1. Visible' = Visible
    BY <1>1, <1>2, InvWrite DEF Visible
  <2> QED BY <1>1, <2>1 DEF Whole!vars
<1>3. CASE Between'
  <2>1. PICK r : /\ Makes(r) /\ recording_state' = r.recording
                 /\ macro_index' = r.index /\ macros_end_offset' = r.end /\ macros' = r.data
    BY <1>3, InvWrite
  <2>2. /\ Visible'.index = r.index /\ Visible'.end = r.end /\ Visible'.data = r.data
        /\ Visible'.recording = r.recording
    BY <1>3, <2>1 DEF Visible, storage
  <2> DEFINE ix == Visible.index
             end == Visible.end
             data == Visible.data
             rec == Visible.recording
             e == macro_idx_lookup(ix, key)
  <2>3. CASE StartMakes(shown, key, r) /\ playback_state.remaining = 0 /\ ~disturbed
    <3>1. Whole!Idle /\ key \in Triggers /\ ~disturbed
      BY <1>1, <2>3, WholeConstants DEF Whole!Idle, StartMakes
    <3>2. CASE e # NULL /\ r = AgainAfter(shown, key)
      <4> DEFINE left == delete_macro_data(ix, end, data, e)
      <4>1. /\ r.index = EntryAt(left.index, e, left.end) /\ r.end = left.end /\ r.data = left.data
            /\ r.recording = [macro |-> left.end, cursor |-> EventsAt(left.end), index_entry |-> e]
        BY <1>1, <3>2 DEF AgainAfter, LeftOf, Started
      <4>2. Whole!macro_idx_lookup(ix, key) = e /\ Whole!delete_macro_data(ix, end, data, e) = left
        BY WholeLookup, WholeDelete
      <4> HIDE DEF left, e
      <4>3. Whole!BeginRecording(left.index, left.end, e)
        BY <1>1, <2>2, <4>1, WholeConstants, WholeDelete DEF Whole!BeginRecording
      <4>4. Whole!ReRecord(key)
        BY <2>2, <3>2, <4>1, <4>2, <4>3, WholeConstants DEF Whole!ReRecord
      <4> QED BY <3>1, <4>4 DEF Whole!Next, Whole!macros_start_macro
    <3>3. CASE e = NULL /\ ~IndexFull(ix) /\ r = NewAfter(shown, key)
      <4> DEFINE new == macro_idx_create(ix, key)
                 p == CreatePosition(ix, key)
      <4>1. /\ r.index = EntryAt(new, p, end) /\ r.end = end /\ r.data = data
            /\ r.recording = [macro |-> end, cursor |-> EventsAt(end), index_entry |-> p]
        BY <1>1, <3>3 DEF NewAfter, Started
      <4>2. /\ Whole!macro_idx_lookup(ix, key) = NULL /\ ~Whole!IndexFull(ix)
            /\ Whole!macro_idx_create(ix, key) = new /\ Whole!CreatePosition(ix, key) = p
        BY <3>3, WholeLookup, WholeCreate
      <4> HIDE DEF new, p
      <4>3. Whole!BeginRecording(new, end, p)
        BY <1>1, <2>2, <4>1, WholeConstants, WholeDelete DEF Whole!BeginRecording
      <4>4. Whole!RecordNew(key)
        BY <2>2, <4>1, <4>2, <4>3, WholeConstants DEF Whole!RecordNew
      <4> QED BY <3>1, <4>4 DEF Whole!Next, Whole!macros_start_macro
    <3> QED BY <1>1, <2>3, <3>2, <3>3 DEF StartMakes
  <2>4. CASE EndMakes(shown, r)
    <3>1. rec # Whole!NotRecording
      BY <1>1, <2>4, WholeConstants DEF EndMakes
    <3>2. Whole!Recorded = RecordedIn(shown)
      BY <1>1, WholeConstants DEF Whole!Recorded, RecordedIn
    <3>3. CASE RecordedIn(shown) # 0 /\ r = CommitAfter(shown)
      <4>1. /\ r.index = ix /\ r.end = (end + RecordedIn(shown) + MACRO_DATA_HEADER_LEN) % 65536
            /\ r.data = [data EXCEPT ![rec.macro] = RecordedIn(shown)]
            /\ r.recording = NotRecording
        BY <1>1, <3>3 DEF CommitAfter
      <4>2. Whole!macros_commit_macro
        BY <1>1, <2>2, <3>1, <3>2, <3>3, <4>1, WholeConstants DEF Whole!macros_commit_macro
      <4> QED BY <4>2 DEF Whole!Next
    <3>4. CASE r = AbortAfter(shown)
      <4>1. /\ r.index = macro_idx_remove(ix, rec.index_entry) /\ r.end = end /\ r.data = data
            /\ r.recording = NotRecording
        BY <1>1, <3>4 DEF AbortAfter
      <4>2. Whole!macro_idx_remove(ix, rec.index_entry) = macro_idx_remove(ix, rec.index_entry)
        BY WholeRemove
      <4>3. Whole!macros_abort_macro
        BY <1>1, <2>2, <3>1, <4>1, <4>2, WholeConstants DEF Whole!macros_abort_macro
      <4> QED BY <4>3 DEF Whole!Next
    <3> QED BY <2>4, <3>3, <3>4 DEF EndMakes
  <2> QED BY <2>1, <2>3, <2>4 DEF Makes
<1> QED
  BY <1>2, <1>3

\* The steps between two calls are steps of Macros.
LEMMA OtherImplements ==
    ASSUME Between, Between',
           \/ \E event \in Events : Append1(event)
           \/ \E k \in ProgramTriggers : ClientWrites(k)
           \/ Play \/ Reset
    PROVE  [Whole!Next]_Whole!vars
<1>1. /\ Visible.index = macro_index /\ Visible.end = macros_end_offset /\ Visible.data = macros
      /\ Visible.recording = recording_state
      /\ Visible'.index = macro_index' /\ Visible'.end = macros_end_offset'
      /\ Visible'.data = macros' /\ Visible'.recording = recording_state'
  BY DEF Visible, storage
<1>2. Whole!Recorded = Recorded /\ (Whole!Idle <=> Idle)
  BY <1>1, WholeConstants DEF Whole!Recorded, Recorded, Whole!Idle, Idle
<1>3. ASSUME NEW event \in Events, Append1(event) PROVE Whole!Next
  <2>1. Whole!macros_append(event)
    BY <1>1, <1>2, <1>3, WholeConstants DEF Append1, macros_append, Whole!macros_append
  <2> QED BY <2>1 DEF Whole!Next
<1>4. ASSUME NEW k \in ProgramTriggers, ClientWrites(k) PROVE Whole!Next
  <2>1. Whole!ClientAddsProgram(k)
    <3>1. /\ Whole!macro_idx_lookup(macro_index, k) = macro_idx_lookup(macro_index, k)
          /\ Whole!IndexFull(macro_index) <=> IndexFull(macro_index)
          /\ Whole!CreatePosition(macro_index, k) = CreatePosition(macro_index, k)
          /\ Whole!macro_idx_create(macro_index, k) = macro_idx_create(macro_index, k)
      BY WholeLookup, WholeCreate
    <3> QED
      BY <1>1, <1>2, <1>4, <3>1, WholeConstants
         DEF ClientWrites, ClientAddsProgram, Whole!ClientAddsProgram
  <2> QED BY <2>1 DEF Whole!Next
<1>5. ASSUME Play PROVE Whole!Next
  <2>1. CASE macros_fill_next_report
    <3>1. Whole!macros_fill_next_report
      BY <1>1, <2>1 DEF macros_fill_next_report, Whole!macros_fill_next_report
    <3> QED BY <3>1 DEF Whole!Next
  <2>2. ASSUME NEW k \in Triggers, macros_start_playback(k) PROVE Whole!Next
    <3>1. Whole!macro_idx_lookup(macro_index, k) = macro_idx_lookup(macro_index, k)
      BY WholeLookup
    <3>2. Whole!macros_start_playback(k)
      BY <1>1, <1>2, <2>2, <3>1, WholeConstants DEF macros_start_playback, Whole!macros_start_playback
    <3> QED BY <3>2 DEF Whole!Next
  <2> QED BY <1>5, <2>1, <2>2 DEF Play
<1>6. ASSUME Reset PROVE Whole!Next
  <2>1. Whole!reset_defaults
    BY <1>1, <1>2, <1>6, WholeConstants, WholeFactory
       DEF Reset, reset_defaults, Whole!reset_defaults
  <2> QED BY <2>1 DEF Whole!Next
<1> QED
  BY <1>3, <1>4, <1>5, <1>6

\* macros_start_macro, macros_commit_macro, macros_abort_macro: the writes of a
\* call add up to the one step Macros takes for it, and nothing shows before the
\* last of them, for any sizes, any macros and any sequence of calls.
THEOREM MacroCallsImplement == StepSpec => ImplementsMacros
<1>1. StepInit => Whole!Init
  <2> SUFFICES ASSUME StepInit PROVE Whole!Init
    OBVIOUS
  <2>1. /\ Visible.index = macro_index /\ Visible.end = macros_end_offset /\ Visible.data = macros
        /\ Visible.recording = recording_state
    BY DEF StepInit, Visible, Between, storage
  <2>2. Whole!NotPlaying = NotPlaying
    BY DEF Whole!NotPlaying, NotPlaying
  <2> QED
    BY <2>1, <2>2, WholeConstants, WholeFactory DEF StepInit, Init, Whole!Init
<1>2. MacroInv /\ [StepNext]_stepVars => [Whole!Next]_Whole!vars
  <2> SUFFICES ASSUME MacroInv, [StepNext]_stepVars PROVE [Whole!Next]_Whole!vars
    OBVIOUS
  <2>1. CASE DoWrite
    BY <2>1, WriteImplements
  <2>2. CASE BeginEnd \/ \E k \in Triggers : BeginStart(k)
    <3>1. Between /\ ~Between' /\ shown' = storage
      BY <2>2, InvStart, InvEnd
    <3>2. playback_state' = playback_state /\ disturbed' = disturbed
      BY <2>2 DEF BeginEnd, BeginStart, BeginRecord, Begin, vars
    <3>3. Visible' = Visible
      BY <3>1 DEF Visible
    <3> QED BY <3>2, <3>3 DEF Whole!vars
  <2>3. CASE PowerLoss \/ UNCHANGED stepVars
    <3>1. Visible' = Visible /\ playback_state' = playback_state /\ disturbed' = disturbed
      BY <2>3 DEF PowerLoss, stepVars, vars, Visible, Between, storage
    <3> QED BY <3>1 DEF Whole!vars
  <2>4. CASE \/ \E event \in Events : Append1(event)
             \/ \E k \in ProgramTriggers : ClientWrites(k)
             \/ Play \/ Reset
    BY <2>4, InvOther, OtherImplements
  <2> QED
    BY <2>1, <2>2, <2>3, <2>4 DEF StepNext
<1>3. StepInit => MacroInv
  BY InvInit
<1>4. MacroInv /\ [StepNext]_stepVars => MacroInv'
  BY InvStep
<1> QED
  BY <1>1, <1>2, <1>3, <1>4, PTL DEF StepSpec, ImplementsMacros, Whole!Spec

-----------------------------------------------------------------------------
(***************************************************************************)
(* Where power may be lost.  What a trigger finds depends on its entry and *)
(* on the bytes of its macro only, and both stay as they were although the *)
(* entries are moved under the search.                                     *)
(***************************************************************************)
OffsetOf(en) == IF en.type # "MACRO" THEN NULL ELSE en.data

PlaysOf(en, data) ==
    IF en.type # "MACRO" THEN <<en.data>>
    ELSE [n \in 1..data[en.data] |-> data[EventsAt(en.data) + n - 1]]

\* Found for any index and data.
FoundIn(ix, data, k) ==
    IF macro_idx_lookup(ix, k) = NULL THEN [offset |-> NULL, plays |-> <<>>]
    ELSE [offset |-> OffsetOf(ix[macro_idx_lookup(ix, k)]),
          plays |-> PlaysOf(ix[macro_idx_lookup(ix, k)], data)]

\* For the storage now it is Found.
LEMMA FoundNow ==
    ASSUME NEW k
    PROVE  Found(k) = FoundIn(macro_index, macros, k)
  BY DEF Found, FoundIn, OffsetOf, PlaysOf, Bytes

\* An index mid has the entries of t that ix has, perhaps more than once.
Same(mid, ix, t) ==
    /\ (\E i \in Entries : ix[i].keys = t) => \E i \in Entries : mid[i].keys = t
    /\ \A i \in Entries : mid[i].keys = t => \E j \in Entries : ix[j].keys = t /\ mid[i] = ix[j]

\* A trigger has one entry.
LEMMA OneEntry ==
    ASSUME NEW ix, IndexOK(ix), NEW t \in Triggers, NEW i \in Entries, NEW j \in Entries,
           ix[i].keys = t, ix[j].keys = t
    PROVE  i = j
<1>1. t \in Nat /\ t < NO_TRIGGER /\ NO_TRIGGER \in Nat /\ i \in Nat /\ j \in Nat
  BY Sizes
<1>2. ASSUME NEW a \in Entries, NEW b \in Entries, ix[a].keys = t, ix[b].keys = t, a < b PROVE FALSE
  <2>1. t < t \/ t = NO_TRIGGER
    BY <1>2 DEF IndexOK, Sorted
  <2> QED BY <1>1, <2>1
<1> QED
  BY <1>1, <1>2

\* The bytes of the macro of t, if it has one, are all below lim.
Below(ix, data, t, lim) ==
    \A i \in Entries : ix[i].keys = t /\ ix[i].type = "MACRO" =>
        /\ ix[i].data \in Nat /\ data[ix[i].data] \in Nat
        /\ ix[i].data + Size(data, ix[i].data) <= lim

\* What t finds stays the same with its entries and its bytes.
LEMMA KeptFound ==
    ASSUME NEW ix, IndexOK(ix), NEW t \in Triggers, NEW mid, Rising(mid), Same(mid, ix, t),
           NEW data, NEW new, NEW lim \in Nat, \A a \in 0..(lim - 1) : new[a] = data[a],
           Below(ix, data, t, lim)
    PROVE  FoundIn(mid, new, t).plays = FoundIn(ix, data, t).plays
<1> DEFINE u == macro_idx_lookup(mid, t)
           v == macro_idx_lookup(ix, t)
<1>1. t \in Keys /\ Rising(ix)
  BY SortedRises DEF Keys
<1>2. /\ u = NULL => \A i \in Entries : mid[i].keys # t
      /\ u # NULL => u \in Entries /\ mid[u].keys = t
      /\ v = NULL => \A i \in Entries : ix[i].keys # t
      /\ v # NULL => v \in Entries /\ ix[v].keys = t
  BY <1>1, LookupFinds
<1>3. CASE v = NULL
  <2>1. u = NULL
    BY <1>2, <1>3 DEF Same
  <2> QED BY <1>3, <2>1 DEF FoundIn
<1>4. CASE v # NULL
  <2>1. u # NULL
    BY <1>2, <1>4 DEF Same
  <2>2. PICK j \in Entries : ix[j].keys = t /\ mid[u] = ix[j]
    BY <1>2, <2>1 DEF Same
  <2>3. mid[u] = ix[v]
    BY <1>2, <1>4, <2>2, OneEntry
  <2> DEFINE en == ix[v]
  <2>4. FoundIn(mid, new, t).plays = PlaysOf(en, new) /\ FoundIn(ix, data, t).plays = PlaysOf(en, data)
    BY <1>4, <2>1, <2>3 DEF FoundIn
  <2>5. CASE en.type # "MACRO"
    BY <2>4, <2>5 DEF PlaysOf
  <2>6. CASE en.type = "MACRO"
    <3> DEFINE d == en.data
               n == data[d]
               h == MACRO_DATA_HEADER_LEN
    <3>1. d \in Nat /\ n \in Nat /\ d + (n + h) <= lim /\ h \in Nat \ {0}
      BY <1>2, <1>4, <2>6, Sizes DEF Below, Size
    <3>2. PlaysOf(en, new) = [m \in 1..new[d] |-> new[d + h + m - 1]]
      BY <2>6 DEF PlaysOf, EventsAt
    <3>3. PlaysOf(en, data) = [m \in 1..n |-> data[d + h + m - 1]]
      BY <2>6 DEF PlaysOf, EventsAt
    <3> HIDE DEF d, h, n, en
    <3>4. d \in 0..(lim - 1) /\ \A m \in 1..n : d + h + m - 1 \in 0..(lim - 1)
      BY <3>1
    <3>5. new[d] = n /\ \A m \in 1..n : new[d + h + m - 1] = data[d + h + m - 1]
      BY <3>4 DEF n
    <3>6. PlaysOf(en, new) = PlaysOf(en, data)
      BY <3>2, <3>3, <3>5
    <3> QED BY <2>4, <3>6
  <2> QED BY <2>5, <2>6
<1> QED
  BY <1>3, <1>4

\* Committed macros are below the end offset.
LEMMA BelowEnd ==
    ASSUME NEW ix, NEW e, NEW data, NEW end, DataOK(ix, e, data, end), NEW t \in Triggers,
           e \in Entries => ix[e].keys # t
    PROVE  Below(ix, data, t, end) /\ end \in Nat
<1>1. Tiles(Starts(ix, e), data, end)
  BY DEF DataOK
<1>2. ASSUME NEW i \in Entries, ix[i].keys = t, ix[i].type = "MACRO"
      PROVE  /\ ix[i].data \in Nat /\ data[ix[i].data] \in Nat
             /\ ix[i].data + Size(data, ix[i].data) <= end
  <2>1. i # e /\ t # NO_TRIGGER
    BY <1>2, Sizes
  <2>2. ix[i].data \in Starts(ix, e)
    BY <1>2, <2>1 DEF Starts, Done
  <2> QED BY <1>1, <2>2 DEF Tiles
<1> QED
  BY <1>1, <1>2 DEF Below, Tiles

\* An index that has not changed.
LEMMA SameItself ==
    ASSUME NEW ix, NEW t
    PROVE  Same(ix, ix, t)
  BY DEF Same


-----------------------------------------------------------------------------
(***************************************************************************)
(* A call that has made m of its writes W: what is left of the list, and   *)
(* what it has made of an array so far.                                    *)
(***************************************************************************)
Rest(W, m) == [i \in 1..(Len(W) - m) |-> W[m + i]]

After(W, m, part, places, old, cur) ==
    \A x \in places :
        \/ cur[x] = old[x] /\ \A i \in 1..m : ~To(W[i], part, x)
        \/ \E i \in 1..m : /\ To(W[i], part, x) /\ cur[x] = W[i].value
                           /\ \A j \in (i + 1)..m : ~To(W[j], part, x)

\* Before the first write.
LEMMA RestAll ==
    ASSUME NEW W, IsList(W), NEW part, NEW places, NEW old
    PROVE  Rest(W, 0) = W /\ Len(W) \in Nat /\ After(W, 0, part, places, old, old)
<1>1. PICK n \in Nat : W = [i \in 1..n |-> W[i]]
  BY DEF IsList
<1>2. Len(W) = n
  BY <1>1
<1>3. Rest(W, 0) = [i \in 1..n |-> W[i]]
  <2>1. Rest(W, 0) = [i \in 1..(n - 0) |-> W[0 + i]]
    BY <1>2 DEF Rest
  <2>2. n - 0 = n /\ \A i \in 1..n : 0 + i = i
    OBVIOUS
  <2> QED BY <2>1, <2>2
<1>4. After(W, 0, part, places, old, old)
  BY DEF After
<1> QED
  BY <1>1, <1>2, <1>3, <1>4

\* The next write.
LEMMA RestNext ==
    ASSUME NEW W, Len(W) \in Nat, NEW m \in 0..Len(W), Rest(W, m) # <<>>
    PROVE  /\ m + 1 \in 0..Len(W) /\ Head(Rest(W, m)) = W[m + 1]
           /\ Tail(Rest(W, m)) = Rest(W, m + 1)
<1> DEFINE n == Len(W)
           r == Rest(W, m)
<1>1. n \in Nat /\ m \in Nat /\ m <= n
  OBVIOUS
<1>2. r = [i \in 1..(n - m) |-> W[m + i]] /\ Rest(W, m + 1) = [i \in 1..(n - (m + 1)) |-> W[(m + 1) + i]]
  BY DEF Rest
<1> HIDE DEF n
<1>3. m # n
  <2> SUFFICES ASSUME m = n PROVE FALSE
    OBVIOUS
  <2>1. r = <<>>
    BY <1>1, <1>2
  <2> QED BY <2>1
<1>4. n - m \in Nat /\ n - m >= 1 /\ m + 1 <= n /\ n - (m + 1) = (n - m) - 1
  BY <1>1, <1>3
<1> HIDE DEF r
<1>5. IsList(r) /\ r # <<>> /\ Len(r) = n - m /\ r[1] = W[m + 1]
  <2>1. Len(r) = n - m /\ r[1] = W[m + 1]
    BY <1>2, <1>4
  <2>2. r = [i \in 1..(n - m) |-> r[i]]
    BY <1>2
  <2> QED BY <1>4, <2>1, <2>2 DEF IsList, r
<1>6. /\ IsList(Tail(r)) /\ Head(r) = r[1] /\ Len(Tail(r)) = Len(r) - 1
      /\ \A i \in 1..Len(Tail(r)) : Tail(r)[i] = r[i + 1]
  BY <1>5, ListTail
<1>7. Tail(r) = Rest(W, m + 1)
  <2> DEFINE t == Tail(r)
             d == n - m
  <2>1. PICK l \in Nat : t = [i \in 1..l |-> t[i]]
    BY <1>6 DEF IsList
  <2>2. l = Len(t) /\ Len(t) = d - 1
    BY <1>5, <1>6, <2>1
  <2>3. \A i \in 1..(d - 1) : t[i] = r[i + 1]
    BY <1>6, <2>2
  <2>4. d \in Nat /\ d >= 1 /\ n - (m + 1) = d - 1
    BY <1>4
  <2>5. \A i \in 1..(d - 1) : i + 1 \in 1..d /\ r[i + 1] = W[m + (i + 1)]
    BY <1>2, <2>4
  <2> HIDE DEF t, d
  <2>6. \A i \in 1..(d - 1) : m + (i + 1) = (m + 1) + i
    BY <1>1, <2>4
  <2>7. t = [i \in 1..(d - 1) |-> W[(m + 1) + i]]
    BY <2>1, <2>2, <2>3, <2>5, <2>6
  <2> QED BY <1>2, <2>4, <2>7 DEF t
<1>8. m + 1 \in 0..n
  BY <1>1, <1>4
<1> QED
  BY <1>5, <1>6, <1>7, <1>8 DEF r, n

\* What the next write makes of an array.
LEMMA AfterNext ==
    ASSUME NEW W, NEW m \in Nat, NEW part, NEW places, NEW old, NEW cur, IsArray(cur, places),
           After(W, m, part, places, old, cur), NEW new, new = Written(cur, part, W[m + 1])
    PROVE  After(W, m + 1, part, places, old, new)
<1> DEFINE w == W[m + 1]
<1>1. SUFFICES ASSUME NEW x \in places
               PROVE  \/ new[x] = old[x] /\ \A i \in 1..(m + 1) : ~To(W[i], part, x)
                      \/ \E i \in 1..(m + 1) : /\ To(W[i], part, x) /\ new[x] = W[i].value
                                               /\ \A j \in (i + 1)..(m + 1) : ~To(W[j], part, x)
  BY DEF After
<1>2. CASE To(w, part, x)
  <2>1. new[x] = w.value
    BY <1>2 DEF Written, To, IsArray
  <2>2. m + 1 \in 1..(m + 1) /\ \A j \in ((m + 1) + 1)..(m + 1) : FALSE
    OBVIOUS
  <2> QED BY <1>2, <2>1, <2>2
<1>3. CASE ~To(w, part, x)
  <2>1. new[x] = cur[x]
    BY <1>3 DEF Written, To, IsArray
  <2>2. CASE cur[x] = old[x] /\ \A i \in 1..m : ~To(W[i], part, x)
    <3>1. \A i \in 1..(m + 1) : i \in 1..m \/ i = m + 1
      OBVIOUS
    <3> QED BY <1>3, <2>1, <2>2, <3>1
  <2>3. CASE \E i \in 1..m : /\ To(W[i], part, x) /\ cur[x] = W[i].value
                             /\ \A j \in (i + 1)..m : ~To(W[j], part, x)
    <3>1. PICK i \in 1..m : /\ To(W[i], part, x) /\ cur[x] = W[i].value
                            /\ \A j \in (i + 1)..m : ~To(W[j], part, x)
      BY <2>3
    <3>2. i \in 1..(m + 1) /\ \A j \in (i + 1)..(m + 1) : j \in (i + 1)..m \/ j = m + 1
      OBVIOUS
    <3>3. \A j \in (i + 1)..(m + 1) : ~To(W[j], part, x)
      BY <1>3, <3>1, <3>2
    <3> QED BY <2>1, <3>1, <3>2, <3>3
  <2>4. \/ cur[x] = old[x] /\ \A i \in 1..m : ~To(W[i], part, x)
        \/ \E i \in 1..m : /\ To(W[i], part, x) /\ cur[x] = W[i].value
                           /\ \A j \in (i + 1)..m : ~To(W[j], part, x)
    BY DEF After
  <2> QED BY <2>2, <2>3, <2>4
<1> QED
  BY <1>2, <1>3


\* Keys that have not changed can still be searched.
LEMMA RisingSame ==
    ASSUME NEW ix, IndexOK(ix), NEW cur, \A x \in Entries : cur[x].keys = ix[x].keys
    PROVE  Rising(cur)
<1>1. Rising(ix)
  BY SortedRises
<1> QED
  BY <1>1 DEF Rising

\* The writes of macros_commit_macro: none to the index, none to the data in
\* front of the end offset.
CommitShape(W, end) ==
    \A i \in 1..Len(W) : W[i].part # "index" /\ (W[i].part = "data" => W[i].at = end)

\* Wherever macros_commit_macro is interrupted.
LEMMA CommitKept ==
    ASSUME NEW ix, NEW e \in Entries, NEW data, NEW end, DataOK(ix, e, data, end),
           NEW t \in Triggers, ix[e].keys # t,
           NEW W, Len(W) \in Nat, NEW m \in 0..Len(W), CommitShape(W, end),
           NEW cur, After(W, m, "index", Entries, ix, cur),
           NEW new, After(W, m, "data", Addresses, data, new)
    PROVE  FoundIn(cur, new, t).plays = FoundIn(ix, data, t).plays
<1>1. Below(ix, data, t, end) /\ end \in Nat /\ IndexOK(ix)
  BY BelowEnd DEF DataOK
<1>2. \A i \in 1..m : i \in 1..Len(W)
  OBVIOUS
<1>3. ASSUME NEW x \in Entries PROVE cur[x] = ix[x]
  BY <1>2 DEF After, CommitShape, To
<1>4. ASSUME NEW a \in 0..(end - 1) PROVE new[a] = data[a]
  <2>1. a \in Addresses
    <3>1. end \in Nat /\ end <= STORAGE_SIZE /\ STORAGE_SIZE \in Nat
      BY <1>1, Sizes DEF DataOK
    <3> QED BY <3>1 DEF Addresses
  <2>2. a # end
    BY <1>1
  <2> QED BY <1>2, <2>1, <2>2 DEF After, CommitShape, To
<1>5. Rising(cur) /\ Same(cur, ix, t)
  <2>1. Rising(cur)
    BY <1>1, <1>3, RisingSame
  <2> QED BY <1>3, <2>1 DEF Same
<1> QED
  BY <1>1, <1>4, <1>5, KeptFound

\* The writes of macro_idx_remove: the entries from e on, one after the other.
AbortShape(W, ix, e) ==
    \A i \in 1..Len(W) :
        /\ e + i - 1 \in Entries
        /\ W[i].part = "index" /\ W[i].at = e + i - 1 /\ W[i].value = MovedDown(ix, e + i - 1)

\* The index while entries move down: those from e on in front of e + m have moved.
LEMMA MovingDown ==
    ASSUME NEW ix, IndexOK(ix), NEW e \in Entries, NEW m \in Nat, NEW cur,
           \A x \in Entries : cur[x] = IF e <= x /\ x < e + m THEN MovedDown(ix, x) ELSE ix[x],
           NEW t \in Triggers, ix[e].keys # t
    PROVE  Rising(cur) /\ Same(cur, ix, t)
<1> DEFINE N == MACRO_INDEX_COUNT
           moved(x) == e <= x /\ x < e + m
<1>0. N \in Nat \ {0} /\ Entries = 0..(N - 1) /\ e \in Nat /\ NO_TRIGGER \in Nat /\ t < NO_TRIGGER /\ t \in Nat
  BY Sizes DEF Entries
<1>1. \A x \in Entries : x \in Nat /\ (x = N - 1 \/ x + 1 \in Entries) /\ (x # 0 => x - 1 \in Entries)
  BY <1>0
<1>2. \A x \in Entries : ix[x].keys \in Keys /\ ix[x].keys \in Nat /\ ix[x].keys <= NO_TRIGGER
  BY EntryType
<1>3. empty_entry.keys = NO_TRIGGER /\ NO_TRIGGER \in Keys
  BY DEF empty_entry, Keys
<1>4. ASSUME NEW x \in Entries
      PROVE  /\ x = N - 1 => MovedDown(ix, x) = empty_entry
             /\ x # N - 1 => MovedDown(ix, x) = ix[x + 1] /\ x + 1 \in Entries
  BY <1>1 DEF MovedDown
<1>5. \A x \in Entries : /\ moved(x) /\ x = N - 1 => cur[x] = empty_entry
                         /\ moved(x) /\ x # N - 1 => cur[x] = ix[x + 1] /\ x + 1 \in Entries
                         /\ ~moved(x) => cur[x] = ix[x]
  BY <1>4
<1>6. \A x \in Entries : cur[x].keys \in Keys /\ cur[x].keys \in Nat /\ cur[x].keys <= NO_TRIGGER
  BY <1>0, <1>2, <1>3, <1>5
<1>7. \A i, j \in Entries : i <= j => ix[i].keys <= ix[j].keys
  <2>1. \A i, j \in Entries : i < j => ix[i].keys <= ix[j].keys
    BY SortedRises DEF Rising
  <2>2. \A i, j \in Entries : i <= j => i < j \/ i = j
    BY <1>1
  <2> QED BY <1>2, <2>1, <2>2
<1>8. ASSUME NEW i \in Entries, NEW j \in Entries, i < j PROVE cur[i].keys <= cur[j].keys
  <2>1. i \in Nat /\ j \in Nat /\ i + 1 <= j /\ i # N - 1 /\ i + 1 \in Entries /\ i <= j
    BY <1>0, <1>8
  <2>2. CASE moved(j) /\ j = N - 1
    BY <1>3, <1>5, <1>6, <2>2
  <2>3. CASE moved(j) /\ j # N - 1
    <3>1. cur[j] = ix[j + 1] /\ j + 1 \in Entries /\ i <= j + 1 /\ i + 1 <= j + 1
      BY <1>5, <2>1, <2>3
    <3> QED BY <1>5, <1>7, <2>1, <3>1
  <2>4. CASE ~moved(j)
    BY <1>5, <1>7, <2>1, <2>4
  <2> QED BY <2>2, <2>3, <2>4
<1>9. ASSUME NEW j \in Entries, ix[j].keys = t PROVE \E i \in Entries : cur[i].keys = t
  <2>1. j # e /\ j \in Nat
    BY <1>1, <1>9
  <2>2. CASE ~moved(j)
    BY <1>5, <1>9, <2>2
  <2>3. CASE moved(j)
    <3>1. j - 1 \in Entries /\ moved(j - 1) /\ j - 1 # N - 1 /\ (j - 1) + 1 = j
      BY <1>0, <2>1, <2>3
    <3>2. cur[j - 1] = ix[j]
      BY <1>5, <3>1
    <3> QED BY <1>9, <3>1, <3>2
  <2> QED BY <2>2, <2>3
<1>10. ASSUME NEW i \in Entries, cur[i].keys = t
       PROVE  \E j \in Entries : ix[j].keys = t /\ cur[i] = ix[j]
  <2>1. t # NO_TRIGGER
    BY <1>0
  <2> QED BY <1>3, <1>5, <1>10, <2>1
<1> QED
  BY <1>6, <1>8, <1>9, <1>10 DEF Rising, Same


\* Wherever macros_abort_macro is interrupted.
LEMMA AbortKept ==
    ASSUME NEW ix, NEW e \in Entries, NEW data, NEW end, DataOK(ix, e, data, end),
           NEW t \in Triggers, ix[e].keys # t,
           NEW W, Len(W) \in Nat, NEW m \in 0..Len(W), AbortShape(W, ix, e),
           NEW cur, After(W, m, "index", Entries, ix, cur),
           NEW new, After(W, m, "data", Addresses, data, new)
    PROVE  FoundIn(cur, new, t).plays = FoundIn(ix, data, t).plays
<1>1. Below(ix, data, t, end) /\ end \in Nat /\ IndexOK(ix) /\ e \in Nat /\ m \in Nat
  BY BelowEnd, Sizes DEF DataOK
<1>2. \A i \in 1..m : /\ i \in Nat /\ e + i - 1 \in Entries /\ W[i].part = "index" /\ W[i].at = e + i - 1
                      /\ W[i].value = MovedDown(ix, e + i - 1)
  BY DEF AbortShape
<1>3. ASSUME NEW x \in Entries
      PROVE  cur[x] = IF e <= x /\ x < e + m THEN MovedDown(ix, x) ELSE ix[x]
  <2>1. x \in Nat
    BY Sizes
  <2>2. CASE e <= x /\ x < e + m
    <3> DEFINE i == x - e + 1
    <3>1. i \in 1..m /\ e + i - 1 = x
      BY <1>1, <2>1, <2>2
    <3>2. To(W[i], "index", x)
      <4> HIDE DEF i
      <4> QED BY <1>2, <3>1 DEF To
    <3>3. PICK j \in 1..m : To(W[j], "index", x) /\ cur[x] = W[j].value
      BY <3>1, <3>2 DEF After
    <3>4. e + j - 1 = x
      BY <1>2, <3>3 DEF To
    <3> QED BY <1>2, <2>2, <3>3, <3>4
  <2>3. CASE ~(e <= x /\ x < e + m)
    <3>1. \A i \in 1..m : e + i - 1 # x
      BY <1>1, <2>1, <2>3
    <3>2. \A i \in 1..m : ~To(W[i], "index", x)
      BY <1>2, <3>1 DEF To
    <3> QED BY <2>3, <3>2 DEF After
  <2> QED BY <2>2, <2>3
<1>4. ASSUME NEW a \in 0..(end - 1) PROVE new[a] = data[a]
  <2>1. a \in Addresses
    <3>1. end \in Nat /\ end <= STORAGE_SIZE /\ STORAGE_SIZE \in Nat
      BY <1>1, Sizes DEF DataOK
    <3> QED BY <3>1 DEF Addresses
  <2> QED BY <1>2, <2>1 DEF After, To
<1>5. Rising(cur) /\ Same(cur, ix, t)
  BY <1>1, <1>3, MovingDown
<1> QED
  BY <1>1, <1>4, <1>5, KeptFound

\* The entries macro_idx_create moves up, and the index while it does: those in H
\* have moved, with each of them all that are behind it.
Above(ix, p) == {i \in Entries : i > p /\ ix[i - 1].keys # NO_TRIGGER}

MovesUp(ix, p, k, H, cur) ==
    /\ H \in SUBSET Above(ix, p)
    /\ \A x \in H : \A y \in Above(ix, p) : y > x => y \in H
    /\ \A x \in Entries : x # p => cur[x] = IF x \in H THEN ix[x - 1] ELSE ix[x]
    /\ cur[p] = ix[p] \/ (H = Above(ix, p) /\ cur[p].keys = k)

\* It can be searched all the time, and every key that was there is found.
LEMMA MovingUp ==
    ASSUME NEW ix, IndexOK(ix), NEW k \in Triggers, \A i \in Entries : ix[i].keys # k, ~IndexFull(ix),
           NEW p, p = CreatePosition(ix, k), NEW H, NEW cur, MovesUp(ix, p, k, H, cur),
           NEW t \in Triggers, t # k
    PROVE  Rising(cur) /\ Same(cur, ix, t)
<1> DEFINE N == MACRO_INDEX_COUNT
           S == Above(ix, p)
<1>a. /\ H \in SUBSET S /\ \A x \in H : \A y \in S : y > x => y \in H
      /\ \A x \in Entries : x # p => cur[x] = IF x \in H THEN ix[x - 1] ELSE ix[x]
      /\ cur[p] = ix[p] \/ (H = S /\ cur[p].keys = k)
  BY DEF MovesUp
<1>0. /\ N \in Nat \ {0} /\ Entries = 0..(N - 1) /\ NO_TRIGGER \in Nat
      /\ t < NO_TRIGGER /\ t \in Nat /\ k < NO_TRIGGER /\ k \in Nat /\ k \in Keys
  BY Sizes DEF Entries, Keys
<1>1. /\ p \in Entries /\ p \in Nat
      /\ \A i \in Entries : i < p => ix[i].keys < k
      /\ \A i \in Entries : i >= p => k < ix[i].keys
  BY <1>0, PositionIs
<1>2. \A x \in Entries : ix[x].keys \in Keys /\ ix[x].keys \in Nat /\ ix[x].keys <= NO_TRIGGER /\ x \in Nat
  BY EntryType
<1>3. \A x \in S : x \in Entries /\ x \in Nat /\ x > p /\ x - 1 \in Entries /\ ix[x - 1].keys # NO_TRIGGER
  BY <1>0, <1>1 DEF Above
<1>4. \A x \in Entries : x > p /\ x \notin S => ix[x].keys = NO_TRIGGER
  <2> SUFFICES ASSUME NEW x \in Entries, x > p, x \notin S PROVE ix[x].keys = NO_TRIGGER
    OBVIOUS
  <2>1. x - 1 \in Entries /\ x - 1 <= x
    BY <1>0, <1>1
  <2>2. ix[x - 1].keys = NO_TRIGGER
    BY DEF Above
  <2> QED BY <2>1, <2>2, UnusedBehind
<1>5. \A i, j \in Entries : i <= j => ix[i].keys <= ix[j].keys
  <2>1. \A i, j \in Entries : i < j => ix[i].keys <= ix[j].keys
    BY SortedRises DEF Rising
  <2>2. \A i, j \in Entries : i <= j => i < j \/ i = j
    BY <1>2
  <2> QED BY <1>2, <2>1, <2>2
<1>6. \A x \in Entries : x # p => (x \in H => cur[x] = ix[x - 1]) /\ (x \notin H => cur[x] = ix[x])
  BY <1>a
<1>7. \A x \in H : x \in S /\ x # p
  BY <1>1, <1>3, <1>a
<1>8. \A x \in Entries : cur[x].keys \in Keys /\ cur[x].keys \in Nat /\ cur[x].keys <= NO_TRIGGER
  BY <1>0, <1>2, <1>3, <1>6, <1>7, <1>a
<1> HIDE DEF S
<1>9. ASSUME NEW i \in Entries, NEW j \in Entries, i < j, i # p, j # p PROVE cur[i].keys <= cur[j].keys
  <2>1. i \in Nat /\ j \in Nat /\ i <= j
    BY <1>0, <1>9
  <2>2. CASE i \in H /\ j \in H
    <3>1. i - 1 \in Entries /\ j - 1 \in Entries /\ i - 1 <= j - 1
      BY <1>3, <1>7, <1>9, <2>1, <2>2
    <3> QED BY <1>5, <1>6, <1>9, <2>2, <3>1
  <2>3. CASE i \notin H /\ j \notin H
    BY <1>5, <1>6, <1>9, <2>1, <2>3
  <2>4. CASE i \notin H /\ j \in H
    <3>1. j - 1 \in Entries /\ i <= j - 1
      BY <1>3, <1>7, <1>9, <2>1, <2>4
    <3> QED BY <1>5, <1>6, <1>9, <2>4, <3>1
  <2>5. CASE i \in H /\ j \notin H
    <3>1. j \notin S /\ j > p
      BY <1>1, <1>3, <1>7, <1>9, <1>a, <2>1, <2>5
    <3>2. cur[j].keys = NO_TRIGGER
      BY <1>4, <1>6, <1>9, <2>5, <3>1
    <3> QED BY <1>8, <3>2
  <2> QED BY <2>2, <2>3, <2>4, <2>5
<1>10. ASSUME NEW i \in Entries, i < p PROVE cur[i] = ix[i] /\ ix[i].keys < k /\ ix[i].keys <= ix[p].keys
  <2>0. i \in Nat /\ p \in Nat
    BY <1>1, Sizes
  <2>1. i \in Nat /\ i <= p /\ i # p
    BY <1>10, <2>0
  <2>2. i \notin H
    BY <1>1, <1>3, <1>7, <1>10, <2>1
  <2> QED BY <1>1, <1>5, <1>6, <1>10, <2>1, <2>2
<1>11. ASSUME NEW i \in Entries, p < i PROVE cur[p].keys <= cur[i].keys
  <2>1. i \in Nat /\ p <= i /\ i # p
    BY <1>1, <1>2, <1>11
  <2>2. CASE i \in H
    <3>1. i - 1 \in Entries /\ p <= i - 1 /\ i - 1 >= p /\ cur[i] = ix[i - 1]
      BY <1>1, <1>3, <1>6, <1>7, <1>11, <2>1, <2>2
    <3>2. ix[p].keys <= ix[i - 1].keys /\ k < ix[i - 1].keys
      BY <1>1, <1>5, <3>1
    <3>3. ix[i - 1].keys \in Nat
      BY <1>2, <3>1
    <3>4. cur[p].keys = ix[p].keys \/ cur[p].keys = k
      BY <1>a
    <3> QED BY <1>0, <3>1, <3>2, <3>3, <3>4
  <2>3. CASE i \notin H /\ cur[p] = ix[p]
    BY <1>1, <1>5, <1>6, <2>1, <2>3
  <2>4. CASE i \notin H /\ H = S /\ cur[p].keys = k
    <3>1. cur[i].keys = NO_TRIGGER
      BY <1>4, <1>6, <1>11, <2>1, <2>4
    <3> QED BY <1>8, <1>1, <3>1
  <2> QED BY <1>a, <2>2, <2>3, <2>4
<1>12. ASSUME NEW i \in Entries, i < p PROVE cur[i].keys <= cur[p].keys
  <2>1. cur[i] = ix[i] /\ ix[i].keys < k /\ ix[i].keys <= ix[p].keys /\ ix[i].keys \in Nat
    BY <1>2, <1>10, <1>12
  <2>2. cur[p].keys = ix[p].keys \/ cur[p].keys = k
    BY <1>a
  <2> QED BY <1>0, <2>1, <2>2
<1>13. Rising(cur)
  BY <1>8, <1>9, <1>11, <1>12 DEF Rising
<1>14. ASSUME NEW j \in Entries, ix[j].keys = t PROVE \E i \in Entries : cur[i].keys = t
  <2>1. CASE j \notin H /\ (j # p \/ cur[p] = ix[p])
    BY <1>6, <1>14, <2>1
  <2>2. CASE j \in H \/ (j = p /\ H = S)
    <3>1. j >= p /\ j \in Nat /\ j # N - 1
      <4>1. j >= p /\ j \in Nat
        BY <1>1, <1>3, <1>7, <1>2, <2>2
      <4>2. j # N - 1
        BY <1>0, <1>14 DEF IndexFull
      <4> QED BY <4>1, <4>2
    <3>2. j + 1 \in Entries /\ j + 1 > p /\ (j + 1) - 1 = j /\ j + 1 > j /\ j + 1 # p
      BY <1>0, <1>1, <3>1
    <3>3. j + 1 \in S
      BY <1>0, <1>14, <3>2 DEF S, Above
    <3>4. j + 1 \in H
      BY <1>a, <2>2, <3>2, <3>3
    <3>5. cur[j + 1] = ix[j]
      BY <1>6, <3>2, <3>4
    <3> QED BY <1>14, <3>2, <3>5
  <2> QED BY <1>a, <2>1, <2>2
<1>15. ASSUME NEW i \in Entries, cur[i].keys = t
       PROVE  \E j \in Entries : ix[j].keys = t /\ cur[i] = ix[j]
  <2>1. CASE i = p
    BY <1>1, <1>15, <1>a, <2>1
  <2>2. CASE i # p
    BY <1>3, <1>6, <1>7, <1>15, <2>2
  <2> QED BY <2>1, <2>2
<1> QED
  BY <1>13, <1>14, <1>15 DEF Same


\* The writes of macros_start_macro for a new key: the entries above its place,
\* from the last one on, then twice the entry itself.
NewShape(W, ix, p, k) ==
    \E L \in Nat :
        /\ Len(W) = L + 2
        /\ \A i \in 1..L : /\ W[i].part = "index" /\ W[i].at \in Above(ix, p)
                           /\ W[i].value = ix[W[i].at - 1]
        /\ \A i, j \in 1..L : i < j => W[i].at > W[j].at
        /\ \A x \in Above(ix, p) : \E i \in 1..L : W[i].at = x
        /\ \A i \in (L + 1)..(L + 2) : W[i].part = "index" /\ W[i].at = p /\ W[i].value.keys = k

\* Wherever it is interrupted.
LEMMA NewKept ==
    ASSUME NEW ix, NEW data, NEW end, DataOK(ix, NULL, data, end),
           NEW k \in Triggers, \A i \in Entries : ix[i].keys # k, ~IndexFull(ix),
           NEW p, p = CreatePosition(ix, k), NEW t \in Triggers, t # k,
           NEW W, NEW m \in 0..Len(W), NewShape(W, ix, p, k),
           NEW cur, After(W, m, "index", Entries, ix, cur),
           NEW new, After(W, m, "data", Addresses, data, new)
    PROVE  FoundIn(cur, new, t).plays = FoundIn(ix, data, t).plays
<1> DEFINE S == Above(ix, p)
<1>1. IndexOK(ix) /\ NULL \notin Entries
  BY Sizes DEF DataOK, NULL, Entries
<1>2. Below(ix, data, t, end) /\ end \in Nat
  BY <1>1, BelowEnd
<1>3. PICK L \in Nat :
        /\ Len(W) = L + 2
        /\ \A i \in 1..L : /\ W[i].part = "index" /\ W[i].at \in S
                           /\ W[i].value = ix[W[i].at - 1]
        /\ \A i, j \in 1..L : i < j => W[i].at > W[j].at
        /\ \A x \in S : \E i \in 1..L : W[i].at = x
        /\ \A i \in (L + 1)..(L + 2) : W[i].part = "index" /\ W[i].at = p /\ W[i].value.keys = k
  BY DEF NewShape
<1>4. m \in Nat /\ m <= L + 2
  BY <1>3
<1>5. p \in Entries /\ p \in Nat /\ p \notin S /\ \A x \in S : x \in Nat
  <2>1. p \in Entries
    BY <1>1, PositionIs
  <2> QED BY <2>1, Sizes DEF Above
<1>6. \A i \in 1..m : i \in 1..L \/ i \in (L + 1)..(L + 2)
  BY <1>4
<1>7. \A i \in 1..m : W[i].part = "index"
  BY <1>3, <1>6
<1> DEFINE H == {x \in S : \E i \in 1..L : i <= m /\ W[i].at = x}
<1>8. H \in SUBSET Above(ix, p)
  OBVIOUS
<1> HIDE DEF S
<1>9. ASSUME NEW x \in H, NEW y \in S, y > x PROVE y \in H
  <2>1. PICK i \in 1..L : i <= m /\ W[i].at = x
    OBVIOUS
  <2>2. PICK j \in 1..L : W[j].at = y
    BY <1>3
  <2>3. x \in S /\ x \in Nat /\ y \in Nat
    BY <1>5
  <2>4. ~(i < j)
    BY <1>3, <1>9, <2>1, <2>2, <2>3
  <2>5. j <= m
    BY <1>4, <2>1, <2>4
  <2> QED BY <2>2, <2>5
<1>10. ASSUME NEW x \in Entries, x # p PROVE cur[x] = IF x \in H THEN ix[x - 1] ELSE ix[x]
  <2>1. ASSUME NEW i \in 1..m, To(W[i], "index", x) PROVE x \in H /\ i \in 1..L /\ W[i].value = ix[x - 1]
    <3>1. i \in 1..L
      BY <1>3, <1>6, <1>10, <2>1 DEF To
    <3>2. i <= m /\ W[i].at = x /\ x \in S /\ W[i].value = ix[x - 1]
      BY <1>3, <1>4, <2>1, <3>1 DEF To
    <3> QED BY <3>1, <3>2
  <2>2. CASE x \in H
    <3>1. PICK i \in 1..L : i <= m /\ W[i].at = x
      BY <2>2
    <3>2. i \in 1..m /\ To(W[i], "index", x)
      BY <1>3, <1>4, <3>1 DEF To
    <3>3. PICK j \in 1..m : To(W[j], "index", x) /\ cur[x] = W[j].value
      BY <3>2 DEF After
    <3> QED BY <2>1, <2>2, <3>3
  <2>3. CASE x \notin H
    <3>1. \A i \in 1..m : ~To(W[i], "index", x)
      BY <2>1, <2>3
    <3> QED BY <2>3, <3>1 DEF After
  <2> QED BY <2>2, <2>3
<1>11. cur[p] = ix[p] \/ (H = S /\ cur[p].keys = k)
  <2>1. CASE cur[p] = ix[p]
    BY <2>1
  <2>2. CASE \E i \in 1..m : To(W[i], "index", p) /\ cur[p] = W[i].value
    <3>1. PICK i \in 1..m : To(W[i], "index", p) /\ cur[p] = W[i].value
      BY <2>2
    <3>2. i \notin 1..L
      BY <1>3, <1>5, <3>1 DEF To
    <3>3. i \in (L + 1)..(L + 2) /\ L <= m
      BY <1>4, <1>6, <3>2
    <3>4. cur[p].keys = k
      BY <1>3, <3>1, <3>3
    <3>5. \A j \in 1..L : j <= m
      BY <1>4, <3>3
    <3>6. H = S
      BY <1>3, <3>5
    <3> QED BY <3>4, <3>6
  <2> QED BY <1>5, <2>1, <2>2 DEF After
<1> HIDE DEF H
<1>12. Rising(cur) /\ Same(cur, ix, t)
  <2>1. MovesUp(ix, p, k, H, cur)
    BY <1>8, <1>9, <1>10, <1>11 DEF MovesUp, S
  <2> QED BY <1>1, <2>1, MovingUp
<1>13. ASSUME NEW a \in 0..(end - 1) PROVE new[a] = data[a]
  <2>1. a \in Addresses
    <3>1. end \in Nat /\ end <= STORAGE_SIZE /\ STORAGE_SIZE \in Nat
      BY <1>2, Sizes DEF DataOK
    <3> QED BY <3>1 DEF Addresses
  <2>2. \A i \in 1..m : ~To(W[i], "data", a)
    BY <1>7 DEF To
  <2> QED BY <2>1, <2>2 DEF After
<1> QED
  BY <1>1, <1>2, <1>12, <1>13, KeptFound

\* The writes of macros_start_macro for a key that has an entry e: no write
\* changes a key, and besides e only entries and bytes of macros behind the
\* deleted one are written.
AgainShape(W, ix, e) ==
    \A i \in 1..Len(W) :
        /\ W[i].part = "index" =>
              /\ W[i].value.keys = ix[W[i].at].keys
              /\ W[i].at # e => /\ ix[e].type = "MACRO" /\ ix[W[i].at].type = "MACRO"
                                /\ ix[W[i].at].data > ix[e].data
        /\ W[i].part = "data" => ix[e].type = "MACRO" /\ W[i].at >= ix[e].data

\* Wherever it is interrupted, unless the macro is behind the deleted one.
LEMMA AgainKept ==
    ASSUME NEW ix, NEW data, NEW end, DataOK(ix, NULL, data, end),
           NEW k \in Triggers, NEW e \in Entries, ix[e].keys = k, NEW t \in Triggers, t # k,
           ~(\E j \in Entries : /\ ix[j].keys = t /\ ix[j].type = "MACRO" /\ ix[e].type = "MACRO"
                                /\ ix[j].data > ix[e].data),
           NEW W, Len(W) \in Nat, NEW m \in 0..Len(W), AgainShape(W, ix, e),
           NEW cur, After(W, m, "index", Entries, ix, cur),
           NEW new, After(W, m, "data", Addresses, data, new)
    PROVE  FoundIn(cur, new, t).plays = FoundIn(ix, data, t).plays
<1>1. IndexOK(ix) /\ NULL \notin Entries /\ e # NULL /\ k # NO_TRIGGER /\ t # NO_TRIGGER
  BY Sizes DEF DataOK, NULL, Entries
<1>2. Below(ix, data, t, end) /\ end \in Nat
  BY <1>1, BelowEnd
<1>3. \A i \in 1..m : i \in 1..Len(W)
  OBVIOUS
<1>4. ASSUME NEW x \in Entries PROVE cur[x].keys = ix[x].keys
  BY <1>3 DEF After, AgainShape, To
<1>5. ASSUME NEW x \in Entries, ix[x].keys = t PROVE cur[x] = ix[x]
  <2>1. x # e
    BY <1>5
  <2>2. \A i \in 1..m : ~To(W[i], "index", x)
    BY <1>3, <1>5, <2>1 DEF AgainShape, To
  <2> QED BY <2>2 DEF After
<1>6. Rising(cur) /\ Same(cur, ix, t)
  <2>1. Rising(cur)
    BY <1>1, <1>4, RisingSame
  <2> QED BY <1>4, <1>5, <2>1 DEF Same
<1>7. CASE ix[e].type # "MACRO"
  <2>1. ASSUME NEW a \in 0..(end - 1) PROVE new[a] = data[a]
    <3>1. a \in Addresses
      <4>1. end \in Nat /\ end <= STORAGE_SIZE /\ STORAGE_SIZE \in Nat
        BY <1>2, Sizes DEF DataOK
      <4> QED BY <4>1 DEF Addresses
    <3>2. \A i \in 1..m : ~To(W[i], "data", a)
      BY <1>3, <1>7 DEF AgainShape, To
    <3> QED BY <3>1, <3>2 DEF After
  <2> QED BY <1>1, <1>2, <1>6, <2>1, KeptFound
<1>8. CASE ix[e].type = "MACRO"
  <2> DEFINE o == ix[e].data
             T == Starts(ix, NULL)
  <2>1. Tiles(T, data, end) /\ OneEach(ix, NULL)
    BY DEF DataOK
  <2>2. e \in Done(ix, NULL) /\ o \in T
    BY <1>1, <1>8 DEF Done, Starts
  <2>3. o \in Nat /\ o < end
    <3> HIDE DEF T
    <3> QED BY <2>1, <2>2, TileType
  <2>4. ASSUME NEW j \in Entries, ix[j].keys = t, ix[j].type = "MACRO"
        PROVE  /\ ix[j].data \in Nat /\ data[ix[j].data] \in Nat
               /\ ix[j].data + Size(data, ix[j].data) <= o
    <3> DEFINE d == ix[j].data
    <3>1. j # e /\ j # NULL
      BY <1>1, <2>4
    <3>2. j \in Done(ix, NULL) /\ d \in T
      BY <1>1, <2>4, <3>1 DEF Done, Starts
    <3>3. d # o
      BY <2>1, <2>2, <3>1, <3>2 DEF OneEach
    <3>4. ~(d > o)
      BY <1>8, <2>4
    <3> HIDE DEF o, T, d
    <3>5. d \in Nat /\ data[d] \in Nat
      BY <2>1, <3>2 DEF Tiles
    <3>6. d < o
      BY <2>3, <3>3, <3>4, <3>5
    <3>7. d + Size(data, d) <= o
      BY <2>1, <2>2, <3>2, <3>6 DEF Tiles
    <3> QED BY <3>5, <3>7 DEF d
  <2>5. Below(ix, data, t, o)
    BY <2>4 DEF Below
  <2>6. ASSUME NEW a \in 0..(o - 1) PROVE new[a] = data[a]
    <3>1. a \in Addresses
      <4>1. end \in Nat /\ end <= STORAGE_SIZE /\ STORAGE_SIZE \in Nat
        BY <1>2, Sizes DEF DataOK
      <4> HIDE DEF o
      <4> QED BY <2>3, <4>1 DEF Addresses
    <3>2. ~(a >= o)
      <4> HIDE DEF o
      <4> QED BY <2>3
    <3>3. \A i \in 1..m : ~To(W[i], "data", a)
      BY <1>3, <3>2 DEF AgainShape, To
    <3> QED BY <3>1, <3>3 DEF After
  <2> HIDE DEF o
  <2> QED BY <1>1, <1>6, <2>3, <2>5, <2>6, KeptFound
<1> QED
  BY <1>7, <1>8


-----------------------------------------------------------------------------
(***************************************************************************)
(* The lists of the calls have those shapes.                               *)
(***************************************************************************)

\* macros_commit_macro
LEMMA CommitShaped ==
    ASSUME recording_state.macro = macros_end_offset
    PROVE  CommitShape(CommitWrites, macros_end_offset)
<1>1. /\ Len(CommitWrites) = 2
      /\ CommitWrites[1].part = "data" /\ CommitWrites[1].at = macros_end_offset
      /\ CommitWrites[2].part = "end"
  BY DEF CommitWrites, Write
<1>2. \A i \in 1..2 : i = 1 \/ i = 2
  OBVIOUS
<1> QED
  BY <1>1, <1>2 DEF CommitShape

\* macros_abort_macro
LEMMA AbortShaped ==
    ASSUME NEW e \in Entries
    PROVE  AbortShape(RemoveWrites(e), macro_index, e)
<1> DEFINE ix == macro_index
           stop == Min({i \in Entries : i >= e /\ MovedDown(ix, i).keys = NO_TRIGGER})
           new == macro_idx_remove(ix, e)
           n == stop - e + 1
           W == RemoveWrites(e)
<1>1. stop \in Nat /\ stop \in Entries /\ stop >= e /\ e \in Nat
  <2>1. stop \in Entries /\ stop >= e
    BY StopIs
  <2> HIDE DEF stop
  <2> QED BY <2>1, Sizes
<1>2. \A i \in Entries : i \in e..stop => new[i] = MovedDown(ix, i)
  BY DEF macro_idx_remove
<1>3. W = [i \in 1..n |-> Write("index", e + i - 1, new[e + i - 1])]
  BY DEF RemoveWrites
<1> HIDE DEF stop, new, W
<1>4. n \in Nat /\ \A i \in 1..n : e + i - 1 \in e..stop /\ e + i - 1 \in Entries
  BY <1>1, Sizes DEF Entries
<1> HIDE DEF n
<1>5. Len(W) = n /\ \A i \in 1..n : W[i] = Write("index", e + i - 1, new[e + i - 1])
  BY <1>3, <1>4
<1>6. ASSUME NEW i \in 1..n
      PROVE  W[i].part = "index" /\ W[i].at = e + i - 1 /\ W[i].value = MovedDown(ix, e + i - 1)
  <2>1. new[e + i - 1] = MovedDown(ix, e + i - 1)
    BY <1>2, <1>4
  <2> QED BY <1>5, <2>1 DEF Write
<1> QED
  BY <1>4, <1>5, <1>6 DEF AbortShape, W

\* Descending goes down.
LEMMA DescendingDown ==
    ASSUME NEW S \in SUBSET Int, IsFiniteSet(S),
           NEW i \in 1..Cardinality(S), NEW j \in 1..Cardinality(S), i < j
    PROVE  Descending(S)[i] > Descending(S)[j]
<1> DEFINE n == Cardinality(S)
           s == Ascending(S)
           a == s[n + 1 - i]
           b == s[n + 1 - j]
<1>1. n \in Nat
  BY FS_CardinalityType
<1>2. n + 1 - i \in 1..n /\ n + 1 - j \in 1..n /\ n + 1 - j < n + 1 - i
  <2> HIDE DEF n
  <2>1. i \in 1..n /\ j \in 1..n
    BY DEF n
  <2> QED BY <1>1, <2>1
<1>3. Descending(S)[i] = a /\ Descending(S)[j] = b
  BY DEF Descending
<1>4. a \in S /\ RankIn(S, a) = (n + 1 - i) - 1 /\ b \in S /\ RankIn(S, b) = (n + 1 - j) - 1
  BY <1>2, AscendingAt
<1>5. RankIn(S, b) < RankIn(S, a)
  <2> HIDE DEF a, b, n
  <2> QED BY <1>1, <1>2, <1>4
<1> HIDE DEF a, b
<1>6. b < a /\ a \in Int /\ b \in Int
  BY <1>4, <1>5, RankAscends
<1>7. a > b
  BY <1>6
<1> QED
  BY <1>3, <1>7

\* macros_start_macro for a new key.
LEMMA NewShaped ==
    ASSUME NEW k, NEW p \in Entries, p = CreatePosition(macro_index, k),
           macro_index[p] \in EntrySet
    PROVE  NewShape(NewWrites(k), macro_index, p, k)
<1> DEFINE ix == macro_index
           S == Above(ix, p)
           s == Descending(S)
           L == Len(s)
           x == [ix[p] EXCEPT !.keys = k]
           y == [keys |-> k, type |-> "MACRO", data |-> macros_end_offset]
           u == MoveUpWrites(p)
           v == <<Write("index", p, x)>>
           w == <<Write("index", p, y)>>
           W == NewWrites(k)
<1>1. S \in SUBSET Int /\ IsFiniteSet(S)
  <2>1. S \in SUBSET Entries
    BY DEF Above
  <2> HIDE DEF S
  <2> QED BY <2>1, PlacesFinite
<1>2. W = u \o v \o w
  BY DEF NewWrites, SetData
<1>3. u = [i \in 1..L |-> Write("index", s[i], ix[s[i] - 1])]
  BY DEF MoveUpWrites, Above
<1>4. x.keys = k /\ y.keys = k
  BY DEF EntrySet
<1> HIDE DEF S
<1>5. L \in Nat /\ L = Cardinality(S) /\ ListsOnce(s, L, S)
  <2>1. Cardinality(S) \in Nat /\ s = [i \in 1..Cardinality(S) |-> Ascending(S)[Cardinality(S) + 1 - i]]
    BY <1>1, FS_CardinalityType DEF Descending
  <2>2. L = Cardinality(S)
    <3> HIDE DEF s
    <3> QED BY <2>1
  <2> QED BY <1>1, <2>1, <2>2, DescendingOnce
<1>6. \A i, j \in 1..L : i < j => s[i] > s[j]
  BY <1>1, <1>5, DescendingDown
<1> HIDE DEF s, L, x, y, u, W
<1>7. Len(u) = L /\ \A i \in 1..L : u[i].part = "index" /\ u[i].at = s[i] /\ u[i].value = ix[s[i] - 1]
  BY <1>3, <1>5 DEF Write
<1>8. IsList(u)
  <2>1. u = [i \in 1..L |-> u[i]]
    BY <1>3
  <2> QED BY <1>5, <2>1 DEF IsList
<1>9. /\ IsList(v) /\ Len(v) = 1 /\ v[1].part = "index" /\ v[1].at = p /\ v[1].value = x
      /\ IsList(w) /\ Len(w) = 1 /\ w[1].part = "index" /\ w[1].at = p /\ w[1].value = y
  <2>1. /\ IsList(v) /\ Len(v) = 1 /\ v[1].part = "index" /\ v[1].at = p
        /\ IsList(w) /\ Len(w) = 1 /\ w[1].part = "index" /\ w[1].at = p
    BY OneYields
  <2>2. v[1].value = x /\ w[1].value = y
    BY DEF Write
  <2> QED BY <2>1, <2>2
<1> HIDE DEF v, w
<1>10. /\ IsList(u \o v) /\ Len(u \o v) = L + 1 /\ (u \o v)[L + 1] = v[1]
       /\ \A i \in 1..L : (u \o v)[i] = u[i]
  <2>0. IsList(u) /\ IsList(v)
    BY <1>8, <1>9
  <2>1. /\ IsList(u \o v) /\ Len(u \o v) = Len(u) + Len(v)
        /\ \A i \in 1..Len(u) : (u \o v)[i] = u[i]
        /\ \A i \in 1..Len(v) : (u \o v)[Len(u) + i] = v[i]
    BY <2>0, ListBoth
  <2> QED BY <1>7, <1>9, <2>1
<1>11. /\ Len(W) = L + 2 /\ W[L + 2] = w[1] /\ W[L + 1] = v[1]
       /\ \A i \in 1..L : W[i] = u[i]
  <2> DEFINE t == u \o v
  <2>0. IsList(t) /\ IsList(w)
    BY <1>9, <1>10
  <2>2. W = t \o w
    BY <1>2
  <2> HIDE DEF t
  <2>1. /\ Len(t \o w) = Len(t) + Len(w)
        /\ \A i \in 1..Len(t) : (t \o w)[i] = t[i]
        /\ \A i \in 1..Len(w) : (t \o w)[Len(t) + i] = w[i]
    BY <2>0, ListBoth
  <2>3. Len(t) = L + 1 /\ t[L + 1] = v[1] /\ \A i \in 1..L : t[i] = u[i]
    BY <1>10 DEF t
  <2>a. (L + 1) + 1 = L + 2 /\ L + 1 \in 1..(L + 1) /\ 1 \in 1..1
    BY <1>5
  <2>b. Len(w) = 1
    BY <1>9
  <2>4. Len(W) = L + 2
    BY <2>1, <2>2, <2>3, <2>a, <2>b
  <2>5. W[L + 2] = w[1] /\ W[L + 1] = v[1]
    BY <2>1, <2>2, <2>3, <2>a, <2>b
  <2>6. \A i \in 1..L : i \in 1..Len(t)
    BY <1>5, <2>3
  <2> QED BY <2>1, <2>2, <2>3, <2>4, <2>5, <2>6
<1>12. \A i \in 1..L : /\ W[i].part = "index" /\ W[i].at = s[i] /\ W[i].at \in S
                       /\ W[i].value = ix[W[i].at - 1]
  BY <1>5, <1>7, <1>11 DEF ListsOnce
<1>13. \A i, j \in 1..L : i < j => W[i].at > W[j].at
  BY <1>6, <1>12
<1>14. \A z \in S : \E i \in 1..L : W[i].at = z
  BY <1>5, <1>12 DEF ListsOnce
<1>15. \A i \in (L + 1)..(L + 2) : W[i].part = "index" /\ W[i].at = p /\ W[i].value.keys = k
  <2>1. \A i \in (L + 1)..(L + 2) : i = L + 1 \/ i = L + 2
    BY <1>5
  <2> QED BY <1>4, <1>9, <1>11, <2>1
<1> QED
  BY <1>5, <1>11, <1>12, <1>13, <1>14, <1>15 DEF NewShape, S, W


\* The same shape for one list behind the other.
LEMMA AgainShapeBoth ==
    ASSUME NEW s, NEW t, IsList(s), IsList(t), NEW ix, NEW e, AgainShape(s, ix, e), AgainShape(t, ix, e)
    PROVE  IsList(s \o t) /\ AgainShape(s \o t, ix, e)
<1> DEFINE OK(w) ==
               /\ w.part = "index" =>
                     /\ w.value.keys = ix[w.at].keys
                     /\ w.at # e => /\ ix[e].type = "MACRO" /\ ix[w.at].type = "MACRO"
                                    /\ ix[w.at].data > ix[e].data
               /\ w.part = "data" => ix[e].type = "MACRO" /\ w.at >= ix[e].data
<1>1. (\A i \in 1..Len(s) : OK(s[i])) /\ (\A i \in 1..Len(t) : OK(t[i]))
  BY DEF AgainShape
<1>2. /\ IsList(s \o t) /\ Len(s) \in Nat /\ Len(t) \in Nat /\ Len(s \o t) = Len(s) + Len(t)
      /\ \A i \in 1..Len(s) : (s \o t)[i] = s[i]
      /\ \A i \in 1..Len(t) : (s \o t)[Len(s) + i] = t[i]
  BY ListBoth
<1> HIDE DEF OK
<1>3. ASSUME NEW i \in 1..Len(s \o t) PROVE OK((s \o t)[i])
  <2>1. CASE i <= Len(s)
    <3>1. i \in 1..Len(s)
      BY <1>2, <2>1
    <3> QED BY <1>1, <1>2, <3>1
  <2>2. CASE i > Len(s)
    <3>1. i - Len(s) \in 1..Len(t) /\ Len(s) + (i - Len(s)) = i
      BY <1>2, <2>2
    <3> QED BY <1>1, <1>2, <3>1
  <2> QED BY <1>2, <2>1, <2>2
<1>4. \A i \in 1..Len(s \o t) : OK((s \o t)[i])
  BY <1>3
<1> QED
  BY <1>2, <1>4 DEF AgainShape, OK

\* What deleting the macro of entry e can change.
LEMMA DeletedChanges ==
    ASSUME NEW ix, IndexOK(ix), NEW e \in Entries, NEW data, NEW end,
           NEW left, left = delete_macro_data(ix, end, data, e)
    PROVE  /\ \A i \in Entries : left.index[i].keys = ix[i].keys
           /\ \A i \in Entries : left.index[i] # ix[i] =>
                 ix[e].type = "MACRO" /\ ix[i].type = "MACRO" /\ ix[i].data > ix[e].data
           /\ \A a \in Addresses : left.data[a] # data[a] => ix[e].type = "MACRO" /\ a >= ix[e].data
<1>1. CASE ix[e].type # "MACRO"
  <2>1. left.index = ix /\ left.data = data
    BY <1>1, DeletedProgram
  <2> QED BY <2>1
<1>2. CASE ix[e].type = "MACRO"
  <2> DEFINE o == ix[e].data
             l == data[o] + MACRO_DATA_HEADER_LEN
             rest == (end - (o + l)) % 65536
  <2>1. /\ left.index = ix \/ left.index = ShiftDown(ix, o, l)
        /\ left.data = data \/ left.data = MoveDown(data, o, o + l, rest)
    BY <1>2 DEF delete_macro_data
  <2>2. o \in Nat
    BY EntryType
  <2> HIDE DEF o, l, rest
  <2>3. ASSUME NEW i \in Entries
        PROVE  /\ left.index[i].keys = ix[i].keys
               /\ left.index[i] # ix[i] => ix[i].type = "MACRO" /\ ix[i].data > o
    <3> DEFINE en == ix[i]
    <3>0. en \in EntrySet
      BY EntryType
    <3>1. \/ left.index[i] = en
          \/ en.type = "MACRO" /\ en.data > o /\ left.index[i] = [en EXCEPT !.data = @ - l]
      BY <2>1 DEF ShiftDown
    <3> HIDE DEF en
    <3>2. [en EXCEPT !.data = @ - l].keys = en.keys
      BY <3>0 DEF EntrySet
    <3> QED BY <3>1, <3>2 DEF en
  <2>4. ASSUME NEW a \in Addresses, left.data[a] # data[a] PROVE a >= o
    <3>1. left.data = MoveDown(data, o, o + l, rest)
      BY <2>1, <2>4
    <3>2. a \in o..(o + rest - 1)
      BY <2>4, <3>1 DEF MoveDown
    <3> QED BY <2>2, <3>2, Sizes
  <2> QED BY <1>2, <2>3, <2>4 DEF o
<1> QED
  BY <1>1, <1>2

\* macros_start_macro for a key that has an entry.
LEMMA AgainShaped ==
    ASSUME IndexOK(macro_index), NEW e \in Entries
    PROVE  AgainShape(AgainWrites(e), macro_index, e)
<1> DEFINE ix == macro_index
           left == Left(e)
           A == {a \in Addresses : left.data[a] # macros[a]}
           M == {i \in Entries : left.index[i] # ix[i]}
           s == Ascending(A)
           t == Ascending(M)
           u == OnceWrites("data", s, Len(s), left.data)
           v == OnceWrites("index", t, Len(t), left.index)
           w == IF left.end # macros_end_offset THEN <<Write("end", 0, left.end)>> ELSE <<>>
           y == [keys |-> ix[e].keys, type |-> "MACRO", data |-> left.end]
           z == <<Write("index", e, y)>>
<1>1. AgainWrites(e) = (u \o v \o w) \o z
  BY DEF AgainWrites, DeleteWrites, SetData, OnceWrites
<1>2. /\ \A i \in Entries : left.index[i].keys = ix[i].keys
      /\ \A i \in Entries : left.index[i] # ix[i] =>
            ix[e].type = "MACRO" /\ ix[i].type = "MACRO" /\ ix[i].data > ix[e].data
      /\ \A a \in Addresses : left.data[a] # macros[a] => ix[e].type = "MACRO" /\ a >= ix[e].data
  <2>1. left = delete_macro_data(ix, macros_end_offset, macros, e)
    BY DEF Left
  <2> HIDE DEF left
  <2> QED BY <2>1, DeletedChanges
<1>3. A \in SUBSET Addresses /\ M \in SUBSET Entries
  OBVIOUS
<1>4. \A a \in A : ix[e].type = "MACRO" /\ a >= ix[e].data
  BY <1>2
<1>5. \A i \in M : /\ left.index[i].keys = ix[i].keys /\ ix[e].type = "MACRO"
                   /\ ix[i].type = "MACRO" /\ ix[i].data > ix[e].data
  BY <1>2
<1> HIDE DEF A, M, left
<1>6. ListsOnce(s, Len(s), A) /\ ListsOnce(t, Len(t), M)
  BY <1>3, PlacesFinite, AscendingOnce
<1> HIDE DEF s, t
<1>7. IsList(u) /\ AgainShape(u, ix, e)
  <2>1. IsList(u) /\ Len(u) = Len(s)
    BY <1>6, OnceYields
  <2>2. \A i \in 1..Len(s) : u[i].part = "data" /\ u[i].at = s[i] /\ s[i] \in A
    BY <1>6 DEF OnceWrites, Write, ListsOnce
  <2> HIDE DEF u
  <2> QED BY <1>4, <2>1, <2>2 DEF AgainShape
<1>8. IsList(v) /\ AgainShape(v, ix, e)
  <2>1. IsList(v) /\ Len(v) = Len(t)
    BY <1>6, OnceYields
  <2>2. \A i \in 1..Len(t) : /\ v[i].part = "index" /\ v[i].at = t[i] /\ t[i] \in M
                             /\ v[i].value = left.index[t[i]]
    BY <1>6 DEF OnceWrites, Write, ListsOnce
  <2> HIDE DEF v
  <2> QED BY <1>5, <2>1, <2>2 DEF AgainShape
<1>9. IsList(w) /\ AgainShape(w, ix, e)
  <2>1. CASE left.end # macros_end_offset
    <3>1. IsList(w) /\ Len(w) = 1 /\ w[1].part = "end"
      BY <2>1, OneYields
    <3> HIDE DEF w
    <3>2. \A i \in 1..Len(w) : w[i].part = "end"
      BY <3>1
    <3> QED BY <3>1, <3>2 DEF AgainShape
  <2>2. CASE left.end = macros_end_offset
    <3>1. w = <<>> /\ IsList(w) /\ Len(w) = 0
      BY <2>2, NoneYields
    <3> HIDE DEF w
    <3>2. \A i \in 1..Len(w) : FALSE
      BY <3>1
    <3> QED BY <3>1, <3>2 DEF AgainShape
  <2> QED BY <2>1, <2>2
<1>10. IsList(z) /\ AgainShape(z, ix, e)
  <2>1. IsList(z) /\ Len(z) = 1 /\ z[1].part = "index" /\ z[1].at = e
    BY OneYields
  <2>2. z[1].value.keys = ix[e].keys
    BY DEF Write
  <2> HIDE DEF z
  <2>3. \A i \in 1..Len(z) : i = 1
    BY <2>1
  <2> QED BY <2>1, <2>2, <2>3 DEF AgainShape
<1> HIDE DEF u, v, w, z
<1>11. IsList(u \o v) /\ AgainShape(u \o v, ix, e)
  BY <1>7, <1>8, AgainShapeBoth
<1>12. IsList(u \o v \o w) /\ AgainShape(u \o v \o w, ix, e)
  BY <1>9, <1>11, AgainShapeBoth
<1>13. AgainShape((u \o v \o w) \o z, ix, e)
  BY <1>10, <1>12, AgainShapeBoth
<1> QED
  BY <1>1, <1>13


-----------------------------------------------------------------------------
(***************************************************************************)
(* The macros are found wherever a call is interrupted.                    *)
(***************************************************************************)

\* What f says the triggers other than k found is still found, but for macros
\* behind that of k.
KeptBy(f, k, ix, data) ==
    \A t \in Triggers \ {k} :
        \/ f[k].offset \in 0..(f[t].offset - 1)
        \/ FoundIn(ix, data, t).plays = f[t].plays

\* The shape of the writes of a call that finds the storage s.
OneShape(W, s, k) ==
    \/ /\ s.recording = NotRecording /\ macro_idx_lookup(s.index, k) # NULL
       /\ AgainShape(W, s.index, macro_idx_lookup(s.index, k))
    \/ /\ s.recording = NotRecording /\ macro_idx_lookup(s.index, k) = NULL
       /\ ~IndexFull(s.index) /\ NewShape(W, s.index, CreatePosition(s.index, k), k)
    \/ s.recording # NotRecording /\ CommitShape(W, s.end)
    \/ s.recording # NotRecording /\ AbortShape(W, s.index, s.recording.index_entry)

\* f is what the triggers found before k is recorded into the storage s.
KnownBy(f, k, s) ==
    /\ s.recording = NotRecording => f = [t \in Triggers |-> FoundIn(s.index, s.data, t)]
    /\ s.recording # NotRecording => /\ s.index[s.recording.index_entry].keys = k
                                     /\ KeptBy(f, k, s.index, s.data)

\* Where the macro of a trigger is found.
LEMMA OffsetFound ==
    ASSUME NEW ix, IndexOK(ix), NEW t \in Triggers, NEW j \in Entries, ix[j].keys = t,
           ix[j].type = "MACRO", NEW data
    PROVE  FoundIn(ix, data, t).offset = ix[j].data /\ ix[j].data \in Nat
<1> DEFINE u == macro_idx_lookup(ix, t)
<1>1. Rising(ix) /\ t \in Keys
  BY SortedRises DEF Keys
<1>2. u # NULL /\ u \in Entries /\ ix[u].keys = t
  BY <1>1, LookupFinds
<1>3. u = j
  BY <1>2, OneEntry
<1> QED
  BY <1>2, <1>3, EntryType DEF FoundIn, OffsetOf

\* A call that has made m of its writes W.
LEMMA StageKept ==
    ASSUME NEW s, Sound(s), NEW k \in Triggers, NEW f, KnownBy(f, k, s),
           NEW W, Len(W) \in Nat, NEW m \in 0..Len(W), OneShape(W, s, k),
           NEW cur, After(W, m, "index", Entries, s.index, cur),
           NEW new, After(W, m, "data", Addresses, s.data, new)
    PROVE  KeptBy(f, k, cur, new)
<1> DEFINE ix == s.index
           data == s.data
           e == s.recording.index_entry
<1>1. SUFFICES ASSUME NEW t \in Triggers, t # k
               PROVE  \/ f[k].offset \in 0..(f[t].offset - 1)
                      \/ FoundIn(cur, new, t).plays = f[t].plays
  BY DEF KeptBy
<1>2. ASSUME s.recording = NotRecording
      PROVE  /\ DataOK(ix, NULL, data, s.end) /\ IndexOK(ix)
             /\ f[t] = FoundIn(ix, data, t) /\ f[k] = FoundIn(ix, data, k)
  BY <1>2, SoundIdle DEF KnownBy, DataOK
<1>3. ASSUME s.recording # NotRecording
      PROVE  /\ DataOK(ix, e, data, s.end) /\ e \in Entries /\ ix[e].keys # t
             /\ \/ f[k].offset \in 0..(f[t].offset - 1)
                \/ FoundIn(ix, data, t).plays = f[t].plays
  <2>1. DataOK(ix, e, data, s.end) /\ e \in Entries
    BY <1>3 DEF Sound, StorageOK, RecordingOK
  <2>2. ix[e].keys = k /\ KeptBy(f, k, ix, data)
    BY <1>3 DEF KnownBy
  <2> QED BY <1>1, <2>1, <2>2 DEF KeptBy
<1>4. CASE /\ s.recording = NotRecording /\ macro_idx_lookup(ix, k) # NULL
           /\ AgainShape(W, ix, macro_idx_lookup(ix, k))
  <2> DEFINE a == macro_idx_lookup(ix, k)
             behind == \E j \in Entries : /\ ix[j].keys = t /\ ix[j].type = "MACRO" /\ ix[a].type = "MACRO"
                                          /\ ix[j].data > ix[a].data
  <2>0. s.recording = NotRecording /\ AgainShape(W, ix, a)
    BY <1>4
  <2>1. a \in Entries /\ ix[a].keys = k
    BY <1>2, <1>4, FoundEntry
  <2> HIDE DEF a, ix, data
  <2>2. CASE behind
    <3>1. PICK j \in Entries : /\ ix[j].keys = t /\ ix[j].type = "MACRO" /\ ix[a].type = "MACRO"
                               /\ ix[j].data > ix[a].data
      BY <2>2
    <3>2. FoundIn(ix, data, t).offset = ix[j].data /\ ix[j].data \in Nat
      BY <1>2, <2>0, <3>1, OffsetFound
    <3>3. FoundIn(ix, data, k).offset = ix[a].data /\ ix[a].data \in Nat
      BY <1>2, <2>0, <2>1, <3>1, OffsetFound
    <3>4. ix[a].data \in 0..(ix[j].data - 1)
      BY <3>1, <3>2, <3>3
    <3> QED BY <1>2, <2>0, <3>2, <3>3, <3>4
  <2>3. CASE ~behind
    <3>1. FoundIn(cur, new, t).plays = FoundIn(ix, data, t).plays
      <4>1. DataOK(ix, NULL, data, s.end)
        BY <1>2, <2>0
      <4>2. After(W, m, "index", Entries, ix, cur) /\ After(W, m, "data", Addresses, data, new)
        BY DEF ix, data
      <4> QED BY <1>1, <2>0, <2>1, <2>3, <4>1, <4>2, AgainKept
    <3> QED BY <1>2, <2>0, <3>1
  <2> QED BY <2>2, <2>3
<1>5. CASE /\ s.recording = NotRecording /\ macro_idx_lookup(ix, k) = NULL
           /\ ~IndexFull(ix) /\ NewShape(W, ix, CreatePosition(ix, k), k)
  <2> DEFINE p == CreatePosition(ix, k)
  <2>1. DataOK(ix, NULL, data, s.end) /\ IndexOK(ix) /\ f[t] = FoundIn(ix, data, t)
    BY <1>2, <1>5
  <2>2. \A i \in Entries : ix[i].keys # k
    <3>1. Rising(ix) /\ k \in Keys
      BY <2>1, SortedRises DEF Keys
    <3> QED BY <1>5, <3>1, LookupFinds
  <2>3. /\ After(W, m, "index", Entries, ix, cur) /\ After(W, m, "data", Addresses, data, new)
        /\ NewShape(W, ix, p, k) /\ ~IndexFull(ix) /\ p = CreatePosition(ix, k)
    BY <1>5
  <2> HIDE DEF ix, data, p
  <2>4. FoundIn(cur, new, t).plays = FoundIn(ix, data, t).plays
    BY <1>1, <2>1, <2>2, <2>3, NewKept
  <2> QED BY <2>1, <2>4
<1>6. CASE s.recording # NotRecording /\ CommitShape(W, s.end)
  <2>1. /\ DataOK(ix, e, data, s.end) /\ e \in Entries /\ ix[e].keys # t
        /\ \/ f[k].offset \in 0..(f[t].offset - 1)
           \/ FoundIn(ix, data, t).plays = f[t].plays
    BY <1>3, <1>6
  <2>2. After(W, m, "index", Entries, ix, cur) /\ After(W, m, "data", Addresses, data, new)
    OBVIOUS
  <2> HIDE DEF ix, data, e
  <2>3. FoundIn(cur, new, t).plays = FoundIn(ix, data, t).plays
    BY <1>6, <2>1, <2>2, CommitKept
  <2> QED BY <2>1, <2>3
<1>7. CASE s.recording # NotRecording /\ AbortShape(W, ix, e)
  <2>1. /\ DataOK(ix, e, data, s.end) /\ e \in Entries /\ ix[e].keys # t
        /\ \/ f[k].offset \in 0..(f[t].offset - 1)
           \/ FoundIn(ix, data, t).plays = f[t].plays
    BY <1>3, <1>7
  <2>2. After(W, m, "index", Entries, ix, cur) /\ After(W, m, "data", Addresses, data, new)
    OBVIOUS
  <2> HIDE DEF ix, data, e
  <2>3. FoundIn(cur, new, t).plays = FoundIn(ix, data, t).plays
    BY <1>7, <2>1, <2>2, AbortKept
  <2> QED BY <2>1, <2>3
<1> QED
  BY <1>4, <1>5, <1>6, <1>7 DEF OneShape

\* The entry a started recording is for has its key.
LEMMA StartedKey ==
    ASSUME NEW s, Sound(s), NEW k, NEW r, StartMakes(s, k, r)
    PROVE  r.index[r.recording.index_entry].keys = k /\ k \in Triggers
<1>1. /\ DataOK(s.index, NULL, s.data, s.end) /\ IndexOK(s.index) /\ k \in Triggers
      /\ s.recording = NotRecording
  BY SoundIdle DEF StartMakes, DataOK
<1>2. CASE macro_idx_lookup(s.index, k) # NULL /\ r = AgainAfter(s, k)
  <2> DEFINE e == macro_idx_lookup(s.index, k)
             left == LeftOf(s, k)
             new == EntryAt(left.index, e, left.end)
  <2>1. e \in Entries /\ s.index[e].keys = k /\ k # NO_TRIGGER
    BY <1>1, <1>2, FoundEntry
  <2>2. r.index = new /\ r.recording.index_entry = e
    BY <1>2 DEF AgainAfter, Started
  <2>3. left = delete_macro_data(s.index, s.end, s.data, e)
    BY DEF LeftOf
  <2>4. new = EntryAt(left.index, e, left.end)
    OBVIOUS
  <2> HIDE DEF e, left, new
  <2>5. new[e] = [keys |-> s.index[e].keys, type |-> "MACRO", data |-> left.end]
    BY <1>1, <2>1, <2>3, <2>4, AgainOK
  <2> QED BY <1>1, <2>1, <2>2, <2>5
<1>3. CASE macro_idx_lookup(s.index, k) = NULL /\ ~IndexFull(s.index) /\ r = NewAfter(s, k)
  <2> DEFINE p == CreatePosition(s.index, k)
             cr == macro_idx_create(s.index, k)
  <2>1. \A i \in Entries : s.index[i].keys # k
    <3>1. Rising(s.index) /\ k \in Keys
      BY <1>1, SortedRises DEF Keys
    <3> QED BY <1>3, <3>1, LookupFinds
  <2>2. p \in Entries /\ p \in Nat
    <3>1. p \in Entries
      BY <1>1, <1>3, <2>1, PositionIs
    <3> HIDE DEF p
    <3> QED BY <3>1, Sizes
  <2>3. r.index = EntryAt(cr, p, s.end) /\ r.recording.index_entry = p
    BY <1>3 DEF NewAfter, Started
  <2>4. cr[p] = [s.index[p] EXCEPT !.keys = k] /\ p \in DOMAIN cr
    BY <2>2 DEF macro_idx_create
  <2>5. s.index[p] \in EntrySet
    BY <1>1, <2>2, EntryType
  <2> HIDE DEF p, cr
  <2>6. cr[p].keys = k
    BY <2>4, <2>5 DEF EntrySet
  <2> QED BY <1>1, <2>3, <2>4, <2>6 DEF EntryAt
<1> QED
  BY <1>2, <1>3 DEF StartMakes


\* The call in progress has made m of its writes W.
Stage(W, m) ==
    /\ Len(W) \in Nat /\ writes = Rest(W, m) /\ OneShape(W, shown, key)
    /\ After(W, m, "index", Entries, shown.index, macro_index)
    /\ After(W, m, "data", Addresses, shown.data, macros)

KeepInv ==
    /\ power \/ ~Between \/ recording_state # NotRecording
    /\ ~disturbed /\ Between /\ recording_state # NotRecording =>
          key \in Triggers /\ KnownBy(former, key, storage)
    /\ ~disturbed /\ ~Between =>
          /\ key \in Triggers /\ KnownBy(former, key, shown)
          /\ \E W : \E m \in 0..Len(W) : Stage(W, m)

\* A write.
LEMMA KeepWrite ==
    ASSUME MacroInv, KeepInv, DoWrite, ~disturbed
    PROVE  KeepInv'
<1>1. /\ writes # <<>> /\ ~Between /\ writes' = Tail(writes) /\ power' = power /\ power
      /\ macro_index' = Written(macro_index, "index", Head(writes))
      /\ macros' = Written(macros, "data", Head(writes))
      /\ Len(writes) = 1 /\ outcome # NotRecording => key' = key /\ former' = former
      /\ Len(writes) = 1 => recording_state' = outcome
      /\ Len(writes) # 1 => key' = key /\ former' = former /\ shown' = shown
  BY DEF DoWrite, Between, Written
<1>2. key \in Triggers /\ KnownBy(former, key, shown) /\ \E W : \E m \in 0..Len(W) : Stage(W, m)
  BY <1>1 DEF KeepInv
<1>3. PICK W : \E m \in 0..Len(W) : Stage(W, m)
  BY <1>2
<1>4. PICK m \in 0..Len(W) : Stage(W, m)
  BY <1>3
<1>5. /\ Len(W) \in Nat /\ writes = Rest(W, m) /\ OneShape(W, shown, key) /\ m \in Nat
      /\ After(W, m, "index", Entries, shown.index, macro_index)
      /\ After(W, m, "data", Addresses, shown.data, macros)
  BY <1>4 DEF Stage
<1>6. m + 1 \in 0..Len(W) /\ Head(writes) = W[m + 1] /\ Tail(writes) = Rest(W, m + 1)
  BY <1>1, <1>5, RestNext
<1>7. IsArray(macro_index, Entries) /\ IsArray(macros, Addresses)
  BY DEF MacroInv, WritesInv
<1>8. After(W, m + 1, "index", Entries, shown.index, macro_index')
  BY <1>1, <1>5, <1>6, <1>7, AfterNext
<1>9. After(W, m + 1, "data", Addresses, shown.data, macros')
  BY <1>1, <1>5, <1>6, <1>7, AfterNext
<1>10. Sound(shown)
  BY <1>1 DEF MacroInv, DuringInv, Fit
<1>11. KeptBy(former, key, macro_index', macros')
  BY <1>2, <1>5, <1>6, <1>8, <1>9, <1>10, StageKept
<1>12. /\ Between' <=> Len(writes) = 1
       /\ Between' => \E r : Makes(r) /\ recording_state' = r.recording /\ macro_index' = r.index
  BY InvWrite
<1>13. CASE Len(writes) = 1
  <2>1. Between' /\ recording_state' = outcome
    BY <1>1, <1>12, <1>13
  <2>2. ASSUME recording_state' # NotRecording
        PROVE  key' \in Triggers /\ KnownBy(former', key', storage')
    <3>1. key' = key /\ former' = former
      BY <1>1, <1>13, <2>1, <2>2
    <3>2. PICK r : Makes(r) /\ recording_state' = r.recording /\ macro_index' = r.index
      BY <1>12, <2>1
    <3>3. StartMakes(shown, key, r)
      BY <2>2, <3>2 DEF Makes, EndMakes, CommitAfter, AbortAfter
    <3>4. macro_index'[recording_state'.index_entry].keys = key
      BY <1>10, <3>2, <3>3, StartedKey
    <3>5. /\ storage'.index = macro_index' /\ storage'.data = macros'
          /\ storage'.recording = recording_state'
      BY DEF storage
    <3>6. KnownBy(former, key, storage')
      BY <1>11, <2>2, <3>4, <3>5 DEF KnownBy
    <3> QED BY <1>2, <3>1, <3>6
  <2> QED BY <1>1, <2>1, <2>2 DEF KeepInv
<1>14. CASE Len(writes) # 1
  <2>1. ~Between' /\ key' = key /\ former' = former /\ shown' = shown
    BY <1>1, <1>12, <1>14
  <2>2. (Stage(W, m + 1))'
    BY <1>1, <1>5, <1>6, <1>8, <1>9, <2>1 DEF Stage
  <2> DEFINE n == m + 1
  <2>3. n \in 0..Len(W) /\ (Stage(W, n))'
    BY <1>6, <2>2
  <2> HIDE DEF n
  <2>4. \E V : \E i \in 0..Len(V) : (Stage(V, i))'
    BY <2>3
  <2> QED BY <1>1, <1>2, <2>1, <2>4 DEF KeepInv
<1> QED
  BY <1>13, <1>14

\* A call begins.
LEMMA KeepBegun ==
    ASSUME NEW list, NEW after, Begin(list, after), IsList(list), list # <<>>,
           key' \in Triggers, KnownBy(former', key', storage), OneShape(list, storage, key')
    PROVE  KeepInv'
<1>1. /\ power' /\ writes' = list /\ shown' = storage
      /\ macro_index' = macro_index /\ macros' = macros
  BY DEF Begin, vars
<1>2. ~Between'
  BY <1>1 DEF Between
<1>3. /\ Rest(list, 0) = list /\ Len(list) \in Nat
      /\ After(list, 0, "index", Entries, storage.index, macro_index)
      /\ After(list, 0, "data", Addresses, storage.data, macros)
  BY RestAll DEF storage
<1>4. (Stage(list, 0))'
  BY <1>1, <1>3 DEF Stage
<1>5. 0 \in 0..Len(list)
  BY <1>3
<1>6. \E V : \E i \in 0..Len(V) : (Stage(V, i))'
  BY <1>4, <1>5
<1> QED
  BY <1>1, <1>2, <1>6 DEF KeepInv

\* macros_start_macro begins.
LEMMA KeepStart ==
    ASSUME MacroInv, NEW k \in Triggers, BeginStart(k)
    PROVE  KeepInv'
<1> DEFINE e == macro_idx_lookup(macro_index, k)
           p == CreatePosition(macro_index, k)
<1>1. Between /\ ~disturbed /\ Idle /\ key' = k /\ former' = [t \in Triggers |-> Found(t)]
  BY DEF BeginStart, BeginRecord, Begin
<1>2. Sound(storage) /\ storage.recording = NotRecording
  BY <1>1 DEF MacroInv, BetweenInv, Fit, Idle, storage
<1>3. DataOK(macro_index, NULL, macros, macros_end_offset) /\ IndexOK(macro_index)
  BY <1>2, SoundIdle DEF storage, DataOK
<1>4. KnownBy(former', key', storage)
  <2>1. former' = [t \in Triggers |-> FoundIn(macro_index, macros, t)]
    BY <1>1, FoundNow
  <2> QED BY <1>2, <2>1 DEF KnownBy, storage
<1>5. CASE e # NULL
  <2> DEFINE after == [macro |-> Left(e).end, cursor |-> EventsAt(Left(e).end), index_entry |-> e]
  <2>1. Begin(AgainWrites(e), after)
    BY <1>5 DEF BeginStart, BeginRecord
  <2>2. e \in Entries /\ macro_index[e].keys # NO_TRIGGER
    BY <1>3, <1>5, FoundEntry
  <2>3. IsList(AgainWrites(e)) /\ AgainWrites(e) # <<>>
    <3> DEFINE left == Left(e)
    <3>1. left = Left(e)
      OBVIOUS
    <3> HIDE DEF left, e
    <3> QED BY <1>3, <2>2, <3>1, AgainLeads
  <2>4. AgainShape(AgainWrites(e), macro_index, e)
    <3> HIDE DEF e
    <3> QED BY <1>3, <2>2, AgainShaped
  <2>5. OneShape(AgainWrites(e), storage, k)
    BY <1>2, <1>5, <2>4 DEF OneShape, storage
  <2> HIDE DEF after, e
  <2> QED BY <1>1, <1>4, <2>1, <2>3, <2>5, KeepBegun
<1>6. CASE e = NULL
  <2> DEFINE after == [macro |-> macros_end_offset, cursor |-> EventsAt(macros_end_offset),
                       index_entry |-> p]
  <2>1. Begin(NewWrites(k), after) /\ ~IndexFull(macro_index)
    BY <1>6 DEF BeginStart, BeginRecord
  <2>2. p \in Entries
    <3>1. Rising(macro_index) /\ k \in Keys
      BY <1>3, SortedRises DEF Keys
    <3>2. \A i \in Entries : macro_index[i].keys # k
      BY <1>6, <3>1, LookupFinds
    <3> QED BY <1>3, <2>1, <3>2, PositionIs
  <2>3. IsList(NewWrites(k)) /\ NewWrites(k) # <<>>
    BY <1>3, <2>2, NewLeads
  <2>4. NewShape(NewWrites(k), macro_index, p, k)
    <3>1. macro_index[p] \in EntrySet
      BY <1>3, <2>2, EntryType
    <3> QED BY <2>2, <3>1, NewShaped
  <2>5. OneShape(NewWrites(k), storage, k)
    BY <1>2, <1>6, <2>1, <2>4 DEF OneShape, storage
  <2> HIDE DEF after
  <2> QED BY <1>1, <1>4, <2>1, <2>3, <2>5, KeepBegun
<1> QED
  BY <1>5, <1>6

\* macros_commit_macro or macros_abort_macro begins.
LEMMA KeepEnd ==
    ASSUME MacroInv, KeepInv, BeginEnd, ~disturbed
    PROVE  KeepInv'
<1> DEFINE e == recording_state.index_entry
<1>1. Between /\ recording_state # NotRecording /\ key' = key /\ former' = former
  BY DEF BeginEnd, Begin
<1>2. StorageOK(macro_index, macros_end_offset, macros, recording_state)
  BY <1>1 DEF MacroInv, BetweenInv, Fit, Sound, storage
<1>3. key' \in Triggers /\ KnownBy(former', key', storage)
  BY <1>1 DEF KeepInv
<1>4. e \in Entries /\ recording_state.macro = macros_end_offset
  BY <1>1, <1>2 DEF StorageOK, RecordingOK
<1>5. storage.recording # NotRecording
  BY <1>1 DEF storage
<1>6. CASE Recorded # 0 /\ Begin(CommitWrites, NotRecording)
  <2>1. IsList(CommitWrites) /\ CommitWrites # <<>>
    <3>1. CommitWrites = [i \in 1..2 |-> CommitWrites[i]] /\ CommitWrites # <<>>
      BY DEF CommitWrites
    <3> QED BY <3>1 DEF IsList
  <2>2. OneShape(CommitWrites, storage, key')
    BY <1>4, <1>5, CommitShaped DEF OneShape, storage
  <2> QED BY <1>3, <1>6, <2>1, <2>2, KeepBegun
<1>7. CASE Begin(RemoveWrites(e), NotRecording)
  <2>1. IsList(RemoveWrites(e)) /\ RemoveWrites(e) # <<>>
    BY <1>4, RemoveLeads
  <2>2. OneShape(RemoveWrites(e), storage, key')
    BY <1>4, <1>5, AbortShaped DEF OneShape, storage
  <2> HIDE DEF e
  <2> QED BY <1>3, <1>7, <2>1, <2>2, KeepBegun
<1> QED
  BY <1>6, <1>7 DEF BeginEnd


\* macros_append writes behind the committed macros.
LEMMA KeepAppend ==
    ASSUME MacroInv, KeepInv, NEW event, Append1(event), ~disturbed
    PROVE  KeepInv'
<1> DEFINE e == recording_state.index_entry
           c == recording_state.cursor
           end == macros_end_offset
<1>1. /\ Between /\ Between' /\ power' /\ recording_state # NotRecording /\ c \in Addresses
      /\ key' = key /\ former' = former /\ macro_index' = macro_index
      /\ macros' = [macros EXCEPT ![c] = event]
      /\ recording_state' = [recording_state EXCEPT !.cursor = @ + 1]
  BY DEF Append1, macros_append, Between
<1>2. StorageOK(macro_index, end, macros, recording_state)
  BY <1>1 DEF MacroInv, BetweenInv, Fit, Sound, storage
<1>3. DataOK(macro_index, e, macros, end) /\ IndexOK(macro_index)
  BY <1>2 DEF StorageOK, DataOK
<1>4. /\ recording_state \in [macro : Nat, cursor : Nat, index_entry : Entries]
      /\ recording_state.macro = end /\ EventsAt(end) <= c
  BY <1>1, <1>2 DEF StorageOK, RecordingOK
<1>5. recording_state'.index_entry = e
  BY <1>1, <1>4
<1>6. key \in Triggers /\ KnownBy(former, key, storage)
  BY <1>1 DEF KeepInv
<1>7. macro_index[e].keys = key /\ KeptBy(former, key, macro_index, macros)
  BY <1>1, <1>6 DEF KnownBy, storage
<1>8. end \in Nat /\ c \in Nat /\ end < c /\ e \in Entries
  <2>1. end \in Nat /\ c \in Nat /\ e \in Entries
    BY <1>4
  <2>2. end < EventsAt(end) /\ EventsAt(end) \in Nat
    BY <2>1, Sizes DEF EventsAt
  <2> HIDE DEF end, c
  <2> QED BY <1>4, <2>1, <2>2
<1>9. ASSUME NEW t \in Triggers, t # key
      PROVE  FoundIn(macro_index, macros', t).plays = FoundIn(macro_index, macros, t).plays
  <2>1. Below(macro_index, macros, t, end)
    BY <1>3, <1>7, <1>9, BelowEnd
  <2>2. Rising(macro_index) /\ Same(macro_index, macro_index, t)
    BY <1>3, SortedRises, SameItself
  <2>3. ASSUME NEW a \in 0..(end - 1) PROVE macros'[a] = macros[a]
    <3>1. a # c
      <4> HIDE DEF c
      <4> QED BY <1>8
    <3>2. a \in Addresses
      <4>1. end <= STORAGE_SIZE /\ STORAGE_SIZE \in Nat
        BY <1>3, <1>8, Sizes DEF DataOK
      <4> HIDE DEF end
      <4> QED BY <1>8, <4>1 DEF Addresses
    <3>3. IsArray(macros, Addresses)
      BY DEF MacroInv, WritesInv
    <3> HIDE DEF c
    <3> QED BY <1>1, <3>1, <3>2, <3>3 DEF IsArray
  <2> QED BY <1>3, <1>8, <2>1, <2>2, <2>3, KeptFound
<1>10. KeptBy(former, key, macro_index, macros')
  BY <1>7, <1>9 DEF KeptBy
<1>11. recording_state' # NotRecording
  <2>1. recording_state'.macro = end
    BY <1>1, <1>4
  <2> QED BY <1>8, <2>1 DEF NotRecording, NULL
<1>12. KnownBy(former', key', storage')
  <2>1. /\ storage'.index = macro_index /\ storage'.data = macros'
        /\ storage'.recording = recording_state'
    BY <1>1 DEF storage
  <2>2. storage'.recording.index_entry = e
    BY <1>5, <2>1
  <2> QED BY <1>1, <1>7, <1>10, <1>11, <2>1, <2>2 DEF KnownBy
<1> QED
  BY <1>1, <1>6, <1>12 DEF KeepInv

\* Every step keeps what the triggers find.
LEMMA KeepStep == MacroInv /\ KeepInv /\ [StepNext]_stepVars => KeepInv'
<1> SUFFICES ASSUME MacroInv, KeepInv, [StepNext]_stepVars PROVE KeepInv'
  OBVIOUS
<1>0. ASSUME disturbed', power' \/ ~Between' \/ (recording_state # NotRecording)' PROVE KeepInv'
  BY <1>0 DEF KeepInv
<1>1. CASE DoWrite
  <2>1. CASE disturbed
    BY <1>0, <1>1, <2>1 DEF DoWrite
  <2> QED BY <1>1, <2>1, KeepWrite
<1>2. CASE PowerLoss \/ UNCHANGED stepVars
  <2>1. /\ macro_index' = macro_index /\ macros' = macros /\ recording_state' = recording_state
        /\ macros_end_offset' = macros_end_offset /\ writes' = writes /\ key' = key
        /\ former' = former /\ shown' = shown /\ disturbed' = disturbed
        /\ power' = power \/ ~Between \/ recording_state # NotRecording
    BY <1>2 DEF PowerLoss, stepVars, vars
  <2>2. storage' = storage /\ (Between' <=> Between)
    BY <2>1 DEF storage, Between
  <2>3. ASSUME NEW W, NEW m, Stage(W, m) PROVE (Stage(W, m))'
    BY <2>1, <2>3 DEF Stage
  <2>4. (\E W : \E m \in 0..Len(W) : Stage(W, m)) => \E W : \E m \in 0..Len(W) : (Stage(W, m))'
    BY <2>3
  <2> QED BY <2>1, <2>2, <2>4 DEF KeepInv
<1>3. CASE BeginEnd
  <2>1. CASE disturbed
    BY <1>0, <1>3, <2>1 DEF BeginEnd, Begin, vars
  <2> QED BY <1>3, <2>1, KeepEnd
<1>4. CASE \E k \in Triggers : BeginStart(k)
  BY <1>4, KeepStart
<1>5. CASE \E event \in Events : Append1(event)
  <2>1. CASE disturbed
    BY <1>0, <1>5, <2>1 DEF Append1, macros_append
  <2> QED BY <1>5, <2>1, KeepAppend
<1>6. CASE Reset \/ \E k \in ProgramTriggers : ClientWrites(k)
  <2>1. /\ Between' /\ power' /\ recording_state' = recording_state
        /\ recording_state # NotRecording => disturbed'
    <3>1. CASE Reset
      BY <3>1 DEF Reset, reset_defaults, Between
    <3>2. ASSUME NEW k \in ProgramTriggers, ClientWrites(k)
          PROVE  /\ Between' /\ power' /\ recording_state' = recording_state
                 /\ recording_state # NotRecording => disturbed'
      <4>1. ClientAddsProgram(k) /\ Between' /\ power'
        BY <3>2 DEF ClientWrites, Between
      <4>2. /\ recording_state' = recording_state
            /\ disturbed' = (disturbed \/ recording_state # NotRecording)
        BY <4>1 DEF ClientAddsProgram
      <4> QED BY <4>1, <4>2
    <3> QED BY <1>6, <3>1, <3>2
  <2> QED BY <2>1 DEF KeepInv
<1>7. CASE Play
  <2>1. /\ macro_index' = macro_index /\ macros' = macros /\ recording_state' = recording_state
        /\ macros_end_offset' = macros_end_offset /\ key' = key /\ former' = former
        /\ Between /\ Between' /\ power' /\ disturbed' = disturbed
    BY <1>7 DEF Play, macros_fill_next_report, macros_start_playback, Between
  <2>2. storage' = storage
    BY <2>1 DEF storage
  <2> QED BY <2>1, <2>2 DEF KeepInv
<1> QED
  BY <1>1, <1>2, <1>3, <1>4, <1>5, <1>6, <1>7 DEF StepNext

\* macros_start_macro, macro_idx_create, macro_idx_remove, macros_commit_macro:
\* for any sizes, keys and sequence of calls, and wherever power is lost while a
\* macro is recorded, the bisection still finds the macro or the program of every
\* other trigger, although the entries are being moved under it; only macros
\* stored behind a replaced one are not safe, and none is when the host changed the
\* storage under the recording.
THEOREM OtherMacrosSurvive == StepSpec => []KeepsOtherMacros
<1>1. MacroInv /\ KeepInv => KeepsOtherMacros
  <2> SUFFICES ASSUME MacroInv, KeepInv, ~power, ~disturbed
               PROVE  KeptBy(former, key, macro_index, macros)
    BY FoundNow DEF KeepsOtherMacros, KeptBy
  <2>1. CASE Between
    <3>1. recording_state # NotRecording
      BY <2>1 DEF KeepInv
    <3> QED BY <2>1, <3>1 DEF KeepInv, KnownBy, storage
  <2>2. CASE ~Between
    <3>1. key \in Triggers /\ KnownBy(former, key, shown) /\ \E W : \E m \in 0..Len(W) : Stage(W, m)
      BY <2>2 DEF KeepInv
    <3>2. PICK W : \E m \in 0..Len(W) : Stage(W, m)
      BY <3>1
    <3>3. PICK m \in 0..Len(W) : Stage(W, m)
      BY <3>2
    <3>4. Sound(shown)
      BY <2>2 DEF MacroInv, DuringInv, Fit
    <3> QED BY <3>1, <3>3, <3>4, StageKept DEF Stage
  <2> QED BY <2>1, <2>2
<1>2. StepInit => MacroInv /\ KeepInv
  <2> SUFFICES ASSUME StepInit PROVE MacroInv /\ KeepInv
    OBVIOUS
  <2>1. power /\ Between /\ recording_state = NotRecording
    BY DEF StepInit, Init, Between
  <2> QED BY <2>1, InvInit DEF KeepInv
<1>3. MacroInv /\ KeepInv /\ [StepNext]_stepVars => (MacroInv /\ KeepInv)'
  BY InvStep, KeepStep
<1> QED
  BY <1>1, <1>2, <1>3, PTL DEF StepSpec

(***************************************************************************)
(* What is stored, as a map: the steps of MacroStore.                      *)
(***************************************************************************)
\* n bytes of the data.
BytesIn(data, from, n) == [k \in 1..n |-> data[from + k - 1]]

\* What an entry starts.
ValueOf(en, data) ==
    IF en.type = "MACRO"
    THEN [type |-> "MACRO", events |-> BytesIn(data, EventsAt(en.data), data[en.data])]
    ELSE [type |-> "PROGRAM"]

\* The used entries but the one being recorded.
Used(ix, e) == {i \in Entries : ix[i].keys # NO_TRIGGER /\ i # e}

\* The map, the recording and the playback that a storage stands for.
MapIn(ix, data, e) ==
    [k \in {ix[i].keys : i \in Used(ix, e)} |->
        ValueOf(ix[CHOOSE i \in Used(ix, e) : ix[i].keys = k], data)]

MapOf(s) == MapIn(s.index, s.data, s.recording.index_entry)

RecordingOf(s) ==
    IF s.recording = NotRecording THEN <<>>
    ELSE <<s.index[s.recording.index_entry].keys,
           BytesIn(s.data, EventsAt(s.recording.macro), RecordedIn(s))>>

PlayingOf(s, play) == BytesIn(s.data, play.cursor, play.remaining)

\* They are the ones that ImplementsStoreBetween maps the storage to.
LEMMA WholeMaps ==
    /\ Whole!Stored = MapOf(Visible) /\ Whole!Stored' = MapOf(Visible')
    /\ Whole!RecordingNow = RecordingOf(Visible) /\ Whole!RecordingNow' = RecordingOf(Visible')
    /\ \A c, n : Whole!Bytes(c, n) = BytesIn(Visible.data, c, n)
    /\ \A c, n : Whole!Bytes(c, n)' = BytesIn(Visible'.data, c, n)
<1>1. \A c, n : Whole!Bytes(c, n) = BytesIn(Visible.data, c, n)
  BY DEF Whole!Bytes, BytesIn
<1>2. \A c, n : Whole!Bytes(c, n)' = BytesIn(Visible'.data, c, n)
  BY ZenonT(30) DEF Whole!Bytes, BytesIn
<1>3. Whole!Stored = MapOf(Visible)
  BY <1>1, WholeConstants, ZenonT(30) DEF Whole!Stored, Whole!StoredEntries, MapOf, MapIn, Used, ValueOf
<1>4. Whole!Stored' = MapOf(Visible')
  BY <1>2, WholeConstants, ZenonT(30) DEF Whole!Stored, Whole!StoredEntries, MapOf, MapIn, Used, ValueOf
<1>5. Whole!RecordingNow = RecordingOf(Visible)
  BY <1>1, WholeConstants DEF Whole!RecordingNow, Whole!Recorded, RecordingOf, RecordedIn
<1>6. Whole!RecordingNow' = RecordingOf(Visible')
  BY <1>2, WholeConstants DEF Whole!RecordingNow, Whole!Recorded, RecordingOf, RecordedIn
<1> QED
  BY <1>1, <1>2, <1>3, <1>4, <1>5, <1>6

\* A map without a trigger, and with one more.
Without(M, k) == [j \in DOMAIN M \ {k} |-> M[j]]

With(M, k, v) == [j \in DOMAIN M \cup {k} |-> IF j = k THEN v ELSE M[j]]

\* A used entry is the only one of its trigger.
LEMMA UsedOnce ==
    ASSUME NEW ix, IndexOK(ix), NEW i \in Entries, NEW j \in Entries, ix[i].keys = ix[j].keys,
           ix[i].keys # NO_TRIGGER
    PROVE  i = j /\ ix[i].keys \in Triggers
<1>1. ix[i].keys \in Triggers
  BY EntryType DEF Keys
<1> QED
  BY <1>1, OneEntry

\* M has the used triggers and what they start.
IsMap(M, ix, data, e) ==
    /\ M = [k \in DOMAIN M |-> M[k]]
    /\ \A i \in Used(ix, e) : ix[i].keys \in DOMAIN M /\ M[ix[i].keys] = ValueOf(ix[i], data)
    /\ \A k \in DOMAIN M : \E i \in Used(ix, e) : ix[i].keys = k

\* The map of a storage does, and it is the only one.
LEMMA MapAt ==
    ASSUME NEW ix, IndexOK(ix), NEW data, NEW e
    PROVE  IsMap(MapIn(ix, data, e), ix, data, e)
<1> DEFINE M == MapIn(ix, data, e)
<1>1. M = [k \in DOMAIN M |-> M[k]] /\ DOMAIN M = {ix[i].keys : i \in Used(ix, e)}
  BY DEF MapIn
<1>2. ASSUME NEW i \in Used(ix, e)
      PROVE  ix[i].keys \in DOMAIN M /\ M[ix[i].keys] = ValueOf(ix[i], data)
  <2> DEFINE j == CHOOSE j \in Used(ix, e) : ix[j].keys = ix[i].keys
  <2>1. j \in Used(ix, e) /\ ix[j].keys = ix[i].keys
    OBVIOUS
  <2>2. ix[i].keys \in {ix[h].keys : h \in Used(ix, e)}
    OBVIOUS
  <2>3. M[ix[i].keys] = ValueOf(ix[j], data)
    BY <2>2 DEF MapIn
  <2> HIDE DEF j, M
  <2>4. j = i
    BY <1>2, <2>1, UsedOnce DEF Used
  <2> QED BY <1>1, <2>2, <2>3, <2>4
<1> HIDE DEF M
<1>3. \A k \in DOMAIN M : \E i \in Used(ix, e) : ix[i].keys = k
  BY <1>1
<1>4. IsMap(M, ix, data, e)
  BY <1>1, <1>2, <1>3 DEF IsMap
<1> QED
  BY <1>4 DEF M

\* So two maps with the same entries are equal.
LEMMA MapIs ==
    ASSUME NEW ix, IndexOK(ix), NEW data, NEW e, NEW f, IsMap(f, ix, data, e)
    PROVE  MapIn(ix, data, e) = f
<1> DEFINE M == MapIn(ix, data, e)
<1>1. IsMap(M, ix, data, e)
  BY MapAt
<1> HIDE DEF M
<1>2. ASSUME NEW k \in DOMAIN f PROVE k \in DOMAIN M /\ M[k] = f[k]
  BY <1>1, <1>2 DEF IsMap
<1>3. ASSUME NEW k \in DOMAIN M PROVE k \in DOMAIN f
  BY <1>1, <1>3 DEF IsMap
<1>4. DOMAIN M = DOMAIN f
  BY <1>2, <1>3
<1>5. M = [k \in DOMAIN M |-> M[k]] /\ f = [k \in DOMAIN f |-> f[k]]
  BY <1>1 DEF IsMap
<1>6. M = f
  BY <1>2, <1>4, <1>5
<1> QED
  BY <1>6 DEF M

\* Entries that stay, in whatever place, make the same map but for one trigger.
LEMMA MapKept ==
    ASSUME NEW ix, IndexOK(ix), NEW data, NEW e, NEW new, IndexOK(new), NEW data2, NEW f, NEW drop,
           \A i \in Used(ix, e) : ix[i].keys # drop =>
              \E j \in Used(new, f) : /\ new[j].keys = ix[i].keys
                                      /\ ValueOf(new[j], data2) = ValueOf(ix[i], data),
           \A j \in Used(new, f) : /\ new[j].keys # drop
                                   /\ \E i \in Used(ix, e) : ix[i].keys = new[j].keys
    PROVE  MapIn(new, data2, f) = Without(MapIn(ix, data, e), drop)
<1> DEFINE M == MapIn(ix, data, e)
           g == Without(M, drop)
<1>1. IsMap(M, ix, data, e)
  BY MapAt
<1>2. DOMAIN g = DOMAIN M \ {drop} /\ g = [k \in DOMAIN g |-> g[k]]
      /\ \A k \in DOMAIN g : g[k] = M[k]
  BY DEF Without
<1> HIDE DEF M, g
<1>3. ASSUME NEW j \in Used(new, f)
      PROVE  new[j].keys \in DOMAIN g /\ g[new[j].keys] = ValueOf(new[j], data2)
  <2>1. PICK i \in Used(ix, e) : ix[i].keys = new[j].keys
    BY <1>3
  <2>2. new[j].keys # drop
    BY <1>3
  <2>3. PICK h \in Used(new, f) : /\ new[h].keys = ix[i].keys
                                  /\ ValueOf(new[h], data2) = ValueOf(ix[i], data)
    BY <2>1, <2>2
  <2>4. h = j
    BY <1>3, <2>1, <2>3, UsedOnce DEF Used
  <2>5. ix[i].keys \in DOMAIN M /\ M[ix[i].keys] = ValueOf(ix[i], data)
    BY <1>1 DEF IsMap
  <2>6. ix[i].keys \in DOMAIN g
    BY <1>2, <2>1, <2>2, <2>5
  <2>7. g[ix[i].keys] = ValueOf(ix[i], data)
    BY <1>2, <2>5, <2>6
  <2> QED BY <2>1, <2>3, <2>4, <2>6, <2>7
<1>4. ASSUME NEW k \in DOMAIN g PROVE \E j \in Used(new, f) : new[j].keys = k
  <2>1. k \in DOMAIN M /\ k # drop
    BY <1>2
  <2>2. PICK i \in Used(ix, e) : ix[i].keys = k
    BY <1>1, <2>1 DEF IsMap
  <2> QED BY <2>1, <2>2
<1>5. IsMap(g, new, data2, f)
  BY <1>2, <1>3, <1>4 DEF IsMap
<1>6. MapIn(new, data2, f) = g
  BY <1>5, MapIs
<1> QED
  BY <1>6 DEF g, M

\* The entry that was being recorded joins the map.
LEMMA MapMore ==
    ASSUME NEW ix, IndexOK(ix), NEW data, NEW data2, NEW e \in Entries, ix[e].keys # NO_TRIGGER,
           \A i \in Used(ix, e) : ValueOf(ix[i], data2) = ValueOf(ix[i], data)
    PROVE  MapIn(ix, data2, NULL) = With(MapIn(ix, data, e), ix[e].keys, ValueOf(ix[e], data2))
<1> DEFINE M == MapIn(ix, data, e)
           k == ix[e].keys
           v == ValueOf(ix[e], data2)
           g == With(M, k, v)
<1>1. IsMap(M, ix, data, e)
  BY MapAt
<1>2. DOMAIN g = DOMAIN M \cup {k} /\ g = [j \in DOMAIN g |-> g[j]] /\ g[k] = v
      /\ \A j \in DOMAIN M : j # k => g[j] = M[j]
  BY DEF With
<1>3. Used(ix, NULL) = Used(ix, e) \cup {e}
  <2>1. NULL \notin Entries
    BY DEF NULL, Entries
  <2> QED BY <2>1 DEF Used
<1> HIDE DEF M, g, v
<1>4. ASSUME NEW i \in Used(ix, NULL)
      PROVE  ix[i].keys \in DOMAIN g /\ g[ix[i].keys] = ValueOf(ix[i], data2)
  <2>1. CASE i = e
    BY <1>2, <2>1 DEF v
  <2>2. CASE i # e
    <3>1. i \in Used(ix, e)
      BY <1>3, <2>2
    <3>2. ix[i].keys # k
      BY <2>2, <3>1, UsedOnce DEF Used
    <3>3. ix[i].keys \in DOMAIN M /\ M[ix[i].keys] = ValueOf(ix[i], data2)
      BY <1>1, <3>1 DEF IsMap
    <3> QED BY <1>2, <3>2, <3>3
  <2> QED BY <2>1, <2>2
<1>5. ASSUME NEW j \in DOMAIN g PROVE \E i \in Used(ix, NULL) : ix[i].keys = j
  BY <1>1, <1>2, <1>3 DEF IsMap
<1>6. IsMap(g, ix, data2, NULL)
  BY <1>2, <1>4, <1>5 DEF IsMap
<1>7. MapIn(ix, data2, NULL) = g
  BY <1>6, MapIs
<1> QED
  BY <1>7 DEF g, M, v

\* Without a trigger that it does not have, a map stays the same.
LEMMA WithoutNone ==
    ASSUME NEW ix, NEW data, NEW e, NEW k, k \notin {ix[i].keys : i \in Used(ix, e)}
    PROVE  Without(MapIn(ix, data, e), k) = MapIn(ix, data, e)
  BY DEF Without, MapIn

\* What an entry starts depends on its type and on the bytes of its macro.
LEMMA ValueKept ==
    ASSUME NEW en, NEW en2, NEW data, NEW data2, en2.type = en.type,
           en.type = "MACRO" =>
              /\ en.data \in Nat /\ en2.data \in Nat /\ data[en.data] \in Nat
              /\ \A x \in 0..(Size(data, en.data) - 1) : data2[en2.data + x] = data[en.data + x]
    PROVE  ValueOf(en2, data2) = ValueOf(en, data)
<1>1. CASE en.type # "MACRO"
  BY <1>1 DEF ValueOf
<1>2. CASE en.type = "MACRO"
  <2> DEFINE a == en.data
             b == en2.data
             n == data[a]
             h == MACRO_DATA_HEADER_LEN
  <2>1. a \in Nat /\ b \in Nat /\ n \in Nat /\ h \in Nat \ {0}
        /\ \A x \in 0..(n + h - 1) : data2[b + x] = data[a + x]
    BY <1>2, Sizes DEF Size
  <2>2. /\ ValueOf(en, data) = [type |-> "MACRO", events |-> [k \in 1..n |-> data[a + h + k - 1]]]
        /\ ValueOf(en2, data2) =
              [type |-> "MACRO", events |-> [k \in 1..data2[b] |-> data2[b + h + k - 1]]]
    BY <1>2 DEF ValueOf, BytesIn, EventsAt
  <2> HIDE DEF a, b, n, h
  <2>3. data2[b] = data[a]
    <3>1. 0 \in 0..(n + h - 1) /\ a + 0 = a /\ b + 0 = b
      BY <2>1
    <3> QED BY <2>1, <3>1
  <2>4. ASSUME NEW k \in 1..n PROVE data2[b + h + k - 1] = data[a + h + k - 1]
    <3>1. h + k - 1 \in 0..(n + h - 1) /\ a + (h + k - 1) = a + h + k - 1
          /\ b + (h + k - 1) = b + h + k - 1
      BY <2>1
    <3> QED BY <2>1, <3>1
  <2> QED BY <2>2, <2>3, <2>4 DEF n
<1> QED
  BY <1>1, <1>2

\* A committed macro is a tile.
LEMMA UsedTile ==
    ASSUME NEW ix, NEW e, NEW data, NEW end, DataOK(ix, e, data, end), NEW i \in Used(ix, e),
           ix[i].type = "MACRO"
    PROVE  /\ i \in Done(ix, e) /\ ix[i].data \in Starts(ix, e)
           /\ ix[i].data \in Nat /\ data[ix[i].data] \in Nat /\ Size(data, ix[i].data) \in Nat
           /\ ix[i].data + Size(data, ix[i].data) <= end /\ end \in Nat
<1>1. i \in Done(ix, e)
  BY DEF Used, Done
<1>2. ix[i].data \in Starts(ix, e)
  BY <1>1 DEF Starts
<1>3. Tiles(Starts(ix, e), data, end)
  BY DEF DataOK
<1>4. ix[i].data \in Nat /\ Size(data, ix[i].data) \in Nat /\ end \in Nat
  BY <1>2, <1>3, TileType
<1>5. data[ix[i].data] \in Nat /\ ix[i].data + Size(data, ix[i].data) <= end
  BY <1>2, <1>3 DEF Tiles
<1> QED
  BY <1>1, <1>2, <1>4, <1>5

\* Bytes behind the end offset do not matter to the map.
LEMMA ValuesBelow ==
    ASSUME NEW ix, NEW e, NEW data, NEW end, DataOK(ix, e, data, end), NEW data2,
           \A a \in 0..(end - 1) : data2[a] = data[a], NEW i \in Used(ix, e)
    PROVE  ValueOf(ix[i], data2) = ValueOf(ix[i], data)
<1>1. ASSUME ix[i].type = "MACRO"
      PROVE  /\ ix[i].data \in Nat /\ data[ix[i].data] \in Nat
             /\ \A x \in 0..(Size(data, ix[i].data) - 1) : data2[ix[i].data + x] = data[ix[i].data + x]
  <2> DEFINE d == ix[i].data
             n == Size(data, d)
  <2>1. d \in Nat /\ data[d] \in Nat /\ n \in Nat /\ d + n <= end /\ end \in Nat
    BY <1>1, UsedTile
  <2> HIDE DEF d, n
  <2>2. \A x \in 0..(n - 1) : d + x \in 0..(end - 1)
    BY <2>1
  <2>3. \A x \in 0..(n - 1) : data2[d + x] = data[d + x]
    BY <2>2
  <2> QED BY <2>1, <2>3 DEF d, n
<1> QED
  BY <1>1, ValueKept

\* macros_append: the map stays.
LEMMA MapAppend ==
    ASSUME NEW ix, NEW e, NEW data, NEW end, DataOK(ix, e, data, end), NEW data2,
           \A a \in 0..(end - 1) : data2[a] = data[a]
    PROVE  MapIn(ix, data2, e) = MapIn(ix, data, e)
<1> DEFINE M == MapIn(ix, data, e)
<1>1. IndexOK(ix)
  BY DEF DataOK
<1>2. IsMap(M, ix, data, e)
  BY <1>1, MapAt
<1>3. \A i \in Used(ix, e) : ValueOf(ix[i], data2) = ValueOf(ix[i], data)
  BY ValuesBelow
<1> HIDE DEF M
<1>4. IsMap(M, ix, data2, e)
  BY <1>2, <1>3 DEF IsMap
<1> QED
  BY <1>1, <1>4, MapIs DEF M

\* macros_commit_macro: the recorded macro joins the map.
LEMMA MapCommit ==
    ASSUME NEW ix, NEW e \in Entries, NEW data, NEW end, DataOK(ix, e, data, end), ix[e].keys # NO_TRIGGER,
           NEW data2, \A a \in 0..(end - 1) : data2[a] = data[a]
    PROVE  MapIn(ix, data2, NULL) = With(MapIn(ix, data, e), ix[e].keys, ValueOf(ix[e], data2))
<1>1. IndexOK(ix)
  BY DEF DataOK
<1>2. \A i \in Used(ix, e) : ValueOf(ix[i], data2) = ValueOf(ix[i], data)
  BY ValuesBelow
<1> QED
  BY <1>1, <1>2, MapMore

\* macro_idx_remove: the removed entry was not in the map, the others move.
LEMMA MapRemoved ==
    ASSUME NEW ix, IndexOK(ix), NEW e \in Entries, NEW new, new = macro_idx_remove(ix, e), IndexOK(new),
           NEW data
    PROVE  MapIn(new, data, NULL) = MapIn(ix, data, e)
<1> DEFINE M == MapIn(ix, data, e)
<1>1. /\ \A i \in Entries : i < e => new[i] = ix[i]
      /\ \A i \in Entries : i >= e /\ new[i].keys # NO_TRIGGER => i + 1 \in Entries /\ new[i] = ix[i + 1]
      /\ \A i \in Entries : i > e /\ ix[i].keys # NO_TRIGGER => i - 1 \in Entries /\ new[i - 1] = ix[i]
  BY RemovedAt
<1>2. IsMap(M, ix, data, e)
  BY MapAt
<1>3. e \in Nat /\ (\A i \in Entries : i \in Nat) /\ NULL \notin Entries
  BY Sizes DEF NULL, Entries
<1> HIDE DEF M
<1>4. ASSUME NEW j \in Used(new, NULL) PROVE \E i \in Used(ix, e) : ix[i] = new[j]
  <2>1. j \in Entries /\ new[j].keys # NO_TRIGGER /\ j \in Nat
    BY <1>3 DEF Used
  <2>2. CASE j < e
    <3>1. new[j] = ix[j] /\ j # e
      BY <1>1, <1>3, <2>1, <2>2
    <3> QED BY <2>1, <3>1 DEF Used
  <2>3. CASE j >= e
    <3>1. j + 1 \in Entries /\ new[j] = ix[j + 1]
      BY <1>1, <2>1, <2>3
    <3>2. j + 1 # e
      BY <1>3, <2>1, <2>3
    <3>3. j + 1 \in Used(ix, e)
      BY <2>1, <3>1, <3>2 DEF Used
    <3> QED BY <3>1, <3>3
  <2> QED BY <1>3, <2>1, <2>2, <2>3
<1>5. ASSUME NEW i \in Used(ix, e) PROVE \E j \in Used(new, NULL) : new[j] = ix[i]
  <2>1. i \in Entries /\ ix[i].keys # NO_TRIGGER /\ i # e /\ i \in Nat
    BY <1>3 DEF Used
  <2>2. CASE i < e
    <3>1. new[i] = ix[i] /\ i # NULL
      BY <1>1, <1>3, <2>1, <2>2
    <3> QED BY <2>1, <3>1 DEF Used
  <2>3. CASE i > e
    <3>1. i - 1 \in Entries /\ new[i - 1] = ix[i]
      BY <1>1, <2>1, <2>3
    <3>2. i - 1 \in Used(new, NULL)
      BY <1>3, <2>1, <3>1 DEF Used
    <3> QED BY <3>1, <3>2
  <2> QED BY <1>3, <2>1, <2>2, <2>3
<1>6. IsMap(M, new, data, NULL)
  <2>1. ASSUME NEW j \in Used(new, NULL)
        PROVE  new[j].keys \in DOMAIN M /\ M[new[j].keys] = ValueOf(new[j], data)
    BY <1>2, <1>4 DEF IsMap
  <2>2. ASSUME NEW k \in DOMAIN M PROVE \E j \in Used(new, NULL) : new[j].keys = k
    <3>1. PICK i \in Used(ix, e) : ix[i].keys = k
      BY <1>2 DEF IsMap
    <3> QED BY <1>5, <3>1
  <2> QED BY <1>2, <2>1, <2>2 DEF IsMap
<1> QED
  BY <1>6, MapIs DEF M

\* macro_idx_create: the other entries move, the new one is not in the map yet.
LEMMA MapInserted ==
    ASSUME NEW ix, IndexOK(ix), NEW k \in Triggers, \A i \in Entries : ix[i].keys # k,
           ~IndexFull(ix), NEW en \in EntrySet, en.keys = k, NEW p, p = CreatePosition(ix, k),
           NEW new, new = Inserted(ix, k, en), IndexOK(new), NEW data
    PROVE  MapIn(new, data, p) = MapIn(ix, data, NULL)
<1> DEFINE M == MapIn(ix, data, NULL)
<1>1. /\ p \in Entries
      /\ \A i \in Entries : i < p => new[i] = ix[i]
      /\ \A i \in Entries : i > p => /\ i - 1 \in Entries
                                     /\ new[i].keys # NO_TRIGGER => new[i] = ix[i - 1]
      /\ \A i \in Entries : i >= p /\ ix[i].keys # NO_TRIGGER => i + 1 \in Entries /\ new[i + 1] = ix[i]
  BY InsertedAt
<1>2. IsMap(M, ix, data, NULL)
  BY MapAt
<1>3. p \in Nat /\ (\A i \in Entries : i \in Nat) /\ NULL \notin Entries
  BY <1>1, Sizes DEF NULL, Entries
<1> HIDE DEF M
<1>4. ASSUME NEW j \in Used(new, p) PROVE \E i \in Used(ix, NULL) : ix[i] = new[j]
  <2>1. j \in Entries /\ new[j].keys # NO_TRIGGER /\ j # p /\ j \in Nat
    BY <1>3 DEF Used
  <2>2. CASE j < p
    <3>1. new[j] = ix[j] /\ j # NULL
      BY <1>1, <1>3, <2>1, <2>2
    <3> QED BY <2>1, <3>1 DEF Used
  <2>3. CASE j > p
    <3>1. j - 1 \in Entries /\ new[j] = ix[j - 1]
      BY <1>1, <2>1, <2>3
    <3>2. j - 1 \in Used(ix, NULL)
      BY <1>3, <2>1, <3>1 DEF Used
    <3> QED BY <3>1, <3>2
  <2> QED BY <1>3, <2>1, <2>2, <2>3
<1>5. ASSUME NEW i \in Used(ix, NULL) PROVE \E j \in Used(new, p) : new[j] = ix[i]
  <2>1. i \in Entries /\ ix[i].keys # NO_TRIGGER /\ i \in Nat
    BY <1>3 DEF Used
  <2>2. CASE i < p
    <3>1. new[i] = ix[i] /\ i # p
      BY <1>1, <1>3, <2>1, <2>2
    <3> QED BY <2>1, <3>1 DEF Used
  <2>3. CASE i >= p
    <3>1. i + 1 \in Entries /\ new[i + 1] = ix[i]
      BY <1>1, <2>1, <2>3
    <3>2. i + 1 # p
      BY <1>3, <2>1, <2>3
    <3>3. i + 1 \in Used(new, p)
      BY <2>1, <3>1, <3>2 DEF Used
    <3> QED BY <3>1, <3>3
  <2> QED BY <1>3, <2>1, <2>2, <2>3
<1>6. IsMap(M, new, data, p)
  <2>1. ASSUME NEW j \in Used(new, p)
        PROVE  new[j].keys \in DOMAIN M /\ M[new[j].keys] = ValueOf(new[j], data)
    BY <1>2, <1>4 DEF IsMap
  <2>2. ASSUME NEW t \in DOMAIN M PROVE \E j \in Used(new, p) : new[j].keys = t
    <3>1. PICK i \in Used(ix, NULL) : ix[i].keys = t
      BY <1>2 DEF IsMap
    <3> QED BY <1>5, <3>1
  <2> QED BY <1>2, <2>1, <2>2 DEF IsMap
<1> QED
  BY <1>6, MapIs DEF M

\* delete_macro_data: the other macros are moved and keep their events.
LEMMA MapDeleted ==
    ASSUME NEW ix, NEW data, NEW end, DataOK(ix, NULL, data, end),
           NEW e \in Entries, ix[e].keys # NO_TRIGGER,
           NEW left, left = delete_macro_data(ix, end, data, e),
           NEW new, new = EntryAt(left.index, e, left.end)
    PROVE  MapIn(new, left.data, e) = Without(MapIn(ix, data, NULL), ix[e].keys)
<1>1. IndexOK(ix) /\ IndexOK(new)
  BY AgainOK DEF DataOK
<1>2. e # NULL /\ \A i \in Entries : i # NULL
  BY DEF NULL, Entries
<1>3. \A i \in Entries : i # e => new[i] = left.index[i]
  <2>1. left.index = [i \in Entries |-> left.index[i]]
    <3>1. CASE ix[e].type # "MACRO"
      BY <3>1, DeletedProgram DEF DataOK, IndexOK
    <3>2. CASE ix[e].type = "MACRO"
      <4>1. e \in Done(ix, NULL)
        BY <1>2, <3>2 DEF Done
      <4>2. left.index \in [Entries -> EntrySet]
        BY <4>1, DeletedMacro
      <4> QED BY <4>2
    <3> QED BY <3>1, <3>2
  <2> QED BY <2>1 DEF EntryAt
<1>4. ASSUME NEW i \in Used(ix, NULL), i # e
      PROVE  new[i].keys = ix[i].keys /\ ValueOf(new[i], left.data) = ValueOf(ix[i], data)
  <2>1. i \in Entries /\ new[i] = left.index[i]
    BY <1>3, <1>4 DEF Used
  <2>2. CASE ix[e].type # "MACRO"
    BY <2>1, <2>2, DeletedProgram
  <2>3. CASE ix[e].type = "MACRO"
    <3> DEFINE o == ix[e].data
               l == Size(data, o)
    <3>1. e \in Done(ix, NULL)
      BY <1>2, <2>3 DEF Done
    <3>2. /\ o \in Nat /\ l \in Nat /\ l > 0 /\ o + l <= end
          /\ left.index[i].keys = ix[i].keys /\ left.index[i].type = ix[i].type
          /\ i \in Done(ix, NULL) => left.index[i].data = Lower(ix[i].data, o, l)
          /\ \A a \in 0..(end - l - 1) : left.data[a] = data[IF a < o THEN a ELSE a + l]
      BY <1>4, <2>1, <3>1, DeletedMacro
    <3>3. ASSUME ix[i].type = "MACRO"
          PROVE  /\ ix[i].data \in Nat /\ new[i].data \in Nat /\ data[ix[i].data] \in Nat
                 /\ \A x \in 0..(Size(data, ix[i].data) - 1) :
                       left.data[new[i].data + x] = data[ix[i].data + x]
      <4> DEFINE d == ix[i].data
                 n == Size(data, d)
                 b == new[i].data
                 h == left.data
      <4>1. /\ i \in Done(ix, NULL) /\ d \in Starts(ix, NULL)
            /\ d \in Nat /\ data[d] \in Nat /\ n \in Nat /\ d + n <= end /\ end \in Nat
        BY <3>3, UsedTile
      <4>2. o \in Starts(ix, NULL) /\ Tiles(Starts(ix, NULL), data, end)
        BY <3>1 DEF Starts, DataOK
      <4>3. d # o
        BY <1>4, <3>1, <4>1 DEF DataOK, OneEach
      <4>4. d < o => d + n <= o
        BY <4>1, <4>2 DEF Tiles
      <4>5. o < d => o + l <= d
        BY <4>1, <4>2 DEF Tiles
      <4>6. b = IF d < o THEN d ELSE d - l
        BY <2>1, <3>2, <4>1 DEF Lower
      <4>7. \A a \in 0..(end - l - 1) : h[a] = data[IF a < o THEN a ELSE a + l]
        BY <3>2
      <4>8. o \in Nat /\ l \in Nat /\ l > 0 /\ o + l <= end
        BY <3>2
      <4> HIDE DEF d, n, b, h, o, l
      <4>9. b \in Nat
        BY <4>1, <4>3, <4>5, <4>6, <4>8
      <4>10. ASSUME NEW x \in 0..(n - 1) PROVE h[b + x] = data[d + x]
        <5>1. x \in Nat /\ x < n
          BY <4>1
        <5>2. CASE d < o
          <6>1. b + x = d + x /\ d + x < o /\ d + x \in 0..(end - l - 1)
            BY <4>1, <4>4, <4>6, <4>8, <5>1, <5>2
          <6> QED BY <4>7, <6>1
        <5>3. CASE o < d
          <6>1. b + x \in 0..(end - l - 1) /\ ~(b + x < o) /\ (b + x) + l = d + x
            BY <4>1, <4>5, <4>6, <4>8, <5>1, <5>3
          <6> QED BY <4>7, <6>1
        <5> QED BY <4>1, <4>3, <4>8, <5>2, <5>3
      <4> QED BY <4>1, <4>9, <4>10 DEF d, n, b, h
    <3>4. new[i].type = ix[i].type
      BY <2>1, <3>2
    <3>5. ValueOf(new[i], left.data) = ValueOf(ix[i], data)
      BY <3>3, <3>4, ValueKept
    <3> QED BY <2>1, <3>2, <3>5
  <2> QED BY <2>2, <2>3
<1>5. \A i \in Entries : new[i].keys = ix[i].keys
  <2>1. new[e].keys = ix[e].keys
    <3>1. new[e] = [keys |-> ix[e].keys, type |-> "MACRO", data |-> left.end]
      BY AgainOK
    <3> QED BY <3>1
  <2>2. \A i \in Entries : left.index[i].keys = ix[i].keys
    BY <1>1, DeletedChanges
  <2> QED BY <1>3, <2>1, <2>2
<1>6. ASSUME NEW i \in Used(ix, NULL), ix[i].keys # ix[e].keys
      PROVE  \E j \in Used(new, e) : /\ new[j].keys = ix[i].keys
                                     /\ ValueOf(new[j], left.data) = ValueOf(ix[i], data)
  <2>1. i # e /\ i \in Used(new, e)
    BY <1>5, <1>6 DEF Used
  <2> QED BY <1>4, <2>1
<1>7. ASSUME NEW j \in Used(new, e)
      PROVE  /\ new[j].keys # ix[e].keys
             /\ \E i \in Used(ix, NULL) : ix[i].keys = new[j].keys
  <2>1. j \in Entries /\ j # e /\ new[j].keys = ix[j].keys /\ ix[j].keys # NO_TRIGGER
    BY <1>5, <1>7 DEF Used
  <2>2. ix[j].keys # ix[e].keys
    BY <1>1, <2>1, UsedOnce
  <2>3. j \in Used(ix, NULL)
    BY <1>2, <2>1 DEF Used
  <2> QED BY <2>1, <2>2, <2>3
<1> QED
  BY <1>1, <1>6, <1>7, MapKept

-----------------------------------------------------------------------------
\* Reading no bytes, and some.
LEMMA BytesNone ==
    ASSUME NEW data, NEW from, NEW n \in Nat
    PROVE  BytesIn(data, from, n) = <<>> <=> n = 0
<1>1. CASE n = 0
  BY <1>1 DEF BytesIn
<1>2. CASE n # 0
  <2>1. 1 \in DOMAIN BytesIn(data, from, n)
    BY <1>2 DEF BytesIn
  <2>2. 1 \notin DOMAIN <<>>
    OBVIOUS
  <2> QED BY <1>2, <2>1, <2>2
<1> QED
  BY <1>1, <1>2

\* Two arrays agree on the n places from one on.
Agree(data2, data, from, n) == \A a \in from..(from + n - 1) : data2[a] = data[a]

\* Reading one byte more.
LEMMA BytesAppend ==
    ASSUME NEW data, NEW data2, NEW from \in Nat, NEW n \in Nat,
           Agree(data2, data, from, n)
    PROVE  BytesIn(data2, from, n + 1) = Append(BytesIn(data, from, n), data2[from + n])
<1> DEFINE v == data2[from + n]
           s == BytesIn(data, from, n)
           t == BytesIn(data2, from, n + 1)
           S == {s[i] : i \in 1..n} \cup {v}
<1>1. s = [i \in 1..n |-> s[i]] /\ \A i \in 1..n : s[i] = data[from + i - 1]
  BY DEF BytesIn
<1>2. t = [i \in 1..(n + 1) |-> data2[from + i - 1]]
  BY DEF BytesIn
<1> HIDE DEF s, t
<1>3. \A i \in 1..n : data2[from + i - 1] = s[i]
  <2>1. \A i \in 1..n : from + i - 1 \in from..(from + n - 1)
    OBVIOUS
  <2> QED BY <1>1, <2>1 DEF Agree
<1>4. data2[from + (n + 1) - 1] = v
  <2>1. from + (n + 1) - 1 = from + n
    OBVIOUS
  <2> QED BY <2>1
<1> HIDE DEF v
<1>5. s \in Seq(S) /\ Len(s) = n
  <2>1. s \in [1..n -> S]
    BY <1>1
  <2> HIDE DEF S
  <2> QED BY <2>1
<1> HIDE DEF S
<1>6. v \in S
  BY DEF S
<1>7. Append(s, v) = [i \in 1..(n + 1) |-> IF i = n + 1 THEN v ELSE s[i]]
  <2> DEFINE a == Append(s, v)
  <2>1. a \in Seq(S) /\ Len(a) = n + 1 /\ a[n + 1] = v
    BY <1>5, <1>6
  <2>2. \A i \in 1..n : a[i] = s[i]
    BY <1>5, <1>6
  <2> HIDE DEF a
  <2>3. a = [i \in 1..(n + 1) |-> a[i]]
    BY <2>1
  <2>4. \A i \in 1..(n + 1) : a[i] = IF i = n + 1 THEN v ELSE s[i]
    BY <2>1, <2>2
  <2>5. a = [i \in 1..(n + 1) |-> IF i = n + 1 THEN v ELSE s[i]]
    BY <2>3, <2>4
  <2> QED BY <2>5 DEF a
<1>8. \A i \in 1..(n + 1) : i # n + 1 => i \in 1..n
  OBVIOUS
<1>9. t = Append(s, v)
  BY <1>2, <1>3, <1>4, <1>7, <1>8
<1> QED
  BY <1>9 DEF s, t, v

\* Reading one byte less, from the next address.
LEMMA BytesTail ==
    ASSUME NEW data, NEW from \in Nat, NEW n \in Nat \ {0}
    PROVE  BytesIn(data, from + 1, n - 1) = Tail(BytesIn(data, from, n))
<1> DEFINE s == BytesIn(data, from, n)
           t == BytesIn(data, from + 1, n - 1)
           S == {s[i] : i \in 1..n}
<1>1. s = [i \in 1..n |-> s[i]] /\ \A i \in 1..n : s[i] = data[from + i - 1]
  BY DEF BytesIn
<1>2. t = [i \in 1..(n - 1) |-> data[from + 1 + i - 1]]
  BY DEF BytesIn
<1> HIDE DEF s, t
<1>3. \A i \in 1..(n - 1) : data[from + 1 + i - 1] = s[i + 1]
  <2>1. \A i \in 1..(n - 1) : i + 1 \in 1..n /\ from + (i + 1) - 1 = from + 1 + i - 1
    OBVIOUS
  <2> QED BY <1>1, <2>1
<1>4. s \in Seq(S) /\ Len(s) = n /\ s # <<>>
  <2>1. s \in [1..n -> S]
    BY <1>1
  <2> HIDE DEF S
  <2> QED BY <2>1
<1> HIDE DEF S
<1>5. Tail(s) = [i \in 1..(n - 1) |-> s[i + 1]]
  <2> DEFINE a == Tail(s)
  <2>1. a \in Seq(S) /\ Len(a) = n - 1
    BY <1>4
  <2>2. \A i \in 1..(n - 1) : a[i] = s[i + 1]
    BY <1>4
  <2> HIDE DEF a
  <2>3. a = [i \in 1..(n - 1) |-> a[i]]
    BY <2>1
  <2>4. a = [i \in 1..(n - 1) |-> s[i + 1]]
    BY <2>2, <2>3
  <2> QED BY <2>4 DEF a
<1>6. t = Tail(s)
  BY <1>2, <1>3, <1>5
<1> QED
  BY <1>6 DEF s, t

\* An index that is not full leaves room in the map.
LEMMA MapRoom ==
    ASSUME NEW ix, IndexOK(ix), ~IndexFull(ix), NEW data
    PROVE  Cardinality(DOMAIN MapIn(ix, data, NULL)) < MACRO_INDEX_COUNT
<1> DEFINE N == MACRO_INDEX_COUNT
           U == Used(ix, NULL)
           D == DOMAIN MapIn(ix, data, NULL)
           f == [i \in U |-> ix[i].keys]
<1>1. N \in Nat \ {0}
  BY Sizes
<1>2. U \subseteq 0..(N - 2)
  <2>1. ix[N - 1].keys = NO_TRIGGER
    BY DEF IndexFull
  <2>2. \A i \in U : i \in 0..(N - 1) /\ i # N - 1
    BY <2>1 DEF Used, Entries
  <2> HIDE DEF U, N
  <2> QED BY <1>1, <2>2
<1>3. IsFiniteSet(0..(N - 2)) /\ Cardinality(0..(N - 2)) = N - 1
  <2>1. IsFiniteSet(0..(N - 2)) /\ Cardinality(0..(N - 2)) = IF 0 > N - 2 THEN 0 ELSE N - 2 - 0 + 1
    <3>1. 0 \in Int /\ N - 2 \in Int
      BY <1>1
    <3> QED BY <3>1, FS_Interval
  <2> QED BY <1>1, <2>1
<1>4. IsFiniteSet(U) /\ Cardinality(U) <= N - 1 /\ Cardinality(U) \in Nat
  <2> HIDE DEF U, N
  <2>1. IsFiniteSet(U) /\ Cardinality(U) <= Cardinality(0..(N - 2))
    BY <1>2, <1>3, FS_Subset
  <2> QED BY <1>3, <2>1, FS_CardinalityType
<1>5. f \in Surjection(U, D)
  <2>1. D = {ix[i].keys : i \in U}
    BY DEF MapIn
  <2>2. f \in [U -> D] /\ \A k \in D : \E i \in U : f[i] = k
    <3> HIDE DEF U, D
    <3> QED BY <2>1
  <2> HIDE DEF f, U, D
  <2> QED BY <2>2 DEF Surjection
<1> HIDE DEF f, U, D, N
<1>6. IsFiniteSet(D) /\ Cardinality(D) <= Cardinality(U)
  BY <1>4, <1>5, FS_Surjection
<1>7. Cardinality(D) \in Nat
  BY <1>6, FS_CardinalityType
<1>8. Cardinality(D) < N
  BY <1>1, <1>4, <1>6, <1>7
<1> QED
  BY <1>8 DEF D, N

-----------------------------------------------------------------------------
\* The storage while a macro is recorded.
LEMMA SoundRecording ==
    ASSUME NEW s, Sound(s), s.recording # NotRecording,
           NEW e, e = s.recording.index_entry, NEW c, c = s.recording.cursor,
           NEW from, from = EventsAt(s.end), NEW n, n = RecordedIn(s)
    PROVE  /\ e \in Entries /\ DataOK(s.index, e, s.data, s.end) /\ s.recording.macro = s.end
           /\ s.index[e].data = s.end /\ s.index[e].type = "MACRO"
           /\ s.index[e].keys # NO_TRIGGER /\ s.index[e].keys \in Triggers
           /\ s.end \in Nat /\ from \in Nat /\ s.end < from /\ c \in Nat /\ n \in Nat /\ c = from + n
           /\ n # 0 => c <= STORAGE_SIZE
           /\ IsArray(s.data, Addresses)
           /\ RecordingOf(s) = <<s.index[e].keys, BytesIn(s.data, from, n)>>
<1> DEFINE rec == s.recording
           end == s.end
<1>1. DataOK(s.index, e, s.data, end) /\ RecordingOK(s.index, end, rec)
  BY DEF Sound, StorageOK
<1>2. /\ rec \in [macro : Nat, cursor : Nat, index_entry : Entries]
      /\ rec.macro = end /\ EventsAt(end) <= rec.cursor
      /\ rec.cursor > EventsAt(end) => rec.cursor <= STORAGE_SIZE
      /\ s.index[e].data = end
      /\ s.index[e].keys # NO_TRIGGER /\ s.index[e].type = "MACRO"
  BY <1>1 DEF RecordingOK
<1>3. e \in Entries /\ c \in Nat /\ end \in Nat
  BY <1>2
<1>4. s.index[e].keys \in Triggers
  BY <1>1, <1>2, <1>3, UsedOnce DEF DataOK
<1>5. from = end + MACRO_DATA_HEADER_LEN /\ MACRO_DATA_HEADER_LEN \in Nat \ {0} /\ n = c - from
  BY <1>2, Sizes DEF EventsAt, RecordedIn
<1>6. from <= c /\ (c > from => c <= STORAGE_SIZE)
  BY <1>2
<1>7. IsArray(s.data, Addresses)
  BY <1>1 DEF DataOK
<1>8. RecordingOf(s) = <<s.index[e].keys, BytesIn(s.data, from, n)>>
  BY <1>2 DEF RecordingOf
<1> HIDE DEF rec, end
<1>9. from \in Nat /\ end < from /\ n \in Nat /\ c = from + n /\ (n # 0 => c <= STORAGE_SIZE)
  BY <1>3, <1>5, <1>6
<1> QED
  BY <1>1, <1>2, <1>3, <1>4, <1>7, <1>8, <1>9 DEF rec, end

\* macros_start_macro takes the trigger out of the map.
LEMMA StartMaps ==
    ASSUME NEW s, Sound(s), NEW k, NEW r, StartMakes(s, k, r)
    PROVE  /\ MapOf(r) = Without(MapOf(s), k) /\ k \in Triggers
           /\ RecordingOf(s) = <<>> /\ RecordingOf(r) = <<k, <<>>>>
           /\ k \in DOMAIN MapOf(s) \/ Cardinality(DOMAIN MapOf(s)) < MACRO_INDEX_COUNT
<1> DEFINE ix == s.index
           data == s.data
           end == s.end
           e == macro_idx_lookup(ix, k)
<1>1. /\ DataOK(ix, NULL, data, end) /\ k \in Triggers /\ s.recording = NotRecording
      /\ s.recording.index_entry = NULL
  BY SoundIdle DEF StartMakes, NotRecording
<1>2. MapOf(s) = MapIn(ix, data, NULL) /\ RecordingOf(s) = <<>>
  BY <1>1 DEF MapOf, RecordingOf
<1>3. IndexOK(ix) /\ IsMap(MapIn(ix, data, NULL), ix, data, NULL)
  BY <1>1, MapAt DEF DataOK
<1>4. k \in Keys /\ k # NO_TRIGGER
  <2>1. k < NO_TRIGGER /\ k \in Nat /\ NO_TRIGGER \in Nat
    BY <1>1, Sizes
  <2> QED BY <1>1, <2>1 DEF Keys
<1>5. r.recording # NotRecording
  <2>1. r.recording.index_entry \in Entries
    <3>1. CASE e # NULL
      <4>1. r.recording.index_entry = e
        BY <3>1 DEF StartMakes, AgainAfter, Started
      <4> QED BY <1>1, <1>3, <3>1, <4>1, FoundEntry
    <3>2. CASE e = NULL
      <4>1. r.recording.index_entry = CreatePosition(ix, k) /\ ~IndexFull(ix)
        BY <3>2 DEF StartMakes, NewAfter, Started
      <4>2. \A i \in Entries : ix[i].keys # k
        BY <1>3, <1>4, <3>2, LookupFinds, SortedRises
      <4>3. CreatePosition(ix, k) \in Entries
        BY <1>1, <1>3, <4>1, <4>2, PositionIs
      <4> QED BY <4>1, <4>3
    <3> QED BY <3>1, <3>2
  <2>2. NotRecording.index_entry \notin Entries
    BY DEF NotRecording, NULL, Entries
  <2> QED BY <2>1, <2>2
<1>6. RecordingOf(r) = <<k, <<>>>>
  <2> DEFINE n == RecordedIn(r)
             i == r.recording.index_entry
             from == EventsAt(r.end)
  <2>1. Sound(r)
    BY CallsSound
  <2>2. /\ n \in Nat /\ from \in Nat /\ r.recording.cursor = from + n
        /\ RecordingOf(r) = <<r.index[i].keys, BytesIn(r.data, from, n)>>
    <3> HIDE DEF n, i, from
    <3> QED BY <1>5, <2>1, SoundRecording DEF n, i, from
  <2>3. r.recording.cursor = EventsAt(r.end)
    BY DEF StartMakes, AgainAfter, NewAfter, Started
  <2>4. r.index[i].keys = k
    BY StartedKey
  <2> HIDE DEF n, i, from
  <2>5. n = 0
    BY <2>2, <2>3 DEF from
  <2>6. BytesIn(r.data, from, n) = <<>>
    BY <2>2, <2>5, BytesNone
  <2> QED BY <2>2, <2>4, <2>6
<1>7. CASE e # NULL
  <2> DEFINE left == delete_macro_data(ix, end, data, e)
             new == EntryAt(left.index, e, left.end)
  <2>1. e \in Entries /\ ix[e].keys = k
    BY <1>1, <1>3, <1>7, FoundEntry
  <2>2. r.index = new /\ r.data = left.data /\ r.recording.index_entry = e
    BY <1>7 DEF StartMakes, AgainAfter, LeftOf, Started
  <2>3. MapIn(new, left.data, e) = Without(MapIn(ix, data, NULL), ix[e].keys)
    <3> HIDE DEF ix, data, end, e
    <3> QED BY <1>1, <1>4, <2>1, MapDeleted
  <2>4. MapOf(r) = Without(MapOf(s), k)
    BY <1>2, <2>1, <2>2, <2>3 DEF MapOf
  <2>5. e \in Used(ix, NULL)
    BY <1>4, <1>7, <2>1 DEF Used
  <2>6. k \in DOMAIN MapOf(s)
    BY <1>2, <1>3, <2>1, <2>5 DEF IsMap
  <2> QED BY <1>1, <1>2, <1>6, <2>4, <2>6
<1>8. CASE e = NULL
  <2> DEFINE p == CreatePosition(ix, k)
             en == [keys |-> k, type |-> "MACRO", data |-> end]
             new == EntryAt(macro_idx_create(ix, k), p, end)
  <2>1. ~IndexFull(ix) /\ r.index = new /\ r.data = data /\ r.recording.index_entry = p
    BY <1>8 DEF StartMakes, NewAfter, Started
  <2>2. \A i \in Entries : ix[i].keys # k
    BY <1>3, <1>4, <1>8, LookupFinds, SortedRises
  <2>3. end \in Nat /\ en \in EntrySet /\ en.keys = k
    <3>1. end \in Nat
      BY <1>1 DEF DataOK, Tiles
    <3> QED BY <1>4, <3>1 DEF EntrySet
  <2>4. new = Inserted(ix, k, en) /\ IndexOK(Inserted(ix, k, en))
    <3>1. new[p].keys = k
      BY <2>1, StartedKey
    <3>2. p \in Entries /\ Inserted(ix, k, en) \in [Entries -> EntrySet] /\ Inserted(ix, k, en)[p] = en
      <4> HIDE DEF ix, en, p
      <4> QED BY <1>1, <1>3, <2>1, <2>2, <2>3, InsertedAt DEF p
    <3>3. DOMAIN macro_idx_create(ix, k) = Entries
      BY DEF macro_idx_create
    <3>4. macro_idx_create(ix, k)[p].keys = k
      <4>1. new[p] = [keys |-> macro_idx_create(ix, k)[p].keys, type |-> "MACRO", data |-> end]
        BY <3>2, <3>3 DEF EntryAt
      <4> QED BY <3>1, <4>1
    <3>5. new = Inserted(ix, k, en)
      BY <3>4 DEF EntryAt, Inserted
    <3>6. Sound(r)
      BY CallsSound
    <3>7. IndexOK(r.index)
      BY <3>6 DEF Sound, StorageOK, DataOK
    <3> QED BY <2>1, <3>5, <3>7
  <2>5. MapIn(new, data, p) = MapIn(ix, data, NULL)
    <3> HIDE DEF ix, en, p, data, new
    <3> QED BY <1>1, <1>3, <2>1, <2>2, <2>3, <2>4, MapInserted DEF p
  <2>6. k \notin {ix[i].keys : i \in Used(ix, NULL)}
    BY <2>2 DEF Used
  <2>7. Without(MapIn(ix, data, NULL), k) = MapIn(ix, data, NULL)
    BY <2>6, WithoutNone
  <2>8. MapOf(r) = Without(MapOf(s), k)
    BY <1>2, <2>1, <2>5, <2>7 DEF MapOf
  <2>9. Cardinality(DOMAIN MapOf(s)) < MACRO_INDEX_COUNT
    BY <1>2, <1>3, <2>1, MapRoom
  <2> QED BY <1>1, <1>2, <1>6, <2>8, <2>9
<1> QED
  BY <1>7, <1>8

\* macros_commit_macro adds the recording to the map, and ending it otherwise
\* leaves the map.
LEMMA EndMaps ==
    ASSUME NEW s, Sound(s), NEW r, EndMakes(s, r)
    PROVE  /\ RecordingOf(s) # <<>> /\ RecordingOf(r) = <<>>
           /\ \/ MapOf(r) = MapOf(s)
              \/ /\ RecordingOf(s)[2] # <<>>
                 /\ MapOf(r) = With(MapOf(s), RecordingOf(s)[1],
                                    [type |-> "MACRO", events |-> RecordingOf(s)[2]])
<1> DEFINE ix == s.index
           data == s.data
           end == s.end
           e == s.recording.index_entry
           c == s.recording.cursor
           from == EventsAt(end)
           n == RecordedIn(s)
<1>1. s.recording # NotRecording
  BY DEF EndMakes
<1>2. /\ e \in Entries /\ DataOK(ix, e, data, end) /\ s.recording.macro = end
      /\ ix[e].data = end /\ ix[e].type = "MACRO" /\ ix[e].keys # NO_TRIGGER
      /\ end \in Nat /\ from \in Nat /\ end < from /\ n \in Nat /\ c = from + n
      /\ n # 0 => c <= STORAGE_SIZE
      /\ IsArray(data, Addresses)
      /\ RecordingOf(s) = <<ix[e].keys, BytesIn(data, from, n)>>
  <2> HIDE DEF e, c, from, n
  <2> QED BY <1>1, SoundRecording DEF e, c, from, n
<1>3. RecordingOf(s) # <<>> /\ RecordingOf(s)[1] = ix[e].keys /\ RecordingOf(s)[2] = BytesIn(data, from, n)
  BY <1>2
<1>4. r.recording = NotRecording /\ r.recording.index_entry = NULL
  BY DEF EndMakes, CommitAfter, AbortAfter, NotRecording
<1>5. RecordingOf(r) = <<>>
  BY <1>4 DEF RecordingOf
<1>6. CASE n # 0 /\ r = CommitAfter(s)
  <2> DEFINE new == [data EXCEPT ![end] = n]
  <2>1. r.index = ix /\ r.data = new
    BY <1>2, <1>6 DEF CommitAfter
  <2>2. STORAGE_SIZE \in Nat
    BY Sizes
  <2>3. end \in Addresses /\ \A i \in 1..n : from + i - 1 \in Addresses /\ from + i - 1 # end
    <3> HIDE DEF end, from, n, c
    <3> QED BY <1>2, <1>6, <2>2 DEF Addresses
  <2>4. /\ new[end] = n /\ \A a \in 0..(end - 1) : new[a] = data[a]
        /\ \A i \in 1..n : new[from + i - 1] = data[from + i - 1]
    <3>1. data = [a \in Addresses |-> data[a]]
      BY <1>2 DEF IsArray
    <3>2. \A a \in 0..(end - 1) : a \in Addresses /\ a # end
      BY <1>2, <2>2, <2>3 DEF Addresses
    <3> HIDE DEF end, from, n, data
    <3> QED BY <2>3, <3>1, <3>2
  <2>5. ValueOf(ix[e], new) = [type |-> "MACRO", events |-> BytesIn(data, from, n)]
    <3>1. ValueOf(ix[e], new) = [type |-> "MACRO", events |-> BytesIn(new, from, n)]
      BY <1>2, <2>4 DEF ValueOf
    <3>2. BytesIn(new, from, n) = BytesIn(data, from, n)
      BY <2>4 DEF BytesIn
    <3> QED BY <3>1, <3>2
  <2>6. MapIn(ix, new, NULL) = With(MapIn(ix, data, e), ix[e].keys, ValueOf(ix[e], new))
    <3> HIDE DEF ix, new, end, e, data
    <3> QED BY <1>2, <2>4, MapCommit
  <2>7. BytesIn(data, from, n) # <<>>
    BY <1>2, <1>6, BytesNone
  <2>8. MapOf(r) = MapIn(ix, new, NULL) /\ MapOf(s) = MapIn(ix, data, e)
    BY <1>4, <2>1 DEF MapOf
  <2> QED BY <1>3, <1>5, <2>5, <2>6, <2>7, <2>8
<1>7. CASE r = AbortAfter(s)
  <2>1. r.index = macro_idx_remove(ix, e) /\ r.data = data
    BY <1>7 DEF AbortAfter
  <2>2. IndexOK(ix) /\ IndexOK(r.index)
    <3>1. Sound(r)
      BY CallsSound
    <3> QED BY <1>2, <3>1 DEF Sound, StorageOK, DataOK
  <2>3. MapIn(r.index, data, NULL) = MapIn(ix, data, e)
    <3> HIDE DEF ix, data, e
    <3> QED BY <1>2, <2>1, <2>2, MapRemoved
  <2>4. MapOf(r) = MapOf(s)
    BY <1>4, <2>1, <2>3 DEF MapOf
  <2> QED BY <1>3, <1>5, <2>4
<1> QED
  BY <1>6, <1>7 DEF EndMakes

\* What macros_append makes of a storage that is recording.
AppendMakes(s, v, r) ==
    /\ s.recording # NotRecording
    /\ s.recording.cursor \in Addresses
    /\ r.index = s.index
    /\ r.data = [s.data EXCEPT ![s.recording.cursor] = v]
    /\ r.recording = [s.recording EXCEPT !.cursor = @ + 1]

\* macros_append adds the event to the recording.
LEMMA AppendMaps ==
    ASSUME NEW s, Sound(s), NEW v, NEW r, AppendMakes(s, v, r)
    PROVE  /\ MapOf(r) = MapOf(s) /\ RecordingOf(s) # <<>>
           /\ RecordingOf(r) = <<RecordingOf(s)[1], Append(RecordingOf(s)[2], v)>>
<1> DEFINE ix == s.index
           data == s.data
           end == s.end
           e == s.recording.index_entry
           c == s.recording.cursor
           from == EventsAt(end)
           n == RecordedIn(s)
           new == [data EXCEPT ![c] = v]
<1>1. /\ s.recording # NotRecording /\ s.recording.cursor \in Addresses
      /\ r.index = s.index /\ r.data = new
      /\ r.recording = [s.recording EXCEPT !.cursor = @ + 1]
  BY DEF AppendMakes
<1>2. /\ e \in Entries /\ DataOK(ix, e, data, end) /\ s.recording.macro = end
      /\ end \in Nat /\ from \in Nat /\ end < from /\ n \in Nat /\ c = from + n
      /\ IsArray(data, Addresses)
      /\ RecordingOf(s) = <<ix[e].keys, BytesIn(data, from, n)>>
  <2> HIDE DEF e, c, from, n
  <2> QED BY <1>1, SoundRecording DEF e, c, from, n
<1>3. /\ r.recording.macro = end /\ r.recording.cursor = c + 1 /\ r.recording.index_entry = e
      /\ r.recording # NotRecording
  <2>1. s.recording \in [macro : Nat, cursor : Nat, index_entry : Entries]
    BY <1>1 DEF Sound, StorageOK, RecordingOK
  <2>2. r.recording.macro = end /\ r.recording.cursor = c + 1 /\ r.recording.index_entry = e
    BY <1>1, <1>2, <2>1
  <2>3. NotRecording.index_entry \notin Entries
    BY DEF NotRecording, NULL, Entries
  <2> QED BY <1>2, <2>2, <2>3
<1>4. /\ c \in Addresses /\ STORAGE_SIZE \in Nat
      /\ \A a \in 0..(end - 1) : a \in Addresses /\ a # c
      /\ \A a \in from..(from + n - 1) : a \in Addresses /\ a # c
  <2>1. c \in Addresses /\ STORAGE_SIZE \in Nat
    BY <1>1, Sizes
  <2> HIDE DEF end, from, n, c
  <2> QED BY <1>2, <2>1 DEF Addresses
<1>5. /\ new[c] = v /\ \A a \in 0..(end - 1) : new[a] = data[a]
      /\ \A a \in from..(from + n - 1) : new[a] = data[a]
  <2>1. data = [a \in Addresses |-> data[a]]
    BY <1>2 DEF IsArray
  <2> HIDE DEF end, from, n, c, data
  <2> QED BY <1>4, <2>1
<1>6. MapIn(ix, new, e) = MapIn(ix, data, e)
  <2> HIDE DEF ix, new, end, e, data
  <2> QED BY <1>2, <1>5, MapAppend
<1>7. MapOf(r) = MapOf(s)
  BY <1>1, <1>3, <1>6 DEF MapOf
<1>8. RecordedIn(r) = n + 1 /\ from = EventsAt(r.recording.macro)
  <2>1. RecordedIn(r) = (c + 1) - from /\ from = EventsAt(r.recording.macro)
    BY <1>3 DEF RecordedIn
  <2> HIDE DEF end, from, n, c
  <2> QED BY <1>2, <2>1
<1>9. BytesIn(new, from, n + 1) = Append(BytesIn(data, from, n), v)
  <2>1. new[from + n] = v
    BY <1>2, <1>5
  <2>2. Agree(new, data, from, n)
    BY <1>5 DEF Agree
  <2>3. from \in Nat /\ n \in Nat
    BY <1>2
  <2> HIDE DEF end, from, n, c, data, new
  <2>4. BytesIn(new, from, n + 1) = Append(BytesIn(data, from, n), new[from + n])
    BY ONLY <2>2, <2>3, BytesAppend
  <2> QED BY <2>1, <2>4
<1>10. RecordingOf(r) = <<ix[e].keys, BytesIn(new, from, n + 1)>>
  BY <1>1, <1>3, <1>8 DEF RecordingOf
<1>11. RecordingOf(s) # <<>> /\ RecordingOf(s)[1] = ix[e].keys /\ RecordingOf(s)[2] = BytesIn(data, from, n)
  BY <1>2
<1> QED
  BY <1>7, <1>9, <1>10, <1>11

\* The client application adds a program.
LEMMA ProgramMaps ==
    ASSUME NEW ix, NEW data, NEW end, DataOK(ix, NULL, data, end), NEW k \in Triggers,
           macro_idx_lookup(ix, k) = NULL, ~IndexFull(ix),
           NEW en, en = [keys |-> k, type |-> "PROGRAM", data |-> 0],
           NEW new, new = Inserted(ix, k, en)
    PROVE  /\ MapIn(new, data, NULL) = With(MapIn(ix, data, NULL), k, [type |-> "PROGRAM"])
           /\ k \notin DOMAIN MapIn(ix, data, NULL)
           /\ Cardinality(DOMAIN MapIn(ix, data, NULL)) < MACRO_INDEX_COUNT
<1> DEFINE p == CreatePosition(ix, k)
<1>1. IndexOK(ix)
  BY DEF DataOK
<1>2. k \in Keys /\ k # NO_TRIGGER
  <2>1. k < NO_TRIGGER /\ k \in Nat /\ NO_TRIGGER \in Nat
    BY Sizes
  <2> QED BY <2>1 DEF Keys
<1>3. \A i \in Entries : ix[i].keys # k
  BY <1>1, <1>2, LookupFinds, SortedRises
<1>4. en \in EntrySet /\ en.keys = k
  BY <1>2 DEF EntrySet
<1>5. p \in Entries /\ new[p] = en /\ IndexOK(new)
  BY <1>4, NewOK DEF DataOK
<1>6. MapIn(new, data, p) = MapIn(ix, data, NULL)
  BY <1>1, <1>3, <1>4, <1>5, MapInserted
<1>7. new[p].keys = k /\ ValueOf(new[p], data) = [type |-> "PROGRAM"]
  BY <1>5 DEF ValueOf
<1> HIDE DEF p
<1>8. MapIn(new, data, NULL) = With(MapIn(new, data, p), new[p].keys, ValueOf(new[p], data))
  BY <1>2, <1>5, <1>7, MapMore
<1>9. k \notin DOMAIN MapIn(ix, data, NULL)
  BY <1>3 DEF MapIn, Used
<1> QED
  BY <1>1, <1>6, <1>7, <1>8, <1>9, MapRoom

\* A trigger that macro_idx_lookup finds is in the map.
LEMMA PlayMaps ==
    ASSUME NEW ix, NEW data, NEW end, DataOK(ix, NULL, data, end), NEW k \in Triggers,
           NEW e, e = macro_idx_lookup(ix, k), e # NULL, ix[e].type = "MACRO",
           NEW M, M = MapIn(ix, data, NULL)
    PROVE  /\ k \in DOMAIN M /\ M[k].type = "MACRO"
           /\ M[k].events = BytesIn(data, EventsAt(ix[e].data), data[ix[e].data])
           /\ data[ix[e].data] \in Nat /\ ix[e].data \in Nat
<1>1. IndexOK(ix)
  BY DEF DataOK
<1>2. e \in Entries /\ ix[e].keys = k /\ k # NO_TRIGGER
  BY <1>1, FoundEntry
<1>3. e \in Used(ix, NULL)
  BY <1>2 DEF Used
<1>4. k \in DOMAIN M /\ M[k] = ValueOf(ix[e], data)
  BY <1>1, <1>2, <1>3, MapAt DEF IsMap
<1>5. data[ix[e].data] \in Nat /\ ix[e].data \in Nat
  BY <1>3, UsedTile
<1> QED
  BY <1>4, <1>5 DEF ValueOf

\* The bytes of a factory macro.
LEMMA FactoryBytes ==
    ASSUME NEW old, NEW data, data = [a \in Addresses |-> FactoryByte(a, old[a])], NEW n \in Defs
    PROVE  /\ data[DefStart(n)] = DefLen /\ Len(macro_def_infos[n].hkeys) = DefLen
           /\ BytesIn(data, EventsAt(DefStart(n)), DefLen) = macro_def_infos[n].hkeys
<1> DEFINE o == DefStart(n)
           d == DefSize
           l == DefLen
           h == MACRO_DATA_HEADER_LEN
           keys == macro_def_infos[n].hkeys
<1>1. /\ o \in Nat /\ o + d <= DefEnd /\ d \in Nat \ {0} /\ l \in Nat /\ d = l + h
      /\ DefEnd <= STORAGE_SIZE /\ DefEnd \in Nat
  BY DefStarts
<1>2. h \in Nat \ {0} /\ STORAGE_SIZE \in Nat
  BY Sizes
<1>3. Len(keys) = l /\ keys \in Seq(Nat)
  <2>1. 1 \in Defs
    BY DefsAre
  <2>2. macro_def_infos # <<>>
    BY <2>1 DEF Defs
  <2>3. Len(keys) = Len(macro_def_infos[1].hkeys)
    BY <2>1, MacroSizes DEF Defs
  <2>4. keys \in Seq(Nat)
    <3> DEFINE R == [lkey : Triggers, hkeys : Seq(Nat)]
    <3>1. macro_def_infos \in Seq(R) /\ n \in 1..Len(macro_def_infos)
      BY DefsAre, MacroSizes
    <3>2. \A r \in R : r.hkeys \in Seq(Nat)
      OBVIOUS
    <3> HIDE DEF R
    <3>3. macro_def_infos[n] \in R
      BY <3>1
    <3> QED BY <3>2, <3>3
  <2> QED BY <2>2, <2>3, <2>4 DEF DefLen
<1> DEFINE here(a) == {m \in Defs : a - DefStart(m) \in 0..(d - 1)}
<1>4. ASSUME NEW x \in 0..(d - 1) PROVE o + x \in Addresses /\ here(o + x) = {n}
  <2>1. o + x \in Addresses
    <3> HIDE DEF o, d
    <3> QED BY <1>1, <1>2 DEF Addresses
  <2>2. ASSUME NEW m \in Defs, (o + x) - DefStart(m) \in 0..(d - 1) PROVE m = n
    <3> DEFINE q == DefStart(m)
    <3>1. q \in Nat /\ m \in Nat /\ n \in Nat
      BY DefStarts, DefKeysAre
    <3>2. (n < m => o + d <= q) /\ (m < n => q + d <= o)
      BY DefStarts
    <3> HIDE DEF o, d, q
    <3>3. ~(o + d <= q) /\ ~(q + d <= o)
      BY <1>1, <2>2, <3>1 DEF q
    <3> QED BY <3>1, <3>2, <3>3
  <2>3. (o + x) - o \in 0..(d - 1)
    <3> HIDE DEF o, d
    <3> QED BY <1>1
  <2> QED BY <2>1, <2>2, <2>3
<1>5. ASSUME NEW x \in 0..(d - 1)
      PROVE  data[o + x] = (CASE x = 0 -> l
                              [] x \in 1..(h - 1) -> 0
                              [] OTHER -> keys[x - h + 1])
  <2> DEFINE a == o + x
             w == CHOOSE m \in here(a) : TRUE
  <2>1. a \in Addresses /\ here(a) = {n} /\ w = n
    BY <1>4
  <2>2. a - o = x
    <3> HIDE DEF o, d
    <3> QED BY <1>1
  <2>3. FactoryByte(a, old[a]) =
           (CASE here(a) = {} -> old[a]
              [] here(a) # {} /\ a - DefStart(w) = 0 -> l
              [] here(a) # {} /\ a - DefStart(w) \in 1..(h - 1) -> 0
              [] OTHER -> macro_def_infos[w].hkeys[(a - DefStart(w)) - h + 1])
    BY DEF FactoryByte, Defs
  <2> HIDE DEF here, w, a
  <2>4. data[a] = FactoryByte(a, old[a])
    BY <2>1
  <2>5. here(a) # {} /\ a - DefStart(w) = x /\ macro_def_infos[w].hkeys = keys
    BY <2>1, <2>2
  <2>6. x \in Nat
    OBVIOUS
  <2>7. FactoryByte(a, old[a]) = (CASE x = 0 -> l
                                    [] x \in 1..(h - 1) -> 0
                                    [] OTHER -> keys[x - h + 1])
    <3> HIDE DEF l, h, keys
    <3> QED BY <2>3, <2>5
  <2> QED BY <2>4, <2>7 DEF a
<1> HIDE DEF here
<1>6. data[o] = l
  <2> HIDE DEF o, d, l, h, keys
  <2>1. 0 \in 0..(d - 1) /\ o + 0 = o
    BY <1>1
  <2>2. data[o + 0] = l
    BY <1>5, <2>1
  <2> QED BY <2>1, <2>2
<1>7. ASSUME NEW i \in 1..l PROVE data[o + h + i - 1] = keys[i]
  <2> HIDE DEF o, d, l, h, keys
  <2> DEFINE x == h + i - 1
  <2>1. /\ x \in 0..(d - 1) /\ o + x = o + h + i - 1 /\ x # 0 /\ x \notin 1..(h - 1)
        /\ x - h + 1 = i
    BY <1>1, <1>2
  <2> HIDE DEF x
  <2> QED BY <1>5, <2>1
<1>8. BytesIn(data, EventsAt(o), l) = keys
  <2>1. BytesIn(data, EventsAt(o), l) = [i \in 1..l |-> data[o + h + i - 1]]
    BY DEF BytesIn, EventsAt
  <2>2. keys = [i \in 1..l |-> keys[i]]
    <3> HIDE DEF l, keys
    <3> QED BY <1>3
  <2> HIDE DEF o, l, h, keys
  <2> QED BY <1>7, <2>1, <2>2
<1> QED
  BY <1>3, <1>6, <1>8

\* config_reset_fully brings the factory map.
LEMMA FactoryMaps ==
    ASSUME NEW old, NEW data, data = [a \in Addresses |-> FactoryByte(a, old[a])]
    PROVE  MapIn(FactoryIndex, data, NULL) = Factory
<1> DEFINE ix == FactoryIndex
<1>1. IndexOK(ix)
  BY FactoryIndexOK
<1>2. /\ Factory = [k \in DOMAIN Factory |-> Factory[k]]
      /\ DOMAIN Factory = {DefKey(n) : n \in Defs}
  BY DEF Factory, DefKey, Defs
<1>3. ASSUME NEW n \in Defs
      PROVE  Factory[DefKey(n)] = [type |-> "MACRO", events |-> macro_def_infos[n].hkeys]
  <2> DEFINE m == CHOOSE m \in Defs : DefKey(m) = DefKey(n)
  <2>1. m \in Defs /\ DefKey(m) = DefKey(n)
    OBVIOUS
  <2>2. DefKey(n) \in {DefKey(j) : j \in Defs}
    OBVIOUS
  <2>3. Factory[DefKey(n)] = [type |-> "MACRO", events |-> macro_def_infos[m].hkeys]
    BY <2>2 DEF Factory, DefKey, Defs
  <2> HIDE DEF m
  <2>4. m = n
    BY <2>1, DefKeysAre
  <2> QED BY <2>3, <2>4
<1>4. ASSUME NEW n \in Defs, NEW en, en = [keys |-> DefKey(n), type |-> "MACRO", data |-> DefStart(n)]
      PROVE  ValueOf(en, data) = Factory[DefKey(n)]
  <2>1. ValueOf(en, data) = [type |-> "MACRO",
                             events |-> BytesIn(data, EventsAt(DefStart(n)), data[DefStart(n)])]
    BY <1>4 DEF ValueOf
  <2>2. BytesIn(data, EventsAt(DefStart(n)), data[DefStart(n)]) = macro_def_infos[n].hkeys
    BY FactoryBytes
  <2> QED BY <1>3, <2>1, <2>2
<1>5. \A i \in Entries : ix[i] = FactoryEntry(i)
  BY DEF FactoryIndex
<1> HIDE DEF ix
<1>6. ASSUME NEW i \in Used(ix, NULL)
      PROVE  ix[i].keys \in DOMAIN Factory /\ Factory[ix[i].keys] = ValueOf(ix[i], data)
  <2>1. i \in Entries /\ ix[i].keys # NO_TRIGGER
    BY DEF Used
  <2>2. empty_entry.keys = NO_TRIGGER
    BY DEF empty_entry
  <2>3. PICK n \in Defs : FactoryEntry(i) = [keys |-> DefKey(n), type |-> "MACRO", data |-> DefStart(n)]
    BY <1>5, <2>1, <2>2, FactoryEntries
  <2>4. ix[i].keys = DefKey(n) /\ ValueOf(ix[i], data) = Factory[DefKey(n)]
    BY <1>4, <1>5, <2>1, <2>3
  <2> QED BY <1>2, <2>4
<1>7. ASSUME NEW k \in DOMAIN Factory PROVE \E i \in Used(ix, NULL) : ix[i].keys = k
  <2>1. PICK n \in Defs : DefKey(n) = k
    BY <1>2
  <2> DEFINE i == RankIn(DefKeys, DefKey(n))
  <2>2. i \in Entries /\ FactoryEntry(i) = [keys |-> DefKey(n), type |-> "MACRO", data |-> DefStart(n)]
    BY FactoryEntries
  <2> HIDE DEF i
  <2>3. ix[i].keys = k
    BY <1>5, <2>1, <2>2
  <2>4. k # NO_TRIGGER
    <3>1. k \in Triggers
      BY <2>1, DefsAre
    <3>2. k < NO_TRIGGER /\ k \in Nat /\ NO_TRIGGER \in Nat
      BY <3>1, Sizes
    <3> QED BY <3>2
  <2>5. i # NULL
    BY <2>2 DEF NULL, Entries
  <2> QED BY <2>2, <2>3, <2>4, <2>5 DEF Used
<1>8. IsMap(Factory, ix, data, NULL)
  BY <1>2, <1>6, <1>7 DEF IsMap
<1> QED
  BY <1>1, <1>8, MapIs DEF ix

-----------------------------------------------------------------------------
(***************************************************************************)
(* The steps of MacroStore.  A playback reads the data, so nothing else    *)
(* may go on while one is under way.                                       *)
(***************************************************************************)
PlayInv ==
    /\ playback_state.remaining \in Nat /\ playback_state.cursor \in Nat
    /\ recording_state # NotRecording \/ ~Between => playback_state.remaining = 0

\* The playback of ImplementsStoreBetween.
LEMMA WholePlaying ==
    /\ Whole!Bytes(playback_state.cursor, playback_state.remaining) = PlayingOf(Visible, playback_state)
    /\ Whole!Bytes(playback_state.cursor, playback_state.remaining)' =
          PlayingOf(Visible', playback_state')
  BY DEF Whole!Bytes, PlayingOf, BytesIn

\* What is shown is a storage with these parts.
LEMMA SameParts ==
    ASSUME NEW s, NEW r, s.index = r.index, s.data = r.data, s.recording = r.recording
    PROVE  MapOf(s) = MapOf(r) /\ RecordingOf(s) = RecordingOf(r)
  BY DEF MapOf, RecordingOf, RecordedIn

\* Nothing is played.
LEMMA NotPlayed ==
    ASSUME NEW s, NEW play, play.remaining = 0
    PROVE  PlayingOf(s, play) = <<>>
<1>1. 0 \in Nat
  OBVIOUS
<1> QED
  BY <1>1, BytesNone DEF PlayingOf

\* The triggers in the map.
LEMMA WholeCount ==
    ASSUME NEW S
    PROVE  Whole!Store!Cardinality(S) = Cardinality(S)
  BY DEF Whole!Store!Cardinality, Cardinality

\* What is stored is the map as long as nothing disturbed it.
LEMMA WholeNow ==
    /\ ~disturbed => Whole!StoredNow = Whole!Stored
    /\ ~disturbed' => Whole!StoredNow' = Whole!Stored'
  BY DEF Whole!StoredNow

\* Nothing is promised of a disturbed storage.
LEMMA LostStores ==
    ASSUME disturbed, disturbed'
    PROVE  Whole!Store!StoreNext
  BY DEF Whole!Store!StoreNext, Whole!Store!Lose

\* A step that keeps the promise.
LEMMA KeptStores ==
    ASSUME ~disturbed, ~disturbed', Whole!Store!Kept
    PROVE  Whole!Store!StoreNext
  BY DEF Whole!Store!StoreNext

\* The last write of a call is the step of MacroStore for it.
LEMMA WriteStores ==
    ASSUME MacroInv, PlayInv, DoWrite, ~disturbed
    PROVE  [Whole!Store!StoreNext]_(Whole!Store!storeVars)
<1> DEFINE M == MapOf(shown)
           R == RecordingOf(shown)
<1>1. ~Between /\ Visible = shown /\ playback_state' = playback_state /\ disturbed' = disturbed
  BY InvWrite DEF Visible, DoWrite
<1>2. playback_state.remaining = 0 /\ Sound(shown)
  BY <1>1 DEF PlayInv, MacroInv, DuringInv, Fit
<1>3. /\ Whole!Bytes(playback_state.cursor, playback_state.remaining) = <<>>
      /\ Whole!Bytes(playback_state.cursor, playback_state.remaining)' = <<>>
  BY <1>1, <1>2, WholePlaying, NotPlayed
<1>4. Whole!StoredNow = M /\ Whole!RecordingNow = R
  BY <1>1, WholeMaps, WholeNow
<1>5. CASE ~Between'
  <2>1. Visible' = Visible
    BY <1>1, <1>5, InvWrite DEF Visible
  <2>2. Whole!StoredNow' = Whole!StoredNow /\ Whole!RecordingNow' = Whole!RecordingNow
    BY <1>1, <2>1, WholeMaps, WholeNow
  <2> QED BY <1>1, <1>3, <2>2 DEF Whole!Store!storeVars
<1>6. CASE Between'
  <2>1. PICK r : /\ Makes(r) /\ recording_state' = r.recording
                 /\ macro_index' = r.index /\ macros_end_offset' = r.end /\ macros' = r.data
    BY <1>6, InvWrite
  <2>2. Visible'.index = r.index /\ Visible'.data = r.data /\ Visible'.recording = r.recording
    BY <1>6, <2>1 DEF Visible, storage
  <2>3. Whole!StoredNow' = MapOf(r) /\ Whole!RecordingNow' = RecordingOf(r)
    BY <1>1, <2>2, WholeMaps, WholeNow, SameParts
  <2> HIDE DEF M, R
  <2>4. CASE StartMakes(shown, key, r)
    <3>1. /\ MapOf(r) = Without(M, key) /\ key \in Triggers /\ R = <<>> /\ RecordingOf(r) = <<key, <<>>>>
          /\ key \in DOMAIN M \/ Cardinality(DOMAIN M) < MACRO_INDEX_COUNT
      BY <1>2, <2>4, StartMaps DEF M, R
    <3>2. Whole!Store!Idle
      BY <1>3, <1>4, <3>1 DEF Whole!Store!Idle
    <3>3. Whole!StoredNow' = Whole!Store!Without(key)
      BY <1>4, <2>3, <3>1 DEF Whole!Store!Without, Whole!Store!Restrict, Without
    <3>4. Whole!Store!Start(key)
      BY <1>3, <1>4, <2>3, <3>1, <3>2, <3>3, WholeCount DEF Whole!Store!Start
    <3> QED BY <1>1, <3>1, <3>4, KeptStores DEF Whole!Store!Kept
  <2>5. CASE EndMakes(shown, r)
    <3>1. /\ R # <<>> /\ RecordingOf(r) = <<>>
          /\ \/ MapOf(r) = M
             \/ R[2] # <<>> /\ MapOf(r) = With(M, R[1], [type |-> "MACRO", events |-> R[2]])
      BY <1>2, <2>5, EndMaps DEF M, R
    <3>2. CASE MapOf(r) = M
      <4>1. Whole!Store!Abort
        BY <1>3, <1>4, <2>3, <3>1, <3>2 DEF Whole!Store!Abort
      <4> QED BY <1>1, <4>1, KeptStores DEF Whole!Store!Kept
    <3>3. CASE R[2] # <<>> /\ MapOf(r) = With(M, R[1], [type |-> "MACRO", events |-> R[2]])
      <4>1. Whole!StoredNow' = Whole!Store!With(R[1], Whole!Store!Macro(R[2]))
        BY <1>4, <2>3, <3>3 DEF Whole!Store!With, Whole!Store!Macro, With
      <4>2. Whole!Store!Commit
        BY <1>3, <1>4, <2>3, <3>1, <3>3, <4>1 DEF Whole!Store!Commit
      <4> QED BY <1>1, <4>2, KeptStores DEF Whole!Store!Kept
    <3> QED BY <3>1, <3>2, <3>3
  <2> QED BY <2>1, <2>4, <2>5 DEF Makes
<1> QED
  BY <1>5, <1>6

\* The steps between two calls are steps of MacroStore.
LEMMA OtherStores ==
    ASSUME MacroInv, PlayInv, Between, Between', ~disturbed, ~disturbed',
           \/ \E event \in Events : Append1(event)
           \/ \E k \in ProgramTriggers : ClientWrites(k)
           \/ Play
    PROVE  Whole!Store!StoreNext
<1> DEFINE M == MapOf(storage)
           R == RecordingOf(storage)
           P == PlayingOf(storage, playback_state)
<1>1. Visible = storage /\ Visible' = storage' /\ Sound(storage)
  BY DEF Visible, MacroInv, BetweenInv, Fit
<1>2. /\ storage.index = macro_index /\ storage.end = macros_end_offset /\ storage.data = macros
      /\ storage.recording = recording_state
      /\ storage'.index = macro_index' /\ storage'.data = macros' /\ storage'.recording = recording_state'
  BY DEF storage
<1>3. /\ Whole!StoredNow = M /\ Whole!RecordingNow = R
      /\ Whole!Bytes(playback_state.cursor, playback_state.remaining) = P
      /\ Whole!StoredNow' = MapOf(storage') /\ Whole!RecordingNow' = RecordingOf(storage')
      /\ Whole!Bytes(playback_state.cursor, playback_state.remaining)' =
            PlayingOf(storage', playback_state')
  BY <1>1, WholeMaps, WholePlaying, WholeNow
<1>4. ASSUME recording_state = NotRecording
      PROVE  /\ DataOK(macro_index, NULL, macros, macros_end_offset)
             /\ M = MapIn(macro_index, macros, NULL) /\ R = <<>>
             /\ storage.recording = NotRecording /\ storage.recording.index_entry = NULL
             /\ Idle => Whole!Store!Idle
  <2>1. storage.recording = NotRecording /\ storage.recording.index_entry = NULL
    BY <1>2, <1>4 DEF NotRecording
  <2>2. DataOK(macro_index, NULL, macros, macros_end_offset)
    BY <1>1, <1>2, <2>1, SoundIdle
  <2>3. M = MapIn(macro_index, macros, NULL) /\ R = <<>>
    BY <1>2, <2>1 DEF MapOf, RecordingOf
  <2>4. Idle => P = <<>>
    BY NotPlayed DEF Idle
  <2> QED BY <1>3, <2>1, <2>2, <2>3, <2>4 DEF Whole!Store!Idle
<1> HIDE DEF M, R, P
<1>5. ASSUME NEW event \in Events, Append1(event) PROVE Whole!Store!Kept
  <2>1. /\ recording_state # NotRecording /\ recording_state.cursor \in Addresses
        /\ macro_index' = macro_index /\ macros' = [macros EXCEPT ![recording_state.cursor] = event]
        /\ recording_state' = [recording_state EXCEPT !.cursor = @ + 1]
        /\ playback_state' = playback_state
    BY <1>5 DEF Append1, macros_append
  <2>2. playback_state.remaining = 0
    BY <2>1 DEF PlayInv
  <2>3. P = <<>> /\ PlayingOf(storage', playback_state') = <<>>
    BY <2>1, <2>2, NotPlayed DEF P
  <2>4. /\ MapOf(storage') = M /\ R # <<>>
        /\ RecordingOf(storage') = <<R[1], Append(R[2], event)>>
    <3>1. AppendMakes(storage, event, storage')
      BY <1>2, <2>1 DEF AppendMakes
    <3> QED BY <1>1, <3>1, AppendMaps DEF M, R
  <2>5. Whole!Store!Append1(event)
    BY <1>3, <2>3, <2>4 DEF Whole!Store!Append1
  <2> QED BY <2>5 DEF Whole!Store!Kept
<1>6. ASSUME NEW k \in ProgramTriggers, ClientWrites(k) PROVE Whole!Store!Kept
  <2> DEFINE en == [keys |-> k, type |-> "PROGRAM", data |-> 0]
  <2>1. /\ recording_state = NotRecording
        /\ macro_idx_lookup(macro_index, k) = NULL /\ ~IndexFull(macro_index)
        /\ macro_index' = Inserted(macro_index, k, en)
        /\ macros' = macros /\ recording_state' = recording_state /\ playback_state' = playback_state
    BY <1>6 DEF ClientWrites, ClientAddsProgram, Inserted
  <2>2. k \in Triggers
    BY MacroSizes
  <2>3. DataOK(macro_index, NULL, macros, macros_end_offset)
    BY <1>4, <2>1
  <2>4. /\ MapIn(macro_index', macros, NULL) = With(MapIn(macro_index, macros, NULL), k, [type |-> "PROGRAM"])
        /\ k \notin DOMAIN MapIn(macro_index, macros, NULL)
        /\ Cardinality(DOMAIN MapIn(macro_index, macros, NULL)) < MACRO_INDEX_COUNT
    <3> HIDE DEF en
    <3> QED BY <2>1, <2>2, <2>3, ProgramMaps DEF en
  <2>5. MapOf(storage') = With(M, k, [type |-> "PROGRAM"])
    BY <1>2, <1>4, <2>1, <2>4 DEF MapOf
  <2>6. k \notin DOMAIN M /\ Cardinality(DOMAIN M) < MACRO_INDEX_COUNT
    BY <1>4, <2>1, <2>4
  <2>7. RecordingOf(storage') = R /\ PlayingOf(storage', playback_state') = P
    <3>1. RecordingOf(storage') = <<>>
      BY <1>2, <1>4, <2>1 DEF RecordingOf
    <3>2. PlayingOf(storage', playback_state') = P
      BY <1>2, <2>1 DEF PlayingOf, P
    <3> QED BY <1>4, <2>1, <3>1, <3>2
  <2>8. Whole!StoredNow' = Whole!Store!With(k, [type |-> "PROGRAM"])
    BY <1>3, <2>5 DEF Whole!Store!With, With
  <2>9. Whole!Store!AddProgram(k)
    BY <1>3, <1>4, <2>1, <2>6, <2>7, <2>8, WholeCount DEF Whole!Store!AddProgram
  <2> QED BY <2>2, <2>9 DEF Whole!Store!Kept
<1>7. ASSUME Play PROVE Whole!Store!Kept
  <2>0. macro_index' = macro_index /\ macros' = macros /\ recording_state' = recording_state
    BY <1>7 DEF Play, macros_fill_next_report, macros_start_playback
  <2>1. MapOf(storage') = M /\ RecordingOf(storage') = R
    BY <1>2, <2>0, SameParts DEF M, R
  <2>2. CASE macros_fill_next_report
    <3> DEFINE n == playback_state.remaining
               c == playback_state.cursor
    <3>1. /\ n # 0 /\ playback_state'.remaining = n - 1 /\ playback_state'.cursor = c + 1
      BY <2>2 DEF macros_fill_next_report
    <3>2. n \in Nat \ {0} /\ c \in Nat
      BY <3>1 DEF PlayInv
    <3>3. P = BytesIn(macros, c, n) /\ PlayingOf(storage', playback_state') = BytesIn(macros, c + 1, n - 1)
      BY <1>2, <2>0, <3>1 DEF P, PlayingOf
    <3> HIDE DEF n, c
    <3>4. P # <<>> /\ PlayingOf(storage', playback_state') = Tail(P)
      BY <3>2, <3>3, BytesNone, BytesTail
    <3>5. Whole!Store!PlayEvent
      BY <1>3, <2>1, <3>4 DEF Whole!Store!PlayEvent
    <3> QED BY <3>5 DEF Whole!Store!Kept
  <2>3. ASSUME NEW k \in Triggers, macros_start_playback(k) PROVE Whole!Store!Kept
    <3> DEFINE e == macro_idx_lookup(macro_index, k)
               at == macro_index[e].data
    <3>1. /\ Idle /\ recording_state = NotRecording
          /\ e # NULL /\ macro_index[e].type = "MACRO"
          /\ playback_state' = [remaining |-> macros[at], cursor |-> EventsAt(at)]
      BY <2>3 DEF macros_start_playback, Idle
    <3>2. DataOK(macro_index, NULL, macros, macros_end_offset) /\ M = MapIn(macro_index, macros, NULL)
      BY <1>4, <3>1
    <3>3. k \in DOMAIN M /\ M[k].type = "MACRO" /\ M[k].events = BytesIn(macros, EventsAt(at), macros[at])
      <4> HIDE DEF e
      <4> QED BY <3>1, <3>2, PlayMaps DEF e
    <3>4. PlayingOf(storage', playback_state') = M[k].events
      BY <1>2, <2>0, <3>1, <3>3 DEF PlayingOf
    <3>5. Whole!Store!Play(k)
      BY <1>3, <1>4, <2>1, <3>1, <3>3, <3>4 DEF Whole!Store!Play
    <3> QED BY <3>5 DEF Whole!Store!Kept
  <2> QED BY <1>7, <2>2, <2>3 DEF Play
<1> QED
  BY <1>5, <1>6, <1>7, KeptStores

\* A recording is seen as one.
LEMMA RecordingSeen ==
    ASSUME recording_state # NotRecording, Between
    PROVE  Whole!RecordingNow # <<>>
<1>1. Whole!RecordingNow = RecordingOf(Visible) /\ Visible.recording = recording_state
  BY WholeMaps DEF Visible, storage
<1> QED
  BY <1>1 DEF RecordingOf

\* A playback that goes on after a reset.
LEMMA BytesLength ==
    ASSUME NEW data, NEW c, NEW n \in Nat
    PROVE  Len(BytesIn(data, c, n)) = n
  BY DEF BytesIn

\* A reset outside a recording brings the factory macros, whatever was stored; one
\* in a recording voids the promise.
LEMMA ResetStores ==
    ASSUME PlayInv, Between, Between', Reset
    PROVE  Whole!Store!StoreNext
<1>1. /\ macro_index' = FactoryIndex /\ macros' = [a \in Addresses |-> FactoryByte(a, macros[a])]
      /\ recording_state' = recording_state /\ playback_state' = playback_state
      /\ disturbed' = (recording_state # NotRecording)
  BY DEF Reset, reset_defaults
<1>2. CASE recording_state # NotRecording
  <2>1. Whole!RecordingNow # <<>>
    BY <1>2, RecordingSeen
  <2>2. Whole!Store!Lose
    BY <1>1, <1>2, <2>1 DEF Whole!Store!Lose
  <2> QED BY <2>2 DEF Whole!Store!StoreNext
<1>3. CASE recording_state = NotRecording
  <2>1. Visible = storage /\ Visible' = storage'
    BY DEF Visible
  <2>2. /\ storage.recording = NotRecording /\ storage'.recording = NotRecording
        /\ storage'.index = FactoryIndex /\ storage'.data = macros'
        /\ storage'.recording.index_entry = NULL
    BY <1>1, <1>3 DEF storage, NotRecording
  <2>3. MapOf(storage') = Factory
    <3>1. MapOf(storage') = MapIn(FactoryIndex, macros', NULL)
      BY <2>2 DEF MapOf
    <3> QED BY <1>1, <3>1, FactoryMaps
  <2>4. RecordingOf(storage) = <<>> /\ RecordingOf(storage') = <<>>
    BY <2>2 DEF RecordingOf
  <2>5. Whole!RecordingNow = <<>> /\ Whole!RecordingNow' = <<>>
    BY <2>1, <2>4, WholeMaps
  <2>6. ~disturbed' /\ Whole!StoredNow' = Whole!Factory
    <3>1. Whole!Factory = Factory
      BY DEF Whole!Factory, Factory
    <3> QED BY <1>1, <1>3, <2>1, <2>3, <3>1, WholeMaps, WholeNow
  <2>7. Len(PlayingOf(storage', playback_state')) = Len(PlayingOf(storage, playback_state))
    <3>1. playback_state.remaining \in Nat
      BY DEF PlayInv
    <3> QED BY <1>1, <3>1, BytesLength DEF PlayingOf
  <2>8. Whole!Store!Reset
    BY <2>1, <2>5, <2>6, <2>7, WholePlaying DEF Whole!Store!Reset
  <2> QED BY <2>8 DEF Whole!Store!StoreNext
<1> QED
  BY <1>2, <1>3

\* PlayInv at the start.
LEMMA PlayInit == StepInit => PlayInv
  BY DEF StepInit, Init, PlayInv, NotPlaying, Between

\* PlayInv in every step.
LEMMA PlayStep == MacroInv /\ PlayInv /\ [StepNext]_stepVars => PlayInv'
<1> SUFFICES ASSUME MacroInv, PlayInv, [StepNext]_stepVars PROVE PlayInv'
  OBVIOUS
<1> DEFINE play == playback_state
<1>1. play.remaining \in Nat /\ play.cursor \in Nat
  BY DEF PlayInv
<1>2. ASSUME play' = play, play.remaining = 0 PROVE PlayInv'
  BY <1>1, <1>2 DEF PlayInv
<1>3. CASE DoWrite
  <2>1. ~Between /\ play' = play
    BY <1>3, InvWrite DEF DoWrite
  <2> QED BY <1>2, <2>1 DEF PlayInv
<1>4. CASE BeginEnd
  <2>1. recording_state # NotRecording /\ play' = play
    BY <1>4 DEF BeginEnd, Begin, vars
  <2> QED BY <1>2, <2>1 DEF PlayInv
<1>5. CASE \E k \in Triggers : BeginStart(k)
  <2>1. play.remaining = 0 /\ play' = play
    BY <1>5 DEF BeginStart, BeginRecord, Begin, Idle, vars
  <2> QED BY <1>2, <2>1
<1>6. CASE \E event \in Events : Append1(event)
  <2>1. recording_state # NotRecording /\ play' = play
    BY <1>6 DEF Append1, macros_append
  <2> QED BY <1>2, <2>1 DEF PlayInv
<1>7. CASE Reset \/ \E k \in ProgramTriggers : ClientWrites(k)
  <2>1. play' = play /\ recording_state' = recording_state /\ writes' = writes
    BY <1>7 DEF Reset, reset_defaults, ClientWrites, ClientAddsProgram
  <2> QED BY <2>1 DEF PlayInv, Between
<1>8. CASE PowerLoss \/ UNCHANGED stepVars
  <2>1. play' = play /\ recording_state' = recording_state /\ writes' = writes
    BY <1>8 DEF PowerLoss, stepVars, vars
  <2> QED BY <2>1 DEF PlayInv, Between
<1>9. CASE Play
  <2>1. Between /\ Between' /\ recording_state' = recording_state
    BY <1>9 DEF Play, Between, macros_fill_next_report, macros_start_playback
  <2>2. CASE macros_fill_next_report
    <3> DEFINE n == play.remaining
               c == play.cursor
    <3>1. n # 0 /\ play'.remaining = n - 1 /\ play'.cursor = c + 1
      BY <2>2 DEF macros_fill_next_report
    <3>2. recording_state = NotRecording
      BY <3>1 DEF PlayInv
    <3>3. play'.remaining \in Nat /\ play'.cursor \in Nat
      <4>1. n \in Nat /\ c \in Nat
        BY <1>1
      <4> HIDE DEF n, c
      <4> QED BY <3>1, <4>1
    <3> QED BY <2>1, <3>2, <3>3 DEF PlayInv
  <2>3. ASSUME NEW k \in Triggers, macros_start_playback(k) PROVE PlayInv'
    <3> DEFINE e == macro_idx_lookup(macro_index, k)
               at == macro_index[e].data
    <3>1. /\ Idle /\ ~disturbed /\ e # NULL /\ macro_index[e].type = "MACRO"
          /\ play' = [remaining |-> macros[at], cursor |-> EventsAt(at)]
      BY <2>3 DEF macros_start_playback
    <3>2. recording_state = NotRecording
      BY <3>1 DEF Idle
    <3>3. DataOK(macro_index, NULL, macros, macros_end_offset)
      <4>1. Sound(storage) /\ storage.recording = NotRecording
        BY <2>1, <3>1, <3>2 DEF MacroInv, BetweenInv, Fit, storage
      <4> QED BY <4>1, SoundIdle DEF storage
    <3>4. macros[at] \in Nat /\ at \in Nat
      <4> HIDE DEF e
      <4> QED BY <3>1, <3>3, PlayMaps DEF e
    <3>5. EventsAt(at) \in Nat
      <4> HIDE DEF at
      <4> QED BY <3>4, Sizes DEF EventsAt
    <3> QED BY <2>1, <3>1, <3>2, <3>4, <3>5 DEF PlayInv
  <2> QED BY <1>9, <2>2, <2>3 DEF Play
<1> QED
  BY <1>3, <1>4, <1>5, <1>6, <1>7, <1>8, <1>9 DEF StepNext

\* macro.c and macro_index.c behave as a map from triggers to macros and programs:
\* recording, replacing, deleting or aborting a macro changes what its trigger
\* starts and nothing else, a playback sends the recorded events in their order,
\* and a reset brings the factory macros, although the index is moved under a
\* bisection and the data are packed; for any sizes and any sequence of calls and
\* host requests.  A request inside a recording voids the map, and any reset
\* outside of one restores it, whatever the recording left.
THEOREM MacrosBehaveAsMap == StepSpec => ImplementsStoreBetween
<1>1. StepInit => Whole!StoredNow = Whole!Factory /\ Whole!Store!Idle /\ ~disturbed
  <2> SUFFICES ASSUME StepInit
               PROVE  Whole!StoredNow = Whole!Factory /\ Whole!Store!Idle /\ ~disturbed
    OBVIOUS
  <2>1. Visible = storage
    BY DEF StepInit, Visible, Between
  <2>2. /\ storage.index = FactoryIndex /\ storage.data = [a \in Addresses |-> FactoryByte(a, 255)]
        /\ storage.recording = NotRecording /\ playback_state.remaining = 0 /\ ~disturbed
    BY DEF StepInit, Init, storage, NotPlaying
  <2> DEFINE old == [a \in Addresses |-> 255]
  <2>3. storage.data = [a \in Addresses |-> FactoryByte(a, old[a])]
    BY <2>2
  <2> HIDE DEF old
  <2>4. MapIn(FactoryIndex, storage.data, NULL) = Factory
    BY <2>3, FactoryMaps
  <2>5. MapOf(storage) = Factory
    BY <2>2, <2>4 DEF MapOf, NotRecording
  <2>6. RecordingOf(storage) = <<>>
    BY <2>2 DEF RecordingOf
  <2>7. PlayingOf(storage, playback_state) = <<>>
    BY <2>2, NotPlayed
  <2>8. Whole!Factory = Factory
    BY DEF Whole!Factory, Factory
  <2> QED
    BY <2>1, <2>2, <2>5, <2>6, <2>7, <2>8, WholeMaps, WholePlaying, WholeNow DEF Whole!Store!Idle
<1>2. MacroInv /\ PlayInv /\ [StepNext]_stepVars => [Whole!Store!StoreNext]_(Whole!Store!storeVars)
  <2> SUFFICES ASSUME MacroInv, PlayInv, [StepNext]_stepVars
               PROVE  [Whole!Store!StoreNext]_(Whole!Store!storeVars)
    OBVIOUS
  <2>1. CASE DoWrite
    <3>1. disturbed' = disturbed
      BY <2>1 DEF DoWrite
    <3> QED BY <2>1, <3>1, WriteStores, LostStores
  <2>2. ASSUME Visible' = Visible, playback_state' = playback_state, disturbed' = disturbed
        PROVE  [Whole!Store!StoreNext]_(Whole!Store!storeVars)
    BY <2>2, WholeMaps, WholePlaying DEF Whole!Store!storeVars, Whole!StoredNow
  <2>3. CASE BeginEnd \/ \E k \in Triggers : BeginStart(k)
    <3>1. Between /\ ~Between' /\ shown' = storage
      BY <2>3, InvStart, InvEnd
    <3>2. playback_state' = playback_state /\ disturbed' = disturbed
      BY <2>3 DEF BeginEnd, BeginStart, BeginRecord, Begin, vars
    <3>3. Visible' = Visible
      BY <3>1 DEF Visible
    <3> QED BY <2>2, <3>2, <3>3
  <2>4. CASE PowerLoss \/ UNCHANGED stepVars
    <3>1. Visible' = Visible /\ playback_state' = playback_state /\ disturbed' = disturbed
      BY <2>4 DEF PowerLoss, stepVars, vars, Visible, Between, storage
    <3> QED BY <2>2, <3>1
  <2>5. CASE \/ \E event \in Events : Append1(event)
             \/ \E k \in ProgramTriggers : ClientWrites(k)
             \/ Play \/ Reset
    <3>1. Between /\ Between'
      BY <2>5, InvOther
    <3>2. CASE Reset
      BY <3>1, <3>2, ResetStores
    <3>3. CASE ~Reset
      <4>1. disturbed => disturbed'
        BY <2>5, <3>3 DEF Append1, macros_append, ClientWrites, ClientAddsProgram, Play,
                          macros_fill_next_report, macros_start_playback
      <4>2. CASE disturbed
        BY <4>1, <4>2, LostStores
      <4>3. CASE ~disturbed /\ disturbed'
        <5>1. recording_state # NotRecording
          BY <2>5, <3>3, <4>3 DEF Append1, macros_append, ClientWrites, ClientAddsProgram, Play,
                                  macros_fill_next_report, macros_start_playback
        <5>2. Whole!RecordingNow # <<>>
          BY <3>1, <5>1, RecordingSeen
        <5> QED BY <4>3, <5>2 DEF Whole!Store!StoreNext, Whole!Store!Lose
      <4>4. CASE ~disturbed /\ ~disturbed'
        BY <2>5, <3>1, <3>3, <4>4, OtherStores
      <4> QED BY <4>2, <4>3, <4>4
    <3> QED BY <3>2, <3>3
  <2> QED
    BY <2>1, <2>3, <2>4, <2>5 DEF StepNext
<1>3. StepInit => MacroInv /\ PlayInv
  BY InvInit, PlayInit
<1>4. MacroInv /\ PlayInv /\ [StepNext]_stepVars => MacroInv' /\ PlayInv'
  BY InvStep, PlayStep
<1> QED
  BY <1>1, <1>2, <1>3, <1>4, PTL
     DEF StepSpec, ImplementsStoreBetween, Whole!ImplementsStore, Whole!Store!StoreSpec

=============================================================================
