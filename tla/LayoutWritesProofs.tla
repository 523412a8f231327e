------------------------- MODULE LayoutWritesProofs -------------------------
(***************************************************************************)
(* Proofs about LayoutWrites, for any number of backup slots, keys and     *)
(* elements of the array, any sequence of calls and a loss of power        *)
(* between any two writes.                                                 *)
(***************************************************************************)
EXTENDS LayoutWrites, Lemmas, TLAPS

(***************************************************************************)
(* The indices between two calls: every backup is an interval, the         *)
(* intervals do not meet, and every element below one belongs to one.      *)
(***************************************************************************)
IndexSet == [start : 0..255, end : 0..255]

Bounded(ix) ==
    \A n \in Used(ix) : ix[n].start <= ix[n].end /\ ix[n].end <= SAVED_MAPPING_COUNT - 2

Filled(ix) ==
    \A n \in Used(ix) : \A p \in 0..ix[n].end :
        \E m \in Used(ix) : ix[m].start <= p /\ p <= ix[m].end

Apart(ix) ==
    \A m, n \in Used(ix) : m # n => ix[m].end < ix[n].start \/ ix[n].end < ix[m].start

PackedIndices(ix) == ix \in [Numbers -> IndexSet] /\ Bounded(ix) /\ Filled(ix) /\ Apart(ix)

\* The sizes are numbers.
LEMMA SizesType ==
    /\ SAVED_MAPPING_COUNT \in 1..256 /\ SAVED_MAPPING_COUNT - 2 \in -1..254
    /\ NO_KEY = 255
    /\ Numbers \in SUBSET Nat /\ Positions \in SUBSET Nat /\ LogicalKeys \in SUBSET Nat
    /\ IsFiniteSet(Numbers) /\ IsFiniteSet(Positions) /\ IsFiniteSet(LogicalKeys)
<1>1. NUM_KEY_MAPPING_INDICES - 1 \in Int /\ SAVED_MAPPING_COUNT - 1 \in Int /\ NUM_LOGICAL_KEYS - 1 \in Int
  BY LayoutSizes
<1>2. IsFiniteSet(Numbers) /\ IsFiniteSet(Positions) /\ IsFiniteSet(LogicalKeys)
  BY <1>1, FS_Interval DEF Numbers, Positions, LogicalKeys
<1>3. Numbers \in SUBSET Nat /\ Positions \in SUBSET Nat /\ LogicalKeys \in SUBSET Nat
  BY <1>1 DEF Numbers, Positions, LogicalKeys
<1> QED
  BY <1>2, <1>3, LayoutSizes DEF NO_KEY

\* The start and end of a backup are numbers inside the array.
LEMMA UsedType ==
    ASSUME NEW ix, PackedIndices(ix), NEW n \in Used(ix)
    PROVE  /\ n \in Numbers /\ ix[n] = [start |-> ix[n].start, end |-> ix[n].end]
           /\ ix[n].start \in 0..254 /\ ix[n].end \in 0..254
           /\ ix[n].start <= ix[n].end /\ ix[n].end <= SAVED_MAPPING_COUNT - 2
<1>1. n \in Numbers /\ ix[n].start # NO_KEY
  BY DEF Used
<1>2. ix[n] \in IndexSet
  BY <1>1 DEF PackedIndices
<1>3. ix[n].start <= ix[n].end /\ ix[n].end <= SAVED_MAPPING_COUNT - 2
  BY DEF PackedIndices, Bounded
<1>4. ix[n] = [start |-> ix[n].start, end |-> ix[n].end]
  BY <1>2 DEF IndexSet
<1>5. ix[n].start \in 0..255 /\ ix[n].end \in 0..255
  BY <1>2 DEF IndexSet
<1> QED
  BY <1>1, <1>3, <1>4, <1>5, SizesType

\* FirstFree is one behind the last backup.
LEMMA FirstFreeIs ==
    ASSUME NEW ix, PackedIndices(ix)
    PROVE  /\ FirstFree(ix) \in 0..(SAVED_MAPPING_COUNT - 1)
           /\ \A n \in Used(ix) : ix[n].end < FirstFree(ix)
           /\ FirstFree(ix) = 0 \/ \E n \in Used(ix) : ix[n].end = FirstFree(ix) - 1
<1> DEFINE E == {-1} \cup {ix[n].end : n \in Used(ix)}
<1>1. \A n \in Used(ix) : ix[n].end \in 0..254 /\ ix[n].end <= SAVED_MAPPING_COUNT - 2
  BY UsedType
<1>2. E \in SUBSET Int /\ E # {} /\ \A x \in E : x <= SAVED_MAPPING_COUNT - 2
  BY <1>1, SizesType
<1>3. \E m \in E : \A y \in E : m >= y
  <2> DEFINE b == SAVED_MAPPING_COUNT - 2
  <2>1. b \in Int /\ \A x \in E : x <= b
    BY <1>2, SizesType
  <2> HIDE DEF E, b
  <2> QED BY <1>2, <2>1, GreatestElement
<1>4. Max(E) \in E /\ \A y \in E : Max(E) >= y
  <2> HIDE DEF E
  <2> QED BY <1>3 DEF Max
<1>5. FirstFree(ix) = Max(E) + 1
  BY DEF FirstFree
<1> DEFINE M == Max(E)
<1>6. M \in Int /\ M <= SAVED_MAPPING_COUNT - 2 /\ M >= -1
  BY <1>2, <1>4, SizesType
<1>7. ASSUME NEW n \in Used(ix) PROVE ix[n].end < M + 1
  <2>1. ix[n].end \in E /\ ix[n].end \in Int
    BY <1>1
  <2>2. M >= ix[n].end
    BY <2>1, <1>4
  <2> HIDE DEF M, E
  <2> QED BY <2>1, <2>2, <1>6
<1>8. M + 1 = 0 \/ \E n \in Used(ix) : ix[n].end = (M + 1) - 1
  <2>1. M = -1 \/ \E n \in Used(ix) : ix[n].end = M
    BY <1>4
  <2> HIDE DEF M, E
  <2> QED BY <2>1, <1>6
<1>9. M + 1 \in 0..(SAVED_MAPPING_COUNT - 1)
  <2> HIDE DEF M, E
  <2> QED BY <1>6, SizesType
<1> QED
  BY <1>5, <1>7, <1>8, <1>9

\* What the properties say about packed indices.
LEMMA PackedFills ==
    ASSUME NEW ix, PackedIndices(ix)
    PROVE  /\ UNION {ix[n].start..ix[n].end : n \in Used(ix)} = 0..(FirstFree(ix) - 1)
           /\ \A m, n \in Used(ix) :
                 m # n => (ix[m].start..ix[m].end) \cap (ix[n].start..ix[n].end) = {}
<1> DEFINE f == FirstFree(ix)
<1>1. f \in 0..(SAVED_MAPPING_COUNT - 1) /\ f \in Nat
  BY FirstFreeIs, SizesType
<1>2. ASSUME NEW p \in UNION {ix[n].start..ix[n].end : n \in Used(ix)} PROVE p \in 0..(f - 1)
  <2>1. PICK n \in Used(ix) : p \in ix[n].start..ix[n].end
    OBVIOUS
  <2>2. ix[n].start \in 0..254 /\ ix[n].end \in 0..254 /\ ix[n].end < f
    BY UsedType, FirstFreeIs
  <2> QED BY <1>1, <2>1, <2>2
<1>3. ASSUME NEW p \in 0..(f - 1) PROVE p \in UNION {ix[n].start..ix[n].end : n \in Used(ix)}
  <2>1. PICK n \in Used(ix) : ix[n].end = f - 1
    <3>1. f # 0
      BY <1>1
    <3> QED BY <3>1, FirstFreeIs
  <2>2. PICK m \in Used(ix) : ix[m].start <= p /\ p <= ix[m].end
    BY <2>1 DEF PackedIndices, Filled
  <2>3. ix[m].start \in 0..254 /\ ix[m].end \in 0..254
    BY UsedType
  <2>4. p \in ix[m].start..ix[m].end
    BY <1>1, <2>2, <2>3
  <2> QED BY <2>4
<1>4. ASSUME NEW m \in Used(ix), NEW n \in Used(ix), m # n
      PROVE  (ix[m].start..ix[m].end) \cap (ix[n].start..ix[n].end) = {}
  <2>1. ix[m].end < ix[n].start \/ ix[n].end < ix[m].start
    BY <1>4 DEF PackedIndices, Apart
  <2>2. /\ ix[m].start \in 0..254 /\ ix[m].end \in 0..254
        /\ ix[n].start \in 0..254 /\ ix[n].end \in 0..254
    BY UsedType, ZenonT(30)
  <2> DEFINE a == ix[m].start
             b == ix[m].end
             c == ix[n].start
             d == ix[n].end
  <2>3. a \in Int /\ b \in Int /\ c \in Int /\ d \in Int /\ (b < c \/ d < a)
    BY <2>1, <2>2, SMTT(30)
  <2>4. (a..b) \cap (c..d) = {}
    <3> HIDE DEF a, b, c, d
    <3> QED BY <2>3, IntervalsApart
  <2> QED BY <2>4
<1> QED
  BY <1>2, <1>3, <1>4

\* The length of a backup does not wrap.
LEMMA LengthIs ==
    ASSUME NEW ix, PackedIndices(ix), NEW n \in Used(ix)
    PROVE  Length(ix[n]) = ix[n].end - ix[n].start + 1 /\ Length(ix[n]) \in 1..255
<1> DEFINE a == ix[n].start
           b == ix[n].end
<1>1. a \in 0..254 /\ b \in 0..254 /\ a <= b
  BY UsedType
<1>2. Length(ix[n]) = (b - a + 1) % 256
  BY DEF Length
<1> HIDE DEF a, b
<1>3. b - a + 1 \in 1..255 /\ (b - a + 1) % 256 = b - a + 1
  BY <1>1
<1>4. Length(ix[n]) = b - a + 1 /\ Length(ix[n]) \in 1..255
  BY <1>2, <1>3
<1> QED
  BY <1>4 DEF a, b

\* What config_delete_layout leaves of indices ix when it removes backup n.
Without(ix, n) == ShiftIndices([ix EXCEPT ![n] = NoIndex], ix[n])

\* The removed index is erased.
LEMMA WithoutItself ==
    ASSUME NEW ix, PackedIndices(ix), NEW n \in Used(ix)
    PROVE  Without(ix, n)[n] = NoIndex
<1>1. n \in Numbers /\ ix \in [Numbers -> IndexSet]
  BY UsedType DEF PackedIndices
<1>2. NoIndex.start = NO_KEY
  BY DEF NoIndex
<1> QED
  BY <1>1, <1>2 DEF Without, ShiftIndices

\* The backups behind it move down by its length.
LEMMA WithoutBehind ==
    ASSUME NEW ix, PackedIndices(ix), NEW n \in Used(ix), NEW m \in Used(ix), m # n,
           ix[m].start > ix[n].end
    PROVE  /\ Without(ix, n)[m] = [start |-> ix[m].start - Length(ix[n]),
                                   end |-> ix[m].end - Length(ix[n])]
           /\ Without(ix, n)[m].start = ix[m].start - Length(ix[n])
           /\ Without(ix, n)[m].end = ix[m].end - Length(ix[n])
<1>1. n \in Numbers /\ m \in Numbers /\ ix \in [Numbers -> IndexSet]
  BY UsedType DEF PackedIndices
<1>2. ix[m].start # NO_KEY
  BY DEF Used
<1>3. Without(ix, n)[m] = [start |-> ix[m].start - Length(ix[n]), end |-> ix[m].end - Length(ix[n])]
  BY <1>1, <1>2 DEF Without, ShiftIndices
<1> QED
  BY <1>3

\* The backups in front of it stay.
LEMMA WithoutFront ==
    ASSUME NEW ix, PackedIndices(ix), NEW n \in Used(ix), NEW m \in Used(ix), m # n,
           ~(ix[m].start > ix[n].end)
    PROVE  Without(ix, n)[m] = ix[m] /\ ix[m].end < ix[n].start
<1>1. n \in Numbers /\ m \in Numbers /\ ix \in [Numbers -> IndexSet]
  BY UsedType DEF PackedIndices
<1>2. Without(ix, n)[m] = ix[m]
  BY <1>1 DEF Without, ShiftIndices
<1>3. ix[m].end < ix[n].start \/ ix[n].end < ix[m].start
  BY DEF PackedIndices, Apart
<1>4. ix[m].start \in 0..254 /\ ix[n].end \in 0..254
  BY UsedType
<1>5. ix[m].end < ix[n].start
  BY <1>3, <1>4
<1> QED
  BY <1>2, <1>5

\* Unused slots stay as they are.
LEMMA WithoutUnused ==
    ASSUME NEW ix, PackedIndices(ix), NEW n \in Used(ix), NEW m \in Numbers, m \notin Used(ix)
    PROVE  Without(ix, n)[m] = ix[m] /\ ix[m].start = NO_KEY
<1>1. n \in Numbers /\ ix \in [Numbers -> IndexSet] /\ m # n
  BY UsedType DEF PackedIndices
<1>2. ix[m].start = NO_KEY
  BY DEF Used
<1>3. [ix EXCEPT ![n] = NoIndex][m] = ix[m]
  BY <1>1
<1> QED
  BY <1>2, <1>3 DEF Without, ShiftIndices

\* The other backups remain, and only they.
LEMMA WithoutUsed ==
    ASSUME NEW ix, PackedIndices(ix), NEW n \in Used(ix)
    PROVE  Used(Without(ix, n)) = Used(ix) \ {n}
<1>1. ASSUME NEW m \in Used(ix), m # n PROVE m \in Used(Without(ix, n))
  <2>1. m \in Numbers /\ ix[m].start \in 0..254 /\ ix[m].start # NO_KEY
    BY UsedType DEF Used
  <2>2. CASE ix[m].start > ix[n].end
    <3> DEFINE a == ix[m].start
               len == Length(ix[n])
    <3>1. Without(ix, n)[m].start = a - len
      BY <1>1, <2>2, WithoutBehind
    <3>2. a \in 0..254 /\ len \in 1..255
      BY <2>1, LengthIs
    <3> HIDE DEF a, len
    <3>3. a - len # 255
      BY <3>2
    <3> QED BY <2>1, <3>1, <3>3 DEF Used, NO_KEY
  <2>3. CASE ~(ix[m].start > ix[n].end)
    <3>1. Without(ix, n)[m] = ix[m]
      BY <1>1, <2>3, WithoutFront
    <3> QED BY <2>1, <3>1 DEF Used
  <2> QED BY <2>2, <2>3
<1>2. ASSUME NEW m \in Used(Without(ix, n)) PROVE m \in Used(ix) \ {n}
  <2>1. m \in Numbers /\ Without(ix, n)[m].start # NO_KEY
    BY DEF Used
  <2>2. m # n
    BY <2>1, WithoutItself DEF NoIndex
  <2>3. m \in Used(ix)
    BY <2>1, WithoutUnused
  <2> QED BY <2>2, <2>3
<1> QED
  BY <1>1, <1>2

\* Deleting keeps every backup an interval inside the array.
LEMMA WithoutBounds ==
    ASSUME NEW ix, PackedIndices(ix), NEW n \in Used(ix), NEW m \in Used(ix), m # n
    PROVE  /\ Without(ix, n)[m] \in IndexSet
           /\ Without(ix, n)[m].start <= Without(ix, n)[m].end
           /\ Without(ix, n)[m].end <= SAVED_MAPPING_COUNT - 2
<1> DEFINE new == Without(ix, n)
           g == ix[n].start
           h == ix[n].end
           len == Length(ix[n])
           a == ix[m].start
           b == ix[m].end
<1>1. /\ g \in 0..254 /\ h \in 0..254 /\ g <= h
      /\ len \in 1..255 /\ len = h - g + 1
  BY UsedType, LengthIs, ZenonT(60)
<1>2. a \in 0..254 /\ b \in 0..254 /\ a <= b /\ b <= SAVED_MAPPING_COUNT - 2
  BY UsedType, ZenonT(30)
<1>3. CASE a > h
  <2>1. new[m] = [start |-> a - len, end |-> b - len] /\ new[m].start = a - len /\ new[m].end = b - len
    BY <1>3, WithoutBehind
  <2> HIDE DEF new, a, b, g, h, len
  <2>2. h < a
    BY <1>1, <1>2, <1>3
  <2>3. /\ a - len \in 0..254 /\ b - len \in 0..254
        /\ a - len <= b - len /\ b - len <= b
    BY <1>1, <1>2, <2>2
  <2>4. a - len \in 0..255 /\ b - len \in 0..255
    BY <2>3
  <2>5. b - len <= SAVED_MAPPING_COUNT - 2
    BY <1>2, <2>3, SizesType
  <2> QED BY <2>1, <2>3, <2>4, <2>5 DEF IndexSet, new
<1>4. CASE ~(a > h)
  <2>1. new[m] = ix[m]
    BY <1>4, WithoutFront
  <2>2. ix[m] \in IndexSet
    BY UsedType DEF PackedIndices
  <2> QED BY <2>1, <2>2, <1>2
<1> QED
  BY <1>3, <1>4

\* Deleting keeps the backups apart.
LEMMA WithoutApart ==
    ASSUME NEW ix, PackedIndices(ix), NEW n \in Used(ix),
           NEW m \in Used(ix), NEW k \in Used(ix), m # n, k # n, m # k
    PROVE  \/ Without(ix, n)[k].end < Without(ix, n)[m].start
           \/ Without(ix, n)[m].end < Without(ix, n)[k].start
<1> DEFINE new == Without(ix, n)
           g == ix[n].start
           h == ix[n].end
           len == Length(ix[n])
           a == ix[m].start
           b == ix[m].end
           c == ix[k].start
           d == ix[k].end
<1>1. /\ g \in 0..254 /\ h \in 0..254 /\ g <= h
      /\ len \in 1..255 /\ len = h - g + 1
  BY UsedType, LengthIs, ZenonT(30)
<1>2. a \in 0..254 /\ b \in 0..254 /\ a <= b
  BY UsedType, ZenonT(30)
<1>3. c \in 0..254 /\ d \in 0..254 /\ c <= d
  BY UsedType, ZenonT(30)
<1>4. d < a \/ b < c
  BY DEF PackedIndices, Apart
<1>5. a > h => new[m].start = a - len /\ new[m].end = b - len
  BY WithoutBehind
<1>6. c > h => new[k].start = c - len /\ new[k].end = d - len
  BY WithoutBehind
<1>7. ~(a > h) => new[m].start = a /\ new[m].end = b /\ b < g
  BY WithoutFront
<1>8. ~(c > h) => new[k].start = c /\ new[k].end = d /\ d < g
  BY WithoutFront
<1> DEFINE a1 == new[m].start
           b1 == new[m].end
           c1 == new[k].start
           d1 == new[k].end
<1> HIDE DEF new, g, h, len, a, b, c, d
<1>9. d1 < a1 \/ b1 < c1
  <2>1. (a > h => a1 = a - len /\ b1 = b - len) /\ (~(a > h) => a1 = a /\ b1 = b /\ b < g)
    BY <1>5, <1>7
  <2>2. (c > h => c1 = c - len /\ d1 = d - len) /\ (~(c > h) => c1 = c /\ d1 = d /\ d < g)
    BY <1>6, <1>8
  <2> HIDE DEF a1, b1, c1, d1
  <2> QED BY <1>1, <1>2, <1>3, <1>4, <2>1, <2>2
<1> QED
  BY <1>9 DEF new

\* Deleting leaves no gap.
LEMMA WithoutFilled ==
    ASSUME NEW ix, PackedIndices(ix), NEW n \in Used(ix), NEW m \in Used(ix), m # n,
           NEW p \in 0..Without(ix, n)[m].end
    PROVE  \E k \in Used(ix) \ {n} : Without(ix, n)[k].start <= p /\ p <= Without(ix, n)[k].end
<1> DEFINE new == Without(ix, n)
           g == ix[n].start
           h == ix[n].end
           len == Length(ix[n])
           a == ix[m].start
           b == ix[m].end
           b1 == new[m].end
<1>1. /\ g \in 0..254 /\ h \in 0..254 /\ g <= h
      /\ len \in 1..255 /\ len = h - g + 1
  BY UsedType, LengthIs, ZenonT(60)
<1>2. a \in 0..254 /\ b \in 0..254 /\ a <= b
  BY UsedType, ZenonT(30)
<1>3. (a > h => b1 = b - len) /\ (~(a > h) => b1 = b /\ b < g)
  BY WithoutBehind, WithoutFront
<1>4. p \in 0..b1
  OBVIOUS
<1>5. CASE p < g
  <2>1. p \in 0..b
    <3> HIDE DEF new, g, h, len, a, b, b1
    <3> QED BY <1>1, <1>2, <1>3, <1>4, <1>5
  <2>2. PICK k \in Used(ix) : ix[k].start <= p /\ p <= ix[k].end
    BY <2>1 DEF PackedIndices, Filled
  <2> DEFINE c == ix[k].start
             d == ix[k].end
  <2>3. c \in 0..254 /\ d \in 0..254
    BY UsedType
  <2>4. c < g
    <3> HIDE DEF g, h, len, a, b, c, d
    <3>1. c <= p
      BY <2>2 DEF c
    <3> QED BY <2>3, <1>1, <1>5, <2>1, <1>2, <3>1
  <2>5. k # n
    <3>1. g \in Int /\ c \in Int /\ c < g
      BY <1>1, <2>3, <2>4
    <3>2. c # g
      <4> HIDE DEF g, c
      <4> QED BY <3>1
    <3> QED BY <3>2
  <2>6. ~(c > h)
    <3> HIDE DEF g, h, len, c
    <3> QED BY <1>1, <2>3, <2>4
  <2>7. new[k] = ix[k]
    BY <2>5, <2>6, WithoutFront
  <2> QED BY <2>2, <2>5, <2>7
<1>6. CASE ~(p < g)
  <2>1. p + len \in 0..b /\ p + len > h
    <3> HIDE DEF new, g, h, len, a, b, b1
    <3>1. p \in Nat
      BY <1>1, <1>2, <1>3, <1>4
    <3>2. a > h
      BY <1>1, <1>2, <1>3, <1>4, <1>6
    <3>3. p + len \in 0..b
      BY <1>1, <1>2, <1>3, <1>4, <3>2
    <3>4. p + len > h
      BY <1>1, <1>6, <3>1
    <3> QED BY <3>3, <3>4
  <2> DEFINE q == p + len
  <2>2. PICK k \in Used(ix) : ix[k].start <= q /\ q <= ix[k].end
    BY <2>1 DEF PackedIndices, Filled
  <2> DEFINE c == ix[k].start
             d == ix[k].end
  <2>3. c \in 0..254 /\ d \in 0..254 /\ c <= q /\ q <= d
    BY <2>2, UsedType
  <2>4. d > h /\ d # h
    <3> HIDE DEF h, c, d, q
    <3>1. q \in 0..b /\ q > h /\ b \in Int
      BY <2>1, <1>2 DEF q
    <3> QED BY <2>3, <3>1, <1>1
  <2>5. k # n
    BY <2>4
  <2>6. c > h
    <3>1. ASSUME ~(c > h) PROVE d < g
      BY <2>5, <3>1, WithoutFront
    <3> HIDE DEF g, h, len, c, d
    <3> QED BY <1>1, <2>3, <2>4, <3>1
  <2>7. new[k].start = c - len /\ new[k].end = d - len
    BY <2>5, <2>6, WithoutBehind
  <2>8. p \in Nat
    <3> HIDE DEF new, g, h, len, a, b, b1
    <3> QED BY <1>1, <1>2, <1>3, <1>4
  <2>9. c - len <= p /\ p <= d - len
    <3>1. c <= p + len /\ p + len <= d
      BY <2>3
    <3> HIDE DEF g, h, len, c, d, q
    <3> QED BY <1>1, <2>3, <2>8, <3>1
  <2> QED BY <2>5, <2>7, <2>9
<1> QED
  BY <1>5, <1>6

\* Deleting keeps the indices packed.
LEMMA WithoutPacked ==
    ASSUME NEW ix, PackedIndices(ix), NEW n \in Used(ix)
    PROVE  PackedIndices(Without(ix, n))
<1> DEFINE new == Without(ix, n)
<1>1. Used(new) = Used(ix) \ {n}
  BY WithoutUsed
<1>2. new \in [Numbers -> IndexSet]
  <2>1. new = [m \in Numbers |-> new[m]]
    BY DEF Without, ShiftIndices
  <2>2. ASSUME NEW m \in Numbers PROVE new[m] \in IndexSet
    <3>1. CASE m = n
      BY <3>1, WithoutItself DEF NoIndex, IndexSet, NO_KEY
    <3>2. CASE m \notin Used(ix)
      <4>1. new[m] = ix[m]
        BY <3>2, WithoutUnused
      <4> QED BY <4>1 DEF PackedIndices
    <3>3. CASE m \in Used(ix) /\ m # n
      BY <3>3, WithoutBounds
    <3> QED BY <3>1, <3>2, <3>3
  <2> HIDE DEF new
  <2> QED BY <2>1, <2>2
<1>3. Bounded(new)
  BY <1>1, WithoutBounds DEF Bounded
<1>4. Apart(new)
  <2>1. ASSUME NEW k \in Used(new), NEW m \in Used(new), k # m
        PROVE  new[k].end < new[m].start \/ new[m].end < new[k].start
    <3>1. k \in Used(ix) /\ m \in Used(ix) /\ k # n /\ m # n
      BY <1>1
    <3> QED BY <2>1, <3>1, WithoutApart
  <2> QED BY <2>1 DEF Apart
<1>5. Filled(new)
  <2>1. ASSUME NEW m \in Used(new), NEW p \in 0..new[m].end
        PROVE  \E k \in Used(new) : new[k].start <= p /\ p <= new[k].end
    <3>1. m \in Used(ix) /\ m # n
      BY <1>1
    <3> QED BY <1>1, <3>1, WithoutFilled
  <2> QED BY <2>1 DEF Filled
<1> QED
  BY <1>2, <1>3, <1>4, <1>5 DEF PackedIndices
\* What config_save_layout adds to indices ix that hold no backup n: c elements
\* behind the others.
With(ix, n, c) == [ix EXCEPT ![n] = [start |-> FirstFree(ix), end |-> FirstFree(ix) + c - 1]]

\* Saving keeps the indices packed.
LEMMA WithPacked ==
    ASSUME NEW ix, PackedIndices(ix), NEW n \in Numbers, n \notin Used(ix),
           NEW c \in Nat \ {0}, FirstFree(ix) + c <= SAVED_MAPPING_COUNT - 1
    PROVE  PackedIndices(With(ix, n, c)) /\ Used(With(ix, n, c)) = Used(ix) \cup {n}
<1> DEFINE f == FirstFree(ix)
           new == With(ix, n, c)
<1>1. f \in Nat /\ f \in 0..254 /\ f + c - 1 \in 0..254 /\ f + c - 1 <= SAVED_MAPPING_COUNT - 2
  <2>1. f \in 0..(SAVED_MAPPING_COUNT - 1)
    BY FirstFreeIs
  <2> HIDE DEF f
  <2>2. f + c <= SAVED_MAPPING_COUNT - 1
    BY DEF f
  <2> QED BY <2>1, <2>2, SizesType
<1>2. new[n] = [start |-> f, end |-> f + c - 1] /\ new[n].start = f /\ new[n].end = f + c - 1
  BY DEF With, PackedIndices
<1>3. \A m \in Numbers \ {n} : new[m] = ix[m]
  BY DEF With, PackedIndices
<1>4. \A m \in Used(ix) : m # n /\ m \in Numbers
  BY DEF Used
<1>5. Used(new) = Used(ix) \cup {n}
  <2>1. f # NO_KEY
    BY <1>1, SizesType
  <2> HIDE DEF new, f
  <2> QED BY <1>2, <1>3, <2>1 DEF Used
<1>6. new \in [Numbers -> IndexSet]
  <2>1. [start |-> f, end |-> f + c - 1] \in IndexSet
    <3>1. f \in 0..255 /\ f + c - 1 \in 0..255
      BY <1>1
    <3> HIDE DEF f
    <3> QED BY <3>1 DEF IndexSet
  <2> HIDE DEF f
  <2> QED BY <2>1 DEF With, PackedIndices, f
<1>7. Bounded(new)
  <2>1. new[n].start <= new[n].end /\ new[n].end <= SAVED_MAPPING_COUNT - 2
    <3>1. f <= f + c - 1
      <4> HIDE DEF f
      <4> QED BY <1>1
    <3> QED BY <1>1, <1>2, <3>1
  <2>2. ASSUME NEW m \in Used(ix)
        PROVE  new[m].start <= new[m].end /\ new[m].end <= SAVED_MAPPING_COUNT - 2
    <3>1. new[m] = ix[m]
      BY <1>3, <1>4
    <3> QED BY <3>1, UsedType, ZenonT(60)
  <2> HIDE DEF new
  <2> QED BY <1>5, <2>1, <2>2 DEF Bounded
<1>8. Apart(new)
  <2>1. ASSUME NEW m \in Used(ix) PROVE new[m].end < new[n].start
    <3>1. new[m] = ix[m]
      BY <1>3, <1>4
    <3> QED BY <3>1, <1>2, FirstFreeIs
  <2>2. ASSUME NEW m \in Used(ix), NEW k \in Used(ix), m # k
        PROVE  new[m].end < new[k].start \/ new[k].end < new[m].start
    <3>1. new[m] = ix[m] /\ new[k] = ix[k]
      BY <1>3, <1>4
    <3> QED BY <2>2, <3>1 DEF PackedIndices, Apart
  <2> HIDE DEF new
  <2> QED BY <1>5, <2>1, <2>2 DEF Apart
<1>9. Filled(new)
  <2>1. ASSUME NEW m \in Used(ix), NEW p \in 0..ix[m].end
        PROVE  \E k \in Used(new) : new[k].start <= p /\ p <= new[k].end
    <3>1. PICK k \in Used(ix) : ix[k].start <= p /\ p <= ix[k].end
      BY DEF PackedIndices, Filled
    <3>2. new[k] = ix[k] /\ k \in Used(new)
      BY <1>3, <1>4, <1>5
    <3> QED BY <3>1, <3>2
  <2>2. ASSUME NEW p \in 0..new[n].end
        PROVE  \E k \in Used(new) : new[k].start <= p /\ p <= new[k].end
    <3>1. p \in Nat /\ p <= f + c - 1
      <4> HIDE DEF f, new
      <4> QED BY <1>1, <1>2
    <3>2. CASE f <= p
      <4> HIDE DEF f, new
      <4> QED BY <1>2, <1>5, <3>1, <3>2
    <3>3. CASE ~(f <= p)
      <4>1. f # 0 /\ p <= f - 1 /\ f - 1 \in Nat
        <5> HIDE DEF f
        <5> QED BY <1>1, <3>1, <3>3
      <4>2. PICK m \in Used(ix) : ix[m].end = f - 1
        BY <4>1, FirstFreeIs
      <4>3. p \in 0..ix[m].end
        <5> HIDE DEF f
        <5> QED BY <3>1, <4>1, <4>2
      <4> QED BY <2>1, <4>3
    <3> QED BY <3>2, <3>3
  <2>3. ASSUME NEW m \in Used(new), NEW p \in 0..new[m].end
        PROVE  \E k \in Used(new) : new[k].start <= p /\ p <= new[k].end
    <3>1. CASE m = n
      BY <2>2, <3>1
    <3>2. CASE m # n
      <4>1. m \in Used(ix) /\ new[m] = ix[m]
        BY <1>3, <1>4, <1>5, <3>2
      <4> QED BY <2>1, <4>1
    <3> QED BY <3>1, <3>2
  <2> QED BY <2>3 DEF Filled
<1> QED
  BY <1>5, <1>6, <1>7, <1>8, <1>9 DEF PackedIndices

(***************************************************************************)
(* The writes of the calls lead to what the operations of SavedLayouts     *)
(* leave.                                                                  *)
(***************************************************************************)
\* The one index a delete erases is written first.
LEMMA EraseYields ==
    ASSUME NEW n
    PROVE  /\ IsList(<<Write("indices", n, NoIndex)>>)
           /\ \A old : Yields(<<Write("indices", n, NoIndex)>>, "indices", n, old, NoIndex)
           /\ \A part, at : part # "indices" \/ at # n =>
                 Untouched(<<Write("indices", n, NoIndex)>>, part, at)
<1> DEFINE ws == <<Write("indices", n, NoIndex)>>
<1>1. Len(ws) = 1 /\ ws[1] = Write("indices", n, NoIndex) /\ IsList(ws)
  <2>1. ws = [i \in 1..1 |-> ws[i]]
    OBVIOUS
  <2> QED BY <2>1 DEF IsList
<1>2. ws[1].part = "indices" /\ ws[1].at = n /\ ws[1].value = NoIndex
  BY <1>1 DEF Write
<1> HIDE DEF ws
<1>3. ASSUME NEW old PROVE Yields(ws, "indices", n, old, NoIndex)
  <2>1. 1 \in 1..Len(ws) /\ \A j \in 1..Len(ws) : j = 1
    BY <1>1
  <2> QED BY <1>1, <1>2, <2>1, YieldsOnce, SMTT(30) DEF To
<1>4. ASSUME NEW part, NEW at, part # "indices" \/ at # n
      PROVE  Untouched(ws, part, at)
  BY <1>1, <1>2, <1>4 DEF Untouched, To
<1> QED
  BY <1>1, <1>3, <1>4 DEF ws

\* ShiftWrites writes every index that changes once.
LEMMA ShiftYields ==
    ASSUME NEW n \in Numbers
    PROVE  /\ IsList(ShiftWrites(n))
           /\ \A part, at : part # "indices" \/ at = n => Untouched(ShiftWrites(n), part, at)
           /\ \A m \in Numbers : DeletedIndices(n)[m] = saved_key_mapping_indices[m] =>
                 Untouched(ShiftWrites(n), "indices", m)
           /\ \A m \in Numbers \ {n} :
                 Yields(ShiftWrites(n), "indices", m, saved_key_mapping_indices[m], DeletedIndices(n)[m])
<1> DEFINE left == DeletedIndices(n)
           M == {m \in Numbers \ {n} : left[m] # saved_key_mapping_indices[m]}
           k == Cardinality(M)
           ws == ShiftWrites(n)
<1>2. M \in SUBSET Int /\ IsFiniteSet(M) /\ k \in Nat
  <2>1. M \in SUBSET Numbers
    OBVIOUS
  <2> HIDE DEF M
  <2>2. M \in SUBSET Int
    BY <2>1, SizesType
  <2>3. IsFiniteSet(M)
    BY <2>1, SizesType, FS_Subset
  <2> QED BY <2>2, <2>3, FS_CardinalityType
<1>1. ws = [i \in 1..k |-> Write("indices", Ascending(M)[i], left[Ascending(M)[i]])]
  <2>1. Len(Ascending(M)) = k
    <3> HIDE DEF M
    <3> QED BY <1>2, AscendingLen
  <2> QED BY <2>1 DEF ShiftWrites
<1>3. \A m \in M : m \in Numbers /\ m # n
  OBVIOUS
<1>4. \A m \in Numbers \ {n} : m \notin M => left[m] = saved_key_mapping_indices[m]
  OBVIOUS
<1> HIDE DEF M, left, ws, k
<1>5. Len(ws) = k /\ IsList(ws)
  <2>1. Len(ws) = k
    BY <1>1, <1>2
  <2>2. ws = [i \in 1..k |-> ws[i]]
    BY <1>1
  <2> QED BY <1>2, <2>1, <2>2 DEF IsList
<1>6. \A i \in 1..k : /\ Ascending(M)[i] \in M /\ RankIn(M, Ascending(M)[i]) = i - 1
  BY <1>2, AscendingAt DEF k
<1>7. \A i \in 1..k : ws[i].part = "indices" /\ ws[i].at = Ascending(M)[i] /\ ws[i].value = left[Ascending(M)[i]]
  BY <1>1 DEF Write
<1>8. ASSUME NEW part, NEW at, part # "indices" \/ at \notin M
      PROVE  Untouched(ws, part, at)
  BY <1>5, <1>6, <1>7, <1>8 DEF Untouched, To
<1>9. ASSUME NEW m \in M, NEW old PROVE Yields(ws, "indices", m, old, left[m])
  <2> DEFINE i == RankIn(M, m) + 1
  <2>1. i \in 1..k /\ Ascending(M)[i] = m
    BY <1>2, AscendingAll DEF k
  <2>2. ASSUME NEW j \in 1..Len(ws), To(ws[j], "indices", m) PROVE j = i
    <3>1. Ascending(M)[j] = m /\ RankIn(M, m) = j - 1 /\ j \in Int
      BY <2>2, <1>5, <1>6, <1>7 DEF To
    <3> QED BY <3>1
  <2> HIDE DEF i
  <2> QED BY <1>2, <1>5, <1>7, <2>1, <2>2, YieldsOnce DEF To
<1>10. ASSUME NEW m \in Numbers \ {n}
       PROVE  Yields(ws, "indices", m, saved_key_mapping_indices[m], left[m])
  <2>1. CASE m \in M
    BY <1>9, <2>1
  <2>2. CASE m \notin M
    BY <1>4, <1>8, <2>2, UntouchedYields
  <2> QED BY <2>1, <2>2
<1>11. n \notin M /\ \A m \in Numbers : left[m] = saved_key_mapping_indices[m] => m \notin M
  BY <1>3 DEF M
<1> QED
  BY <1>5, <1>8, <1>10, <1>11 DEF ws, left

\* The last position in use behind a backup.
LEMMA MaxEndIs ==
    ASSUME NEW ix, PackedIndices(ix), NEW n \in Used(ix)
    PROVE  MaxEnd(ix, ix[n]) \in ix[n].end..(SAVED_MAPPING_COUNT - 2)
<1> DEFINE B == {m \in Used(ix) : ix[m].start > ix[n].end}
           E == {ix[n].end} \cup {ix[m].end : m \in B}
           b == SAVED_MAPPING_COUNT - 2
           h == ix[n].end
<1>1. b \in Int /\ \A m \in Used(ix) : ix[m].end \in Int /\ ix[m].end <= b
  <2>1. b \in Int
    BY SizesType
  <2>2. \A m \in Used(ix) : ix[m].end \in 0..254 /\ ix[m].end <= b
    BY UsedType
  <2> QED BY <2>1, <2>2
<1>2. E \in SUBSET Int /\ h \in E /\ \A x \in E : x <= b
  BY <1>1
<1>3. \E m \in E : \A y \in E : m >= y
  <2> HIDE DEF E, b, h
  <2> QED BY <1>1, <1>2, GreatestElement
<1>4. Max(E) \in E /\ \A y \in E : Max(E) >= y
  <2> HIDE DEF E
  <2> QED BY <1>3 DEF Max
<1>5. MaxEnd(ix, ix[n]) = Max(E)
  BY DEF MaxEnd
<1>6. Max(E) \in Int /\ h \in Int /\ Max(E) >= h /\ Max(E) <= b
  <2> HIDE DEF E, b, h
  <2> QED BY <1>2, <1>4
<1> DEFINE x == Max(E)
<1>7. x \in h..b
  <2> HIDE DEF x, h, b
  <2> QED BY <1>1, <1>6 DEF x
<1> QED
  BY <1>5, <1>7

\* MoveWrites writes every element that moves once.
LEMMA MoveYields ==
    ASSUME PackedIndices(saved_key_mapping_indices), NEW n \in Used(saved_key_mapping_indices)
    PROVE  /\ IsList(MoveWrites(n))
           /\ \A part, at : part # "mappings" => Untouched(MoveWrites(n), part, at)
           /\ \A p \in Positions : p < saved_key_mapping_indices[n].start =>
                 Untouched(MoveWrites(n), "mappings", p)
           /\ \A p \in Positions :
                 Yields(MoveWrites(n), "mappings", p, saved_key_mappings[p], DeletedMappings(n)[p])
<1> DEFINE gone == saved_key_mapping_indices[n]
           g == gone.start
           h == gone.end
           len == Length(gone)
           last == MaxEnd(saved_key_mapping_indices, gone)
           left == DeletedMappings(n)
           ws == MoveWrites(n)
           k == last - h
<1>1. g \in 0..254 /\ h \in 0..254 /\ g <= h /\ len \in 1..255 /\ len = h - g + 1
  BY UsedType, LengthIs, ZenonT(30)
<1>2. last \in h..(SAVED_MAPPING_COUNT - 2)
  BY MaxEndIs
<1>3. ws = [i \in 1..k |-> Write("mappings", g + i - 1, left[g + i - 1])]
  BY DEF MoveWrites
<1>4. ASSUME NEW p \in Positions, p \notin g..(last - len) PROVE left[p] = saved_key_mappings[p]
  BY <1>4 DEF DeletedMappings
<1> HIDE DEF gone, g, h, len, last, left, ws, k
<1>5. k \in Nat
  BY <1>1, <1>2, SizesType DEF k
<1>6. Len(ws) = k /\ IsList(ws)
  <2>1. Len(ws) = k
    BY <1>3, <1>5
  <2>2. ws = [i \in 1..k |-> ws[i]]
    BY <1>3
  <2> QED BY <1>5, <2>1, <2>2 DEF IsList
<1>7. \A i \in 1..k : ws[i].part = "mappings" /\ ws[i].at = g + i - 1 /\ ws[i].value = left[g + i - 1]
  BY <1>3 DEF Write
<1>8. ASSUME NEW part, NEW at, part # "mappings" PROVE Untouched(ws, part, at)
  BY <1>6, <1>7, <1>8 DEF Untouched, To
<1>9. ASSUME NEW p \in Positions PROVE Yields(ws, "mappings", p, saved_key_mappings[p], left[p])
  <2>0. p \in Nat
    BY SizesType
  <2>1. CASE p \in g..(last - len)
    <3> DEFINE i == p - g + 1
    <3>1. last \in Int /\ i \in 1..k /\ g + i - 1 = p
      <4>1. last \in Int
        BY <1>1, <1>2, SizesType
      <4>2. i \in Int /\ i >= 1 /\ g + i - 1 = p
        BY <1>1, <2>0, <2>1, <4>1
      <4>3. i <= k
        BY <1>1, <2>0, <2>1, <4>1 DEF k
      <4> QED BY <4>1, <4>2, <4>3, <1>5
    <3>2. ASSUME NEW j \in 1..Len(ws), To(ws[j], "mappings", p) PROVE j = i
      <4>1. j \in 1..k /\ j \in Int /\ g + j - 1 = p
        BY <3>2, <1>5, <1>6, <1>7 DEF To
      <4> QED BY <4>1, <1>1
    <3> HIDE DEF i
    <3> QED BY <1>5, <1>6, <1>7, <3>1, <3>2, YieldsOnce DEF To
  <2>2. CASE p \notin g..(last - len)
    <3>1. left[p] = saved_key_mappings[p]
      BY <1>4, <2>2
    <3>2. ASSUME NEW j \in 1..k, g + j - 1 = p PROVE FALSE
      <4>1. last \in Int
        BY <1>1, <1>2, SizesType
      <4>2. p >= g
        BY <1>1, <3>2
      <4>3. p <= last - len
        BY <1>1, <1>5, <3>2, <4>1 DEF k
      <4> QED BY <1>1, <2>0, <2>2, <4>1, <4>2, <4>3
    <3> QED BY <3>1, <3>2, <1>6, <1>7 DEF Yields, Untouched, To
  <2> QED BY <2>1, <2>2
<1>10. ASSUME NEW p \in Positions, p < g PROVE Untouched(ws, "mappings", p)
  <2>1. p \in Nat
    BY SizesType
  <2>2. ASSUME NEW i \in 1..k PROVE g + i - 1 # p
    BY <1>1, <1>5, <1>10, <2>1
  <2> QED BY <1>6, <1>7, <2>2 DEF Untouched, To
<1> QED
  BY <1>6, <1>8, <1>9, <1>10 DEF ws, left, g, gone

\* The writes of config_delete_layout lead to what it leaves.
LEMMA DeleteYields ==
    ASSUME PackedIndices(saved_key_mapping_indices), NEW n \in Used(saved_key_mapping_indices)
    PROVE  /\ IsList(DeleteWrites(n)) /\ Len(DeleteWrites(n)) >= 1
           /\ DeleteWrites(n)[1] = Write("indices", n, NoIndex)
           /\ YieldsAll(DeleteWrites(n), "indices", Numbers, saved_key_mapping_indices, DeletedIndices(n))
           /\ YieldsAll(DeleteWrites(n), "mappings", Positions, saved_key_mappings, DeletedMappings(n))
           /\ \A at : Untouched(DeleteWrites(n), "map", at)
<1> DEFINE e == <<Write("indices", n, NoIndex)>>
           s == ShiftWrites(n)
           d == MoveWrites(n)
<1>1. n \in Numbers /\ HasBackup(n)
  BY DEF Used, HasBackup
<1>2. DeleteWrites(n) = (e \o s) \o d
  BY <1>1 DEF DeleteWrites
<1>3. IsList(e) /\ IsList(s) /\ IsList(d) /\ IsList(e \o s)
  BY <1>1, EraseYields, ShiftYields, MoveYields, ListBoth
<1>4. /\ \A old : Yields(e, "indices", n, old, NoIndex)
      /\ \A part, at : part # "indices" \/ at # n => Untouched(e, part, at)
  BY EraseYields
<1>5. /\ \A part, at : part # "indices" \/ at = n => Untouched(s, part, at)
      /\ \A m \in Numbers \ {n} : Yields(s, "indices", m, saved_key_mapping_indices[m], DeletedIndices(n)[m])
  BY <1>1, ShiftYields
<1>6. /\ \A part, at : part # "mappings" => Untouched(d, part, at)
      /\ \A p \in Positions : Yields(d, "mappings", p, saved_key_mappings[p], DeletedMappings(n)[p])
  BY MoveYields
<1>7. Len(e) = 1 /\ e[1] = Write("indices", n, NoIndex)
  OBVIOUS
<1>8. DeletedIndices(n)[n] = NoIndex
  BY WithoutItself DEF Without, DeletedIndices
<1> HIDE DEF e, s, d
<1>9. IsList((e \o s) \o d) /\ Len((e \o s) \o d) >= 1 /\ ((e \o s) \o d)[1] = e[1]
  <2>0. Len(e \o s) = Len(e) + Len(s) /\ Len(s) \in Nat
    BY <1>3, ListBoth
  <2>1. Len(e \o s) = 1 + Len(s) /\ Len(s) \in Nat
    BY <1>7, <2>0
  <2>2. IsList((e \o s) \o d) /\ Len((e \o s) \o d) = Len(e \o s) + Len(d) /\ Len(d) \in Nat
    BY <1>3, ListBoth
  <2>3. 1 \in 1..Len(e) /\ 1 \in 1..Len(e \o s)
    BY <1>7, <2>1
  <2>4. (e \o s)[1] = e[1]
    BY <1>3, <2>3, ListBoth
  <2>5. ((e \o s) \o d)[1] = (e \o s)[1]
    BY <1>3, <2>3, ListBoth
  <2> QED BY <2>1, <2>2, <2>4, <2>5
<1>10. ASSUME NEW m \in Numbers
       PROVE  Yields((e \o s) \o d, "indices", m, saved_key_mapping_indices[m], DeletedIndices(n)[m])
  <2>1. Yields(d, "indices", m, DeletedIndices(n)[m], DeletedIndices(n)[m])
    BY <1>6, UntouchedYields
  <2>2. Yields(e \o s, "indices", m, saved_key_mapping_indices[m], DeletedIndices(n)[m])
    <3>1. CASE m = n
      <4>1. Yields(s, "indices", m, NoIndex, NoIndex)
        BY <1>5, <3>1, UntouchedYields
      <4>2. Yields(e, "indices", m, saved_key_mapping_indices[m], NoIndex)
        BY <1>4, <3>1
      <4> QED BY <1>3, <1>8, <3>1, <4>1, <4>2, YieldsBoth
    <3>2. CASE m # n
      <4>1. Yields(s, "indices", m, saved_key_mapping_indices[m], DeletedIndices(n)[m])
        BY <1>5, <3>2
      <4>2. Yields(e, "indices", m, saved_key_mapping_indices[m], saved_key_mapping_indices[m])
        BY <1>4, <3>2, UntouchedYields
      <4> QED BY <1>3, <4>1, <4>2, YieldsBoth
    <3> QED BY <3>1, <3>2
  <2> QED BY <1>3, <2>1, <2>2, YieldsBoth
<1>11. ASSUME NEW p \in Positions
       PROVE  Yields((e \o s) \o d, "mappings", p, saved_key_mappings[p], DeletedMappings(n)[p])
  <2>1. Untouched(e, "mappings", p) /\ Untouched(s, "mappings", p)
    BY <1>4, <1>5
  <2>2. Yields(e \o s, "mappings", p, saved_key_mappings[p], saved_key_mappings[p])
    BY <1>3, <2>1, UntouchedBoth, UntouchedYields
  <2> QED BY <1>3, <1>6, <2>2, YieldsBoth
<1>12. ASSUME NEW at PROVE Untouched((e \o s) \o d, "map", at)
  <2>1. Untouched(e, "map", at) /\ Untouched(s, "map", at) /\ Untouched(d, "map", at)
    BY <1>4, <1>5, <1>6
  <2>2. Untouched(e \o s, "map", at)
    BY <1>3, <2>1, UntouchedBoth
  <2> QED BY <1>3, <2>1, <2>2, UntouchedBoth
<1> QED
  BY <1>2, <1>7, <1>9, <1>10, <1>11, <1>12 DEF YieldsAll

\* The differences from the factory layout are finitely many.
LEMMA DifferencesFinite ==
    /\ Differences \in SUBSET Int /\ IsFiniteSet(Differences) /\ Cardinality(Differences) \in Nat
    /\ Differences # {} => Cardinality(Differences) \in Nat \ {0}
<1>1. Differences \in SUBSET LogicalKeys
  BY DEF Differences
<1>2. IsFiniteSet(Differences)
  BY <1>1, SizesType, FS_Subset
<1>3. Differences \in SUBSET Int
  BY <1>1, SizesType
<1>4. Cardinality(Differences) \in Nat
  BY <1>2, FS_CardinalityType
<1>5. Cardinality(Differences) = 0 => Differences = {}
  BY <1>2, FS_EmptySet
<1> QED
  BY <1>2, <1>3, <1>4, <1>5

\* DifferenceWrites fills the array with the differences that fit, in the order
\* of the keys, and leaves everything in front of them alone.
LEMMA DifferenceYields ==
    ASSUME NEW start \in Nat, NEW mappings
    PROVE  /\ IsList(DifferenceWrites(start))
           /\ \A part, at : part # "mappings" => Untouched(DifferenceWrites(start), part, at)
           /\ \A p \in Positions : p < start => Untouched(DifferenceWrites(start), "mappings", p)
           /\ YieldsAll(DifferenceWrites(start), "mappings", Positions, mappings,
                        WrittenMappings(mappings, start))
<1> DEFINE K == {l \in Differences : PositionOf(l, start) < SAVED_MAPPING_COUNT - 1}
           k == Cardinality(K)
           s == Ascending(K)
           ws == DifferenceWrites(start)
           rank(l) == RankIn(Differences, l)
<1>1. /\ K \in SUBSET Differences /\ K \in SUBSET Int /\ IsFiniteSet(K) /\ k \in Nat
      /\ Differences \in SUBSET Int /\ IsFiniteSet(Differences)
  <2>1. K \in SUBSET Differences
    OBVIOUS
  <2> HIDE DEF K
  <2> QED BY <2>1, DifferencesFinite, FS_Subset, FS_CardinalityType
<1>2. \A l \in Differences : PositionOf(l, start) = start + rank(l)
  BY DEF PositionOf, RankIn
<1>3. ASSUME NEW l \in Differences
      PROVE  rank(l) \in Nat
  <2>1. Cardinality(Differences) \in Nat /\ rank(l) \in 0..(Cardinality(Differences) - 1)
    BY <1>1, FS_CardinalityType, RankRange
  <2> QED BY <2>1
<1>4. ASSUME NEW l \in K PROVE RankIn(K, l) = rank(l)
  <2>1. ASSUME NEW m \in Differences, m < l PROVE m \in K
    <3>1. {y \in Differences : y < m} \in SUBSET {y \in Differences : y < l}
      <4>1. m \in Int /\ l \in Int /\ \A y \in Differences : y \in Int
        BY <1>1
      <4>2. ASSUME NEW y \in Differences, y < m PROVE y < l
        BY <2>1, <4>1, <4>2
      <4> QED BY <4>2
    <3>2. IsFiniteSet({y \in Differences : y < l})
      BY <1>1, FS_Subset
    <3>3. rank(m) <= rank(l)
      BY <3>1, <3>2, FS_Subset DEF RankIn
    <3> DEFINE a == rank(m)
               b == rank(l)
    <3>4. a \in Nat /\ b \in Nat /\ a <= b /\ start + b < SAVED_MAPPING_COUNT - 1
      BY <1>1, <1>2, <1>3, <3>3
    <3>5. start + a < SAVED_MAPPING_COUNT - 1
      <4> HIDE DEF a, b
      <4> QED BY <3>4, SizesType
    <3> QED BY <1>2, <3>5
  <2>2. {y \in K : y < l} = {y \in Differences : y < l}
    BY <2>1
  <2> QED BY <2>2 DEF RankIn
<1>5. ws = [i \in 1..k |-> Write("mappings", start + i - 1, [l_key |-> s[i], h_key |-> logical_to_hid_map[s[i]]])]
  <2>1. Len(s) = k
    <3> HIDE DEF K
    <3> QED BY <1>1, AscendingLen
  <2> QED BY <2>1 DEF DifferenceWrites
<1>6. ASSUME NEW i \in 1..k PROVE s[i] \in K /\ rank(s[i]) = i - 1
  <2>1. s[i] \in K /\ RankIn(K, s[i]) = i - 1
    <3> HIDE DEF K
    <3> QED BY <1>1, AscendingAt
  <2> QED BY <1>4, <2>1
<1>7. ASSUME NEW l \in K PROVE rank(l) + 1 \in 1..k /\ s[rank(l) + 1] = l
  <2>1. RankIn(K, l) + 1 \in 1..k /\ s[RankIn(K, l) + 1] = l
    <3> HIDE DEF K
    <3> QED BY <1>1, AscendingAll
  <2> QED BY <1>4, <2>1
<1>8. ASSUME NEW l \in Differences, NEW m \in Differences, rank(l) = rank(m) PROVE l = m
  BY <1>1, <1>8, RankInjective
<1>9. \A l \in Differences : l \in K <=> start + rank(l) < SAVED_MAPPING_COUNT - 1
  BY <1>2
<1> HIDE DEF K, k, s, ws, rank
<1>10. Len(ws) = k /\ IsList(ws)
  <2>1. Len(ws) = k
    BY <1>1, <1>5
  <2>2. ws = [i \in 1..k |-> ws[i]]
    BY <1>5
  <2> QED BY <1>1, <2>1, <2>2 DEF IsList
<1>11. \A i \in 1..k : /\ ws[i].part = "mappings" /\ ws[i].at = start + i - 1
                       /\ ws[i].value = [l_key |-> s[i], h_key |-> logical_to_hid_map[s[i]]]
  BY <1>5 DEF Write
<1>12. ASSUME NEW part, NEW at, part # "mappings" PROVE Untouched(ws, part, at)
  BY <1>10, <1>11, <1>12 DEF Untouched, To
<1>13. ASSUME NEW p \in Positions, p < start PROVE Untouched(ws, "mappings", p)
  <2>1. p \in Nat
    BY SizesType
  <2>2. ASSUME NEW i \in 1..k PROVE start + i - 1 # p
    BY <1>1, <1>13, <2>1
  <2> QED BY <1>10, <1>11, <2>2 DEF Untouched, To
<1>14. ASSUME NEW p \in Positions
       PROVE  Yields(ws, "mappings", p, mappings[p], WrittenMappings(mappings, start)[p])
  <2> DEFINE here == {l \in Differences : PositionOf(l, start) = p}
             new == WrittenMappings(mappings, start)[p]
  <2>0. p \in Nat
    BY SizesType
  <2>1. \A l \in Differences : l \in here <=> start + rank(l) = p
    BY <1>2
  <2>2. new = IF here # {} /\ p < SAVED_MAPPING_COUNT - 1
              THEN [l_key |-> CHOOSE l \in here : TRUE, h_key |-> logical_to_hid_map[CHOOSE l \in here : TRUE]]
              ELSE mappings[p]
    BY DEF WrittenMappings
  <2>3. here \in SUBSET Differences
    OBVIOUS
  <2> HIDE DEF here, new
  <2>4. CASE here # {} /\ p < SAVED_MAPPING_COUNT - 1
    <3> DEFINE l == CHOOSE x \in here : TRUE
               i == rank(l) + 1
    <3>1. l \in here /\ l \in Differences
      BY <2>3, <2>4
    <3>2. new = [l_key |-> l, h_key |-> logical_to_hid_map[l]]
      BY <2>2, <2>4
    <3> HIDE DEF l
    <3>3. start + rank(l) = p /\ rank(l) \in Nat /\ l \in K
      BY <1>3, <1>9, <2>1, <2>4, <3>1
    <3>4. i \in 1..k /\ s[i] = l
      BY <1>7, <3>3
    <3> DEFINE r == rank(l)
    <3>5. start + i - 1 = p /\ r \in Nat /\ i = r + 1 /\ start + r = p
      <4>1. r \in Nat /\ i = r + 1 /\ start + r = p
        BY <3>3
      <4> HIDE DEF r, i
      <4> QED BY <4>1
    <3>6. ASSUME NEW j \in 1..Len(ws), To(ws[j], "mappings", p) PROVE j = i
      <4>0. j \in 1..k /\ j \in Int /\ ws[j].at = p
        BY <3>6, <1>1, <1>10 DEF To
      <4>1. j \in Int /\ start + j - 1 = p
        BY <4>0, <1>11
      <4> HIDE DEF i, r
      <4> QED BY <4>1, <3>5
    <3> HIDE DEF i
    <3>7. /\ Len(ws) \in Nat /\ i \in 1..Len(ws) /\ To(ws[i], "mappings", p) /\ ws[i].value = new
          /\ \A j \in 1..Len(ws) : To(ws[j], "mappings", p) => j = i
      BY <1>1, <1>10, <1>11, <3>2, <3>4, <3>5, <3>6 DEF To
    <3>8. Yields(ws, "mappings", p, mappings[p], new)
      BY <3>7, YieldsOnce
    <3> QED BY <3>8 DEF new
  <2>5. CASE ~(here # {} /\ p < SAVED_MAPPING_COUNT - 1)
    <3>1. new = mappings[p]
      BY <2>2, <2>5
    <3>2. ASSUME NEW i \in 1..k, start + i - 1 = p PROVE FALSE
      <4> DEFINE l == s[i]
                 r == rank(l)
      <4>1. l \in K /\ r = i - 1 /\ l \in Differences
        BY <1>1, <1>6
      <4>2. start + r < SAVED_MAPPING_COUNT - 1
        BY <1>9, <4>1
      <4>3. start + r = p
        <5> HIDE DEF l, r
        <5>1. i \in Int
          BY <1>1
        <5> QED BY <3>2, <4>1, <5>1
      <4>4. l \in here
        BY <2>1, <4>1, <4>3
      <4> QED BY <2>5, <4>2, <4>3, <4>4
    <3>3. Untouched(ws, "mappings", p)
      BY <3>2, <1>10, <1>11 DEF Untouched, To
    <3>4. Yields(ws, "mappings", p, mappings[p], new)
      BY <3>1, <3>3, UntouchedYields
    <3> QED BY <3>4 DEF new
  <2> QED BY <2>4, <2>5
<1> QED
  BY <1>10, <1>12, <1>13, <1>14 DEF ws, YieldsAll

\* The old backup goes first, whether there is one or not.
LEMMA RemoveYields ==
    ASSUME PackedIndices(saved_key_mapping_indices), NEW n \in Numbers
    PROVE  /\ IsList(DeleteWrites(n))
           /\ YieldsAll(DeleteWrites(n), "indices", Numbers, saved_key_mapping_indices, IndicesWithout(n))
           /\ YieldsAll(DeleteWrites(n), "mappings", Positions, saved_key_mappings, MappingsWithout(n))
           /\ \A at : Untouched(DeleteWrites(n), "map", at)
           /\ PackedIndices(IndicesWithout(n)) /\ n \notin Used(IndicesWithout(n))
<1>1. CASE HasBackup(n)
  <2>1. n \in Used(saved_key_mapping_indices)
    BY <1>1 DEF HasBackup, Used
  <2>2. IndicesWithout(n) = DeletedIndices(n) /\ MappingsWithout(n) = DeletedMappings(n)
    BY <1>1 DEF IndicesWithout, MappingsWithout
  <2>3. DeletedIndices(n) = Without(saved_key_mapping_indices, n)
    BY DEF DeletedIndices, Without
  <2>4. PackedIndices(IndicesWithout(n)) /\ n \notin Used(IndicesWithout(n))
    BY <2>1, <2>2, <2>3, WithoutPacked, WithoutUsed
  <2> QED BY <2>1, <2>2, <2>4, DeleteYields
<1>2. CASE ~HasBackup(n)
  <2>1. /\ IndicesWithout(n) = saved_key_mapping_indices /\ MappingsWithout(n) = saved_key_mappings
        /\ DeleteWrites(n) = <<>>
    BY <1>2 DEF IndicesWithout, MappingsWithout, DeleteWrites
  <2>2. n \notin Used(saved_key_mapping_indices)
    BY <1>2 DEF HasBackup, Used
  <2>3. Len(<<>>) = 0 /\ IsList(<<>>)
    BY DEF IsList
  <2>4. \A part, at : Untouched(<<>>, part, at)
    BY <2>3 DEF Untouched
  <2>5. \A part, at, old : Yields(<<>>, part, at, old, old)
    BY <2>4, UntouchedYields
  <2> QED BY <2>1, <2>2, <2>3, <2>4, <2>5 DEF YieldsAll
<1> QED
  BY <1>1, <1>2

\* The new index is written last, if at all.
LEMMA IndexYields ==
    ASSUME PackedIndices(saved_key_mapping_indices), NEW n \in Numbers
    PROVE  /\ IsList(IndexWrites(n)) /\ Len(IndexWrites(n)) \in 0..1
           /\ \A part, at : part # "indices" \/ at # n => Untouched(IndexWrites(n), part, at)
           /\ YieldsAll(IndexWrites(n), "indices", Numbers, IndicesWithout(n), SavedIndices(n))
<1> DEFINE new == SavedIndex(n)
           ix == IndicesWithout(n)
<1>1. CASE Saves(n)
  <2> DEFINE ws == IndexWrites(n)
  <2>1. ws = <<Write("indices", n, new)>> /\ SavedIndices(n) = [ix EXCEPT ![n] = new]
    BY <1>1 DEF IndexWrites, SavedIndices
  <2>2. ix \in [Numbers -> IndexSet]
    BY RemoveYields DEF PackedIndices
  <2> HIDE DEF new, ix, ws
  <2>3. Len(ws) = 1 /\ ws[1].part = "indices" /\ ws[1].at = n /\ ws[1].value = new
    BY <2>1 DEF Write
  <2>4. IsList(ws)
    <3>1. ws = [i \in 1..1 |-> ws[i]]
      BY <2>1
    <3> QED BY <3>1 DEF IsList
  <2>5. ASSUME NEW part, NEW at, part # "indices" \/ at # n PROVE Untouched(ws, part, at)
    BY <2>3, <2>5 DEF Untouched, To
  <2>6. ASSUME NEW m \in Numbers PROVE Yields(ws, "indices", m, ix[m], SavedIndices(n)[m])
    <3>1. CASE m = n
      <4>1. SavedIndices(n)[m] = new
        BY <2>1, <2>2, <3>1
      <4>2. 1 \in 1..Len(ws) /\ Len(ws) \in Nat /\ \A j \in 1..Len(ws) : j = 1
        BY <2>3
      <4> QED BY <2>3, <3>1, <4>1, <4>2, YieldsOnce DEF To
    <3>2. CASE m # n
      <4>1. SavedIndices(n)[m] = ix[m]
        BY <2>1, <2>2, <3>2
      <4> QED BY <2>5, <3>2, <4>1, UntouchedYields
    <3> QED BY <3>1, <3>2
  <2>7. Len(ws) \in 0..1
    BY <2>3
  <2> QED BY <2>4, <2>5, <2>6, <2>7 DEF ws, ix, YieldsAll
<1>2. CASE ~Saves(n)
  <2>1. IndexWrites(n) = <<>> /\ SavedIndices(n) = ix
    BY <1>2 DEF IndexWrites, SavedIndices
  <2>2. Len(<<>>) = 0 /\ IsList(<<>>)
    BY DEF IsList
  <2>3. \A part, at : Untouched(<<>>, part, at)
    BY <2>2 DEF Untouched
  <2>4. \A part, at, old : Yields(<<>>, part, at, old, old)
    BY <2>3, UntouchedYields
  <2> HIDE DEF ix
  <2> QED BY <2>1, <2>2, <2>3, <2>4 DEF YieldsAll, ix
<1> QED
  BY <1>1, <1>2

\* The writes of config_save_layout lead to what it leaves.
LEMMA SaveYields ==
    ASSUME PackedIndices(saved_key_mapping_indices), NEW n \in Numbers
    PROVE  /\ IsList(SaveWrites(n))
           /\ YieldsAll(SaveWrites(n), "indices", Numbers, saved_key_mapping_indices, SavedIndices(n))
           /\ YieldsAll(SaveWrites(n), "mappings", Positions, saved_key_mappings, SavedMappings(n))
           /\ \A at : Untouched(SaveWrites(n), "map", at)
<1> DEFINE a == DeleteWrites(n)
           b == DifferenceWrites(SaveStart(n))
           c == IndexWrites(n)
           ix == IndicesWithout(n)
           mp == MappingsWithout(n)
<1>1. SaveWrites(n) = (a \o b) \o c
  BY DEF SaveWrites
<1>2. SaveStart(n) \in Nat
  <2>1. SaveStart(n) \in 0..(SAVED_MAPPING_COUNT - 1)
    BY RemoveYields, FirstFreeIs DEF SaveStart
  <2> QED BY <2>1, SizesType
<1>3. /\ IsList(a) /\ YieldsAll(a, "indices", Numbers, saved_key_mapping_indices, ix)
      /\ YieldsAll(a, "mappings", Positions, saved_key_mappings, mp)
      /\ \A at : Untouched(a, "map", at)
  BY RemoveYields
<1>4. /\ IsList(b) /\ \A part, at : part # "mappings" => Untouched(b, part, at)
      /\ YieldsAll(b, "mappings", Positions, mp, SavedMappings(n))
  BY <1>2, DifferenceYields DEF SavedMappings
<1>5. /\ IsList(c) /\ \A part, at : part # "indices" => Untouched(c, part, at)
      /\ YieldsAll(c, "indices", Numbers, ix, SavedIndices(n))
  BY IndexYields
<1> HIDE DEF a, b, c, ix, mp
<1>6. IsList(a \o b) /\ IsList((a \o b) \o c)
  BY <1>3, <1>4, <1>5, ListBoth
<1>7. ASSUME NEW m \in Numbers
      PROVE  Yields((a \o b) \o c, "indices", m, saved_key_mapping_indices[m], SavedIndices(n)[m])
  <2>1. Yields(a, "indices", m, saved_key_mapping_indices[m], ix[m])
    BY <1>3 DEF YieldsAll
  <2>2. Yields(b, "indices", m, ix[m], ix[m])
    BY <1>4, UntouchedYields
  <2>3. Yields(c, "indices", m, ix[m], SavedIndices(n)[m])
    BY <1>5 DEF YieldsAll
  <2>4. Yields(a \o b, "indices", m, saved_key_mapping_indices[m], ix[m])
    BY <1>3, <1>4, <2>1, <2>2, YieldsBoth
  <2> QED BY <1>5, <1>6, <2>3, <2>4, YieldsBoth
<1>8. ASSUME NEW p \in Positions
      PROVE  Yields((a \o b) \o c, "mappings", p, saved_key_mappings[p], SavedMappings(n)[p])
  <2>1. Yields(a, "mappings", p, saved_key_mappings[p], mp[p])
    BY <1>3 DEF YieldsAll
  <2>2. Yields(b, "mappings", p, mp[p], SavedMappings(n)[p])
    BY <1>4 DEF YieldsAll
  <2>3. Yields(c, "mappings", p, SavedMappings(n)[p], SavedMappings(n)[p])
    BY <1>5, UntouchedYields
  <2>4. Yields(a \o b, "mappings", p, saved_key_mappings[p], SavedMappings(n)[p])
    BY <1>3, <1>4, <2>1, <2>2, YieldsBoth
  <2> QED BY <1>5, <1>6, <2>3, <2>4, YieldsBoth
<1>9. ASSUME NEW at PROVE Untouched((a \o b) \o c, "map", at)
  <2>1. Untouched(a, "map", at) /\ Untouched(b, "map", at) /\ Untouched(c, "map", at)
    BY <1>3, <1>4, <1>5
  <2>2. Untouched(a \o b, "map", at)
    BY <1>3, <1>4, <2>1, UntouchedBoth
  <2> QED BY <1>5, <1>6, <2>1, <2>2, UntouchedBoth
<1> QED
  BY <1>1, <1>6, <1>7, <1>8, <1>9 DEF YieldsAll

\* The writes of config_load_layout lead to the loaded layout.
LEMMA LoadYields ==
    ASSUME NEW n \in Numbers, HasBackup(n)
    PROVE  /\ IsList(LoadWrites(n))
           /\ YieldsAll(LoadWrites(n), "map", LogicalKeys, logical_to_hid_map,
                        LoadedLayout(saved_key_mapping_indices[n]))
           /\ \A i \in 1..Len(LoadWrites(n)) : LoadWrites(n)[i].part = "map"
<1> DEFINE layout == LoadedLayout(saved_key_mapping_indices[n])
           k == NUM_LOGICAL_KEYS
           ws == LoadWrites(n)
<1>1. ws = [i \in 1..k |-> Write("map", i - 1, layout[i - 1])] /\ k \in Nat
  BY LayoutSizes DEF LoadWrites
<1> HIDE DEF layout, ws
<1>2. Len(ws) = k /\ IsList(ws)
  <2>1. Len(ws) = k
    BY <1>1
  <2>2. ws = [i \in 1..k |-> ws[i]]
    BY <1>1
  <2> QED BY <1>1, <2>1, <2>2 DEF IsList
<1>3. \A i \in 1..k : ws[i].part = "map" /\ ws[i].at = i - 1 /\ ws[i].value = layout[i - 1]
  BY <1>1 DEF Write
<1>4. ASSUME NEW l \in LogicalKeys PROVE Yields(ws, "map", l, logical_to_hid_map[l], layout[l])
  <2>1. l \in Int /\ l + 1 \in 1..k /\ (l + 1) - 1 = l
    BY <1>1 DEF LogicalKeys
  <2> DEFINE i == l + 1
  <2>2. ASSUME NEW j \in 1..Len(ws), To(ws[j], "map", l) PROVE j = i
    <3>1. j \in 1..k /\ j \in Int /\ ws[j].at = l
      BY <1>1, <1>2, <2>2 DEF To
    <3>2. j - 1 = l
      BY <1>3, <3>1
    <3> QED BY <2>1, <3>1, <3>2
  <2>3. i \in 1..Len(ws) /\ Len(ws) \in Nat /\ To(ws[i], "map", l) /\ ws[i].value = layout[l]
    BY <1>1, <1>2, <1>3, <2>1 DEF To
  <2> HIDE DEF i
  <2> QED BY <2>2, <2>3, YieldsOnce
<1> QED
  BY <1>2, <1>3, <1>4 DEF ws, layout, YieldsAll

(***************************************************************************)
(* The calls as functions of the storage they find.                        *)
(***************************************************************************)
At(map, indices, mappings, text) == INSTANCE SavedLayouts WITH
    logical_to_hid_map <- map,
    saved_key_mapping_indices <- indices,
    saved_key_mappings <- mappings,
    message <- text

IndicesAfterSave(s, n) == At(s.map, s.indices, s.mappings, s.message)!SavedIndices(n)
MappingsAfterSave(s, n) == At(s.map, s.indices, s.mappings, s.message)!SavedMappings(n)
MessageAfterSave(s, n) == At(s.map, s.indices, s.mappings, s.message)!SavedMessage(n)
IndicesAfterDelete(s, n) == At(s.map, s.indices, s.mappings, s.message)!DeletedIndices(n)
MappingsAfterDelete(s, n) == At(s.map, s.indices, s.mappings, s.message)!DeletedMappings(n)
LayoutAfterLoad(s, n) == At(s.map, s.indices, s.mappings, s.message)!LoadedLayout(s.indices[n])

\* For the storage as it is now they are the operations of SavedLayouts.
LEMMA CallsNow ==
    ASSUME NEW n
    PROVE  /\ IndicesAfterSave(storage, n) = SavedIndices(n)
           /\ MappingsAfterSave(storage, n) = SavedMappings(n)
           /\ MessageAfterSave(storage, n) = SavedMessage(n)
           /\ IndicesAfterDelete(storage, n) = DeletedIndices(n)
           /\ MappingsAfterDelete(storage, n) = DeletedMappings(n)
           /\ LayoutAfterLoad(storage, n) = LoadedLayout(saved_key_mapping_indices[n])
<1> DEFINE m == logical_to_hid_map
           i == saved_key_mapping_indices
           p == saved_key_mappings
<1>1. /\ storage.map = m /\ storage.indices = i
      /\ storage.mappings = p /\ storage.message = message
  BY DEF storage
<1>2. At(m, i, p, message)!SavedIndices(n) = SavedIndices(n)
  BY DEF SavedIndices, Saves, Differences, Fits, SaveStart, SavedIndex, IndicesWithout, HasBackup,
         DeletedIndices, ShiftIndices, NoIndex, FirstFree, Used, Length, LogicalKeys, Numbers,
         NO_KEY, Max, Cardinality,
         At!SavedIndices, At!Saves, At!Differences, At!Fits, At!SaveStart, At!SavedIndex,
         At!IndicesWithout, At!HasBackup, At!DeletedIndices, At!ShiftIndices, At!NoIndex,
         At!FirstFree, At!Used, At!Length, At!LogicalKeys, At!Numbers, At!NO_KEY, At!Max,
         At!Cardinality
<1>3. At(m, i, p, message)!SavedMappings(n) = SavedMappings(n)
  BY DEF SavedMappings, WrittenMappings, PositionOf, MappingsWithout, DeletedMappings, MaxEnd,
         Differences, SaveStart, IndicesWithout, HasBackup, DeletedIndices, ShiftIndices, NoIndex,
         FirstFree, Used, Length, LogicalKeys, Numbers, Positions, NO_KEY, Max, Cardinality,
         At!SavedMappings, At!WrittenMappings, At!PositionOf, At!MappingsWithout,
         At!DeletedMappings, At!MaxEnd, At!Differences, At!SaveStart, At!IndicesWithout,
         At!HasBackup, At!DeletedIndices, At!ShiftIndices, At!NoIndex, At!FirstFree, At!Used,
         At!Length, At!LogicalKeys, At!Numbers, At!Positions, At!NO_KEY, At!Max, At!Cardinality
<1>4. At(m, i, p, message)!SavedMessage(n) = SavedMessage(n)
  BY DEF SavedMessage, Saves, Differences, Fits, SaveStart, IndicesWithout, HasBackup,
         DeletedIndices, ShiftIndices, NoIndex, FirstFree, Used, Length, LogicalKeys, Numbers,
         NO_KEY, Max, Cardinality,
         At!SavedMessage, At!Saves, At!Differences, At!Fits, At!SaveStart, At!IndicesWithout,
         At!HasBackup, At!DeletedIndices, At!ShiftIndices, At!NoIndex, At!FirstFree, At!Used,
         At!Length, At!LogicalKeys, At!Numbers, At!NO_KEY, At!Max, At!Cardinality
<1>5. At(m, i, p, message)!DeletedIndices(n) = DeletedIndices(n)
  BY DEF DeletedIndices, ShiftIndices, NoIndex, Length, Numbers, NO_KEY,
         At!DeletedIndices, At!ShiftIndices, At!NoIndex, At!Length, At!Numbers, At!NO_KEY
<1>6. At(m, i, p, message)!DeletedMappings(n) = DeletedMappings(n)
  BY DEF DeletedMappings, MaxEnd, Used, Length, Numbers, Positions, NO_KEY, Max,
         At!DeletedMappings, At!MaxEnd, At!Used, At!Length, At!Numbers, At!Positions, At!NO_KEY,
         At!Max
<1>7. At(m, i, p, message)!LoadedLayout(i[n]) = LoadedLayout(i[n])
  BY DEF LoadedLayout, LoadPosition, LogicalKeys, At!LoadedLayout, At!LoadPosition, At!LogicalKeys
<1> HIDE DEF m, i, p
<1> QED
  BY <1>1, <1>2, <1>3, <1>4, <1>5, <1>6, <1>7
     DEF IndicesAfterSave, MappingsAfterSave, MessageAfterSave, IndicesAfterDelete,
         MappingsAfterDelete, LayoutAfterLoad, i

\* For the storage as the calls leave it they are the operations of Whole.
LEMMA CallsWhole ==
    ASSUME NEW n
    PROVE  /\ IndicesAfterSave(Visible, n) = Whole!SavedIndices(n)
           /\ MappingsAfterSave(Visible, n) = Whole!SavedMappings(n)
           /\ MessageAfterSave(Visible, n) = Whole!SavedMessage(n)
           /\ IndicesAfterDelete(Visible, n) = Whole!DeletedIndices(n)
           /\ MappingsAfterDelete(Visible, n) = Whole!DeletedMappings(n)
           /\ LayoutAfterLoad(Visible, n) = Whole!LoadedLayout(Visible.indices[n])
<1>1. IndicesAfterSave(Visible, n) = Whole!SavedIndices(n)
  BY DEF IndicesAfterSave, Whole!SavedIndices, Whole!Saves, Whole!Differences, Whole!Fits, Whole!SaveStart,
         Whole!SavedIndex, Whole!IndicesWithout, Whole!HasBackup, Whole!DeletedIndices,
         Whole!ShiftIndices, Whole!NoIndex, Whole!FirstFree, Whole!Used, Whole!Length,
         Whole!LogicalKeys, Whole!Numbers, Whole!NO_KEY, Whole!Max, Whole!Cardinality,
         At!SavedIndices, At!Saves, At!Differences, At!Fits, At!SaveStart, At!SavedIndex,
         At!IndicesWithout, At!HasBackup, At!DeletedIndices, At!ShiftIndices, At!NoIndex,
         At!FirstFree, At!Used, At!Length, At!LogicalKeys, At!Numbers, At!NO_KEY, At!Max,
         At!Cardinality
<1>2. MappingsAfterSave(Visible, n) = Whole!SavedMappings(n)
  BY DEF MappingsAfterSave, Whole!SavedMappings, Whole!WrittenMappings, Whole!PositionOf,
         Whole!MappingsWithout, Whole!DeletedMappings, Whole!MaxEnd, Whole!Differences,
         Whole!SaveStart, Whole!IndicesWithout, Whole!HasBackup, Whole!DeletedIndices,
         Whole!ShiftIndices, Whole!NoIndex, Whole!FirstFree, Whole!Used, Whole!Length,
         Whole!LogicalKeys, Whole!Numbers, Whole!Positions, Whole!NO_KEY, Whole!Max,
         Whole!Cardinality,
         At!SavedMappings, At!WrittenMappings, At!PositionOf, At!MappingsWithout,
         At!DeletedMappings, At!MaxEnd, At!Differences, At!SaveStart, At!IndicesWithout,
         At!HasBackup, At!DeletedIndices, At!ShiftIndices, At!NoIndex, At!FirstFree, At!Used,
         At!Length, At!LogicalKeys, At!Numbers, At!Positions, At!NO_KEY, At!Max, At!Cardinality
<1>3. MessageAfterSave(Visible, n) = Whole!SavedMessage(n)
  BY DEF MessageAfterSave, Whole!SavedMessage, Whole!Saves, Whole!Differences, Whole!Fits,
         Whole!SaveStart, Whole!IndicesWithout, Whole!HasBackup, Whole!DeletedIndices,
         Whole!ShiftIndices, Whole!NoIndex, Whole!FirstFree, Whole!Used, Whole!Length,
         Whole!LogicalKeys, Whole!Numbers, Whole!NO_KEY, Whole!Max, Whole!Cardinality,
         At!SavedMessage, At!Saves, At!Differences, At!Fits, At!SaveStart, At!IndicesWithout,
         At!HasBackup, At!DeletedIndices, At!ShiftIndices, At!NoIndex, At!FirstFree, At!Used,
         At!Length, At!LogicalKeys, At!Numbers, At!NO_KEY, At!Max, At!Cardinality
<1>4. IndicesAfterDelete(Visible, n) = Whole!DeletedIndices(n)
  BY DEF IndicesAfterDelete, Whole!DeletedIndices, Whole!ShiftIndices, Whole!NoIndex, Whole!Length,
         Whole!Numbers, Whole!NO_KEY,
         At!DeletedIndices, At!ShiftIndices, At!NoIndex, At!Length, At!Numbers, At!NO_KEY
<1>5. MappingsAfterDelete(Visible, n) = Whole!DeletedMappings(n)
  BY DEF MappingsAfterDelete, Whole!DeletedMappings, Whole!MaxEnd, Whole!Used, Whole!Length,
         Whole!Numbers, Whole!Positions, Whole!NO_KEY, Whole!Max,
         At!DeletedMappings, At!MaxEnd, At!Used, At!Length, At!Numbers, At!Positions, At!NO_KEY,
         At!Max
<1>6. LayoutAfterLoad(Visible, n) = Whole!LoadedLayout(Visible.indices[n])
  BY DEF LayoutAfterLoad, Whole!LoadedLayout, Whole!LoadPosition, Whole!LogicalKeys,
         At!LoadedLayout, At!LoadPosition, At!LogicalKeys
<1> QED
  BY <1>1, <1>2, <1>3, <1>4, <1>5, <1>6

(***************************************************************************)
(* The inductive invariant: the writes still to make lead from what is     *)
(* stored now to what the operation of SavedLayouts makes of the storage   *)
(* the call found.                                                         *)
(***************************************************************************)
Leads(ws, s, map, indices, mappings) ==
    /\ IsArray(map, LogicalKeys) /\ PackedIndices(indices) /\ IsArray(mappings, Positions)
    /\ YieldsAll(ws, "map", LogicalKeys, s.map, map)
    /\ YieldsAll(ws, "indices", Numbers, s.indices, indices)
    /\ YieldsAll(ws, "mappings", Positions, s.mappings, mappings)

SaveGoes ==
    /\ answer = MessageAfterSave(shown, num)
    /\ Leads(writes, storage, shown.map, IndicesAfterSave(shown, num), MappingsAfterSave(shown, num))

DeleteGoes ==
    /\ shown.indices[num].start # NO_KEY /\ answer = ""
    /\ Leads(writes, storage, shown.map, IndicesAfterDelete(shown, num), MappingsAfterDelete(shown, num))

LoadGoes ==
    /\ shown.indices[num].start # NO_KEY /\ answer = ""
    /\ Leads(writes, storage, LayoutAfterLoad(shown, num), shown.indices, shown.mappings)

StorageInv ==
    /\ IsList(writes)
    /\ IsArray(logical_to_hid_map, LogicalKeys)
    /\ IsArray(saved_key_mapping_indices, Numbers)
    /\ IsArray(saved_key_mappings, Positions)
    /\ Between => PackedIndices(saved_key_mapping_indices)

CallInv ==
    ~Between => /\ num \in Numbers /\ PackedIndices(shown.indices)
                /\ SaveGoes \/ DeleteGoes \/ LoadGoes

\* What config_save_layout leaves is packed.
LEMMA SavedPacked ==
    ASSUME PackedIndices(saved_key_mapping_indices), NEW n \in Numbers
    PROVE  PackedIndices(SavedIndices(n))
<1> DEFINE ix == IndicesWithout(n)
           c == Cardinality(Differences)
<1>1. PackedIndices(ix) /\ n \notin Used(ix)
  BY RemoveYields
<1>2. CASE Saves(n)
  <2>1. c \in Nat \ {0} /\ FirstFree(ix) + c <= SAVED_MAPPING_COUNT - 1
    BY <1>2, DifferencesFinite DEF Saves, Fits, SaveStart
  <2>2. SavedIndices(n) = With(ix, n, c)
    BY <1>2 DEF SavedIndices, SavedIndex, SaveStart, With
  <2> HIDE DEF ix, c
  <2> QED BY <1>1, <2>1, <2>2, WithPacked
<1>3. CASE ~Saves(n)
  BY <1>1, <1>3 DEF SavedIndices
<1> QED
  BY <1>2, <1>3

\* The writes a save plans lead to what config_save_layout leaves.
LEMMA SaveLeads ==
    ASSUME StorageInv, Between, NEW n \in Numbers
    PROVE  /\ IsList(SaveWrites(n))
           /\ Leads(SaveWrites(n), storage, storage.map, IndicesAfterSave(storage, n), MappingsAfterSave(storage, n))
<1>1. PackedIndices(saved_key_mapping_indices) /\ IsArray(logical_to_hid_map, LogicalKeys)
  BY DEF StorageInv
<1>2. /\ storage.map = logical_to_hid_map /\ storage.indices = saved_key_mapping_indices
      /\ storage.mappings = saved_key_mappings
      /\ IndicesAfterSave(storage, n) = SavedIndices(n) /\ MappingsAfterSave(storage, n) = SavedMappings(n)
  BY CallsNow DEF storage
<1>3. IsArray(SavedMappings(n), Positions)
  BY DEF SavedMappings, WrittenMappings, IsArray
<1>4. YieldsAll(SaveWrites(n), "map", LogicalKeys, logical_to_hid_map, logical_to_hid_map)
  BY <1>1, SaveYields, UntouchedYields DEF YieldsAll
<1> QED
  BY <1>1, <1>2, <1>3, <1>4, SavedPacked, SaveYields DEF Leads

\* The writes a delete plans lead to what config_delete_layout leaves.
LEMMA DeleteLeads ==
    ASSUME StorageInv, Between, NEW n \in Numbers, HasBackup(n)
    PROVE  /\ IsList(DeleteWrites(n))
           /\ Leads(DeleteWrites(n), storage, storage.map, IndicesAfterDelete(storage, n),
                    MappingsAfterDelete(storage, n))
<1>1. PackedIndices(saved_key_mapping_indices) /\ IsArray(logical_to_hid_map, LogicalKeys)
  BY DEF StorageInv
<1>2. /\ storage.map = logical_to_hid_map /\ storage.indices = saved_key_mapping_indices
      /\ storage.mappings = saved_key_mappings
      /\ IndicesAfterDelete(storage, n) = DeletedIndices(n)
      /\ MappingsAfterDelete(storage, n) = DeletedMappings(n)
  BY CallsNow DEF storage
<1>3. IsArray(DeletedMappings(n), Positions)
  BY DEF DeletedMappings, IsArray
<1>4. n \in Used(saved_key_mapping_indices)
  BY DEF HasBackup, Used
<1>5. YieldsAll(DeleteWrites(n), "map", LogicalKeys, logical_to_hid_map, logical_to_hid_map)
  BY <1>1, <1>4, DeleteYields, UntouchedYields DEF YieldsAll
<1>6. PackedIndices(DeletedIndices(n))
  BY <1>1, <1>4, WithoutPacked DEF DeletedIndices, Without
<1> QED
  BY <1>1, <1>2, <1>3, <1>4, <1>5, <1>6, DeleteYields DEF Leads

\* The writes a load plans lead to the loaded layout.
LEMMA LoadLeads ==
    ASSUME StorageInv, Between, NEW n \in Numbers, HasBackup(n)
    PROVE  /\ IsList(LoadWrites(n))
           /\ Leads(LoadWrites(n), storage, LayoutAfterLoad(storage, n), storage.indices, storage.mappings)
<1>1. PackedIndices(saved_key_mapping_indices) /\ IsArray(saved_key_mappings, Positions)
  BY DEF StorageInv
<1>2. /\ storage.map = logical_to_hid_map /\ storage.indices = saved_key_mapping_indices
      /\ storage.mappings = saved_key_mappings
      /\ LayoutAfterLoad(storage, n) = LoadedLayout(saved_key_mapping_indices[n])
  BY CallsNow DEF storage
<1>3. IsArray(LoadedLayout(saved_key_mapping_indices[n]), LogicalKeys)
  BY DEF LoadedLayout, IsArray
<1>4. \A part, at : part # "map" => Untouched(LoadWrites(n), part, at)
  BY LoadYields DEF Untouched, To
<1>5. /\ YieldsAll(LoadWrites(n), "indices", Numbers, saved_key_mapping_indices, saved_key_mapping_indices)
      /\ YieldsAll(LoadWrites(n), "mappings", Positions, saved_key_mappings, saved_key_mappings)
  BY <1>4, UntouchedYields DEF YieldsAll
<1> QED
  BY <1>1, <1>2, <1>3, <1>5, LoadYields DEF Leads

\* One write brings the storage nearer to what the list leads to, and the last
\* one there.
LEMMA LeadsOn ==
    ASSUME StorageInv, DoWrite, NEW map, NEW indices, NEW mappings,
           Leads(writes, storage, map, indices, mappings)
    PROVE  /\ Leads(writes', storage', map, indices, mappings)
           /\ Len(writes) = 1 => /\ logical_to_hid_map' = map /\ saved_key_mapping_indices' = indices
                                 /\ saved_key_mappings' = mappings
<1> DEFINE ws == writes
<1>1. IsList(ws) /\ ws # <<>> /\ writes' = Tail(ws)
  BY DEF StorageInv, DoWrite
<1>2. /\ storage.map = logical_to_hid_map /\ storage.indices = saved_key_mapping_indices
      /\ storage.mappings = saved_key_mappings
      /\ storage'.map = logical_to_hid_map' /\ storage'.indices = saved_key_mapping_indices'
      /\ storage'.mappings = saved_key_mappings'
  BY DEF storage
<1>3. IsArray(indices, Numbers)
  BY DEF Leads, PackedIndices, IsArray
<1>4. /\ YieldsAll(Tail(ws), "map", LogicalKeys, logical_to_hid_map', map)
      /\ Len(ws) = 1 => logical_to_hid_map' = map
  <2>1. /\ IsArray(logical_to_hid_map, LogicalKeys) /\ IsArray(map, LogicalKeys)
        /\ YieldsAll(ws, "map", LogicalKeys, logical_to_hid_map, map)
    BY <1>2 DEF StorageInv, Leads
  <2>2. logical_to_hid_map' = Written(logical_to_hid_map, "map", Head(ws))
    BY DEF DoWrite, Written
  <2> HIDE DEF ws
  <2> QED BY <1>1, <2>1, <2>2, ArrayStep
<1>5. /\ YieldsAll(Tail(ws), "indices", Numbers, saved_key_mapping_indices', indices)
      /\ Len(ws) = 1 => saved_key_mapping_indices' = indices
  <2>1. /\ IsArray(saved_key_mapping_indices, Numbers)
        /\ YieldsAll(ws, "indices", Numbers, saved_key_mapping_indices, indices)
    BY <1>2 DEF StorageInv, Leads
  <2>2. saved_key_mapping_indices' = Written(saved_key_mapping_indices, "indices", Head(ws))
    BY DEF DoWrite, Written
  <2> HIDE DEF ws
  <2> QED BY <1>1, <1>3, <2>1, <2>2, ArrayStep
<1>6. /\ YieldsAll(Tail(ws), "mappings", Positions, saved_key_mappings', mappings)
      /\ Len(ws) = 1 => saved_key_mappings' = mappings
  <2>1. /\ IsArray(saved_key_mappings, Positions) /\ IsArray(mappings, Positions)
        /\ YieldsAll(ws, "mappings", Positions, saved_key_mappings, mappings)
    BY <1>2 DEF StorageInv, Leads
  <2>2. saved_key_mappings' = Written(saved_key_mappings, "mappings", Head(ws))
    BY DEF DoWrite, Written
  <2> HIDE DEF ws
  <2> QED BY <1>1, <2>1, <2>2, ArrayStep
<1> QED
  BY <1>1, <1>2, <1>4, <1>5, <1>6 DEF Leads

\* A keyboard after config_reset_fully.
LEMMA InvInit ==
    ASSUME StepInit
    PROVE  StorageInv /\ CallInv
<1>1. Between /\ writes = <<>>
  BY DEF StepInit, Between
<1>2. IsList(writes)
  <2>1. <<>> = [i \in 1..0 |-> <<>>[i]]
    OBVIOUS
  <2> QED BY <1>1, <2>1 DEF IsList
<1>3. saved_key_mapping_indices = [n \in Numbers |-> NoIndex]
  BY DEF StepInit, Init
<1>4. NoIndex \in IndexSet /\ NoIndex.start = NO_KEY
  BY DEF NoIndex, IndexSet, NO_KEY
<1>5. saved_key_mapping_indices \in [Numbers -> IndexSet] /\ Used(saved_key_mapping_indices) = {}
  BY <1>3, <1>4 DEF Used
<1>6. PackedIndices(saved_key_mapping_indices)
  BY <1>5 DEF PackedIndices, Bounded, Filled, Apart
<1>7. IsArray(saved_key_mapping_indices, Numbers) /\ IsArray(saved_key_mappings, Positions)
  BY <1>3 DEF StepInit, Init, IsArray
<1>8. IsArray(logical_to_hid_map, LogicalKeys)
  BY LayoutSizes DEF StepInit, Init, IsArray
<1> QED
  BY <1>1, <1>2, <1>6, <1>7, <1>8 DEF StorageInv, CallInv

\* The same by a reset in use, whatever is left in the array.
LEMMA InvReset ==
    ASSUME StorageInv, CallInv, ResetFully
    PROVE  StorageInv' /\ CallInv'
<1>1. /\ Between /\ writes' = writes /\ saved_key_mappings' = saved_key_mappings
      /\ saved_key_mapping_indices' = [n \in Numbers |-> NoIndex]
      /\ logical_to_hid_map' = logical_to_hid_map_default
  BY DEF ResetFully, config_reset_fully
<1>2. Between'
  BY <1>1 DEF Between
<1>3. NoIndex \in IndexSet /\ NoIndex.start = NO_KEY
  BY DEF NoIndex, IndexSet, NO_KEY
<1>4. saved_key_mapping_indices' \in [Numbers -> IndexSet] /\ Used(saved_key_mapping_indices') = {}
  BY <1>1, <1>3 DEF Used
<1>5. PackedIndices(saved_key_mapping_indices')
  BY <1>4 DEF PackedIndices, Bounded, Filled, Apart
<1>6. IsArray(saved_key_mapping_indices', Numbers) /\ IsArray(logical_to_hid_map', LogicalKeys)
  BY <1>1, LayoutSizes DEF IsArray
<1> QED
  BY <1>1, <1>2, <1>5, <1>6 DEF StorageInv, CallInv

\* A call that begins.
LEMMA InvBegin ==
    ASSUME StorageInv, NEW n \in Numbers, BeginSave(n) \/ BeginDelete(n) \/ BeginLoad(n)
    PROVE  /\ StorageInv' /\ CallInv' /\ Between /\ ~Between' /\ shown' = storage
           /\ UNCHANGED vars
           /\ BeginDelete(n) \/ BeginLoad(n) => HasBackup(n)
<1>1. /\ Between /\ ~Between' /\ num' = n /\ shown' = storage /\ UNCHANGED vars
      /\ storage' = storage
  BY DEF BeginSave, BeginDelete, BeginLoad, Begin, vars, storage, Between
<1>2. BeginDelete(n) \/ BeginLoad(n) => HasBackup(n)
  BY DEF BeginDelete, BeginLoad, Begin, DeleteWrites, LoadWrites
<1>3. HasBackup(n) => storage.indices[n].start # NO_KEY
  BY DEF HasBackup, storage
<1>4. PackedIndices(storage.indices)
  BY <1>1 DEF StorageInv, storage
<1>5. IsList(writes')
  BY <1>1, <1>2, SaveLeads, DeleteLeads, LoadLeads DEF BeginSave, BeginDelete, BeginLoad, Begin
<1>6. SaveGoes' \/ DeleteGoes' \/ LoadGoes'
  <2>1. CASE BeginSave(n)
    <3>1. writes' = SaveWrites(n) /\ answer' = SavedMessage(n)
      BY <2>1 DEF BeginSave, Begin
    <3>2. (answer = MessageAfterSave(shown, num))'
      BY <1>1, <3>1, CallsNow
    <3>3. Leads(writes, storage, shown.map, IndicesAfterSave(shown, num), MappingsAfterSave(shown, num))'
      BY <1>1, <3>1, SaveLeads
    <3> QED BY <3>2, <3>3 DEF SaveGoes
  <2>2. CASE BeginDelete(n)
    <3>1. writes' = DeleteWrites(n) /\ answer' = ""
      BY <2>2 DEF BeginDelete, Begin
    <3>3. Leads(writes, storage, shown.map, IndicesAfterDelete(shown, num), MappingsAfterDelete(shown, num))'
      BY <1>1, <1>2, <2>2, <3>1, DeleteLeads
    <3> QED BY <1>1, <1>2, <1>3, <2>2, <3>1, <3>3 DEF DeleteGoes
  <2>3. CASE BeginLoad(n)
    <3>1. writes' = LoadWrites(n) /\ answer' = ""
      BY <2>3 DEF BeginLoad, Begin
    <3>3. Leads(writes, storage, LayoutAfterLoad(shown, num), shown.indices, shown.mappings)'
      BY <1>1, <1>2, <2>3, <3>1, LoadLeads
    <3> QED BY <1>1, <1>2, <1>3, <2>3, <3>1, <3>3 DEF LoadGoes
  <2> QED BY <2>1, <2>2, <2>3
<1>7. CallInv'
  BY <1>1, <1>4, <1>6 DEF CallInv
<1>8. StorageInv'
  BY <1>1, <1>5 DEF StorageInv, vars
<1> QED
  BY <1>1, <1>2, <1>7, <1>8

\* A write of a call.
LEMMA InvWrite ==
    ASSUME StorageInv, CallInv, DoWrite
    PROVE  /\ StorageInv' /\ CallInv' /\ ~Between /\ (Between' <=> Len(writes) = 1)
           /\ Between' =>
                 \/ /\ message' = MessageAfterSave(shown, num)
                    /\ logical_to_hid_map' = shown.map
                    /\ saved_key_mapping_indices' = IndicesAfterSave(shown, num)
                    /\ saved_key_mappings' = MappingsAfterSave(shown, num)
                 \/ /\ shown.indices[num].start # NO_KEY /\ message' = ""
                    /\ logical_to_hid_map' = shown.map
                    /\ saved_key_mapping_indices' = IndicesAfterDelete(shown, num)
                    /\ saved_key_mappings' = MappingsAfterDelete(shown, num)
                 \/ /\ shown.indices[num].start # NO_KEY /\ message' = ""
                    /\ logical_to_hid_map' = LayoutAfterLoad(shown, num)
                    /\ saved_key_mapping_indices' = shown.indices
                    /\ saved_key_mappings' = shown.mappings
<1>1. /\ IsList(writes) /\ writes # <<>> /\ writes' = Tail(writes) /\ ~Between
      /\ shown' = shown /\ num' = num /\ answer' = answer
      /\ num \in Numbers /\ PackedIndices(shown.indices)
      /\ SaveGoes \/ DeleteGoes \/ LoadGoes
      /\ Len(writes) = 1 => message' = answer
  BY DEF StorageInv, CallInv, DoWrite, Between
<1>2. Between' <=> Len(writes) = 1
  BY <1>1, TailEmpty DEF Between
<1>3. IsList(writes')
  BY <1>1, ListTail
<1>4. /\ IsArray(logical_to_hid_map', LogicalKeys)
      /\ IsArray(saved_key_mapping_indices', Numbers)
      /\ IsArray(saved_key_mappings', Positions)
  BY DEF StorageInv, DoWrite, IsArray
<1>5. CASE SaveGoes
  <2> DEFINE map == shown.map
             ix == IndicesAfterSave(shown, num)
             mp == MappingsAfterSave(shown, num)
  <2>1. Leads(writes, storage, map, ix, mp) /\ answer = MessageAfterSave(shown, num)
    BY <1>5 DEF SaveGoes
  <2> HIDE DEF map, ix, mp
  <2>2. /\ Leads(writes', storage', map, ix, mp)
        /\ Len(writes) = 1 => /\ logical_to_hid_map' = map /\ saved_key_mapping_indices' = ix
                              /\ saved_key_mappings' = mp
    BY <2>1, LeadsOn
  <2>3. Between' => PackedIndices(saved_key_mapping_indices')
    BY <1>2, <2>1, <2>2 DEF Leads
  <2>4. SaveGoes'
    BY <1>1, <2>1, <2>2 DEF SaveGoes, map, ix, mp
  <2>5. Between' => /\ message' = MessageAfterSave(shown, num)
                    /\ logical_to_hid_map' = shown.map
                    /\ saved_key_mapping_indices' = IndicesAfterSave(shown, num)
                    /\ saved_key_mappings' = MappingsAfterSave(shown, num)
    BY <1>1, <1>2, <2>1, <2>2 DEF map, ix, mp
  <2> QED BY <1>1, <1>2, <1>3, <1>4, <2>3, <2>4, <2>5 DEF StorageInv, CallInv
<1>6. CASE DeleteGoes
  <2> DEFINE map == shown.map
             ix == IndicesAfterDelete(shown, num)
             mp == MappingsAfterDelete(shown, num)
  <2>1. /\ Leads(writes, storage, map, ix, mp) /\ answer = ""
        /\ shown.indices[num].start # NO_KEY
    BY <1>6 DEF DeleteGoes
  <2> HIDE DEF map, ix, mp
  <2>2. /\ Leads(writes', storage', map, ix, mp)
        /\ Len(writes) = 1 => /\ logical_to_hid_map' = map /\ saved_key_mapping_indices' = ix
                              /\ saved_key_mappings' = mp
    BY <2>1, LeadsOn
  <2>3. Between' => PackedIndices(saved_key_mapping_indices')
    BY <1>2, <2>1, <2>2 DEF Leads
  <2>4. DeleteGoes'
    BY <1>1, <2>1, <2>2 DEF DeleteGoes, map, ix, mp
  <2>5. Between' => /\ shown.indices[num].start # NO_KEY /\ message' = ""
                    /\ logical_to_hid_map' = shown.map
                    /\ saved_key_mapping_indices' = IndicesAfterDelete(shown, num)
                    /\ saved_key_mappings' = MappingsAfterDelete(shown, num)
    BY <1>1, <1>2, <2>1, <2>2 DEF map, ix, mp
  <2> QED BY <1>1, <1>2, <1>3, <1>4, <2>3, <2>4, <2>5 DEF StorageInv, CallInv
<1>7. CASE LoadGoes
  <2> DEFINE map == LayoutAfterLoad(shown, num)
             ix == shown.indices
             mp == shown.mappings
  <2>1. /\ Leads(writes, storage, map, ix, mp) /\ answer = ""
        /\ shown.indices[num].start # NO_KEY
    BY <1>7 DEF LoadGoes
  <2> HIDE DEF map, ix, mp
  <2>2. /\ Leads(writes', storage', map, ix, mp)
        /\ Len(writes) = 1 => /\ logical_to_hid_map' = map /\ saved_key_mapping_indices' = ix
                              /\ saved_key_mappings' = mp
    BY <2>1, LeadsOn
  <2>3. Between' => PackedIndices(saved_key_mapping_indices')
    BY <1>2, <2>1, <2>2 DEF Leads
  <2>4. LoadGoes'
    BY <1>1, <2>1, <2>2 DEF LoadGoes, map, ix, mp
  <2>5. Between' => /\ shown.indices[num].start # NO_KEY /\ message' = ""
                    /\ logical_to_hid_map' = LayoutAfterLoad(shown, num)
                    /\ saved_key_mapping_indices' = shown.indices
                    /\ saved_key_mappings' = shown.mappings
    BY <1>1, <1>2, <2>1, <2>2 DEF map, ix, mp
  <2> QED BY <1>1, <1>2, <1>3, <1>4, <2>3, <2>4, <2>5 DEF StorageInv, CallInv
<1> QED
  BY <1>1, <1>5, <1>6, <1>7

\* What leaves the backups and the writes alone.
LEMMA InvOther ==
    ASSUME StorageInv, CallInv,
           PowerLoss \/ ResetDefaults \/ UNCHANGED stepVars
           \/ \E l_key \in LogicalKeys, h_key \in HidValues : Remap(l_key, h_key)
    PROVE  StorageInv' /\ CallInv'
<1>1. CASE PowerLoss \/ UNCHANGED stepVars
  <2>1. UNCHANGED <<vars, writes, answer, num, shown>>
    BY <1>1 DEF PowerLoss, stepVars
  <2>2. storage' = storage /\ Between' = Between
    BY <2>1 DEF storage, vars, Between
  <2>3. StorageInv'
    BY <2>1, <2>2 DEF StorageInv, vars
  <2>4. CallInv'
    BY <2>1, <2>2 DEF CallInv, SaveGoes, DeleteGoes, LoadGoes
  <2> QED BY <2>3, <2>4
<1>2. CASE ResetDefaults \/ \E l_key \in LogicalKeys, h_key \in HidValues : Remap(l_key, h_key)
  <2>1. /\ Between /\ UNCHANGED <<writes, saved_key_mapping_indices, saved_key_mappings>>
        /\ \/ logical_to_hid_map' = logical_to_hid_map_default
           \/ \E l_key, h_key : logical_to_hid_map' = [logical_to_hid_map EXCEPT ![l_key] = h_key]
    BY <1>2 DEF ResetDefaults, Remap, config_reset_defaults, config_save_definition
  <2>2. IsArray(logical_to_hid_map', LogicalKeys)
    BY <2>1, LayoutSizes DEF StorageInv, IsArray
  <2>3. Between'
    BY <2>1 DEF Between
  <2> QED BY <2>1, <2>2, <2>3 DEF StorageInv, CallInv
<1> QED
  BY <1>1, <1>2

\* StorageInv and CallInv are inductive.
LEMMA InvStep ==
    ASSUME StorageInv, CallInv, [StepNext]_stepVars
    PROVE  StorageInv' /\ CallInv'
<1>1. CASE DoWrite
  BY <1>1, InvWrite
<1>2. CASE \E n \in Numbers : BeginSave(n) \/ BeginDelete(n) \/ BeginLoad(n)
  BY <1>2, InvBegin
<1>3. CASE PowerLoss \/ ResetDefaults \/ UNCHANGED stepVars
           \/ \E l_key \in LogicalKeys, h_key \in HidValues : Remap(l_key, h_key)
  BY <1>3, InvOther
<1>4. CASE ResetFully
  BY <1>4, InvReset
<1> QED
  BY <1>1, <1>2, <1>3, <1>4 DEF StepNext

-----------------------------------------------------------------------------
\* config_save_layout, config_delete_layout: between two calls the backups fill
\* the front of the array without gaps and never share an element, for any number
\* of slots and any sequence of saves, refused saves, deletes and losses of power.
THEOREM BackupsPacked == StepSpec => []PackedBetween
<1>1. StorageInv /\ CallInv => PackedBetween
  <2> SUFFICES ASSUME StorageInv, CallInv PROVE PackedBetween
    OBVIOUS
  <2> DEFINE ix == Visible.indices
  <2>1. PackedIndices(ix)
    BY DEF StorageInv, CallInv, Visible, storage
  <2>2. /\ UNION {ix[n].start..ix[n].end : n \in Used(ix)} = 0..(FirstFree(ix) - 1)
        /\ \A m, n \in Used(ix) : m # n => (ix[m].start..ix[m].end) \cap (ix[n].start..ix[n].end) = {}
    <3> HIDE DEF ix
    <3> QED BY <2>1, PackedFills
  <2> QED
    BY <2>2 DEF PackedBetween, Whole!LayoutsPacked, Whole!PositionsOf, Whole!Used, Whole!FirstFree,
                Whole!Numbers, Whole!NO_KEY, Whole!Max, Used, FirstFree, Numbers, NO_KEY, Max
<1>2. StepInit => StorageInv /\ CallInv
  BY InvInit
<1>3. StorageInv /\ CallInv /\ [StepNext]_stepVars => (StorageInv /\ CallInv)'
  BY InvStep
<1> QED
  BY <1>1, <1>2, <1>3, PTL DEF StepSpec

\* The last write of a call is the step SavedLayouts takes for it, the others
\* are none.
LEMMA WriteImplements ==
    ASSUME StorageInv, CallInv, DoWrite
    PROVE  [Whole!Next]_Whole!vars
<1> DEFINE v == Visible
<1>1. ~Between /\ v = shown /\ num \in Numbers /\ shown' = shown
  BY InvWrite DEF CallInv, Visible, DoWrite
<1>2. CASE ~Between'
  <2>1. Visible' = Visible
    BY <1>1, <1>2 DEF Visible
  <2> QED BY <2>1 DEF Whole!vars
<1>3. CASE Between'
  <2>1. /\ Visible'.map = logical_to_hid_map' /\ Visible'.indices = saved_key_mapping_indices'
        /\ Visible'.mappings = saved_key_mappings' /\ Visible'.message = message'
    BY <1>3 DEF Visible, storage
  <2>2. CASE /\ message' = MessageAfterSave(shown, num)
             /\ logical_to_hid_map' = shown.map
             /\ saved_key_mapping_indices' = IndicesAfterSave(shown, num)
             /\ saved_key_mappings' = MappingsAfterSave(shown, num)
    <3>1. Whole!config_save_layout(num)
      BY <1>1, <2>1, <2>2, CallsWhole DEF Whole!config_save_layout
    <3> QED BY <1>1, <3>1 DEF Whole!Next, Whole!Numbers, Numbers
  <2>3. CASE /\ shown.indices[num].start # NO_KEY /\ message' = ""
             /\ logical_to_hid_map' = shown.map
             /\ saved_key_mapping_indices' = IndicesAfterDelete(shown, num)
             /\ saved_key_mappings' = MappingsAfterDelete(shown, num)
    <3>1. Whole!config_delete_layout(num)
      BY <1>1, <2>1, <2>3, CallsWhole, ZenonT(30)
         DEF Whole!config_delete_layout, Whole!HasBackup, Whole!NO_KEY, NO_KEY
    <3> QED BY <1>1, <3>1 DEF Whole!Next, Whole!Numbers, Numbers
  <2>4. CASE /\ shown.indices[num].start # NO_KEY /\ message' = ""
             /\ logical_to_hid_map' = LayoutAfterLoad(shown, num)
             /\ saved_key_mapping_indices' = shown.indices
             /\ saved_key_mappings' = shown.mappings
    <3>1. Whole!config_load_layout(num)
      BY <1>1, <2>1, <2>4, CallsWhole, ZenonT(30)
         DEF Whole!config_load_layout, Whole!HasBackup, Whole!NO_KEY, NO_KEY
    <3> QED BY <1>1, <3>1 DEF Whole!Next, Whole!Numbers, Numbers
  <2> QED BY <1>3, <2>2, <2>3, <2>4, InvWrite
<1> QED
  BY <1>2, <1>3

\* config_save_layout, config_delete_layout, config_load_layout: the writes of a
\* call add up to the one step SavedLayouts takes for it, and nothing shows before
\* the last of them, for any sizes, any layouts and any sequence of calls.
THEOREM WritesImplementCalls == StepSpec => ImplementsSavedLayouts
<1>1. StepInit => Whole!Init
  <2> SUFFICES ASSUME StepInit PROVE Whole!Init
    OBVIOUS
  <2>1. Visible = storage
    BY DEF StepInit, Visible, Between
  <2> QED
    BY <2>1 DEF StepInit, Init, storage, Whole!Init, NoIndex, NO_KEY, Numbers, Positions, Whole!NoIndex,
                Whole!NO_KEY, Whole!Numbers, Whole!Positions
<1>2. StorageInv /\ CallInv /\ [StepNext]_stepVars => [Whole!Next]_Whole!vars
  <2> SUFFICES ASSUME StorageInv, CallInv, [StepNext]_stepVars PROVE [Whole!Next]_Whole!vars
    OBVIOUS
  <2>1. CASE DoWrite
    BY <2>1, WriteImplements
  <2>2. CASE \E n \in Numbers : BeginSave(n) \/ BeginDelete(n) \/ BeginLoad(n)
    <3>1. Between /\ ~Between' /\ shown' = storage
      BY <2>2, InvBegin
    <3>2. Visible' = Visible
      BY <3>1 DEF Visible
    <3> QED BY <3>2 DEF Whole!vars
  <2>3. CASE PowerLoss \/ UNCHANGED stepVars
    <3>1. Visible' = Visible
      BY <2>3 DEF PowerLoss, stepVars, vars, Visible, Between, storage
    <3> QED BY <3>1 DEF Whole!vars
  <2>4. CASE ResetDefaults
    <3>1. Visible = storage /\ Visible' = storage'
      BY <2>4 DEF ResetDefaults, Visible, Between
    <3>2. Whole!config_reset_defaults
      BY <2>4, <3>1 DEF ResetDefaults, config_reset_defaults, Whole!config_reset_defaults, storage
    <3> QED BY <3>2 DEF Whole!Next
  <2>5. CASE \E l_key \in LogicalKeys, h_key \in HidValues : Remap(l_key, h_key)
    <3>1. PICK l_key \in LogicalKeys, h_key \in HidValues : Remap(l_key, h_key)
      BY <2>5
    <3>2. Visible = storage /\ Visible' = storage'
      BY <3>1 DEF Remap, Visible, Between
    <3>3. Whole!config_save_definition(l_key, h_key)
      BY <3>1, <3>2 DEF Remap, config_save_definition, Whole!config_save_definition, storage
    <3> QED BY <3>3 DEF Whole!Next, Whole!LogicalKeys, LogicalKeys
  <2>6. CASE ResetFully
    <3>1. Visible = storage /\ Visible' = storage'
      BY <2>6 DEF ResetFully, Visible, Between
    <3>2. Whole!config_reset_fully
      BY <2>6, <3>1 DEF ResetFully, config_reset_fully, Whole!config_reset_fully, storage, NoIndex, NO_KEY,
                        Numbers, Whole!NoIndex, Whole!NO_KEY, Whole!Numbers
    <3> QED BY <3>2 DEF Whole!Next
  <2> QED
    BY <2>1, <2>2, <2>3, <2>4, <2>5, <2>6 DEF StepNext
<1>3. StepInit => StorageInv /\ CallInv
  BY InvInit
<1>4. StorageInv /\ CallInv /\ [StepNext]_stepVars => (StorageInv /\ CallInv)'
  BY InvStep
<1> QED
  BY <1>1, <1>2, <1>3, <1>4, PTL DEF StepSpec, ImplementsSavedLayouts, Whole!Spec

-----------------------------------------------------------------------------
(***************************************************************************)
(* Where power may be lost.  The backups in front of the one a call is     *)
(* about are none of its writes; the index of that one is erased before    *)
(* anything else is written, and is only valid again with the last write.  *)
(***************************************************************************)
InFront(ix, n) == {m \in Numbers \ {n} : ix[m].start < ix[n].start}

LeavesBackup(ws, ix, m) ==
    /\ Untouched(ws, "indices", m)
    /\ \A p \in ix[m].start..ix[m].end : Untouched(ws, "mappings", p)

Erases(w, n) == w.part = "indices" /\ w.at = n /\ w.value = NoIndex

Quiet(ws, n) == \A i \in 1..(Len(ws) - 1) : To(ws[i], "indices", n) => ws[i].value = NoIndex

PowerInv == ~power => ~Between

FrontInv ==
    ~Between => \A m \in InFront(shown.indices, num) :
        /\ LeavesBackup(writes, shown.indices, m)
        /\ saved_key_mapping_indices[m] = shown.indices[m]
        /\ \A p \in shown.indices[m].start..shown.indices[m].end :
              saved_key_mappings[p] = shown.mappings[p]

EraseInv ==
    ~Between =>
        \/ saved_key_mapping_indices[num].start = NO_KEY /\ Quiet(writes, num)
        \/ /\ saved_key_mapping_indices[num] = shown.indices[num]
           /\ saved_key_mappings = shown.mappings
           /\ \/ Erases(writes[1], num) /\ Quiet(writes, num)
              \/ \A i \in 1..Len(writes) : writes[i].part = "map"

\* A backup in front of another slot is in use, and inside the array.
LEMMA FrontPositions ==
    ASSUME NEW ix, PackedIndices(ix), NEW n \in Numbers, NEW m \in InFront(ix, n)
    PROVE  m \in Used(ix) /\ m \in Numbers /\ \A p \in ix[m].start..ix[m].end : p \in Positions
<1> DEFINE a == ix[m].start
           b == ix[m].end
           c == ix[n].start
<1>1. m \in Numbers /\ a < c
  BY DEF InFront
<1>2. ix[m] \in IndexSet /\ ix[n] \in IndexSet
  BY <1>1 DEF PackedIndices
<1>3. a \in 0..255 /\ c \in 0..255
  BY <1>2 DEF IndexSet
<1>4. a # NO_KEY
  <2> HIDE DEF a, c
  <2> QED BY <1>1, <1>3 DEF NO_KEY
<1>5. m \in Used(ix)
  BY <1>1, <1>4 DEF Used
<1>6. a \in 0..254 /\ b \in 0..254 /\ b <= SAVED_MAPPING_COUNT - 2
  BY <1>5, UsedType, ZenonT(30)
<1>7. ASSUME NEW p \in a..b PROVE p \in 0..(SAVED_MAPPING_COUNT - 1)
  <2> HIDE DEF a, b
  <2>1. p \in Nat /\ p <= SAVED_MAPPING_COUNT - 1
    BY <1>6, SizesType
  <2> QED BY <2>1, SizesType
<1> QED
  BY <1>1, <1>5, <1>7 DEF Positions

\* A backup in front of another one ends in front of it, and is not moved when
\* that one is removed.
LEMMA FrontStays ==
    ASSUME PackedIndices(saved_key_mapping_indices), NEW n \in Numbers,
           NEW m \in InFront(saved_key_mapping_indices, n)
    PROVE  /\ m \in Numbers /\ m # n /\ m \in Used(saved_key_mapping_indices)
           /\ IndicesWithout(n)[m] = saved_key_mapping_indices[m]
           /\ m \in Used(IndicesWithout(n))
           /\ saved_key_mapping_indices[m].end < FirstFree(IndicesWithout(n))
           /\ HasBackup(n) => /\ saved_key_mapping_indices[m].end < saved_key_mapping_indices[n].start
                              /\ DeletedIndices(n)[m] = saved_key_mapping_indices[m]
<1> DEFINE ix == saved_key_mapping_indices
           a == ix[m].start
           b == ix[m].end
           c == ix[n].start
           d == ix[n].end
<1>1. m \in Numbers /\ m # n /\ a < c
  BY DEF InFront
<1>2. ix[m] \in IndexSet /\ ix[n] \in IndexSet
  BY <1>1 DEF PackedIndices
<1>3. a \in 0..255 /\ c \in 0..255 /\ b \in 0..255 /\ d \in 0..255
  BY <1>2 DEF IndexSet
<1>4. a # NO_KEY
  <2> HIDE DEF a, c
  <2> QED BY <1>1, <1>3 DEF NO_KEY
<1>5. m \in Used(ix)
  BY <1>1, <1>4 DEF Used
<1>6. ASSUME HasBackup(n)
      PROVE  b < c /\ DeletedIndices(n)[m] = ix[m] /\ m \in Used(DeletedIndices(n))
  <2>1. n \in Used(ix)
    BY <1>6 DEF HasBackup, Used
  <2>2. c <= d
    BY <2>1, UsedType
  <2>3. ~(a > d)
    <3> HIDE DEF a, c, d
    <3> QED BY <1>1, <1>3, <2>2
  <2>4. Without(ix, n)[m] = ix[m] /\ b < c
    BY <1>1, <1>5, <2>1, <2>3, WithoutFront
  <2>5. m \in Used(Without(ix, n))
    BY <1>1, <1>5, <2>1, WithoutUsed
  <2> QED BY <2>4, <2>5 DEF DeletedIndices, Without
<1>7. IndicesWithout(n)[m] = ix[m] /\ m \in Used(IndicesWithout(n))
  BY <1>5, <1>6 DEF IndicesWithout
<1>8. PackedIndices(IndicesWithout(n))
  BY RemoveYields
<1>9. ix[m].end < FirstFree(IndicesWithout(n))
  <2>1. IndicesWithout(n)[m].end < FirstFree(IndicesWithout(n))
    BY <1>7, <1>8, FirstFreeIs
  <2> QED BY <2>1, <1>7
<1> QED
  BY <1>1, <1>5, <1>6, <1>7, <1>9

\* No call writes to the backups in front of the one it is about.
LEMMA FrontUntouched ==
    ASSUME PackedIndices(saved_key_mapping_indices), NEW n \in Numbers,
           NEW m \in InFront(saved_key_mapping_indices, n)
    PROVE  /\ LeavesBackup(DeleteWrites(n), saved_key_mapping_indices, m)
           /\ LeavesBackup(SaveWrites(n), saved_key_mapping_indices, m)
           /\ LeavesBackup(LoadWrites(n), saved_key_mapping_indices, m)
<1> DEFINE ix == saved_key_mapping_indices
           a == DeleteWrites(n)
           b == DifferenceWrites(SaveStart(n))
           c == IndexWrites(n)
<1>1. /\ m \in Numbers /\ m # n /\ m \in Used(ix) /\ ix[m].end < SaveStart(n)
      /\ HasBackup(n) => ix[m].end < ix[n].start /\ DeletedIndices(n)[m] = ix[m]
  BY FrontStays DEF SaveStart
<1>2. ix[m].start \in 0..254 /\ ix[m].end \in 0..254 /\ ix[m].end <= SAVED_MAPPING_COUNT - 2
  BY <1>1, UsedType
<1>3. SaveStart(n) \in Nat
  <2>1. SaveStart(n) \in 0..(SAVED_MAPPING_COUNT - 1)
    BY RemoveYields, FirstFreeIs DEF SaveStart
  <2> QED BY <2>1, SizesType
<1>4. ASSUME NEW p \in ix[m].start..ix[m].end
      PROVE  p \in Positions /\ p < SaveStart(n) /\ (HasBackup(n) => p < ix[n].start)
  <2> DEFINE e == ix[m].end
  <2>1. p \in Nat /\ p <= e /\ e \in 0..254 /\ e <= SAVED_MAPPING_COUNT - 2
    BY <1>2
  <2>2. p \in Positions
    <3> HIDE DEF e
    <3>1. p <= SAVED_MAPPING_COUNT - 1
      BY <2>1, SizesType
    <3> QED BY <2>1, <3>1, SizesType DEF Positions
  <2>3. p < SaveStart(n)
    BY <1>1, <1>2, <1>3, <2>1
  <2>4. ASSUME HasBackup(n) PROVE p < ix[n].start
    <3>1. n \in Used(ix)
      BY <2>4 DEF HasBackup, Used
    <3> DEFINE f == ix[n].start
    <3>2. f \in 0..254 /\ e < f
      BY <1>1, <2>4, <3>1, UsedType
    <3>3. p < f
      <4> HIDE DEF e, f
      <4> QED BY <2>1, <3>2
    <3> QED BY <3>3
  <2> QED BY <2>2, <2>3, <2>4
<1>5. IsList(a) /\ IsList(b) /\ IsList(c) /\ IsList(a \o b)
  BY <1>3, RemoveYields, DifferenceYields, IndexYields, ListBoth
<1>6. LeavesBackup(a, ix, m)
  <2>1. CASE HasBackup(n)
    <3> DEFINE e == <<Write("indices", n, NoIndex)>>
               s == ShiftWrites(n)
               v == MoveWrites(n)
    <3>1. a = (e \o s) \o v
      BY <2>1 DEF DeleteWrites
    <3>2. n \in Used(ix)
      BY <2>1 DEF HasBackup, Used
    <3>3. IsList(e) /\ \A part, at : part # "indices" \/ at # n => Untouched(e, part, at)
      BY EraseYields
    <3>4. /\ IsList(s) /\ Untouched(s, "indices", m)
          /\ \A part, at : part # "indices" => Untouched(s, part, at)
      BY <1>1, <2>1, ShiftYields
    <3>5. /\ IsList(v) /\ \A part, at : part # "mappings" => Untouched(v, part, at)
          /\ \A p \in Positions : p < ix[n].start => Untouched(v, "mappings", p)
      BY <3>2, MoveYields
    <3> HIDE DEF e, s, v, a
    <3>6. IsList(e \o s)
      BY <3>3, <3>4, ListBoth
    <3>7. Untouched((e \o s) \o v, "indices", m)
      <4>1. Untouched(e, "indices", m) /\ Untouched(s, "indices", m) /\ Untouched(v, "indices", m)
        BY <1>1, <3>3, <3>4, <3>5
      <4>2. Untouched(e \o s, "indices", m)
        BY <4>1, <3>3, <3>4, UntouchedBoth
      <4> QED BY <4>1, <4>2, <3>5, <3>6, UntouchedBoth
    <3>8. ASSUME NEW p \in ix[m].start..ix[m].end PROVE Untouched((e \o s) \o v, "mappings", p)
      <4>1. Untouched(e, "mappings", p) /\ Untouched(s, "mappings", p)
        BY <3>3, <3>4
      <4>2. Untouched(v, "mappings", p)
        BY <1>4, <2>1, <3>5
      <4>3. Untouched(e \o s, "mappings", p)
        BY <4>1, <3>3, <3>4, UntouchedBoth
      <4> QED BY <4>2, <4>3, <3>5, <3>6, UntouchedBoth
    <3> QED BY <3>1, <3>7, <3>8 DEF LeavesBackup
  <2>2. CASE ~HasBackup(n)
    <3>1. a = <<>> /\ Len(<<>>) = 0
      BY <2>2 DEF DeleteWrites
    <3> HIDE DEF a
    <3> QED BY <3>1 DEF LeavesBackup, Untouched
  <2> QED BY <2>1, <2>2
<1>7. LeavesBackup((a \o b) \o c, ix, m)
  <2>1. /\ \A part, at : part # "mappings" => Untouched(b, part, at)
        /\ \A p \in Positions : p < SaveStart(n) => Untouched(b, "mappings", p)
    BY <1>3, DifferenceYields
  <2>2. \A part, at : part # "indices" \/ at # n => Untouched(c, part, at)
    BY IndexYields
  <2> HIDE DEF a, b, c
  <2>3. Untouched((a \o b) \o c, "indices", m)
    <3>1. Untouched(a, "indices", m) /\ Untouched(b, "indices", m) /\ Untouched(c, "indices", m)
      BY <1>1, <1>6, <2>1, <2>2 DEF LeavesBackup
    <3>2. Untouched(a \o b, "indices", m)
      BY <3>1, <1>5, UntouchedBoth
    <3> QED BY <3>1, <3>2, <1>5, UntouchedBoth
  <2>4. ASSUME NEW p \in ix[m].start..ix[m].end PROVE Untouched((a \o b) \o c, "mappings", p)
    <3>1. Untouched(a, "mappings", p) /\ Untouched(c, "mappings", p)
      BY <1>6, <2>2 DEF LeavesBackup
    <3>2. Untouched(b, "mappings", p)
      BY <1>4, <2>1
    <3>3. Untouched(a \o b, "mappings", p)
      BY <3>1, <3>2, <1>5, UntouchedBoth
    <3> QED BY <3>1, <3>3, <1>5, UntouchedBoth
  <2> QED BY <2>3, <2>4 DEF LeavesBackup
<1>8. SaveWrites(n) = (a \o b) \o c
  BY DEF SaveWrites
<1>9. LeavesBackup(LoadWrites(n), ix, m)
  <2>1. CASE HasBackup(n)
    BY <2>1, LoadYields DEF LeavesBackup, Untouched, To
  <2>2. CASE ~HasBackup(n)
    <3>1. LoadWrites(n) = <<>> /\ Len(<<>>) = 0
      BY <2>2 DEF LoadWrites
    <3> QED BY <3>1 DEF LeavesBackup, Untouched
  <2> QED BY <2>1, <2>2
<1> QED
  BY <1>6, <1>7, <1>8, <1>9

\* config_delete_layout writes nothing to the index it removes but its erasure,
\* and that first.
LEMMA DeleteErases ==
    ASSUME PackedIndices(saved_key_mapping_indices), NEW n \in Numbers
    PROVE  /\ \A i \in 1..Len(DeleteWrites(n)) :
                 To(DeleteWrites(n)[i], "indices", n) => DeleteWrites(n)[i].value = NoIndex
           /\ HasBackup(n) => /\ Len(DeleteWrites(n)) \in Nat \ {0} /\ 1 \in 1..Len(DeleteWrites(n))
                              /\ Erases(DeleteWrites(n)[1], n)
<1>1. CASE HasBackup(n)
  <2> DEFINE e == <<Write("indices", n, NoIndex)>>
             s == ShiftWrites(n)
             v == MoveWrites(n)
             a == DeleteWrites(n)
  <2>1. a = (e \o s) \o v
    BY <1>1 DEF DeleteWrites
  <2>2. n \in Used(saved_key_mapping_indices)
    BY <1>1 DEF HasBackup, Used
  <2>3. Len(e) = 1 /\ e[1].part = "indices" /\ e[1].at = n /\ e[1].value = NoIndex
    BY DEF Write
  <2>4. IsList(e) /\ IsList(s) /\ IsList(v) /\ Untouched(s, "indices", n) /\ Untouched(v, "indices", n)
    BY <2>2, EraseYields, ShiftYields, MoveYields
  <2> HIDE DEF e, s, v, a
  <2>5. IsList(e \o s)
    BY <2>4, ListBoth
  <2>6. /\ Len(s) \in Nat /\ Len(v) \in Nat /\ Len(e \o s) = 1 + Len(s)
        /\ Len(a) = 1 + Len(s) + Len(v)
        /\ \A i \in 1..1 : (e \o s)[i] = e[i]
        /\ \A i \in 1..Len(s) : (e \o s)[1 + i] = s[i]
        /\ \A i \in 1..(1 + Len(s)) : a[i] = (e \o s)[i]
        /\ \A i \in 1..Len(v) : a[1 + Len(s) + i] = v[i]
    <3>1. /\ Len(s) \in Nat /\ Len(e \o s) = 1 + Len(s)
          /\ \A i \in 1..1 : (e \o s)[i] = e[i]
          /\ \A i \in 1..Len(s) : (e \o s)[1 + i] = s[i]
      <4>1. /\ Len(s) \in Nat /\ Len(e \o s) = Len(e) + Len(s)
            /\ \A i \in 1..Len(e) : (e \o s)[i] = e[i]
            /\ \A i \in 1..Len(s) : (e \o s)[Len(e) + i] = s[i]
        BY <2>4, ListBoth
      <4>2. Len(e) = 1
        BY <2>3
      <4> QED BY <4>1, <4>2
    <3>2. /\ Len(v) \in Nat /\ Len(a) = Len(e \o s) + Len(v)
          /\ \A i \in 1..Len(e \o s) : a[i] = (e \o s)[i]
          /\ \A i \in 1..Len(v) : a[Len(e \o s) + i] = v[i]
      BY <2>1, <2>4, <2>5, ListBoth
    <3> QED BY <3>1, <3>2
  <2>7. Len(a) \in Nat \ {0} /\ 1 \in 1..Len(a) /\ a[1] = e[1]
    BY <2>6
  <2>8. ASSUME NEW i \in 1..Len(a), To(a[i], "indices", n) PROVE a[i].value = NoIndex
    <3> DEFINE k == Len(s)
               l == Len(v)
    <3>0. k \in Nat /\ l \in Nat /\ i \in 1..(1 + k + l)
      BY <2>6
    <3>1. CASE i = 1
      BY <2>3, <2>7, <3>1
    <3>2. CASE i \in 2..(1 + k)
      <4>1. i - 1 \in 1..k /\ 1 + (i - 1) = i /\ i \in 1..(1 + k)
        BY <3>0, <3>2
      <4>2. a[i] = s[i - 1]
        BY <2>6, <4>1
      <4> QED BY <2>4, <2>8, <4>1, <4>2 DEF Untouched
    <3>3. CASE i > 1 + k
      <4>1. i - (1 + k) \in 1..l /\ 1 + k + (i - (1 + k)) = i
        <5> HIDE DEF k, l
        <5> QED BY <3>0, <3>3
      <4>2. a[i] = v[i - (1 + k)]
        BY <2>6, <4>1
      <4> QED BY <2>4, <2>8, <4>1, <4>2 DEF Untouched
    <3>4. i = 1 \/ i \in 2..(1 + k) \/ i > 1 + k
      <4> HIDE DEF k, l
      <4> QED BY <3>0
    <3> QED BY <3>1, <3>2, <3>3, <3>4
  <2> QED BY <2>3, <2>7, <2>8 DEF a, Erases
<1>2. CASE ~HasBackup(n)
  <2>1. DeleteWrites(n) = <<>> /\ Len(<<>>) = 0
    BY <1>2 DEF DeleteWrites
  <2> QED BY <1>2, <2>1
<1> QED
  BY <1>1, <1>2

\* Between its first and its last write a save or a delete only erases the index
\* it is about.
LEMMA SaveQuiet ==
    ASSUME PackedIndices(saved_key_mapping_indices), NEW n \in Numbers
    PROVE  /\ Quiet(DeleteWrites(n), n) /\ Quiet(SaveWrites(n), n)
           /\ HasBackup(n) => Erases(DeleteWrites(n)[1], n) /\ Erases(SaveWrites(n)[1], n)
<1> DEFINE a == DeleteWrites(n)
           b == DifferenceWrites(SaveStart(n))
           c == IndexWrites(n)
           k == Len(a)
           l == Len(b)
           t == Len(c)
           ws == SaveWrites(n)
<1>1. ws = (a \o b) \o c
  BY DEF SaveWrites
<1>2. SaveStart(n) \in Nat
  <2>1. SaveStart(n) \in 0..(SAVED_MAPPING_COUNT - 1)
    BY RemoveYields, FirstFreeIs DEF SaveStart
  <2> QED BY <2>1, SizesType
<1>3. IsList(a) /\ IsList(b) /\ IsList(c) /\ IsList(a \o b) /\ Untouched(b, "indices", n) /\ t \in 0..1
  BY <1>2, RemoveYields, DifferenceYields, IndexYields, ListBoth
<1>4. /\ \A i \in 1..k : To(a[i], "indices", n) => a[i].value = NoIndex
      /\ HasBackup(n) => k \in Nat \ {0} /\ 1 \in 1..k /\ Erases(a[1], n)
  BY DeleteErases
<1> HIDE DEF a, b, c, ws
<1>5. /\ k \in Nat /\ l \in Nat /\ Len(a \o b) = k + l /\ Len(ws) = k + l + t
      /\ \A i \in 1..k : (a \o b)[i] = a[i]
      /\ \A i \in 1..l : (a \o b)[k + i] = b[i]
      /\ \A i \in 1..(k + l) : ws[i] = (a \o b)[i]
  BY <1>1, <1>3, ListBoth
<1>6. ASSUME NEW i \in 1..(Len(ws) - 1), To(ws[i], "indices", n) PROVE ws[i].value = NoIndex
  <2>1. i \in Int /\ i >= 1 /\ i <= k + l
    <3> HIDE DEF k, l, t
    <3> QED BY <1>3, <1>5
  <2>2. ws[i] = (a \o b)[i]
    <3> HIDE DEF k, l, t
    <3>1. i \in 1..(k + l)
      BY <1>5, <2>1
    <3> QED BY <1>5, <3>1
  <2>3. CASE i <= k
    <3>1. i \in 1..k
      BY <1>5, <2>1, <2>3
    <3> QED BY <1>4, <1>5, <1>6, <2>2, <3>1
  <2>4. CASE i > k
    <3>1. i - k \in 1..l /\ k + (i - k) = i
      <4> HIDE DEF k, l, t
      <4> QED BY <1>5, <2>1, <2>4
    <3>2. ws[i] = b[i - k]
      BY <1>5, <2>2, <3>1
    <3> QED BY <1>3, <1>6, <3>1, <3>2 DEF Untouched
  <2> QED BY <1>5, <2>1, <2>3, <2>4
<1>7. Quiet(a, n)
  <2>1. \A i \in 1..(k - 1) : i \in 1..k
    <3> HIDE DEF k
    <3> QED BY <1>5
  <2> QED BY <1>4, <2>1 DEF Quiet
<1>8. HasBackup(n) => Erases(ws[1], n)
  <2>1. HasBackup(n) => 1 \in 1..k /\ 1 \in 1..(k + l)
    <3> HIDE DEF k, l
    <3> QED BY <1>4, <1>5
  <2> QED BY <1>4, <1>5, <2>1
<1> QED
  BY <1>4, <1>6, <1>7, <1>8 DEF Quiet, a, ws

\* What a call that begins may lose with power.
LEMMA LossBegin ==
    ASSUME StorageInv, NEW n \in Numbers, BeginSave(n) \/ BeginDelete(n) \/ BeginLoad(n)
    PROVE  PowerInv' /\ FrontInv' /\ EraseInv'
<1> DEFINE ix == saved_key_mapping_indices
<1>1. /\ Between /\ ~Between' /\ num' = n /\ shown' = storage /\ UNCHANGED vars /\ power'
      /\ writes' \in {SaveWrites(n), DeleteWrites(n), LoadWrites(n)}
  <2>1. power = TRUE /\ power' = power
    BY DEF BeginSave, BeginDelete, BeginLoad, Begin
  <2>2. writes' \in {SaveWrites(n), DeleteWrites(n), LoadWrites(n)}
    BY DEF BeginSave, BeginDelete, BeginLoad, Begin
  <2>3. Between /\ ~Between' /\ num' = n /\ shown' = storage /\ UNCHANGED vars
    BY InvBegin DEF BeginSave, BeginDelete, BeginLoad, Begin
  <2> QED BY <2>1, <2>2, <2>3
<1>2. PackedIndices(ix)
  BY <1>1 DEF StorageInv
<1>3. /\ shown'.indices = ix /\ shown'.mappings = saved_key_mappings
      /\ saved_key_mapping_indices' = ix /\ saved_key_mappings' = saved_key_mappings
  BY <1>1 DEF storage, vars
<1>4. FrontInv'
  <2>1. \A m \in InFront(ix, n) : LeavesBackup(writes', ix, m)
    BY <1>1, <1>2, FrontUntouched
  <2> QED BY <1>1, <1>3, <2>1 DEF FrontInv
<1>5. EraseInv'
  <2>1. CASE writes' \in {SaveWrites(n), DeleteWrites(n)}
    <3>1. Quiet(writes', n) /\ (HasBackup(n) => Erases(writes'[1], n))
      BY <1>2, <2>1, SaveQuiet
    <3>2. ~HasBackup(n) => ix[n].start = NO_KEY
      BY DEF HasBackup
    <3> QED BY <1>1, <1>3, <3>1, <3>2 DEF EraseInv
  <2>2. CASE writes' = LoadWrites(n)
    <3>1. HasBackup(n)
      BY <1>1, <2>2 DEF LoadWrites, Between
    <3>2. \A i \in 1..Len(writes') : writes'[i].part = "map"
      BY <2>2, <3>1, LoadYields
    <3> QED BY <1>1, <1>3, <3>2 DEF EraseInv
  <2> QED BY <1>1, <2>1, <2>2
<1> QED
  BY <1>1, <1>4, <1>5 DEF PowerInv

\* What a write of a call may lose with power.
LEMMA LossWrite ==
    ASSUME StorageInv, CallInv, PowerInv, FrontInv, EraseInv, DoWrite
    PROVE  PowerInv' /\ FrontInv' /\ EraseInv'
<1> DEFINE w == Head(writes)
<1>1. /\ IsList(writes) /\ writes # <<>> /\ writes' = Tail(writes) /\ ~Between
      /\ shown' = shown /\ num' = num /\ power'
      /\ IsArray(saved_key_mapping_indices, Numbers) /\ IsArray(saved_key_mappings, Positions)
      /\ num \in Numbers
  BY DEF StorageInv, CallInv, DoWrite, Between
<1>2. /\ Len(writes) \in Nat \ {0} /\ Len(writes') = Len(writes) - 1 /\ w = writes[1]
      /\ \A i \in 1..Len(writes') : writes'[i] = writes[i + 1]
  BY <1>1, ListTail
<1>3. /\ saved_key_mapping_indices' = IF w.part # "indices" THEN saved_key_mapping_indices
                                      ELSE [saved_key_mapping_indices EXCEPT ![w.at] = w.value]
      /\ saved_key_mappings' = IF w.part # "mappings" THEN saved_key_mappings
                               ELSE [saved_key_mappings EXCEPT ![w.at] = w.value]
  BY DEF DoWrite
<1>4. \A m \in Numbers : ~To(w, "indices", m) => saved_key_mapping_indices'[m] = saved_key_mapping_indices[m]
  BY <1>1, <1>3 DEF To, IsArray
<1>5. \A p \in Positions : ~To(w, "mappings", p) => saved_key_mappings'[p] = saved_key_mappings[p]
  BY <1>1, <1>3 DEF To, IsArray
<1>6. FrontInv'
  <2> SUFFICES ASSUME NEW m \in InFront(shown.indices, num)
               PROVE  /\ LeavesBackup(writes', shown.indices, m)
                      /\ saved_key_mapping_indices'[m] = shown.indices[m]
                      /\ \A p \in shown.indices[m].start..shown.indices[m].end :
                            saved_key_mappings'[p] = shown.mappings[p]
    BY <1>1 DEF FrontInv
  <2>1. /\ LeavesBackup(writes, shown.indices, m)
        /\ saved_key_mapping_indices[m] = shown.indices[m]
        /\ \A p \in shown.indices[m].start..shown.indices[m].end : saved_key_mappings[p] = shown.mappings[p]
    BY <1>1 DEF FrontInv
  <2>2. Untouched(writes', "indices", m) /\ ~To(w, "indices", m)
    BY <1>1, <2>1, UntouchedTail DEF LeavesBackup
  <2>3. ASSUME NEW p \in shown.indices[m].start..shown.indices[m].end
        PROVE  Untouched(writes', "mappings", p) /\ ~To(w, "mappings", p)
    BY <1>1, <2>1, UntouchedTail DEF LeavesBackup
  <2>4. m \in Numbers /\ \A p \in shown.indices[m].start..shown.indices[m].end : p \in Positions
    <3>1. PackedIndices(shown.indices)
      BY <1>1 DEF CallInv
    <3> QED BY <1>1, <3>1, FrontPositions
  <2> QED BY <1>4, <1>5, <2>1, <2>2, <2>3, <2>4 DEF LeavesBackup
<1>7. EraseInv'
  <2> SUFFICES ASSUME ~Between' PROVE EraseInv'
    BY DEF EraseInv
  <2>1. Len(writes) > 1 /\ 1 \in 1..(Len(writes) - 1)
    <3>1. Len(writes) # 1
      BY <1>1, TailEmpty DEF Between
    <3> QED BY <1>2, <3>1
  <2>2. ASSUME Quiet(writes, num)
        PROVE  /\ Quiet(writes', num) /\ (To(w, "indices", num) => w.value = NoIndex)
    <3>1. \A i \in 1..(Len(writes') - 1) : i \in 1..Len(writes') /\ i + 1 \in 1..(Len(writes) - 1)
      BY <1>2
    <3> QED BY <1>2, <2>1, <2>2, <3>1 DEF Quiet
  <2>3. To(w, "indices", num) /\ w.value = NoIndex => saved_key_mapping_indices'[num].start = NO_KEY
    BY <1>1, <1>3 DEF To, NoIndex, IsArray
  <2>4. CASE saved_key_mapping_indices[num].start = NO_KEY /\ Quiet(writes, num)
    <3>1. saved_key_mapping_indices'[num].start = NO_KEY
      BY <1>1, <1>4, <2>2, <2>3, <2>4
    <3> QED BY <1>1, <2>2, <2>4, <3>1 DEF EraseInv
  <2>5. CASE Erases(writes[1], num) /\ Quiet(writes, num)
    <3>1. saved_key_mapping_indices'[num].start = NO_KEY
      BY <1>2, <2>3, <2>5 DEF Erases, To
    <3> QED BY <1>1, <2>2, <2>5, <3>1 DEF EraseInv
  <2>6. CASE /\ saved_key_mapping_indices[num] = shown.indices[num]
             /\ saved_key_mappings = shown.mappings
             /\ \A i \in 1..Len(writes) : writes[i].part = "map"
    <3>1. w.part = "map"
      BY <1>2, <2>6
    <3>2. saved_key_mapping_indices' = saved_key_mapping_indices /\ saved_key_mappings' = saved_key_mappings
      BY <1>3, <3>1
    <3>3. \A i \in 1..Len(writes') : i + 1 \in 1..Len(writes)
      BY <1>2
    <3>4. \A i \in 1..Len(writes') : writes'[i].part = "map"
      BY <1>2, <2>6, <3>3
    <3> QED BY <1>1, <2>6, <3>2, <3>4 DEF EraseInv
  <2> QED BY <1>1, <2>4, <2>5, <2>6 DEF EraseInv
<1> QED
  BY <1>1, <1>6, <1>7 DEF PowerInv

\* PowerInv, FrontInv and EraseInv are inductive beside StorageInv and CallInv.
LEMMA LossStep ==
    ASSUME StorageInv, CallInv, PowerInv, FrontInv, EraseInv, [StepNext]_stepVars
    PROVE  PowerInv' /\ FrontInv' /\ EraseInv'
<1>1. CASE DoWrite
  BY <1>1, LossWrite
<1>2. CASE \E n \in Numbers : BeginSave(n) \/ BeginDelete(n) \/ BeginLoad(n)
  BY <1>2, LossBegin
<1>3. CASE PowerLoss \/ UNCHANGED stepVars
  <2>1. /\ UNCHANGED <<saved_key_mapping_indices, saved_key_mappings, writes, num, shown>>
        /\ PowerLoss => ~Between
        /\ UNCHANGED stepVars => power' = power
    BY <1>3 DEF PowerLoss, stepVars, vars, Between
  <2>2. Between' = Between
    BY <2>1 DEF Between
  <2> QED BY <1>3, <2>1, <2>2 DEF PowerInv, FrontInv, EraseInv
<1>4. CASE ResetDefaults \/ ResetFully
           \/ \E l_key \in LogicalKeys, h_key \in HidValues : Remap(l_key, h_key)
  <2>1. Between' /\ power'
    BY <1>4, SMTT(30) DEF ResetDefaults, ResetFully, Remap, Between
  <2> QED BY <2>1 DEF PowerInv, FrontInv, EraseInv
<1> QED
  BY <1>1, <1>2, <1>3, <1>4 DEF StepNext

\* A backup whose index and elements are as they were is the same backup.
LEMMA SameBackup ==
    ASSUME ~Between, NEW n \in Numbers, saved_key_mapping_indices[n] = shown.indices[n],
           \A p \in shown.indices[n].start..shown.indices[n].end :
              saved_key_mappings[p] = shown.mappings[p]
    PROVE  Backups[n] = Whole!Backups[n]
<1> DEFINE i == saved_key_mapping_indices[n]
           ps == shown.indices[n].start..shown.indices[n].end
           at(l) == {p \in i.start..i.end : saved_key_mappings[p].l_key = l}
           was(l) == {p \in ps : shown.mappings[p].l_key = l}
           now == [l \in LogicalKeys |-> IF at(l) = {} THEN logical_to_hid_map_default[l]
                                         ELSE saved_key_mappings[CHOOSE p \in at(l) : TRUE].h_key]
           then == [l \in LogicalKeys |-> IF was(l) = {} THEN logical_to_hid_map_default[l]
                                          ELSE shown.mappings[CHOOSE p \in was(l) : TRUE].h_key]
<1>1. Visible = shown
  BY DEF Visible
<1>2. Backups[n] = IF i.start # NO_KEY THEN now ELSE logical_to_hid_map_default
  BY DEF Backups, HasBackup, PositionsOf
<1>3. Whole!Backups[n] = IF shown.indices[n].start # NO_KEY THEN then ELSE logical_to_hid_map_default
  BY <1>1 DEF Whole!Backups, Whole!HasBackup, Whole!PositionsOf, Whole!Numbers, Whole!NO_KEY,
              Whole!LogicalKeys, Numbers, NO_KEY, LogicalKeys
<1>4. ASSUME NEW l \in LogicalKeys PROVE now[l] = then[l]
  <2>1. at(l) = was(l)
    OBVIOUS
  <2>2. ASSUME at(l) # {}
        PROVE  saved_key_mappings[CHOOSE p \in at(l) : TRUE] = shown.mappings[CHOOSE p \in at(l) : TRUE]
    <3>1. (CHOOSE p \in at(l) : TRUE) \in ps
      BY <2>2
    <3> QED BY <3>1
  <2> QED BY <2>1, <2>2
<1>5. now = then
  BY <1>4
<1> QED
  BY <1>2, <1>3, <1>5

\* config_save_layout, config_delete_layout, config_load_layout: wherever power is
\* lost in a call, the backups stored in front of the one it is about keep every
\* key, and when that one does not exist so do all the others, for any sizes and
\* any backups.
THEOREM EarlierBackupsKept == StepSpec => []KeepsEarlier
<1> DEFINE Inv == StorageInv /\ CallInv /\ PowerInv /\ FrontInv /\ EraseInv
<1>1. Inv => KeepsEarlier
  <2> SUFFICES ASSUME Inv, ~power, NEW n \in Numbers \ {num},
                      shown.indices[n].start < shown.indices[num].start
               PROVE  Backups[n] = Whole!Backups[n]
    BY DEF KeepsEarlier
  <2>1. ~Between /\ n \in InFront(shown.indices, num)
    BY DEF PowerInv, InFront
  <2>2. /\ saved_key_mapping_indices[n] = shown.indices[n]
        /\ \A p \in shown.indices[n].start..shown.indices[n].end : saved_key_mappings[p] = shown.mappings[p]
    BY <2>1 DEF FrontInv
  <2> QED BY <2>1, <2>2, SameBackup
<1>2. StepInit => Inv
  <2>1. StepInit => Between /\ power
    BY DEF StepInit, Between
  <2> QED BY <2>1, InvInit DEF PowerInv, FrontInv, EraseInv
<1>3. Inv /\ [StepNext]_stepVars => Inv'
  BY InvStep, LossStep
<1> QED
  BY <1>1, <1>2, <1>3, PTL DEF StepSpec

\* config_save_layout, config_delete_layout: an index is never valid while the
\* elements behind it are not all written: an interrupted call leaves the old
\* backup or none, never a part of the new one, for any sizes and any layouts.
THEOREM NoHalfSavedBackup == StepSpec => []NeverHalfSaved
<1> DEFINE Inv == StorageInv /\ CallInv /\ PowerInv /\ FrontInv /\ EraseInv
<1>1. Inv => NeverHalfSaved
  <2> SUFFICES ASSUME Inv, ~power
               PROVE  Backups[num] \in {Whole!Backups[num], logical_to_hid_map, logical_to_hid_map_default}
    BY DEF NeverHalfSaved
  <2>1. ~Between /\ num \in Numbers
    BY DEF PowerInv, CallInv
  <2>2. CASE saved_key_mapping_indices[num].start = NO_KEY
    <3>1. Backups[num] = logical_to_hid_map_default
      BY <2>1, <2>2 DEF Backups, HasBackup
    <3> QED BY <3>1
  <2>3. CASE saved_key_mapping_indices[num] = shown.indices[num] /\ saved_key_mappings = shown.mappings
    <3>1. Backups[num] = Whole!Backups[num]
      BY <2>1, <2>3, SameBackup
    <3> QED BY <3>1
  <2> QED BY <2>1, <2>2, <2>3 DEF EraseInv
<1>2. StepInit => Inv
  <2>1. StepInit => Between /\ power
    BY DEF StepInit, Between
  <2> QED BY <2>1, InvInit DEF PowerInv, FrontInv, EraseInv
<1>3. Inv /\ [StepNext]_stepVars => Inv'
  BY InvStep, LossStep
<1> QED
  BY <1>1, <1>2, <1>3, PTL DEF StepSpec

-----------------------------------------------------------------------------
(***************************************************************************)
(* The backups as the layouts they stand for.  Elements s to e of an array *)
(* mp list layout b: they are the keys in which b differs from the factory *)
(* layout, in ascending order.                                             *)
(***************************************************************************)
Remapped(b) == {l \in LogicalKeys : b[l] # logical_to_hid_map_default[l]}

Lists(mp, s, e, b) ==
    /\ IsArray(b, LogicalKeys)
    /\ \A p \in s..e : mp[p].l_key \in Remapped(b) /\ mp[p].h_key = b[mp[p].l_key]
    /\ \A p, q \in s..e : p < q => mp[p].l_key < mp[q].l_key
    /\ \A l \in Remapped(b) : \E p \in s..e : mp[p].l_key = l

IsBackup(ix, mp, n, b) ==
    IF ix[n].start = NO_KEY THEN b = logical_to_hid_map_default
    ELSE Lists(mp, ix[n].start, ix[n].end, b)

Copies(ix, mp, bk) == IsArray(bk, Numbers) /\ \A n \in Numbers : IsBackup(ix, mp, n, bk[n])

\* What Backups reads from indices ix and array mp.
LayoutIn(mp, s, e) ==
    [l \in LogicalKeys |->
        LET at == {p \in s..e : mp[p].l_key = l}
        IN  IF at = {} THEN logical_to_hid_map_default[l] ELSE mp[CHOOSE p \in at : TRUE].h_key]

BackupsIn(ix, mp) ==
    [n \in Numbers |->
        IF ix[n].start # NO_KEY THEN LayoutIn(mp, ix[n].start, ix[n].end)
        ELSE logical_to_hid_map_default]

\* Keys are numbers.
LEMMA RemappedType ==
    ASSUME NEW b, NEW l \in Remapped(b)
    PROVE  l \in LogicalKeys /\ l \in Nat /\ l \in Int
<1>1. l \in LogicalKeys
  BY DEF Remapped
<1>2. l \in Nat
  BY <1>1, SizesType
<1> QED
  BY <1>1, <1>2

\* The layout that a list stands for.
LEMMA ListIsLayout ==
    ASSUME NEW mp, NEW s, NEW e, NEW b, Lists(mp, s, e, b)
    PROVE  LayoutIn(mp, s, e) = b
<1> DEFINE at(l) == {p \in s..e : mp[p].l_key = l}
<1>1. ASSUME NEW l \in LogicalKeys PROVE LayoutIn(mp, s, e)[l] = b[l]
  <2>1. LayoutIn(mp, s, e)[l] = IF at(l) = {} THEN logical_to_hid_map_default[l]
                                ELSE mp[CHOOSE p \in at(l) : TRUE].h_key
    BY DEF LayoutIn
  <2>2. CASE at(l) = {}
    <3>1. l \notin Remapped(b)
      BY <2>2 DEF Lists
    <3> QED BY <2>1, <2>2, <3>1 DEF Remapped
  <2>3. CASE at(l) # {}
    <3> DEFINE p == CHOOSE q \in at(l) : TRUE
    <3>1. p \in at(l)
      BY <2>3
    <3>2. p \in s..e /\ mp[p].l_key = l
      BY <3>1
    <3>3. mp[p].h_key = b[l]
      <4> HIDE DEF p
      <4> QED BY <3>2 DEF Lists
    <3> QED BY <2>1, <2>3, <3>3
  <2> QED BY <2>2, <2>3
<1>2. IsArray(b, LogicalKeys) /\ IsArray(LayoutIn(mp, s, e), LogicalKeys)
  BY DEF Lists, LayoutIn, IsArray
<1> QED
  BY <1>1, <1>2, SameArrays

\* The layouts that indices and array stand for.
LEMMA CopiesAre ==
    ASSUME NEW ix, NEW mp, NEW bk, Copies(ix, mp, bk)
    PROVE  BackupsIn(ix, mp) = bk
<1>1. ASSUME NEW n \in Numbers PROVE BackupsIn(ix, mp)[n] = bk[n]
  <2>1. IsBackup(ix, mp, n, bk[n])
    BY DEF Copies
  <2>2. BackupsIn(ix, mp)[n] = IF ix[n].start # NO_KEY THEN LayoutIn(mp, ix[n].start, ix[n].end)
                               ELSE logical_to_hid_map_default
    BY DEF BackupsIn
  <2> QED BY <2>1, <2>2, ListIsLayout DEF IsBackup
<1>2. IsArray(bk, Numbers) /\ IsArray(BackupsIn(ix, mp), Numbers)
  BY DEF Copies, BackupsIn, IsArray
<1> QED
  BY <1>1, <1>2, SameArrays

\* A list that is moved down lists the same layout.
LEMMA ListMoved ==
    ASSUME NEW mp, NEW new, NEW s \in Int, NEW e \in Int, NEW d \in Int, NEW b,
           Lists(mp, s, e, b), \A p \in (s - d)..(e - d) : new[p] = mp[p + d]
    PROVE  Lists(new, s - d, e - d, b)
<1>1. ASSUME NEW p \in (s - d)..(e - d) PROVE p + d \in s..e /\ p \in Int
  OBVIOUS
<1>2. ASSUME NEW p \in (s - d)..(e - d)
      PROVE  new[p].l_key \in Remapped(b) /\ new[p].h_key = b[new[p].l_key]
  BY <1>1 DEF Lists
<1>3. ASSUME NEW p \in (s - d)..(e - d), NEW q \in (s - d)..(e - d), p < q
      PROVE  new[p].l_key < new[q].l_key
  <2>1. p + d \in s..e /\ q + d \in s..e /\ p + d < q + d
    BY <1>3
  <2>2. mp[p + d].l_key < mp[q + d].l_key
    BY <2>1 DEF Lists
  <2> QED BY <2>2
<1>4. ASSUME NEW l \in Remapped(b) PROVE \E p \in (s - d)..(e - d) : new[p].l_key = l
  <2>1. PICK p \in s..e : mp[p].l_key = l
    BY DEF Lists
  <2>2. p - d \in (s - d)..(e - d) /\ (p - d) + d = p
    OBVIOUS
  <2>3. new[p - d] = mp[p]
    BY <2>2
  <2> QED BY <2>1, <2>2, <2>3
<1> QED
  BY <1>2, <1>3, <1>4 DEF Lists

\* A list that is not written to lists the same layout.
LEMMA ListStays ==
    ASSUME NEW mp, NEW new, NEW s, NEW e, NEW b,
           Lists(mp, s, e, b), \A p \in s..e : new[p] = mp[p]
    PROVE  Lists(new, s, e, b)
BY DEF Lists
\* No backup ends behind the last position in use.
LEMMA MaxEndLast ==
    ASSUME NEW ix, PackedIndices(ix), NEW n \in Used(ix), NEW m \in Used(ix), ix[m].start > ix[n].end
    PROVE  ix[m].end <= MaxEnd(ix, ix[n])
<1> DEFINE E == {ix[n].end} \cup {ix[k].end : k \in {j \in Used(ix) : ix[j].start > ix[n].end}}
           b == SAVED_MAPPING_COUNT - 2
           h == ix[n].end
           x == ix[m].end
<1>1. b \in Int /\ \A k \in Used(ix) : ix[k].end \in Int /\ ix[k].end <= b
  <2>1. b \in Int
    BY SizesType
  <2>2. \A k \in Used(ix) : ix[k].end \in 0..254 /\ ix[k].end <= b
    BY UsedType
  <2> QED BY <2>1, <2>2
<1>2. E \in SUBSET Int /\ h \in E /\ x \in E /\ \A y \in E : y <= b
  BY <1>1
<1>3. \E k \in E : \A y \in E : k >= y
  <2> HIDE DEF E, b, h
  <2> QED BY <1>1, <1>2, GreatestElement
<1>4. Max(E) \in E /\ \A y \in E : Max(E) >= y
  <2> HIDE DEF E
  <2> QED BY <1>3 DEF Max
<1>5. MaxEnd(ix, ix[n]) = Max(E)
  BY DEF MaxEnd
<1>6. x <= Max(E)
  <2> HIDE DEF E, x
  <2> QED BY <1>2, <1>4
<1> QED
  BY <1>5, <1>6

\* Deleting a backup moves the elements of those behind it with their indices,
\* and leaves those in front of it.
LEMMA DeletedElements ==
    ASSUME PackedIndices(saved_key_mapping_indices), NEW n \in Used(saved_key_mapping_indices),
           NEW m \in Used(saved_key_mapping_indices), m # n, NEW b,
           Lists(saved_key_mappings, saved_key_mapping_indices[m].start, saved_key_mapping_indices[m].end, b)
    PROVE  Lists(DeletedMappings(n), DeletedIndices(n)[m].start, DeletedIndices(n)[m].end, b)
<1> DEFINE ix == saved_key_mapping_indices
           mp == saved_key_mappings
           new == DeletedMappings(n)
           g == ix[n].start
           h == ix[n].end
           len == Length(ix[n])
           last == MaxEnd(ix, ix[n])
           a == ix[m].start
           c == ix[m].end
<1>1. /\ g \in 0..254 /\ h \in 0..254 /\ g <= h
      /\ len \in 1..255 /\ len = h - g + 1
  BY UsedType, LengthIs, ZenonT(30)
<1>2. a \in 0..254 /\ c \in 0..254 /\ a <= c /\ c <= SAVED_MAPPING_COUNT - 2
  BY UsedType, ZenonT(30)
<1>3. last \in h..(SAVED_MAPPING_COUNT - 2)
  BY MaxEndIs
<1>4. DeletedIndices(n) = Without(ix, n)
  BY DEF DeletedIndices, Without
<1>5. \A p \in Positions : new[p] = IF p \in g..(last - len) /\ p + len \in Positions THEN mp[p + len] ELSE mp[p]
  BY DEF DeletedMappings
<1>6. Lists(mp, a, c, b)
  OBVIOUS
<1>7. CASE a > h
  <2>1. Without(ix, n)[m].start = a - len /\ Without(ix, n)[m].end = c - len
    BY <1>7, WithoutBehind
  <2>2. c <= last
    BY <1>7, MaxEndLast
  <2> HIDE DEF ix, mp, new, g, h, len, last, a, c
  <2>3. ASSUME NEW p \in (a - len)..(c - len) PROVE new[p] = mp[p + len]
    <3>0. SAVED_MAPPING_COUNT \in Int /\ last \in Int
      BY <1>1, <1>3, SizesType
    <3>1. p \in Int /\ p >= a - len /\ p <= c - len
      BY <1>1, <1>2
    <3>2. p >= g /\ p <= last - len
      BY <1>1, <1>2, <1>7, <2>2, <3>0, <3>1
    <3>3. p + len <= SAVED_MAPPING_COUNT - 1 /\ p <= SAVED_MAPPING_COUNT - 1 /\ p + len >= 0
      BY <1>1, <1>2, <3>0, <3>1, <3>2
    <3>4. p \in Positions /\ p + len \in Positions
      BY <1>1, <3>0, <3>1, <3>2, <3>3 DEF Positions
    <3>5. p \in g..(last - len)
      BY <1>1, <3>0, <3>1, <3>2
    <3> QED BY <1>5, <3>4, <3>5
  <2>4. Lists(new, a - len, c - len, b)
    <3>1. a \in Int /\ c \in Int /\ len \in Int
      BY <1>1, <1>2
    <3> QED BY <1>6, <2>3, <3>1, ListMoved
  <2> QED BY <1>4, <2>1, <2>4 DEF new
<1>8. CASE ~(a > h)
  <2>1. Without(ix, n)[m] = ix[m] /\ c < g
    BY <1>8, WithoutFront
  <2>2. Without(ix, n)[m].start = a /\ Without(ix, n)[m].end = c
    BY <2>1
  <2> HIDE DEF ix, mp, new, g, h, len, last, a, c
  <2>3. ASSUME NEW p \in a..c PROVE new[p] = mp[p]
    <3>1. p \in Int /\ p >= 0 /\ p < g /\ p <= SAVED_MAPPING_COUNT - 1
      BY <1>1, <1>2, <2>1, SizesType
    <3>2. p \in Positions
      BY <3>1, SizesType DEF Positions
    <3>3. p \notin g..(last - len)
      BY <3>1, <1>1
    <3> QED BY <1>5, <3>2, <3>3
  <2>4. Lists(new, a, c, b)
    BY <1>6, <2>3, ListStays
  <2> QED BY <1>4, <2>2, <2>4 DEF new
<1> QED
  BY <1>7, <1>8

\* config_delete_layout removes one layout and leaves the others.
LEMMA DeletedCopies ==
    ASSUME PackedIndices(saved_key_mapping_indices), NEW n \in Used(saved_key_mapping_indices),
           NEW bk, Copies(saved_key_mapping_indices, saved_key_mappings, bk)
    PROVE  Copies(DeletedIndices(n), DeletedMappings(n), [bk EXCEPT ![n] = logical_to_hid_map_default])
<1> DEFINE ix == saved_key_mapping_indices
           new == DeletedIndices(n)
           was == [bk EXCEPT ![n] = logical_to_hid_map_default]
<1>1. new = Without(ix, n) /\ n \in Numbers /\ IsArray(bk, Numbers)
  BY UsedType DEF DeletedIndices, Without, Copies
<1>2. IsArray(was, Numbers) /\ was[n] = logical_to_hid_map_default /\ \A m \in Numbers \ {n} : was[m] = bk[m]
  BY <1>1 DEF IsArray
<1>3. ASSUME NEW m \in Numbers PROVE IsBackup(new, DeletedMappings(n), m, was[m])
  <2>0. IsBackup(ix, saved_key_mappings, m, bk[m])
    BY DEF Copies
  <2>1. CASE m = n
    <3>1. new[m].start = NO_KEY
      BY <1>1, <2>1, WithoutItself DEF NoIndex
    <3> QED BY <1>2, <2>1, <3>1 DEF IsBackup
  <2>2. CASE m # n /\ m \notin Used(ix)
    <3>1. new[m] = ix[m] /\ ix[m].start = NO_KEY
      BY <1>1, <2>2, WithoutUnused
    <3> QED BY <1>2, <2>0, <2>2, <3>1 DEF IsBackup
  <2>3. CASE m # n /\ m \in Used(ix)
    <3>1. ix[m].start # NO_KEY /\ new[m].start # NO_KEY
      BY <1>1, <2>3, WithoutUsed DEF Used
    <3>2. Lists(saved_key_mappings, ix[m].start, ix[m].end, bk[m])
      BY <2>0, <3>1 DEF IsBackup
    <3>3. Lists(DeletedMappings(n), new[m].start, new[m].end, bk[m])
      BY <2>3, <3>2, DeletedElements
    <3> QED BY <1>2, <2>3, <3>1, <3>3 DEF IsBackup
  <2> QED BY <2>1, <2>2, <2>3
<1> QED
  BY <1>2, <1>3 DEF Copies

\* The first thing config_save_layout does is to delete the old backup, if any.
LEMMA WithoutCopies ==
    ASSUME PackedIndices(saved_key_mapping_indices), NEW n \in Numbers,
           NEW bk, Copies(saved_key_mapping_indices, saved_key_mappings, bk)
    PROVE  Copies(IndicesWithout(n), MappingsWithout(n), [bk EXCEPT ![n] = logical_to_hid_map_default])
<1>1. CASE HasBackup(n)
  <2>1. n \in Used(saved_key_mapping_indices)
    BY <1>1 DEF HasBackup, Used
  <2> QED BY <1>1, <2>1, DeletedCopies DEF IndicesWithout, MappingsWithout
<1>2. CASE ~HasBackup(n)
  <2>1. IsArray(bk, Numbers) /\ bk[n] = logical_to_hid_map_default
    BY <1>2 DEF Copies, IsBackup, HasBackup
  <2>2. [bk EXCEPT ![n] = logical_to_hid_map_default] = bk
    BY <2>1 DEF IsArray
  <2> QED BY <1>2, <2>2 DEF IndicesWithout, MappingsWithout
<1> QED
  BY <1>1, <1>2

\* What the loop of config_save_layout leaves in front of the elements it writes.
LEMMA WrittenBefore ==
    ASSUME NEW mappings, NEW start \in Nat, NEW p \in Positions, p < start
    PROVE  WrittenMappings(mappings, start)[p] = mappings[p]
<1>1. ASSUME NEW l \in Differences PROVE PositionOf(l, start) # p
  <2> DEFINE r == RankIn(Differences, l)
  <2>1. r \in Nat
    <3>1. r \in 0..(Cardinality(Differences) - 1) /\ Cardinality(Differences) \in Nat
      BY DifferencesFinite, RankRange
    <3> QED BY <3>1
  <2>2. PositionOf(l, start) = start + r
    BY DEF PositionOf, RankIn
  <2>3. p \in Nat
    BY SizesType
  <2> HIDE DEF r
  <2> QED BY <2>1, <2>2, <2>3
<1>2. {l \in Differences : PositionOf(l, start) = p} = {}
  BY <1>1
<1> QED
  BY <1>2 DEF WrittenMappings

\* What it leaves in the elements it writes: the difference whose rank is the
\* distance from the first of them.
LEMMA WrittenAt ==
    ASSUME NEW mappings, NEW start \in Nat, Fits(start),
           NEW p \in start..(start + Cardinality(Differences) - 1)
    PROVE  LET e == WrittenMappings(mappings, start)[p]
           IN  /\ p \in Positions /\ e.l_key \in Differences
               /\ RankIn(Differences, e.l_key) = p - start
               /\ e.h_key = logical_to_hid_map[e.l_key]
<1> DEFINE c == Cardinality(Differences)
           here == {l \in Differences : PositionOf(l, start) = p}
           k == CHOOSE l \in here : TRUE
           e == WrittenMappings(mappings, start)[p]
<1>1. c \in Nat /\ start + c <= SAVED_MAPPING_COUNT - 1 /\ SAVED_MAPPING_COUNT \in Int
  BY DifferencesFinite, SizesType DEF Fits
<1>2. p \in Nat /\ p - start \in 0..(c - 1) /\ p < SAVED_MAPPING_COUNT - 1 /\ p \in 0..(SAVED_MAPPING_COUNT - 1)
  <2> HIDE DEF c
  <2>1. p \in start..(start + c - 1)
    BY DEF c
  <2> QED BY <1>1, <2>1
<1>3. p \in Positions
  BY <1>2 DEF Positions
<1>4. PICK x \in Differences : RankIn(Differences, x) = p - start
  BY <1>2, DifferencesFinite, RankSurjective
<1>5. PositionOf(x, start) = p
  <2>1. PositionOf(x, start) = start + RankIn(Differences, x)
    BY DEF PositionOf, RankIn
  <2>2. start + (p - start) = p
    BY <1>2
  <2> QED BY <1>4, <2>1, <2>2
<1>6. k \in here
  BY <1>5
<1>7. e = [l_key |-> k, h_key |-> logical_to_hid_map[k]]
  BY <1>2, <1>3, <1>6 DEF WrittenMappings
<1>8. RankIn(Differences, k) = p - start
  <2> DEFINE r == RankIn(Differences, k)
  <2>1. r \in 0..(c - 1)
    BY <1>6, DifferencesFinite, RankRange
  <2>2. start + r = p
    BY <1>6 DEF PositionOf, RankIn
  <2> HIDE DEF r, c
  <2>3. r = p - start
    BY <1>1, <1>2, <2>1, <2>2
  <2> QED BY <2>3 DEF r
<1> HIDE DEF k, e
<1>9. k \in Differences
  BY <1>6
<1> QED
  BY <1>3, <1>7, <1>8, <1>9 DEF e

\* The elements that config_save_layout writes list the layout in force.
LEMMA WrittenList ==
    ASSUME NEW mappings, NEW start \in Nat, Fits(start), IsArray(logical_to_hid_map, LogicalKeys)
    PROVE  Lists(WrittenMappings(mappings, start), start, start + Cardinality(Differences) - 1,
                 logical_to_hid_map)
<1> DEFINE c == Cardinality(Differences)
           new == WrittenMappings(mappings, start)
           rank(l) == RankIn(Differences, l)
<1>1. Differences = Remapped(logical_to_hid_map) /\ c \in Nat
  BY DifferencesFinite DEF Differences, Remapped
<1>2. ASSUME NEW p \in start..(start + c - 1)
      PROVE  /\ new[p].l_key \in Differences /\ new[p].h_key = logical_to_hid_map[new[p].l_key]
             /\ rank(new[p].l_key) = p - start
  BY WrittenAt
<1> HIDE DEF new, c
<1>3. ASSUME NEW p \in start..(start + c - 1), NEW q \in start..(start + c - 1), p < q
      PROVE  new[p].l_key < new[q].l_key
  <2>1. p - start < q - start
    BY <1>1, <1>3
  <2>2. rank(new[p].l_key) < rank(new[q].l_key)
    BY <1>2, <2>1
  <2>3. new[p].l_key \in Differences /\ new[q].l_key \in Differences
    BY <1>2
  <2> QED BY <2>2, <2>3, DifferencesFinite, RankOrder
<1>4. ASSUME NEW l \in Differences PROVE \E p \in start..(start + c - 1) : new[p].l_key = l
  <2> DEFINE r == rank(l)
             p == start + r
  <2>1. r \in 0..(c - 1)
    BY DifferencesFinite, RankRange DEF c
  <2>2. p \in start..(start + c - 1) /\ p - start = r
    <3> HIDE DEF r
    <3> QED BY <1>1, <2>1
  <2> HIDE DEF p
  <2>3. new[p].l_key \in Differences /\ rank(new[p].l_key) = rank(l)
    BY <1>2, <2>2
  <2>4. new[p].l_key = l
    <3> DEFINE k == new[p].l_key
    <3>1. k \in Differences /\ RankIn(Differences, k) = RankIn(Differences, l)
      BY <2>3
    <3> HIDE DEF k
    <3>2. k = l
      BY <3>1, DifferencesFinite, RankInjective
    <3> QED BY <3>2 DEF k
  <2> QED BY <2>2, <2>4
<1> QED
  BY <1>1, <1>2, <1>3, <1>4 DEF Lists, new, c

\* config_save_layout replaces one layout, or removes it, and leaves the others.
LEMMA SavedCopies ==
    ASSUME PackedIndices(saved_key_mapping_indices), IsArray(logical_to_hid_map, LogicalKeys),
           NEW n \in Numbers, NEW bk, Copies(saved_key_mapping_indices, saved_key_mappings, bk)
    PROVE  Copies(SavedIndices(n), SavedMappings(n),
                  [bk EXCEPT ![n] = IF Saves(n) THEN logical_to_hid_map ELSE logical_to_hid_map_default])
<1> DEFINE ix == IndicesWithout(n)
           mp == MappingsWithout(n)
           st == SaveStart(n)
           was == [bk EXCEPT ![n] = logical_to_hid_map_default]
           b == IF Saves(n) THEN logical_to_hid_map ELSE logical_to_hid_map_default
           new == [bk EXCEPT ![n] = b]
<1>1. PackedIndices(ix) /\ n \notin Used(ix) /\ Copies(ix, mp, was)
  BY RemoveYields, WithoutCopies
<1>2. st \in Nat /\ \A m \in Used(ix) : ix[m].end < st
  <2>1. st \in 0..(SAVED_MAPPING_COUNT - 1)
    BY <1>1, FirstFreeIs DEF SaveStart
  <2> QED BY <1>1, <2>1, FirstFreeIs, SizesType DEF SaveStart
<1>3. /\ IsArray(new, Numbers) /\ new[n] = b
      /\ \A m \in Numbers \ {n} : new[m] = was[m]
  BY DEF Copies, IsArray
<1>4. /\ \A m \in Numbers \ {n} : SavedIndices(n)[m] = ix[m]
      /\ SavedIndices(n)[n] = IF Saves(n) THEN SavedIndex(n) ELSE ix[n]
  <2>1. ix \in [Numbers -> IndexSet]
    BY <1>1 DEF PackedIndices
  <2> QED BY <2>1 DEF SavedIndices
<1>5. ASSUME NEW m \in Numbers PROVE IsBackup(SavedIndices(n), SavedMappings(n), m, new[m])
  <2>1. CASE m = n /\ Saves(n)
    <3>1. Lists(SavedMappings(n), st, st + Cardinality(Differences) - 1, logical_to_hid_map)
      BY <1>2, <2>1, WrittenList DEF SavedMappings, Saves
    <3>2. SavedIndices(n)[m].start = st /\ SavedIndices(n)[m].end = st + Cardinality(Differences) - 1
      BY <1>4, <2>1 DEF SavedIndex
    <3>3. st # NO_KEY
      <4> DEFINE c == Cardinality(Differences)
      <4>1. c \in Nat \ {0} /\ st + c <= SAVED_MAPPING_COUNT - 1 /\ SAVED_MAPPING_COUNT \in 1..256
        BY <2>1, DifferencesFinite, SizesType DEF Saves, Fits
      <4> HIDE DEF c, st
      <4> QED BY <1>2, <4>1 DEF NO_KEY
    <3> QED BY <1>3, <2>1, <3>1, <3>2, <3>3 DEF IsBackup
  <2>2. CASE m = n /\ ~Saves(n)
    <3>1. SavedIndices(n)[m].start = NO_KEY
      BY <1>1, <1>4, <2>2 DEF Used
    <3> QED BY <1>3, <2>2, <3>1 DEF IsBackup
  <2>3. CASE m # n /\ m \notin Used(ix)
    <3>1. IsBackup(ix, mp, m, was[m]) /\ SavedIndices(n)[m] = ix[m] /\ ix[m].start = NO_KEY /\ new[m] = was[m]
      BY <1>1, <1>3, <1>4, <2>3 DEF Copies, Used
    <3> QED BY <3>1 DEF IsBackup
  <2>4. CASE m # n /\ m \in Used(ix)
    <3>1. IsBackup(ix, mp, m, was[m]) /\ SavedIndices(n)[m] = ix[m] /\ ix[m].start # NO_KEY /\ new[m] = was[m]
      BY <1>1, <1>3, <1>4, <2>4 DEF Copies, Used
    <3> DEFINE a == ix[m].start
               c == ix[m].end
    <3>2. Lists(mp, a, c, was[m])
      BY <3>1 DEF IsBackup
    <3>3. a \in 0..254 /\ c \in 0..254 /\ c <= SAVED_MAPPING_COUNT - 2 /\ c < st
      BY <1>1, <1>2, <2>4, UsedType
    <3>4. ASSUME NEW p \in a..c PROVE SavedMappings(n)[p] = mp[p]
      <4>1. p \in Nat /\ p < st /\ p <= SAVED_MAPPING_COUNT - 1
        <5> HIDE DEF a, c, st
        <5> QED BY <1>2, <3>3, SizesType
      <4>2. p \in Positions
        BY <4>1, SizesType DEF Positions
      <4> QED BY <1>2, <4>1, <4>2, WrittenBefore DEF SavedMappings
    <3>5. Lists(SavedMappings(n), a, c, was[m])
      BY <3>2, <3>4, ListStays
    <3> QED BY <3>1, <3>5 DEF IsBackup
  <2> QED BY <2>1, <2>2, <2>3, <2>4
<1> QED
  BY <1>3, <1>5 DEF Copies

\* The remapped keys of all backups.
Taken(bk) == {mk \in Numbers \X LogicalKeys : bk[mk[1]][mk[2]] # logical_to_hid_map_default[mk[2]]}

\* The backups take as many elements as they have remapped keys, all together.
LEMMA SpaceTaken ==
    ASSUME NEW ix, PackedIndices(ix), NEW mp, NEW bk, Copies(ix, mp, bk)
    PROVE  FirstFree(ix) = Cardinality(Taken(bk))
<1> DEFINE f == FirstFree(ix)
           S == 0..(f - 1)
           T == Taken(bk)
           ps(m) == ix[m].start..ix[m].end
           owner(p) == CHOOSE m \in Used(ix) : p \in ps(m)
           g == [p \in S |-> <<owner(p), mp[p].l_key>>]
<1>1. f \in Nat
  <2>1. f \in 0..(SAVED_MAPPING_COUNT - 1)
    BY FirstFreeIs
  <2> QED BY <2>1, SizesType
<1>2. UNION {ps(m) : m \in Used(ix)} = S /\ \A m, n \in Used(ix) : m # n => ps(m) \cap ps(n) = {}
  BY PackedFills
<1>3. ASSUME NEW m \in Used(ix)
      PROVE  /\ m \in Numbers
             /\ \A p \in ps(m) : <<m, mp[p].l_key>> \in T
             /\ \A p, q \in ps(m) : mp[p].l_key = mp[q].l_key => p = q
  <2>1. m \in Numbers /\ ix[m].start # NO_KEY /\ ix[m].start \in 0..254 /\ ix[m].end \in 0..254
    BY UsedType DEF Used
  <2>2. Lists(mp, ix[m].start, ix[m].end, bk[m])
    BY <2>1 DEF Copies, IsBackup
  <2>3. ASSUME NEW p \in ps(m) PROVE mp[p].l_key \in Remapped(bk[m]) /\ mp[p].l_key \in Int /\ p \in Int
    <3>1. mp[p].l_key \in Remapped(bk[m])
      BY <2>2 DEF Lists
    <3>2. mp[p].l_key \in Int
      BY <3>1, RemappedType
    <3> QED BY <2>1, <3>1, <3>2
  <2>4. ASSUME NEW p \in ps(m) PROVE <<m, mp[p].l_key>> \in T
    BY <2>1, <2>3 DEF Remapped, Taken
  <2>5. ASSUME NEW p \in ps(m), NEW q \in ps(m), mp[p].l_key = mp[q].l_key PROVE p = q
    <3> DEFINE k == mp[p].l_key
    <3>1. p < q => k < mp[q].l_key
      BY <2>2 DEF Lists
    <3>2. q < p => mp[q].l_key < k
      BY <2>2 DEF Lists
    <3>3. k \in Int /\ mp[q].l_key = k /\ p \in Int /\ q \in Int
      BY <2>3, <2>5
    <3> HIDE DEF k
    <3> QED BY <3>1, <3>2, <3>3
  <2> QED BY <2>1, <2>4, <2>5
<1>4. ASSUME NEW m \in Numbers, NEW k \in LogicalKeys, bk[m][k] # logical_to_hid_map_default[k]
      PROVE  m \in Used(ix) /\ \E p \in ps(m) : mp[p].l_key = k
  <2>1. IsBackup(ix, mp, m, bk[m]) /\ k \in Remapped(bk[m])
    BY <1>4 DEF Copies, Remapped
  <2>2. ix[m].start # NO_KEY
    BY <2>1, <1>4 DEF IsBackup
  <2>3. Lists(mp, ix[m].start, ix[m].end, bk[m])
    BY <2>1, <2>2 DEF IsBackup
  <2> QED BY <2>1, <2>2, <2>3 DEF Lists, Used
<1> HIDE DEF T, ps, f
<1>5. ASSUME NEW p \in S PROVE owner(p) \in Used(ix) /\ p \in ps(owner(p))
  <2>1. \E m \in Used(ix) : p \in ps(m)
    BY <1>2
  <2> QED BY <2>1
<1>6. g \in [S -> T]
  <2>1. ASSUME NEW p \in S PROVE <<owner(p), mp[p].l_key>> \in T
    <3> HIDE DEF owner, S
    <3> QED BY <1>3, <1>5
  <2> HIDE DEF owner, S
  <2> QED BY <2>1
<1>7. ASSUME NEW p \in S, NEW q \in S, g[p] = g[q] PROVE p = q
  <2> HIDE DEF owner, S
  <2>1. owner(p) = owner(q) /\ mp[p].l_key = mp[q].l_key
    BY <1>7
  <2> QED BY <1>3, <1>5, <2>1
<1>8. ASSUME NEW t \in T PROVE \E p \in S : g[p] = t
  <2>1. /\ t = <<t[1], t[2]>> /\ t[1] \in Numbers /\ t[2] \in LogicalKeys
        /\ bk[t[1]][t[2]] # logical_to_hid_map_default[t[2]]
    BY DEF T, Taken
  <2>2. t[1] \in Used(ix)
    BY <1>4, <2>1
  <2>3. PICK p \in ps(t[1]) : mp[p].l_key = t[2]
    BY <1>4, <2>1
  <2>4. p \in S
    BY <1>2, <2>2
  <2>5. owner(p) = t[1]
    <3>1. owner(p) \in Used(ix) /\ p \in ps(owner(p))
      BY <1>5, <2>4
    <3> HIDE DEF owner
    <3> QED BY <1>2, <2>2, <3>1
  <2> HIDE DEF owner, S
  <2>6. g[p] = <<t[1], t[2]>>
    BY <2>3, <2>4, <2>5
  <2> QED BY <2>1, <2>4, <2>6
<1>9. ExistsBijection(S, T)
  <2> HIDE DEF g, S
  <2>1. g \in Bijection(S, T)
    BY <1>6, <1>7, <1>8 DEF Bijection, Injection, Surjection, IsInjective
  <2> QED BY <2>1 DEF ExistsBijection
<1>10. IsFiniteSet(S) /\ Cardinality(S) = f
  <2>1. f - 1 \in Int /\ 0 \in Int
    BY <1>1
  <2>2. IsFiniteSet(S) /\ Cardinality(S) = IF 0 > f - 1 THEN 0 ELSE (f - 1) - 0 + 1
    BY <2>1, FS_Interval
  <2> QED BY <1>1, <2>2
<1>11. Cardinality(T) = f
  <2> HIDE DEF S
  <2> QED BY <1>9, <1>10, FS_Bijection
<1> QED
  BY <1>11 DEF T, f

\* One turn of the loop of config_load_layout.
LoadTurn(mp, e, l, p) == IF mp[p].l_key = l /\ p + 1 <= e THEN p + 1 ELSE p

\* Where the loop stands when it comes to key l: behind the elements for the keys
\* before l, or at the last element.
StandsAt(mp, s, e, l, p) ==
    /\ p \in s..e
    /\ \A q \in s..e : q < p => mp[q].l_key < l
    /\ mp[p].l_key >= l \/ p = e

\* A turn leaves it where it should be for the next key.
LEMMA LoadTurnStands ==
    ASSUME NEW mp, NEW s \in Int, NEW e \in Int, NEW b, Lists(mp, s, e, b),
           NEW l \in Nat, NEW p, StandsAt(mp, s, e, l, p)
    PROVE  StandsAt(mp, s, e, l + 1, LoadTurn(mp, e, l, p))
<1> DEFINE k(q) == mp[q].l_key
           new == LoadTurn(mp, e, l, p)
<1>1. \A q \in s..e : k(q) \in Nat /\ q \in Int
  <2>1. \A q \in s..e : k(q) \in Remapped(b)
    BY DEF Lists
  <2> QED BY <2>1, RemappedType
<1>2. \A q, r \in s..e : q < r => k(q) < k(r)
  BY DEF Lists
<1>3. p \in s..e /\ (\A q \in s..e : q < p => k(q) < l) /\ (k(p) >= l \/ p = e)
  BY DEF StandsAt
<1> HIDE DEF k
<1>4. CASE k(p) = l /\ p + 1 <= e
  <2>1. new = p + 1
    BY <1>4 DEF LoadTurn, k
  <2>2. p + 1 \in s..e /\ p < p + 1
    BY <1>3, <1>4
  <2>3. k(p + 1) > k(p) /\ k(p + 1) \in Nat
    BY <1>1, <1>2, <1>3, <2>2
  <2>4. k(p + 1) >= l + 1
    BY <1>4, <2>3
  <2>5. ASSUME NEW q \in s..e, q < p + 1 PROVE k(q) < l + 1
    <3>1. q < p \/ q = p
      BY <1>1, <1>3, <2>5
    <3>2. k(q) < l \/ k(q) = l
      BY <1>3, <1>4, <3>1
    <3> QED BY <1>1, <3>2
  <2> QED BY <2>1, <2>2, <2>4, <2>5 DEF StandsAt, k
<1>5. CASE ~(k(p) = l /\ p + 1 <= e)
  <2>1. new = p
    BY <1>5 DEF LoadTurn, k
  <2>2. k(p) >= l + 1 \/ p = e
    BY <1>1, <1>3, <1>5
  <2>3. ASSUME NEW q \in s..e, q < p PROVE k(q) < l + 1
    BY <1>1, <1>3, <2>3
  <2> QED BY <1>3, <2>1, <2>2, <2>3 DEF StandsAt, k
<1> QED
  BY <1>4, <1>5

\* The recursive definition of the loop is what it says, and the loop stands
\* where it should for every key.
LEMMA LoadPositions ==
    ASSUME NEW idx, idx.start \in Int, idx.end \in Int, idx.start <= idx.end, NEW b,
           Lists(saved_key_mappings, idx.start, idx.end, b), NEW l \in LogicalKeys
    PROVE  StandsAt(saved_key_mappings, idx.start, idx.end, l, LoadPosition(idx)[l])
<1> DEFINE s == idx.start
           e == idx.end
           mp == saved_key_mappings
           n == NUM_LOGICAL_KEYS
           V == s..e
           step == [i \in 0..(n - 1) |-> [p \in V |-> LoadTurn(mp, e, i, p)]]
           Body(f) == [i \in 0..n |-> IF i = 0 THEN s ELSE LoadTurn(mp, e, i - 1, f[i - 1])]
           g == LoadPosition(idx)
<1>1. n \in Nat /\ s \in V /\ s \in Int /\ e \in Int
  BY LayoutSizes
<1>2. step \in [0..(n - 1) -> [V -> V]]
  <2> HIDE DEF s, e, mp
  <2> QED BY <1>1 DEF LoadTurn
<1>3. PICK f : IsRun(n, V, s, step, f)
  <2>1. IsLoop(n, V, s, step)
    BY <1>1, <1>2 DEF IsLoop
  <2> HIDE DEF step, n, V, s
  <2> QED BY <2>1, LoopExists
<1>4. ASSUME NEW i \in 1..n PROVE f[i] = LoadTurn(mp, e, i - 1, f[i - 1])
  <2>1. i - 1 \in 0..(n - 1) /\ i - 1 \in 0..n
    BY <1>1
  <2>2. f[i - 1] \in V /\ f[i] = step[i - 1][f[i - 1]]
    BY <2>1, <1>3 DEF IsRun
  <2> QED BY <2>1, <2>2
<1>5. f = Body(f)
  <2> HIDE DEF n, s, e, mp
  <2>1. \A i \in 0..n : i # 0 => i \in 1..n
    BY <1>1
  <2> QED BY <1>3, <1>4, <2>1 DEF IsRun
<1>6. g = CHOOSE h : h = Body(h)
  BY DEF LoadPosition, LoadTurn
<1>7. g = Body(g)
  <2> HIDE DEF Body, g
  <2> QED BY <1>5, <1>6
<1>8. g[0] = s /\ \A i \in 0..(n - 1) : g[i + 1] = LoadTurn(mp, e, i, g[i])
  <2> HIDE DEF g, n, s, e, mp
  <2>1. g[0] = s
    BY <1>1, <1>7
  <2>2. ASSUME NEW i \in 0..(n - 1) PROVE g[i + 1] = LoadTurn(mp, e, i, g[i])
    <3>1. i + 1 \in 0..n /\ i + 1 # 0 /\ (i + 1) - 1 = i
      BY <1>1
    <3>2. g[i + 1] = LoadTurn(mp, e, (i + 1) - 1, g[(i + 1) - 1])
      BY <1>7, <3>1
    <3> QED BY <3>1, <3>2
  <2> QED BY <2>1, <2>2
<1> DEFINE St(i) == StandsAt(mp, s, e, i, g[i])
           Ok == {i \in 0..n : St(i)}
<1>9. 0 \in Ok
  <2>1. mp[s].l_key \in Nat
    <3>1. mp[s].l_key \in Remapped(b)
      BY <1>1 DEF Lists
    <3> QED BY <3>1, RemappedType
  <2>2. StandsAt(mp, s, e, 0, s)
    <3> HIDE DEF s, e, mp
    <3> QED BY <1>1, <2>1 DEF StandsAt
  <2>3. 0 \in 0..n /\ St(0)
    BY <1>1, <1>8, <2>2
  <2> HIDE DEF St, g
  <2> QED BY <2>3
<1>10. ASSUME NEW i \in 0..(n - 1), i \in Ok PROVE i + 1 \in Ok
  <2>1. St(i) /\ i \in Nat /\ i + 1 \in 0..n
    BY <1>1, <1>10
  <2>2. Lists(mp, s, e, b)
    OBVIOUS
  <2>3. StandsAt(mp, s, e, i + 1, LoadTurn(mp, e, i, g[i]))
    <3> HIDE DEF g, mp, s, e
    <3> QED BY <1>1, <2>1, <2>2, LoadTurnStands
  <2>4. St(i + 1)
    BY <1>8, <2>3
  <2> HIDE DEF St
  <2> QED BY <2>1, <2>4
<1>11. l \in Ok
  <2> HIDE DEF Ok
  <2>1. \A i \in 0..n : i \in Ok
    BY <1>1, <1>9, <1>10, IntervalInduction
  <2>2. l \in 0..n
    BY <1>1 DEF LogicalKeys
  <2> QED BY <2>1, <2>2
<1> QED
  BY <1>11

\* config_load_layout restores every key.
LEMMA LoadedIs ==
    ASSUME NEW idx, idx.start \in Int, idx.end \in Int, idx.start <= idx.end, NEW b,
           Lists(saved_key_mappings, idx.start, idx.end, b)
    PROVE  LoadedLayout(idx) = b
<1> DEFINE s == idx.start
           e == idx.end
           k(p) == saved_key_mappings[p].l_key
<1>1. ASSUME NEW l \in LogicalKeys PROVE LoadedLayout(idx)[l] = b[l]
  <2> DEFINE p == LoadPosition(idx)[l]
  <2>1. StandsAt(saved_key_mappings, s, e, l, p)
    BY LoadPositions
  <2>2. LoadedLayout(idx)[l] = IF k(p) = l THEN saved_key_mappings[p].h_key ELSE logical_to_hid_map_default[l]
    BY DEF LoadedLayout
  <2>3. p \in s..e /\ (\A q \in s..e : q < p => k(q) < l) /\ (k(p) >= l \/ p = e)
    BY <2>1 DEF StandsAt
  <2> HIDE DEF p
  <2>4. CASE k(p) = l
    <3>1. saved_key_mappings[p].h_key = b[l]
      BY <2>3, <2>4 DEF Lists
    <3> QED BY <2>2, <2>4, <3>1
  <2>5. CASE k(p) # l
    <3>1. ASSUME l \in Remapped(b) PROVE FALSE
      <4>1. PICK q \in s..e : k(q) = l
        BY <3>1 DEF Lists
      <4>2. p < q => k(p) < k(q)
        BY <2>3 DEF Lists
      <4>3. q < p => k(q) < l
        BY <2>3
      <4>4. k(p) \in Int
        <5>1. k(p) \in Remapped(b)
          BY <2>3 DEF Lists
        <5> QED BY <5>1, RemappedType
      <4>5. l \in Int /\ p # q /\ p \in Int /\ q \in Int /\ q <= e
        BY <2>3, <2>5, <4>1, SizesType
      <4> HIDE DEF k, s, e
      <4> QED BY <2>3, <4>1, <4>2, <4>3, <4>4, <4>5
    <3> QED BY <2>2, <2>5, <3>1 DEF Remapped
  <2> QED BY <2>4, <2>5
<1>2. IsArray(b, LogicalKeys) /\ IsArray(LoadedLayout(idx), LogicalKeys)
  BY DEF Lists, LoadedLayout, IsArray
<1> QED
  BY <1>1, <1>2, SameArrays

(***************************************************************************)
(* What LayoutStore promises of each call.                                 *)
(***************************************************************************)
Others(bk, n) ==
    Cardinality({mk \in (Numbers \ {n}) \X LogicalKeys :
                    bk[mk[1]][mk[2]] # logical_to_hid_map_default[mk[2]]})

Stored(map, bk, n) ==
    IF Others(bk, n) + Cardinality(Remapped(map)) <= SAVED_MAPPING_COUNT - 1
    THEN map ELSE logical_to_hid_map_default

\* config_save_layout saves a layout exactly when the other backups leave it
\* enough space.
LEMMA SavedAsStored ==
    ASSUME PackedIndices(saved_key_mapping_indices), IsArray(logical_to_hid_map, LogicalKeys),
           NEW n \in Numbers, NEW bk, Copies(saved_key_mapping_indices, saved_key_mappings, bk)
    PROVE  Copies(SavedIndices(n), SavedMappings(n),
                  [bk EXCEPT ![n] = Stored(logical_to_hid_map, bk, n)])
<1> DEFINE was == [bk EXCEPT ![n] = logical_to_hid_map_default]
           b == IF Saves(n) THEN logical_to_hid_map ELSE logical_to_hid_map_default
           S == {mk \in (Numbers \ {n}) \X LogicalKeys :
                    bk[mk[1]][mk[2]] # logical_to_hid_map_default[mk[2]]}
           T == Taken(was)
<1>1. Copies(SavedIndices(n), SavedMappings(n), [bk EXCEPT ![n] = b])
  BY SavedCopies
<1>2. SaveStart(n) = Cardinality(T)
  <2>1. PackedIndices(IndicesWithout(n)) /\ Copies(IndicesWithout(n), MappingsWithout(n), was)
    BY RemoveYields, WithoutCopies
  <2> HIDE DEF was
  <2> QED BY <2>1, SpaceTaken DEF SaveStart
<1>3. S = T
  <2>1. was[n] = logical_to_hid_map_default /\ \A m \in Numbers \ {n} : was[m] = bk[m]
    BY DEF Copies, IsArray
  <2> HIDE DEF was
  <2>2. ASSUME NEW mk \in S PROVE mk \in T
    BY <2>1 DEF Taken
  <2>3. ASSUME NEW mk \in T PROVE mk \in S
    BY <2>1 DEF Taken
  <2> HIDE DEF S, T
  <2> QED BY <2>2, <2>3
<1>4. Others(bk, n) = SaveStart(n)
  BY <1>2, <1>3 DEF Others
<1>5. Differences = Remapped(logical_to_hid_map)
  BY DEF Differences, Remapped
<1>6. Fits(SaveStart(n)) <=> Others(bk, n) + Cardinality(Remapped(logical_to_hid_map)) <= SAVED_MAPPING_COUNT - 1
  BY <1>4, <1>5 DEF Fits
<1>7. Stored(logical_to_hid_map, bk, n) = b
  <2>1. CASE Differences # {}
    BY <1>6, <2>1 DEF Saves, Stored
  <2>2. CASE Differences = {}
    <3>1. IsArray(logical_to_hid_map_default, LogicalKeys)
      BY LayoutSizes DEF IsArray
    <3>2. logical_to_hid_map = logical_to_hid_map_default
      BY <2>2, <3>1, SameArrays DEF Differences
    <3> QED BY <3>2 DEF Stored
  <2> QED BY <2>1, <2>2
<1> QED
  BY <1>1, <1>7

AfterSave(s, n, bk) ==
    Copies(IndicesAfterSave(s, n), MappingsAfterSave(s, n), [bk EXCEPT ![n] = Stored(s.map, bk, n)])

AfterDelete(s, n, bk) ==
    s.indices[n].start # NO_KEY =>
        Copies(IndicesAfterDelete(s, n), MappingsAfterDelete(s, n),
               [bk EXCEPT ![n] = logical_to_hid_map_default])

AfterLoad(s, n, bk) ==
    s.indices[n].start # NO_KEY =>
        LayoutAfterLoad(s, n) = bk[n] /\ bk[n] # logical_to_hid_map_default

Shown == BackupsIn(Visible.indices, Visible.mappings)

\* The inductive invariant beside StorageInv and CallInv: what is shown lists
\* layouts, and the call that is going on will do with them what it should.
CopiesInv ==
    /\ Copies(Visible.indices, Visible.mappings, Shown)
    /\ ~Between => AfterSave(shown, num, Shown) /\ AfterDelete(shown, num, Shown) /\ AfterLoad(shown, num, Shown)

\* What the calls do with the layouts they find.
LEMMA CallsKeep ==
    ASSUME StorageInv, Between, NEW n \in Numbers, NEW bk,
           Copies(saved_key_mapping_indices, saved_key_mappings, bk)
    PROVE  AfterSave(storage, n, bk) /\ AfterDelete(storage, n, bk) /\ AfterLoad(storage, n, bk)
<1> DEFINE ix == saved_key_mapping_indices
<1>1. PackedIndices(ix) /\ IsArray(logical_to_hid_map, LogicalKeys)
  BY DEF StorageInv
<1>2. storage.map = logical_to_hid_map /\ storage.indices = ix
  BY DEF storage
<1>3. AfterSave(storage, n, bk)
  BY <1>1, <1>2, CallsNow, SavedAsStored DEF AfterSave
<1>4. AfterDelete(storage, n, bk)
  <2> SUFFICES ASSUME ix[n].start # NO_KEY PROVE AfterDelete(storage, n, bk)
    BY <1>2 DEF AfterDelete
  <2>1. n \in Used(ix)
    BY DEF Used
  <2> QED BY <1>1, <2>1, CallsNow, DeletedCopies DEF AfterDelete
<1>5. AfterLoad(storage, n, bk)
  <2> SUFFICES ASSUME ix[n].start # NO_KEY PROVE AfterLoad(storage, n, bk)
    BY <1>2 DEF AfterLoad
  <2>1. n \in Used(ix)
    BY DEF Used
  <2>2. Lists(saved_key_mappings, ix[n].start, ix[n].end, bk[n])
    BY DEF Copies, IsBackup
  <2>3. ix[n].start \in 0..254 /\ ix[n].end \in 0..254 /\ ix[n].start <= ix[n].end
    BY <1>1, <2>1, UsedType
  <2> DEFINE s == ix[n].start
             e == ix[n].end
  <2>4. s \in Int /\ e \in Int /\ s \in s..e
    <3>1. s \in 0..254 /\ e \in 0..254 /\ s <= e
      BY <2>3
    <3> HIDE DEF s, e
    <3> QED BY <3>1
  <2>5. LoadedLayout(ix[n]) = bk[n]
    BY <2>2, <2>3, <2>4, LoadedIs
  <2>6. saved_key_mappings[s].l_key \in Remapped(bk[n])
    BY <2>2, <2>4 DEF Lists
  <2>7. bk[n] # logical_to_hid_map_default
    BY <2>6 DEF Remapped
  <2>8. LayoutAfterLoad(storage, n) = LoadedLayout(ix[n])
    BY CallsNow
  <2> QED BY <2>5, <2>7, <2>8 DEF AfterLoad
<1> QED
  BY <1>3, <1>4, <1>5

\* A keyboard after config_reset_fully has no backups.
LEMMA CopiesInit ==
    ASSUME StepInit
    PROVE  CopiesInv
<1> DEFINE bk == [n \in Numbers |-> logical_to_hid_map_default]
<1>1. Between /\ Visible.indices = saved_key_mapping_indices /\ Visible.mappings = saved_key_mappings
  BY DEF StepInit, Between, Visible, storage
<1>2. \A n \in Numbers : saved_key_mapping_indices[n].start = NO_KEY
  BY DEF StepInit, Init, NoIndex
<1>3. Copies(saved_key_mapping_indices, saved_key_mappings, bk)
  BY <1>2 DEF Copies, IsBackup, IsArray
<1>4. Shown = bk
  <2> HIDE DEF bk
  <2> QED BY <1>1, <1>3, CopiesAre DEF Shown
<1> QED
  BY <1>1, <1>3, <1>4 DEF CopiesInv

\* A call that begins shows the layouts it finds.
LEMMA CopiesBegin ==
    ASSUME StorageInv, CopiesInv, NEW n \in Numbers, BeginSave(n) \/ BeginDelete(n) \/ BeginLoad(n)
    PROVE  CopiesInv'
<1>1. Between /\ ~Between' /\ shown' = storage /\ num' = n
  BY InvBegin DEF BeginSave, BeginDelete, BeginLoad, Begin
<1>2. Visible' = Visible /\ Visible = storage
  BY <1>1 DEF Visible
<1>3. Shown' = Shown
  BY <1>2 DEF Shown
<1>4. Copies(saved_key_mapping_indices, saved_key_mappings, Shown)
  BY <1>2 DEF CopiesInv, storage
<1>5. AfterSave(storage, n, Shown) /\ AfterDelete(storage, n, Shown) /\ AfterLoad(storage, n, Shown)
  BY <1>1, <1>4, CallsKeep
<1> QED
  BY <1>1, <1>2, <1>3, <1>5 DEF CopiesInv

\* What a write makes of the layouts that show: nothing, until it is the last.
LEMMA CopiesWrite ==
    ASSUME StorageInv, CallInv, CopiesInv, DoWrite
    PROVE  /\ CopiesInv' /\ num \in Numbers
           /\ \/ Visible' = Visible
              \/ /\ Visible'.map = Visible.map
                 /\ Shown' = [Shown EXCEPT ![num] = Stored(Visible.map, Shown, num)]
              \/ /\ Visible'.map = Visible.map
                 /\ Shown' = [Shown EXCEPT ![num] = logical_to_hid_map_default]
              \/ /\ Visible'.map = Shown[num] /\ Shown[num] # logical_to_hid_map_default
                 /\ Shown' = Shown
<1> DEFINE bk == Shown
           v == Visible'
<1>1. /\ ~Between /\ Visible = shown /\ num \in Numbers /\ shown' = shown /\ num' = num
      /\ Copies(shown.indices, shown.mappings, bk)
      /\ AfterSave(shown, num, bk) /\ AfterDelete(shown, num, bk) /\ AfterLoad(shown, num, bk)
  BY InvWrite DEF CallInv, Visible, DoWrite, CopiesInv
<1>2. CASE ~Between'
  <2>1. Visible' = Visible
    BY <1>1, <1>2 DEF Visible
  <2>2. Shown' = Shown
    BY <2>1 DEF Shown
  <2> QED BY <1>1, <2>1, <2>2 DEF CopiesInv
<1>3. CASE Between'
  <2>1. /\ v.map = logical_to_hid_map' /\ v.indices = saved_key_mapping_indices'
        /\ v.mappings = saved_key_mappings'
    BY <1>3 DEF Visible, storage
  <2>2. ASSUME NEW new, Copies(v.indices, v.mappings, new) PROVE Shown' = new /\ CopiesInv'
    <3>1. Shown' = new
      BY <2>2, CopiesAre DEF Shown
    <3> QED BY <1>3, <2>2, <3>1 DEF CopiesInv
  <2> HIDE DEF v, bk
  <2>3. CASE /\ logical_to_hid_map' = shown.map
             /\ saved_key_mapping_indices' = IndicesAfterSave(shown, num)
             /\ saved_key_mappings' = MappingsAfterSave(shown, num)
    <3> DEFINE new == [bk EXCEPT ![num] = Stored(shown.map, bk, num)]
    <3>1. Copies(v.indices, v.mappings, new) /\ v.map = shown.map
      BY <1>1, <2>1, <2>3 DEF AfterSave
    <3>2. Shown' = new /\ CopiesInv'
      BY <2>2, <3>1
    <3> QED BY <1>1, <3>1, <3>2 DEF bk, v
  <2>4. CASE /\ shown.indices[num].start # NO_KEY
             /\ logical_to_hid_map' = shown.map
             /\ saved_key_mapping_indices' = IndicesAfterDelete(shown, num)
             /\ saved_key_mappings' = MappingsAfterDelete(shown, num)
    <3> DEFINE new == [bk EXCEPT ![num] = logical_to_hid_map_default]
    <3>1. Copies(v.indices, v.mappings, new) /\ v.map = shown.map
      BY <1>1, <2>1, <2>4 DEF AfterDelete
    <3>2. Shown' = new /\ CopiesInv'
      BY <2>2, <3>1
    <3> QED BY <1>1, <3>1, <3>2 DEF bk, v
  <2>5. CASE /\ shown.indices[num].start # NO_KEY
             /\ logical_to_hid_map' = LayoutAfterLoad(shown, num)
             /\ saved_key_mapping_indices' = shown.indices
             /\ saved_key_mappings' = shown.mappings
    <3>1. Copies(v.indices, v.mappings, bk) /\ v.map = bk[num] /\ bk[num] # logical_to_hid_map_default
      BY <1>1, <2>1, <2>5 DEF AfterLoad
    <3>2. Shown' = bk /\ CopiesInv'
      BY <2>2, <3>1
    <3> QED BY <1>1, <3>1, <3>2 DEF bk, v
  <2> QED BY <1>3, <2>3, <2>4, <2>5, InvWrite
<1> QED
  BY <1>2, <1>3

\* What leaves the backups alone.
LEMMA CopiesOther ==
    ASSUME StorageInv, CopiesInv,
           PowerLoss \/ ResetDefaults \/ UNCHANGED stepVars
           \/ \E l_key \in LogicalKeys, h_key \in HidValues : Remap(l_key, h_key)
    PROVE  CopiesInv' /\ Shown' = Shown
<1>1. /\ UNCHANGED <<saved_key_mapping_indices, saved_key_mappings, writes, num, shown>>
  BY DEF PowerLoss, ResetDefaults, Remap, config_reset_defaults, config_save_definition, stepVars, vars
<1>2. Between' = Between /\ Visible'.indices = Visible.indices /\ Visible'.mappings = Visible.mappings
  BY <1>1 DEF Between, Visible, storage
<1>3. Shown' = Shown
  BY <1>2 DEF Shown
<1> QED
  BY <1>1, <1>2, <1>3 DEF CopiesInv

\* The whole reset leaves no backup.
LEMMA CopiesReset ==
    ASSUME StorageInv, CopiesInv, ResetFully
    PROVE  CopiesInv' /\ Shown' = [n \in Numbers |-> logical_to_hid_map_default]
<1> DEFINE bk == [n \in Numbers |-> logical_to_hid_map_default]
<1>1. /\ Between' /\ Visible'.indices = saved_key_mapping_indices' /\ Visible'.mappings = saved_key_mappings'
      /\ saved_key_mapping_indices' = [n \in Numbers |-> NoIndex]
  BY DEF ResetFully, config_reset_fully, Between, Visible, storage
<1>2. \A n \in Numbers : saved_key_mapping_indices'[n].start = NO_KEY
  BY <1>1 DEF NoIndex
<1>3. Copies(saved_key_mapping_indices', saved_key_mappings', bk)
  BY <1>2 DEF Copies, IsBackup, IsArray
<1>4. Shown' = bk
  <2> HIDE DEF bk
  <2> QED BY <1>1, <1>3, CopiesAre DEF Shown
<1> QED
  BY <1>1, <1>3, <1>4 DEF CopiesInv

\* CopiesInv is inductive beside StorageInv and CallInv.
LEMMA CopiesStep ==
    ASSUME StorageInv, CallInv, CopiesInv, [StepNext]_stepVars
    PROVE  CopiesInv'
<1>1. CASE DoWrite
  BY <1>1, CopiesWrite
<1>2. CASE \E n \in Numbers : BeginSave(n) \/ BeginDelete(n) \/ BeginLoad(n)
  BY <1>2, CopiesBegin
<1>3. CASE PowerLoss \/ ResetDefaults \/ UNCHANGED stepVars
           \/ \E l_key \in LogicalKeys, h_key \in HidValues : Remap(l_key, h_key)
  BY <1>3, CopiesOther
<1>4. CASE ResetFully
  BY <1>4, CopiesReset
<1> QED
  BY <1>1, <1>2, <1>3, <1>4 DEF StepNext

\* The refinement mapping, and the space that LayoutStore counts under it.
LEMMA StoreNow ==
    /\ Whole!Backups = Shown
    /\ Whole!Backups' = Shown'
    /\ \A n : Whole!Store!SpaceOfOthers(n) = Others(Shown, n)
    /\ Whole!Store!Size(Visible.map) = Cardinality(Remapped(Visible.map))
<1>1. Whole!Backups = Shown
  BY DEF Whole!Backups, Whole!HasBackup, Whole!PositionsOf, Whole!Numbers, Whole!NO_KEY,
         Whole!LogicalKeys, Numbers, NO_KEY, LogicalKeys, Shown, BackupsIn, LayoutIn
<1>2. Whole!Backups' = Shown'
  BY DEF Whole!Backups, Whole!HasBackup, Whole!PositionsOf, Whole!Numbers, Whole!NO_KEY,
         Whole!LogicalKeys, Numbers, NO_KEY, LogicalKeys, Shown, BackupsIn, LayoutIn
<1>3. DOMAIN logical_to_hid_map_default = LogicalKeys
  BY LayoutSizes
<1>4. ASSUME NEW n PROVE Whole!Store!SpaceOfOthers(n) = Others(Shown, n)
  BY <1>1, <1>3 DEF Whole!Store!SpaceOfOthers, Others, Whole!Store!Cardinality, Cardinality,
                    Whole!Numbers, Numbers
<1>5. Whole!Store!Size(Visible.map) = Cardinality(Remapped(Visible.map))
  BY <1>3 DEF Whole!Store!Size, Remapped, Whole!Store!Cardinality, Cardinality
<1> QED
  BY <1>1, <1>2, <1>4, <1>5

\* config_save_layout, config_delete_layout, config_load_layout: the packed array
\* behaves as independent layouts, for any sizes, any layouts and any sequence of
\* calls.  Saving, replacing, refusing or deleting one leaves every key of the
\* others, a save is refused exactly when the others leave too little space, and
\* loading a layout restores every key as it was saved.
THEOREM LayoutsBehaveAsCopies == StepSpec => ImplementsStoreBetween
<1> DEFINE Inv == StorageInv /\ CallInv /\ CopiesInv
           StoreInit == /\ Visible.map = logical_to_hid_map_default
                        /\ Whole!Backups = [n \in Whole!Numbers |-> logical_to_hid_map_default]
<1>1. StepInit => StoreInit
  <2> SUFFICES ASSUME StepInit PROVE StoreInit
    OBVIOUS
  <2>1. /\ Visible.map = logical_to_hid_map_default
        /\ \A n \in Numbers : Visible.indices[n].start = NO_KEY
    BY DEF StepInit, Init, Between, Visible, storage, NoIndex
  <2>2. Shown = [n \in Numbers |-> logical_to_hid_map_default]
    BY <2>1 DEF Shown, BackupsIn
  <2> QED BY <2>1, <2>2, StoreNow DEF Whole!Numbers, Numbers
<1>2. Inv /\ [StepNext]_stepVars => [Whole!Store!StoreNext]_Whole!Store!storeVars
  <2> SUFFICES ASSUME Inv, [StepNext]_stepVars
               PROVE  [Whole!Store!StoreNext]_Whole!Store!storeVars
    OBVIOUS
  <2>0. ASSUME Visible' = Visible PROVE UNCHANGED Whole!Store!storeVars
    <3>1. Shown' = Shown /\ Visible'.map = Visible.map
      BY <2>0 DEF Shown
    <3> QED BY <3>1, StoreNow DEF Whole!Store!storeVars
  <2>1. CASE DoWrite
    <3>1. num \in Numbers
      BY <2>1, CopiesWrite
    <3>2. CASE Visible' = Visible
      BY <2>0, <3>2
    <3>3. CASE /\ Visible'.map = Visible.map
               /\ Shown' = [Shown EXCEPT ![num] = Stored(Visible.map, Shown, num)]
      <4>1. Whole!Store!Save(num)
        BY <3>3, StoreNow DEF Whole!Store!Save, Stored
      <4> QED BY <3>1, <4>1 DEF Whole!Store!StoreNext, Whole!Numbers, Numbers
    <3>4. CASE /\ Visible'.map = Visible.map
               /\ Shown' = [Shown EXCEPT ![num] = logical_to_hid_map_default]
      <4>1. Whole!Store!Delete(num)
        BY <3>4, StoreNow DEF Whole!Store!Delete
      <4> QED BY <3>1, <4>1 DEF Whole!Store!StoreNext, Whole!Numbers, Numbers
    <3>5. CASE /\ Visible'.map = Shown[num] /\ Shown[num] # logical_to_hid_map_default
               /\ Shown' = Shown
      <4>1. Whole!Store!Load(num)
        BY <3>5, StoreNow DEF Whole!Store!Load
      <4> QED BY <3>1, <4>1 DEF Whole!Store!StoreNext, Whole!Numbers, Numbers
    <3> QED BY <2>1, <3>2, <3>3, <3>4, <3>5, CopiesWrite
  <2>2. CASE \E n \in Numbers : BeginSave(n) \/ BeginDelete(n) \/ BeginLoad(n)
    <3>1. Between /\ ~Between' /\ shown' = storage
      BY <2>2, InvBegin
    <3>2. Visible' = Visible
      BY <3>1 DEF Visible
    <3> QED BY <2>0, <3>2
  <2>3. CASE PowerLoss \/ UNCHANGED stepVars
    <3>1. Visible' = Visible
      BY <2>3 DEF PowerLoss, stepVars, vars, Visible, Between, storage
    <3> QED BY <2>0, <3>1
  <2>4. CASE ResetDefaults
    <3>1. Visible'.map = logical_to_hid_map_default /\ Shown' = Shown
      BY <2>4, CopiesOther DEF ResetDefaults, config_reset_defaults, Visible, Between, storage
    <3>2. Whole!Store!ResetLayout
      BY <3>1, StoreNow DEF Whole!Store!ResetLayout
    <3> QED BY <3>2 DEF Whole!Store!StoreNext
  <2>5. CASE \E l_key \in LogicalKeys, h_key \in HidValues : Remap(l_key, h_key)
    <3>1. PICK l_key \in LogicalKeys, h_key \in HidValues : Remap(l_key, h_key)
      BY <2>5
    <3>2. Visible'.map = [Visible.map EXCEPT ![l_key] = h_key]
      BY <3>1 DEF Remap, config_save_definition, Visible, Between, storage
    <3>3. Shown' = Shown
      BY <2>5, CopiesOther
    <3>4. Whole!Store!Remap(l_key, h_key)
      BY <3>2, <3>3, StoreNow DEF Whole!Store!Remap
    <3>5. DOMAIN logical_to_hid_map_default = LogicalKeys
      BY LayoutSizes
    <3> QED BY <3>4, <3>5 DEF Whole!Store!StoreNext
  <2>6. CASE ResetFully
    <3>1. Visible'.map = logical_to_hid_map_default
      BY <2>6 DEF ResetFully, config_reset_fully, Visible, Between, storage
    <3>2. Shown' = [n \in Numbers |-> logical_to_hid_map_default]
      BY <2>6, CopiesReset
    <3>3. Whole!Store!ResetAll
      BY <3>1, <3>2, StoreNow DEF Whole!Store!ResetAll, Whole!Numbers, Numbers
    <3> QED BY <3>3 DEF Whole!Store!StoreNext
  <2> QED
    BY <2>1, <2>2, <2>3, <2>4, <2>5, <2>6 DEF StepNext
<1>3. StepInit => Inv
  BY InvInit, CopiesInit
<1>4. Inv /\ [StepNext]_stepVars => Inv'
  BY InvStep, CopiesStep
<1> QED
  BY <1>1, <1>2, <1>3, <1>4, PTL
     DEF StepSpec, ImplementsStoreBetween, Whole!ImplementsStore, Whole!Store!StoreSpec

=============================================================================
