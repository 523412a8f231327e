---------------------------- MODULE ExtraReportProofs ----------------------------
(***************************************************************************)
(* What the operations on extra reports do, for any keys and any number of *)
(* places: adding, removing, toggling, and merging into a keyboard report. *)
(***************************************************************************)
EXTENDS ExtraReport, Lemmas

\* The lowest of some places is one of them.
LEMMA LowestIn ==
    ASSUME NEW S, S \subseteq Places, S # {}
    PROVE  Lowest(S) \in S
<1>1. S \in SUBSET Nat
  BY ReportAssumption DEF Places
<1>2. \E p \in S : \A q \in S : p <= q
  BY <1>1, LeastElement
<1> QED
  BY <1>2 DEF Lowest

\* Adding and removing a key keep an extra report one.
LEMMA ExtraTypes ==
    ASSUME NEW r \in ExtraReports, NEW k
    PROVE  /\ k \in Keys \cup Modifiers => ExtraKeyboardReport_add(r, k) \in ExtraReports
           /\ ExtraKeyboardReport_remove(r, k) \in ExtraReports
<1>1. r = [keys |-> r.keys, mods |-> r.mods]
      /\ r.keys \in [Places -> Keys \cup {NO_KEY}] /\ r.mods \in SUBSET Modifiers
  BY DEF ExtraReports
<1>2. ASSUME NEW f \in [Places -> Keys \cup {NO_KEY}], NEW g \in SUBSET Modifiers
      PROVE  [keys |-> f, mods |-> g] \in ExtraReports
  BY DEF ExtraReports
<1>3. ASSUME k \in Keys \cup Modifiers PROVE ExtraKeyboardReport_add(r, k) \in ExtraReports
  <2>1. CASE k \in Modifiers
    BY <2>1, <1>1, <1>2, ReportAssumption DEF ExtraKeyboardReport_add
  <2>2. CASE k \in Keys /\ k \notin Modifiers /\ PlacesOf(r, k) # {}
    BY <2>2 DEF ExtraKeyboardReport_add
  <2>3. CASE k \in Keys /\ k \notin Modifiers /\ PlacesOf(r, k) = {}
    <3>1. ExtraKeyboardReport_add(r, k) = Insert(r, k)
      BY <2>3 DEF ExtraKeyboardReport_add
    <3>2. [r.keys EXCEPT ![Lowest(PlacesOf(r, NO_KEY))] = k] \in [Places -> Keys \cup {NO_KEY}]
      BY <2>3, <1>1
    <3>3. [keys |-> [r.keys EXCEPT ![Lowest(PlacesOf(r, NO_KEY))] = k], mods |-> r.mods] \in ExtraReports
      BY <3>2, <1>1, <1>2
    <3> QED BY <3>1, <3>3 DEF Insert
  <2> QED BY <1>3, <2>1, <2>2, <2>3
<1>4. ExtraKeyboardReport_remove(r, k) \in ExtraReports
  <2>1. CASE k \in Keys /\ PlacesOf(r, k) # {}
    <3>1. [r.keys EXCEPT ![Lowest(PlacesOf(r, k))] = NO_KEY] \in [Places -> Keys \cup {NO_KEY}]
      BY <1>1
    <3> QED BY <2>1, <3>1, <1>1, <1>2 DEF ExtraKeyboardReport_remove
  <2>2. CASE ~(k \in Keys /\ PlacesOf(r, k) # {})
    <3>1. ExtraKeyboardReport_remove(r, k) = [keys |-> r.keys, mods |-> r.mods \ {k}]
      BY <2>2 DEF ExtraKeyboardReport_remove
    <3>2. r.mods \ {k} \in SUBSET Modifiers
      BY <1>1
    <3> QED BY <3>1, <3>2, <1>1, <1>2
  <2> QED BY <2>1, <2>2
<1> QED
  BY <1>3, <1>4

\* No key takes two places of an extra report.
NoRepeat(r) == \A p, q \in Places : r.keys[p] = r.keys[q] /\ r.keys[p] # NO_KEY => p = q

\* Adding a key keeps that, and what it reports as held is held.
LEMMA AddEffect ==
    ASSUME NEW r \in ExtraReports, NoRepeat(r), NEW k \in Keys \cup Modifiers
    PROVE  NoRepeat(ExtraKeyboardReport_add(r, k))
<1>1. r.keys \in [Places -> Keys \cup {NO_KEY}]
  BY DEF ExtraReports
<1>2. CASE k \in Modifiers
  <2>1. ExtraKeyboardReport_add(r, k).keys = r.keys
    BY <1>2, ReportAssumption DEF ExtraKeyboardReport_add
  <2> QED BY <2>1 DEF NoRepeat
<1>3. CASE k \in Keys /\ k \notin Modifiers /\ PlacesOf(r, k) # {}
  BY <1>3 DEF ExtraKeyboardReport_add
<1>4. CASE k \in Keys /\ k \notin Modifiers /\ PlacesOf(r, k) = {}
  <2>1. ExtraKeyboardReport_add(r, k) = Insert(r, k)
    BY <1>4 DEF ExtraKeyboardReport_add
  <2>2. CASE PlacesOf(r, NO_KEY) = {}
    BY <2>1, <2>2 DEF Insert
  <2>3. CASE PlacesOf(r, NO_KEY) # {}
    <3> DEFINE l == Lowest(PlacesOf(r, NO_KEY))
    <3>1. Insert(r, k).keys = [r.keys EXCEPT ![l] = k]
      BY <2>3 DEF Insert
    <3>2. \A p \in Places : r.keys[p] # k
      BY <1>4 DEF PlacesOf
    <3> HIDE DEF l
    <3>3. \A p \in Places : Insert(r, k).keys[p] = IF p = l THEN k ELSE r.keys[p]
      BY <1>1, <3>1
    <3> QED BY <2>1, <3>2, <3>3 DEF NoRepeat
  <2> QED BY <2>2, <2>3
<1> QED
  BY <1>2, <1>3, <1>4

\* Removing a key keeps it too, and the key is gone.
LEMMA RemoveEffect ==
    ASSUME NEW r \in ExtraReports, NoRepeat(r), NEW k
    PROVE  /\ NoRepeat(ExtraKeyboardReport_remove(r, k))
           /\ k \in Keys \cup Modifiers => k \notin Held(ExtraKeyboardReport_remove(r, k))
<1>1. r.keys \in [Places -> Keys \cup {NO_KEY}] /\ r.mods \subseteq Modifiers
  BY DEF ExtraReports
<1>2. CASE k \in Keys /\ PlacesOf(r, k) # {}
  <2> DEFINE l == Lowest(PlacesOf(r, k))
             s == ExtraKeyboardReport_remove(r, k)
  <2>1. s = [keys |-> [r.keys EXCEPT ![l] = NO_KEY], mods |-> r.mods]
    BY <1>2 DEF ExtraKeyboardReport_remove
  <2>2. l \in Places /\ r.keys[l] = k
    <3>1. PlacesOf(r, k) \subseteq Places
      BY DEF PlacesOf
    <3>2. l \in PlacesOf(r, k)
      BY <1>2, <3>1, LowestIn
    <3> QED BY <3>2 DEF PlacesOf
  <2> HIDE DEF l, s
  <2>3. \A p \in Places : s.keys[p] = IF p = l THEN NO_KEY ELSE r.keys[p]
    BY <1>1, <2>1
  <2>4. k # NO_KEY /\ k \notin Modifiers
    BY <1>2, ReportAssumption
  <2>5. \A p \in Places : s.keys[p] # k
    BY <2>2, <2>3, <2>4 DEF NoRepeat
  <2>6. NoRepeat(s)
    BY <2>3 DEF NoRepeat
  <2>7. k \notin Held(s)
    BY <1>1, <2>1, <2>4, <2>5 DEF Held
  <2> QED BY <2>6, <2>7 DEF s
<1>3. CASE ~(k \in Keys /\ PlacesOf(r, k) # {})
  <2> DEFINE s == ExtraKeyboardReport_remove(r, k)
  <2>1. s = [keys |-> r.keys, mods |-> r.mods \ {k}]
    BY <1>3 DEF ExtraKeyboardReport_remove
  <2> HIDE DEF s
  <2>2. NoRepeat(s)
    BY <2>1 DEF NoRepeat
  <2>3. ASSUME k \in Keys \cup Modifiers PROVE k \notin Held(s)
    <3>1. \A p \in Places : r.keys[p] # k
      BY <1>1, <1>3, <2>3, ReportAssumption DEF PlacesOf
    <3> QED BY <2>1, <3>1 DEF Held
  <2> QED BY <2>2, <2>3 DEF s
<1> QED
  BY <1>2, <1>3

\* The keys of a keyboard report, as a sequence and as a set.
Packed == {q \in Seq(Keys) : Len(q) <= KEYBOARDREPORT_KEY_COUNT}

ElementsOf(q) == {q[j] : j \in DOMAIN q}

PackedReports == [keys : Packed, mods : SUBSET Modifiers]

\* A turn of the loop of ExtraKeyboardReport_append.
Turn(k, q, report) == IF Skipped(k, q, report) THEN q ELSE Append(q, k)

\* What a turn does.
LEMMA TurnEffect ==
    ASSUME NEW q \in Packed, NEW k \in Keys \cup {NO_KEY}, NEW report
    PROVE  /\ Turn(k, q, report) \in Packed
           /\ Len(q) <= Len(Turn(k, q, report))
           /\ ElementsOf(q) \subseteq ElementsOf(Turn(k, q, report))
           /\ ElementsOf(Turn(k, q, report)) \subseteq ElementsOf(q) \cup ({k} \ {NO_KEY})
           /\ \/ k = NO_KEY \/ k \in ElementsOf(Turn(k, q, report)) \/ k \in ElementsOf(report.keys)
              \/ Len(Turn(k, q, report)) = KEYBOARDREPORT_KEY_COUNT
<1>1. q \in Seq(Keys) /\ Len(q) \in Nat /\ Len(q) <= KEYBOARDREPORT_KEY_COUNT /\ KEYBOARDREPORT_KEY_COUNT \in Nat
  BY ReportAssumption DEF Packed
<1>2. CASE Skipped(k, q, report)
  <2>1. Turn(k, q, report) = q
    BY <1>2 DEF Turn
  <2>2. k = NO_KEY \/ Len(q) = KEYBOARDREPORT_KEY_COUNT \/ k \in ElementsOf(report.keys)
    BY <1>2 DEF Skipped, ElementsOf
  <2> QED BY <1>1, <2>1, <2>2
<1>3. CASE ~Skipped(k, q, report)
  <2>1. Turn(k, q, report) = Append(q, k)
    BY <1>3 DEF Turn
  <2>2. k \in Keys /\ k # NO_KEY /\ Len(q) # KEYBOARDREPORT_KEY_COUNT
    BY <1>3 DEF Skipped
  <2>3. Append(q, k) \in Seq(Keys) /\ Len(Append(q, k)) = Len(q) + 1
        /\ Append(q, k)[Len(q) + 1] = k /\ \A j \in 1..Len(q) : Append(q, k)[j] = q[j]
    BY <1>1, <2>2
  <2>4. DOMAIN q = 1..Len(q) /\ DOMAIN Append(q, k) = 1..(Len(q) + 1)
    BY <1>1, <2>3
  <2>5. 1..(Len(q) + 1) = 1..Len(q) \cup {Len(q) + 1}
    BY <1>1
  <2>6. ElementsOf(Append(q, k)) = ElementsOf(q) \cup {k}
    BY <2>3, <2>4, <2>5 DEF ElementsOf
  <2>7. Len(q) + 1 <= KEYBOARDREPORT_KEY_COUNT /\ Len(q) <= Len(q) + 1
    BY <1>1, <2>2
  <2>8. Append(q, k) \in Packed
    BY <2>3, <2>7 DEF Packed
  <2> QED BY <2>1, <2>2, <2>3, <2>6, <2>7, <2>8
<1> QED
  BY <1>2, <1>3

\* The keys of the report after each turn of the loop.
LEMMA AppendLoop ==
    ASSUME NEW extra \in ExtraReports, NEW report \in PackedReports
    PROVE  \E g : /\ ExtraKeyboardReport_append(extra, report) =
                        [keys |-> g[EXTRA_REPORT_KEY_COUNT], mods |-> report.mods \cup extra.mods]
                  /\ g[0] = report.keys
                  /\ \A p \in Places : g[p] = Turn(extra.keys[p], g[p - 1], report)
<1> DEFINE n == EXTRA_REPORT_KEY_COUNT
           step == [i \in 0..(n - 1) |-> [q \in Packed |-> Turn(extra.keys[i + 1], q, report)]]
           Body(f) == [p \in 0..n |-> IF p = 0 THEN report.keys ELSE Turn(extra.keys[p], f[p - 1], report)]
<1>1. n \in Nat
  BY ReportAssumption
<1>2. report.keys \in Packed
  BY DEF PackedReports
<1>3. step \in [0..(n - 1) -> [Packed -> Packed]]
  <2>1. \A i \in 0..(n - 1) : i + 1 \in Places
    BY <1>1 DEF Places
  <2>2. \A i \in 0..(n - 1) : extra.keys[i + 1] \in Keys \cup {NO_KEY}
    BY <2>1 DEF ExtraReports
  <2>3. \A i \in 0..(n - 1) : \A q \in Packed : Turn(extra.keys[i + 1], q, report) \in Packed
    BY <2>2, TurnEffect
  <2> QED BY <2>3
<1>4. PICK f : IsRun(n, Packed, report.keys, step, f)
  <2>1. IsLoop(n, Packed, report.keys, step)
    BY <1>1, <1>2, <1>3 DEF IsLoop
  <2> HIDE DEF step, n
  <2> QED BY <2>1, LoopExists
<1>5. \A i \in 1..n : f[i] = Turn(extra.keys[i], f[i - 1], report)
  <2> SUFFICES ASSUME NEW i \in 1..n PROVE f[i] = Turn(extra.keys[i], f[i - 1], report)
    OBVIOUS
  <2>1. i - 1 \in 0..(n - 1) /\ i - 1 \in 0..n /\ (i - 1) + 1 = i
    BY <1>1
  <2>2. f[i - 1] \in Packed /\ f[i] = step[i - 1][f[i - 1]]
    BY <2>1, <1>4 DEF IsRun
  <2>3. step[i - 1][f[i - 1]] = Turn(extra.keys[(i - 1) + 1], f[i - 1], report)
    BY <2>1, <2>2
  <2> QED BY <2>1, <2>2, <2>3
<1>6. f = Body(f)
  <2> HIDE DEF n
  <2>1. \A i \in 0..n : i # 0 => i \in 1..n
    BY <1>1
  <2> QED BY <1>4, <1>5, <2>1 DEF IsRun
<1> DEFINE g == CHOOSE h : h = Body(h)
<1>7. ExtraKeyboardReport_append(extra, report) = [keys |-> g[n], mods |-> report.mods \cup extra.mods]
  BY DEF ExtraKeyboardReport_append, Turn
<1>8. g = Body(g)
  <2> HIDE DEF Body, n
  <2> QED BY <1>6
<1> HIDE DEF g
<1>9. g[0] = report.keys /\ \A p \in 1..n : g[p] = Turn(extra.keys[p], g[p - 1], report)
  BY <1>1, <1>8
<1> QED
  BY <1>7, <1>9 DEF Places

\* What merging an extra report does to a keyboard report: nothing is lost or
\* made up, and a key is left out only when the report is full.
LEMMA AppendEffect ==
    ASSUME NEW extra \in ExtraReports, NEW report \in PackedReports
    PROVE  LET r == ExtraKeyboardReport_append(extra, report)
           IN  /\ r \in PackedReports
               /\ Len(report.keys) <= Len(r.keys)
               /\ Content(report) \subseteq Content(r)
               /\ Content(r) \subseteq Content(report) \cup Held(extra)
               /\ \A k \in Held(extra) : k \in Content(r) \/ (k \in Keys /\ Len(r.keys) = KEYBOARDREPORT_KEY_COUNT)
<1> DEFINE r == ExtraKeyboardReport_append(extra, report)
           n == EXTRA_REPORT_KEY_COUNT
           Full(q) == Len(q) = KEYBOARDREPORT_KEY_COUNT
<1>1. PICK g : /\ r = [keys |-> g[n], mods |-> report.mods \cup extra.mods]
               /\ g[0] = report.keys
               /\ \A p \in Places : g[p] = Turn(extra.keys[p], g[p - 1], report)
  BY AppendLoop
<1>2. n \in Nat /\ Places = 1..n /\ KEYBOARDREPORT_KEY_COUNT \in Nat
  BY ReportAssumption DEF Places
<1>3. report.keys \in Packed /\ report.mods \in SUBSET Modifiers /\ extra.mods \in SUBSET Modifiers
      /\ \A p \in Places : extra.keys[p] \in Keys \cup {NO_KEY}
  BY DEF PackedReports, ExtraReports
<1>a. \A q \in Packed : Len(q) \in Nat /\ Len(q) <= KEYBOARDREPORT_KEY_COUNT /\ ElementsOf(q) \subseteq Keys
  BY DEF Packed, ElementsOf
<1> DEFINE Good(p) == /\ g[p] \in Packed /\ Len(report.keys) <= Len(g[p])
                      /\ ElementsOf(report.keys) \subseteq ElementsOf(g[p])
                      /\ ElementsOf(g[p]) \subseteq ElementsOf(report.keys) \cup Held(extra)
                      /\ \A q \in 1..p : extra.keys[q] = NO_KEY \/ extra.keys[q] \in ElementsOf(g[p]) \/ Full(g[p])
           T == {p \in 0..n : Good(p)}
<1>4. 0 \in T
  <2>1. Len(report.keys) <= Len(report.keys)
    BY <1>3, <1>a
  <2>2. Good(0)
    BY <1>1, <1>3, <2>1
  <2> QED BY <1>2, <2>2
<1>5. ASSUME NEW p \in 0..(n - 1), p \in T PROVE p + 1 \in T
  <2>1. p + 1 \in 0..n /\ p + 1 \in Places /\ (p + 1) - 1 = p /\ Good(p)
    BY <1>2, <1>5
  <2> DEFINE k == extra.keys[p + 1]
             old == g[p]
             new == g[p + 1]
  <2>2. new = Turn(k, old, report) /\ k \in Keys \cup {NO_KEY}
    BY <1>1, <1>3, <2>1
  <2>3. old \in Packed /\ Len(report.keys) <= Len(old)
        /\ ElementsOf(report.keys) \subseteq ElementsOf(old)
        /\ ElementsOf(old) \subseteq ElementsOf(report.keys) \cup Held(extra)
    BY <2>1
  <2>4. \A q \in 1..p : extra.keys[q] = NO_KEY \/ extra.keys[q] \in ElementsOf(old) \/ Full(old)
    BY <2>1
  <2>5. k = NO_KEY \/ k \in Held(extra)
    BY <2>1 DEF Held
  <2> HIDE DEF k, old, new
  <2>6. /\ new \in Packed /\ Len(old) <= Len(new) /\ ElementsOf(old) \subseteq ElementsOf(new)
        /\ ElementsOf(new) \subseteq ElementsOf(old) \cup ({k} \ {NO_KEY})
        /\ k = NO_KEY \/ k \in ElementsOf(new) \/ k \in ElementsOf(report.keys) \/ Full(new)
    BY <2>2, <2>3, TurnEffect
  <2>7. Len(report.keys) <= Len(new) /\ (Full(old) => Full(new))
    BY <1>2, <1>3, <1>a, <2>3, <2>6
  <2>8. ASSUME NEW q \in 1..(p + 1)
        PROVE  extra.keys[q] = NO_KEY \/ extra.keys[q] \in ElementsOf(new) \/ Full(new)
    <3>1. CASE q = p + 1
      BY <2>3, <2>6, <3>1 DEF k
    <3>2. CASE q # p + 1
      <4>1. q \in 1..p
        BY <3>2, <1>2
      <4> QED BY <2>4, <2>6, <2>7, <4>1
    <3> QED BY <3>1, <3>2
  <2>9. ElementsOf(report.keys) \subseteq ElementsOf(new)
        /\ ElementsOf(new) \subseteq ElementsOf(report.keys) \cup Held(extra)
    BY <2>3, <2>5, <2>6
  <2>10. Good(p + 1)
    BY <2>6, <2>7, <2>8, <2>9 DEF new
  <2> QED BY <2>1, <2>10
<1>6. Good(n)
  <2>1. \A p \in 0..(n - 1) : p \in T => p + 1 \in T
    <3> HIDE DEF T
    <3> QED BY <1>5
  <2>2. n \in T
    <3> HIDE DEF T
    <3>1. \A p \in 0..n : p \in T
      BY <1>2, <1>4, <2>1, IntervalInduction
    <3> QED BY <1>2, <3>1
  <2> QED BY <2>2
<1>7. r.keys = g[n] /\ r.mods = report.mods \cup extra.mods
  BY <1>1
<1>b. Content(report) = ElementsOf(report.keys) \cup report.mods /\ Content(r) = ElementsOf(r.keys) \cup r.mods
  BY DEF Content, ElementsOf
<1>c. extra.mods \subseteq Held(extra)
  BY DEF Held
<1>8. r \in PackedReports
  BY <1>1, <1>3, <1>6 DEF PackedReports
<1> HIDE DEF r
<1>9. Len(report.keys) <= Len(r.keys) /\ Content(report) \subseteq Content(r)
      /\ Content(r) \subseteq Content(report) \cup Held(extra)
  BY <1>6, <1>7, <1>b, <1>c
<1>10. ASSUME NEW k \in Held(extra)
       PROVE  k \in Content(r) \/ (k \in Keys /\ Len(r.keys) = KEYBOARDREPORT_KEY_COUNT)
  <2>1. CASE k \in extra.mods
    BY <2>1, <1>7, <1>b
  <2>2. CASE k \notin extra.mods
    <3>1. PICK p \in Places : k = extra.keys[p] /\ k # NO_KEY
      BY <2>2 DEF Held
    <3>2. k \in Keys
      BY <1>3, <3>1
    <3>3. k \in ElementsOf(g[n]) \/ Full(g[n])
      BY <1>2, <1>6, <3>1
    <3> QED BY <1>7, <1>b, <3>2, <3>3
  <2> QED BY <2>1, <2>2
<1> QED
  BY <1>8, <1>9, <1>10 DEF r


\* A keyboard report with as many keys as it has places, or fewer, is packed.
LEMMA ReportPacked ==
    ASSUME NEW r \in KeyboardReports
    PROVE  r \in PackedReports
<1>1. r = [keys |-> r.keys, mods |-> r.mods] /\ r.mods \in SUBSET Modifiers
      /\ r.keys \in UNION {[1..n -> Keys] : n \in 0..KEYBOARDREPORT_KEY_COUNT}
  BY DEF KeyboardReports
<1>2. PICK n \in 0..KEYBOARDREPORT_KEY_COUNT : r.keys \in [1..n -> Keys]
  BY <1>1
<1>3. n \in Nat /\ n <= KEYBOARDREPORT_KEY_COUNT
  BY ReportAssumption
<1> DEFINE q == r.keys
<1>4. q \in Seq(Keys) /\ Len(q) = n
  <2> HIDE DEF q
  <2>1. q \in [1..n -> Keys]
    BY <1>2 DEF q
  <2> QED BY <1>3, <2>1
<1>5. r.keys \in Packed
  BY <1>3, <1>4 DEF Packed
<1> QED
  BY <1>1, <1>5 DEF PackedReports

\* What toggling a key does: a key that is held is released, another is
\* pressed, unless every place is taken.
LEMMA ToggleEffect ==
    ASSUME NEW r \in ExtraReports, NoRepeat(r), NEW k \in Keys \cup Modifiers
    PROVE  LET t == ExtraKeyboardReport_toggle(r, k)
           IN  /\ t \in ExtraReports /\ NoRepeat(t)
               /\ k \in Held(r) => Held(t) = Held(r) \ {k}
               /\ k \notin Held(r) => \/ Held(t) = Held(r) \cup {k}
                                      \/ k \in Keys /\ PlacesOf(r, NO_KEY) = {}
<1> DEFINE t == ExtraKeyboardReport_toggle(r, k)
<1>1. r = [keys |-> r.keys, mods |-> r.mods]
      /\ r.keys \in [Places -> Keys \cup {NO_KEY}] /\ r.mods \in SUBSET Modifiers
  BY DEF ExtraReports
<1>2. Keys \cap Modifiers = {} /\ NO_KEY \notin Keys \cup Modifiers
  BY ReportAssumption
<1>3. ASSUME NEW f \in [Places -> Keys \cup {NO_KEY}], NEW g \in SUBSET Modifiers
      PROVE  [keys |-> f, mods |-> g] \in ExtraReports
  BY DEF ExtraReports
<1>4. CASE k \in Modifiers
  <2>1. t = [keys |-> r.keys, mods |-> (r.mods \ {k}) \cup ({k} \ r.mods)]
    BY <1>2, <1>4 DEF ExtraKeyboardReport_toggle
  <2>2. (r.mods \ {k}) \cup ({k} \ r.mods) \in SUBSET Modifiers
    BY <1>1, <1>4
  <2>3. t \in ExtraReports
    BY <1>1, <1>3, <2>1, <2>2
  <2>4. \A p \in Places : r.keys[p] # k
    BY <1>1, <1>2, <1>4
  <2> HIDE DEF t
  <2>5. NoRepeat(t)
    BY <2>1 DEF NoRepeat
  <2>6. /\ k \in Held(r) <=> k \in r.mods
        /\ k \in Held(r) => Held(t) = Held(r) \ {k}
        /\ k \notin Held(r) => Held(t) = Held(r) \cup {k}
    BY <1>1, <1>2, <1>4, <2>1, <2>4 DEF Held
  <2> QED BY <2>3, <2>5, <2>6 DEF t
<1>5. CASE k \in Keys /\ PlacesOf(r, k) # {}
  <2> DEFINE l == Lowest(PlacesOf(r, k))
  <2>1. t = ExtraKeyboardReport_remove(r, k)
    BY <1>2, <1>5 DEF ExtraKeyboardReport_toggle
  <2>2. t = [keys |-> [r.keys EXCEPT ![l] = NO_KEY], mods |-> r.mods]
    BY <1>5, <2>1 DEF ExtraKeyboardReport_remove
  <2>3. l \in Places /\ r.keys[l] = k
    <3>1. PlacesOf(r, k) \subseteq Places
      BY DEF PlacesOf
    <3>2. l \in PlacesOf(r, k)
      BY <1>5, <3>1, LowestIn
    <3> QED BY <3>2 DEF PlacesOf
  <2>4. t \in ExtraReports /\ NoRepeat(t)
    BY <2>1, ExtraTypes, RemoveEffect
  <2> HIDE DEF l, t
  <2>5. \A p \in Places : t.keys[p] = IF p = l THEN NO_KEY ELSE r.keys[p]
    BY <1>1, <2>2
  <2>6. \A p \in Places : p # l => r.keys[p] # k
    BY <1>2, <1>5, <2>3 DEF NoRepeat
  <2>7. \A x : x \in {t.keys[p] : p \in Places} \ {NO_KEY} <=> x \in {r.keys[p] : p \in Places} \ {NO_KEY} /\ x # k
    BY <2>3, <2>5, <2>6
  <2>8. k \in Held(r) /\ Held(t) = Held(r) \ {k}
    <3>1. k \notin r.mods /\ t.mods = r.mods /\ k # NO_KEY
      BY <1>1, <1>2, <1>5, <2>2
    <3> QED BY <2>3, <2>7, <3>1 DEF Held
  <2> QED BY <2>4, <2>8 DEF t
<1>6. CASE k \in Keys /\ PlacesOf(r, k) = {}
  <2>1. t = Insert(r, k)
    BY <1>2, <1>6 DEF ExtraKeyboardReport_toggle
  <2>2. \A p \in Places : r.keys[p] # k
    BY <1>6 DEF PlacesOf
  <2>3. k \notin Held(r)
    BY <1>1, <1>2, <1>6, <2>2 DEF Held
  <2>4. CASE PlacesOf(r, NO_KEY) = {}
    <3>1. t = r
      BY <2>1, <2>4 DEF Insert
    <3> QED BY <1>6, <2>3, <2>4, <3>1
  <2>5. CASE PlacesOf(r, NO_KEY) # {}
    <3> DEFINE l == Lowest(PlacesOf(r, NO_KEY))
    <3>1. t = [keys |-> [r.keys EXCEPT ![l] = k], mods |-> r.mods]
      BY <2>1, <2>5 DEF Insert
    <3>2. l \in Places /\ r.keys[l] = NO_KEY
      <4>1. PlacesOf(r, NO_KEY) \subseteq Places
        BY DEF PlacesOf
      <4>2. l \in PlacesOf(r, NO_KEY)
        BY <2>5, <4>1, LowestIn
      <4> QED BY <4>2 DEF PlacesOf
    <3> HIDE DEF l
    <3>3. t \in ExtraReports
      <4>1. [r.keys EXCEPT ![l] = k] \in [Places -> Keys \cup {NO_KEY}]
        BY <1>1, <1>6
      <4> QED BY <1>1, <1>3, <3>1, <4>1
    <3> HIDE DEF t
    <3>4. \A p \in Places : t.keys[p] = IF p = l THEN k ELSE r.keys[p]
      BY <1>1, <3>1
    <3>5. NoRepeat(t)
      BY <2>2, <3>4 DEF NoRepeat
    <3>6. \A x : x \in {t.keys[p] : p \in Places} \ {NO_KEY} <=> x \in {r.keys[p] : p \in Places} \ {NO_KEY} \/ x = k
      BY <1>2, <1>6, <3>2, <3>4
    <3>7. Held(t) = Held(r) \cup {k}
      BY <3>1, <3>6 DEF Held
    <3> QED BY <2>3, <3>3, <3>5, <3>7 DEF t
  <2> QED BY <2>4, <2>5
<1> QED
  BY <1>4, <1>5, <1>6

\* A report without an empty place holds as many keys as it has places.
LEMMA FullHolds ==
    ASSUME NEW r \in ExtraReports, NoRepeat(r), PlacesOf(r, NO_KEY) = {}
    PROVE  IsFiniteSet(Held(r) \cap Keys) /\ Cardinality(Held(r) \cap Keys) = EXTRA_REPORT_KEY_COUNT
<1> DEFINE S == {r.keys[p] : p \in Places}
           f == [p \in Places |-> r.keys[p]]
<1>1. r.keys \in [Places -> Keys \cup {NO_KEY}] /\ r.mods \in SUBSET Modifiers
      /\ \A p \in Places : r.keys[p] # NO_KEY
  BY DEF ExtraReports, PlacesOf
<1>2. Held(r) \cap Keys = S
  BY <1>1, ReportAssumption DEF Held
<1>3. f \in Bijection(Places, S)
  <2>1. f \in [Places -> S]
    OBVIOUS
  <2>2. \A a, b \in Places : f[a] = f[b] => a = b
    BY <1>1 DEF NoRepeat
  <2>3. \A y \in S : \E x \in Places : f[x] = y
    OBVIOUS
  <2> HIDE DEF f, S
  <2> QED BY <2>1, <2>2, <2>3 DEF Bijection, Injection, Surjection, IsInjective
<1>4. IsFiniteSet(Places) /\ Cardinality(Places) = EXTRA_REPORT_KEY_COUNT
  BY FS_Interval, ReportAssumption DEF Places
<1>5. ExistsBijection(Places, S)
  <2> HIDE DEF f, S
  <2> QED BY <1>3 DEF ExistsBijection
<1> HIDE DEF S
<1> QED
  BY <1>2, <1>4, <1>5, FS_Bijection

\* The keys at the first p places of an extra report that a report does not hold.
AddedBy(extra, report, p) == {extra.keys[q] : q \in 1..p} \ ({NO_KEY} \cup ElementsOf(report.keys))

\* A further place adds its key.
LEMMA AddedNext ==
    ASSUME NEW extra \in ExtraReports, NoRepeat(extra), NEW report, NEW p \in Nat, p + 1 \in Places,
           IsFiniteSet(AddedBy(extra, report, p))
    PROVE  LET k == extra.keys[p + 1]
               S == AddedBy(extra, report, p)
               T == AddedBy(extra, report, p + 1)
           IN  IF k = NO_KEY \/ k \in ElementsOf(report.keys) THEN T = S
               ELSE T = S \cup {k} /\ k \notin S /\ IsFiniteSet(T) /\ Cardinality(T) = Cardinality(S) + 1
<1> DEFINE k == extra.keys[p + 1]
           S == AddedBy(extra, report, p)
           T == AddedBy(extra, report, p + 1)
<1>1. 1..(p + 1) = 1..p \cup {p + 1} /\ p + 1 \notin 1..p
  OBVIOUS
<1>2. {extra.keys[q] : q \in 1..(p + 1)} = {extra.keys[q] : q \in 1..p} \cup {k}
  BY <1>1
<1>3. T = S \cup ({k} \ ({NO_KEY} \cup ElementsOf(report.keys)))
  BY <1>2 DEF AddedBy
<1>4. ASSUME k # NO_KEY PROVE k \notin S
  <2>1. 1..p \subseteq Places
    BY ReportAssumption DEF Places
  <2>2. \A q \in 1..p : extra.keys[q] # k
    BY <1>1, <1>4, <2>1 DEF NoRepeat
  <2> QED BY <2>2 DEF AddedBy
<1>5. CASE k = NO_KEY \/ k \in ElementsOf(report.keys)
  <2> HIDE DEF k, S, T
  <2>1. T = S
    BY <1>3, <1>5
  <2> QED BY <1>5, <2>1 DEF k, S, T
<1>6. CASE ~(k = NO_KEY \/ k \in ElementsOf(report.keys))
  <2> HIDE DEF k, S, T
  <2>1. T = S \cup {k}
    BY <1>3, <1>6
  <2>2. k \notin S /\ IsFiniteSet(S)
    BY <1>4, <1>6 DEF S
  <2>3. IsFiniteSet(T) /\ Cardinality(T) = Cardinality(S) + 1
    BY <2>1, <2>2, FS_AddElement
  <2> QED BY <1>6, <2>1, <2>2, <2>3 DEF k, S, T
<1> QED
  BY <1>5, <1>6

\* A turn of the merge, when the report has room for the key.
LEMMA TurnExact ==
    ASSUME NEW q \in Packed, NEW k \in Keys \cup {NO_KEY}, NEW report
    PROVE  LET t == Turn(k, q, report)
           IN  IF k = NO_KEY \/ k \in ElementsOf(report.keys) THEN t = q
               ELSE Len(q) < KEYBOARDREPORT_KEY_COUNT
                       => Len(t) = Len(q) + 1 /\ ElementsOf(t) = ElementsOf(q) \cup {k}
<1>1. q \in Seq(Keys) /\ Len(q) \in Nat /\ KEYBOARDREPORT_KEY_COUNT \in Nat
  BY ReportAssumption DEF Packed
<1>2. CASE k = NO_KEY \/ k \in ElementsOf(report.keys)
  <2>1. Skipped(k, q, report)
    BY <1>2 DEF Skipped, ElementsOf
  <2> QED BY <1>2, <2>1 DEF Turn
<1>3. CASE ~(k = NO_KEY \/ k \in ElementsOf(report.keys))
  <2> SUFFICES ASSUME Len(q) < KEYBOARDREPORT_KEY_COUNT
               PROVE  Len(Turn(k, q, report)) = Len(q) + 1
                      /\ ElementsOf(Turn(k, q, report)) = ElementsOf(q) \cup {k}
    BY <1>3
  <2>1. ~Skipped(k, q, report)
    <3>1. Len(q) # KEYBOARDREPORT_KEY_COUNT
      BY <1>1
    <3> QED BY <1>3, <3>1 DEF Skipped, ElementsOf
  <2>2. Turn(k, q, report) = Append(q, k) /\ k \in Keys
    BY <1>3, <2>1 DEF Turn
  <2>3. Append(q, k) \in Seq(Keys) /\ Len(Append(q, k)) = Len(q) + 1
        /\ Append(q, k)[Len(q) + 1] = k /\ \A j \in 1..Len(q) : Append(q, k)[j] = q[j]
    BY <1>1, <2>2
  <2>4. DOMAIN q = 1..Len(q) /\ DOMAIN Append(q, k) = 1..(Len(q) + 1)
    BY <1>1, <2>3
  <2>5. 1..(Len(q) + 1) = 1..Len(q) \cup {Len(q) + 1}
    BY <1>1
  <2>6. ElementsOf(Append(q, k)) = ElementsOf(q) \cup {k}
    BY <2>3, <2>4, <2>5 DEF ElementsOf
  <2> QED BY <2>2, <2>3, <2>6
<1> QED
  BY <1>2, <1>3

\* What merging does when everything fits: the report's keys and, each once,
\* the extra keys it does not hold.
LEMMA AppendExact ==
    ASSUME NEW extra \in ExtraReports, NoRepeat(extra), NEW report \in PackedReports,
           Len(report.keys) + Cardinality(AddedBy(extra, report, EXTRA_REPORT_KEY_COUNT))
              <= KEYBOARDREPORT_KEY_COUNT
    PROVE  LET r == ExtraKeyboardReport_append(extra, report)
               added == AddedBy(extra, report, EXTRA_REPORT_KEY_COUNT)
           IN  /\ ElementsOf(r.keys) = ElementsOf(report.keys) \cup added
               /\ Len(r.keys) = Len(report.keys) + Cardinality(added)
               /\ r.mods = report.mods \cup extra.mods
<1> DEFINE r == ExtraKeyboardReport_append(extra, report)
           n == EXTRA_REPORT_KEY_COUNT
           A(p) == AddedBy(extra, report, p)
           len == Len(report.keys)
<1>1. PICK g : /\ r = [keys |-> g[n], mods |-> report.mods \cup extra.mods]
               /\ g[0] = report.keys
               /\ \A p \in Places : g[p] = Turn(extra.keys[p], g[p - 1], report)
  BY AppendLoop
<1>2. n \in Nat /\ Places = 1..n /\ KEYBOARDREPORT_KEY_COUNT \in Nat
  BY ReportAssumption DEF Places
<1>3. report.keys \in Packed /\ len \in Nat /\ \A p \in Places : extra.keys[p] \in Keys \cup {NO_KEY}
  BY DEF PackedReports, ExtraReports, Packed
<1>4. \A p \in 0..n : IsFiniteSet(A(p)) /\ Cardinality(A(p)) \in Nat
  <2> DEFINE T == {p \in 0..n : IsFiniteSet(A(p))}
  <2>1. 0 \in T
    <3>1. 1..0 = {}
      OBVIOUS
    <3>2. A(0) = {}
      BY <3>1 DEF AddedBy
    <3>3. IsFiniteSet({})
      BY FS_EmptySet
    <3>4. IsFiniteSet(A(0))
      BY <3>2, <3>3
    <3>5. 0 \in 0..n
      BY <1>2
    <3> QED BY <3>4, <3>5
  <2>2. ASSUME NEW p \in 0..(n - 1), p \in T PROVE p + 1 \in T
    <3>1. p \in Nat /\ p + 1 \in Places /\ p + 1 \in 0..n /\ IsFiniteSet(A(p))
      BY <1>2, <2>2
    <3>2. IsFiniteSet(A(p + 1))
      BY <3>1, AddedNext
    <3> QED BY <3>1, <3>2
  <2>3. \A p \in 0..n : p \in T
    <3> HIDE DEF T
    <3> QED BY <1>2, <2>1, <2>2, IntervalInduction
  <2> QED BY <2>3, FS_CardinalityType
<1>5. ASSUME NEW p \in 0..(n - 1) PROVE A(p) \subseteq A(p + 1) /\ A(p + 1) \subseteq A(n)
  <2>1. 1..p \subseteq 1..(p + 1) /\ 1..(p + 1) \subseteq 1..n
    BY <1>2
  <2> QED BY <2>1 DEF AddedBy
<1> DEFINE Good(p) == /\ g[p] \in Packed /\ ElementsOf(g[p]) = ElementsOf(report.keys) \cup A(p)
                      /\ Len(g[p]) = len + Cardinality(A(p))
           T == {p \in 0..n : Good(p)}
<1>6. 0 \in T
  <2>1. 1..0 = {}
    OBVIOUS
  <2>2. A(0) = {}
    BY <2>1 DEF AddedBy
  <2>3. Good(0)
    BY <1>1, <1>3, <2>2, FS_EmptySet, SMTT(30)
  <2> QED BY <1>2, <2>3
<1>7. ASSUME NEW p \in 0..(n - 1), p \in T PROVE p + 1 \in T
  <2>1. p \in Nat /\ p \in 0..n /\ p + 1 \in 0..n /\ p + 1 \in Places /\ (p + 1) - 1 = p /\ Good(p)
        /\ n \in 0..n
    BY <1>2, <1>7
  <2> DEFINE k == extra.keys[p + 1]
             old == g[p]
             new == g[p + 1]
             S == A(p)
             U == A(p + 1)
  <2>2. new = Turn(k, old, report) /\ k \in Keys \cup {NO_KEY}
    BY <1>1, <1>3, <2>1
  <2>3. old \in Packed /\ ElementsOf(old) = ElementsOf(report.keys) \cup S /\ Len(old) = len + Cardinality(S)
    BY <2>1
  <2>4. IF k = NO_KEY \/ k \in ElementsOf(report.keys) THEN U = S
        ELSE U = S \cup {k} /\ k \notin S /\ Cardinality(U) = Cardinality(S) + 1
    BY <1>4, <2>1, AddedNext
  <2>5. Cardinality(S) \in Nat /\ Cardinality(U) \in Nat /\ Cardinality(U) <= Cardinality(A(n))
        /\ Cardinality(A(n)) \in Nat
    BY <1>4, <1>5, <2>1, FS_Subset
  <2> HIDE DEF k, old, new, S, U
  <2>6. new \in Packed
    BY <2>2, <2>3, TurnEffect
  <2>7. ElementsOf(new) = ElementsOf(report.keys) \cup U /\ Len(new) = len + Cardinality(U)
    <3>1. CASE k = NO_KEY \/ k \in ElementsOf(report.keys)
      <4>1. new = old /\ U = S
        BY <2>2, <2>3, <2>4, <3>1, TurnExact
      <4> QED BY <2>3, <4>1
    <3>2. CASE ~(k = NO_KEY \/ k \in ElementsOf(report.keys))
      <4>1. U = S \cup {k} /\ Cardinality(U) = Cardinality(S) + 1
        BY <2>4, <3>2
      <4>2. len + Cardinality(A(n)) <= KEYBOARDREPORT_KEY_COUNT
        OBVIOUS
      <4>3. Len(old) < KEYBOARDREPORT_KEY_COUNT
        <5> DEFINE s == Cardinality(S)
                   u == Cardinality(U)
                   a == Cardinality(A(n))
        <5> HIDE DEF s, u, a, len
        <5> QED BY <1>2, <1>3, <2>3, <2>5, <4>1, <4>2 DEF s, u, a
      <4>4. Len(new) = Len(old) + 1 /\ ElementsOf(new) = ElementsOf(old) \cup {k}
        BY <2>2, <2>3, <3>2, <4>3, TurnExact
      <4>5. Len(new) = len + Cardinality(U)
        <5> DEFINE s == Cardinality(S)
        <5> HIDE DEF s, len
        <5> QED BY <1>3, <2>3, <2>5, <4>1, <4>4 DEF s
      <4> QED BY <2>3, <4>1, <4>4, <4>5
    <3> QED BY <3>1, <3>2
  <2>8. Good(p + 1)
    BY <2>6, <2>7 DEF new, U
  <2> QED BY <2>1, <2>8
<1>8. Good(n)
  <2>1. n \in T
    <3> HIDE DEF T
    <3>1. \A p \in 0..n : p \in T
      BY <1>2, <1>6, <1>7, IntervalInduction
    <3> QED BY <1>2, <3>1
  <2> QED BY <2>1
<1>9. r.keys = g[n] /\ r.mods = report.mods \cup extra.mods
  BY <1>1
<1> QED
  BY <1>8, <1>9

================================================================================
