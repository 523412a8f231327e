--------------------------- MODULE KeyStateProofs ---------------------------
(***************************************************************************)
(* Proofs about KeyState, for any number of slots, keys and debounce rows, *)
(* any factory mapping that treats steering keys alike on all layers, and  *)
(* any sequence of scans, remappings and configuration changes.            *)
(***************************************************************************)
EXTENDS KeyState, Lemmas, TLAPS

(***************************************************************************)
(* The inductive invariant.  CountExact and HookBalanced need to know what *)
(* a slot looks like between scans, LayerJustified needs the slots of the  *)
(* shift keys, and all three need steering keys to keep their meaning.     *)
(***************************************************************************)
IInv ==
    /\ TypeOK
    /\ SlotsConsistent
    /\ SpecialKeysFixed
    /\ CountExact
    /\ HookBalanced
    /\ LayerJustified

\* The slots are finitely many.
LEMMA SlotsFinite == IsFiniteSet(Slots) /\ Cardinality(Slots) = KEYSTATE_COUNT
  BY FS_Interval, SizeAssumption DEF Slots

\* A logical code is in range and determines the physical key on its layer.
LEMMA LogicalKeyType ==
    ASSUME NEW ly \in Layer, NEW p \in PhysicalKeys
    PROVE  LogicalKey(ly, p) \in LogicalKeys
<1>1. ly.base \in 0..1 /\ ly.id \in 0..2 /\ KEYPAD_LAYER_SIZE \in Nat
  BY SizeAssumption DEF Layer, LayerIds
<1>2. p \in Nat /\ p < KEYPAD_LAYER_SIZE
  BY SizeAssumption DEF PhysicalKeys
<1>3. ly.id = 0 \/ ly.id = 1 \/ ly.id = 2
  BY <1>1
<1>4. LogicalKey(ly, p) \in {p, p + KEYPAD_LAYER_SIZE, p + 2 * KEYPAD_LAYER_SIZE}
  <2>1. CASE ly.base = 1 \/ ly.id = 0
    BY <2>1, <1>1, <1>2 DEF LogicalKey
  <2>2. CASE ly.base # 1 /\ ly.id = 1
    BY <2>2, <1>1, <1>2 DEF LogicalKey
  <2>3. CASE ly.base # 1 /\ ly.id = 2
    BY <2>3, <1>1, <1>2 DEF LogicalKey
  <2> QED BY <2>1, <2>2, <2>3, <1>3
<1> QED
  BY <1>1, <1>2, <1>4 DEF LogicalKeys

\* On one layer two physical keys never share a logical code.
LEMMA LogicalKeyInjective ==
    ASSUME NEW ly \in Layer, NEW p \in PhysicalKeys, NEW q \in PhysicalKeys,
           LogicalKey(ly, p) = LogicalKey(ly, q)
    PROVE  p = q
<1> DEFINE off == (IF ly.base = 1 THEN 0 ELSE ly.id) * KEYPAD_LAYER_SIZE
<1>1. off \in Int
  BY SizeAssumption DEF Layer, LayerIds
<1>2. LogicalKey(ly, p) = p + off /\ LogicalKey(ly, q) = q + off
  BY DEF LogicalKey
<1>3. p \in Int /\ q \in Int
  BY SizeAssumption DEF PhysicalKeys
<1>4. p + off = q + off
  BY <1>2
<1> HIDE DEF off
<1> QED
  BY <1>1, <1>3, <1>4

\* Layers with the same code are the same to the notifications.
LEMMA SameLayerCode ==
    ASSUME NEW a \in Layer, NEW b \in Layer, LayerCode(a) = LayerCode(b),
           NEW p
    PROVE  LogicalKey(a, p) = LogicalKey(b, p)
<1>1. /\ a.base \in 0..1 /\ b.base \in 0..1
      /\ a.id \in 0..2 /\ b.id \in 0..2
  BY DEF Layer, LayerIds
<1>2. (a.base = 1 /\ b.base = 1) \/ (a.base # 1 /\ b.base # 1 /\ a.id = b.id)
  BY <1>1 DEF LayerCode
<1> QED
  BY <1>2 DEF LogicalKey
-----------------------------------------------------------------------------
(***************************************************************************)
(* The slots in the middle of a scan.                                      *)
(***************************************************************************)

\* What marking and recording leave in the slots: a slot in use keeps its key,
\* a free one stays blank or takes a new key, and no key has two slots.
ScanResult(ks, down, new) ==
    /\ ks \in [Slots -> KeyRecord]
    /\ \A j \in Slots :
          \/ /\ j \in Occupied
             /\ ks[j].p_key = key_states[j].p_key
             /\ ks[j].p_key # NO_KEY
             /\ ks[j].prev_state = 1
             /\ ks[j].state = IF ks[j].p_key \in down THEN 1 ELSE 0
             /\ ks[j].hidden = key_states[j].hidden
          \/ j \notin Occupied /\ ks[j] = empty_key_state
          \/ /\ j \notin Occupied
             /\ ks[j].p_key \in new
             /\ ks[j].prev_state = 0 /\ ks[j].state = 1 /\ ks[j].hidden = 0
    /\ \A i, j \in Slots :
          ks[i].p_key = ks[j].p_key /\ ks[i].p_key # NO_KEY => i = j

\* What marking the released keys and recording the new ones leaves in the
\* slots: nothing lost, nothing twice, new keys not yet announced.
LEMMA ScannedSlotsResult ==
    ASSUME TypeOK, SlotsConsistent,
           NEW down \in SUBSET PhysicalKeys, NEW new \in SUBSET down,
           new \cap debounced = {}
    PROVE  ScanResult(ScannedSlots(down, new), down, new)
<1> DEFINE marked == MarkReleased(key_states, down)
           ks == ScannedSlots(down, new)
<1>0. NO_KEY \notin PhysicalKeys
  BY SizeAssumption DEF NO_KEY, PhysicalKeys
<1>1. ASSUME NEW j \in Slots
      PROVE  /\ marked[j] \in KeyRecord
             /\ marked[j].p_key = key_states[j].p_key
             /\ marked[j].hidden = key_states[j].hidden
             /\ j \in Occupied => /\ marked[j].prev_state = 1
                                  /\ marked[j].state =
                                        IF marked[j].p_key \in down THEN 1 ELSE 0
             /\ j \notin Occupied => marked[j] = empty_key_state
  <2>1. key_states[j] \in KeyRecord
    BY DEF TypeOK
  <2>2. marked[j] = IF key_states[j].p_key # NO_KEY /\ key_states[j].p_key \notin down
                    THEN [key_states[j] EXCEPT !.state = 0] ELSE key_states[j]
    BY DEF MarkReleased
  <2>3. j \in Occupied => key_states[j].prev_state = 1 /\ key_states[j].state = 1
    BY DEF SlotsConsistent
  <2>4. j \notin Occupied => key_states[j] = empty_key_state
    BY DEF SlotsConsistent
  <2>5. j \in Occupied <=> key_states[j].p_key # NO_KEY
    BY DEF Occupied
  <2> QED
    BY <2>1, <2>2, <2>3, <2>4, <2>5 DEF KeyRecord, empty_key_state
<1>2. FreeSlots(marked) = Slots \ Occupied
  BY <1>1 DEF FreeSlots, Occupied
<1>3. ASSUME NEW j \in Slots, ks[j] # marked[j]
      PROVE  /\ j \in FreeSlots(marked)
             /\ \E k \in TakenBy(marked, new, j) :
                   ks[j] = WithKey(marked[j], k)
  <2>1. ks[j] = IF marked[j].p_key = NO_KEY /\ TakenBy(marked, new, j) # {}
                THEN WithKey(marked[j], CHOOSE k \in TakenBy(marked, new, j) : TRUE)
                ELSE marked[j]
    BY DEF ScannedSlots, RecordPressed
  <2> HIDE DEF ks, marked
  <2>2. (CHOOSE k \in TakenBy(marked, new, j) : TRUE) \in TakenBy(marked, new, j)
    BY <1>3, <2>1
  <2> QED
    BY <1>3, <2>1, <2>2 DEF FreeSlots
<1>4. ASSUME NEW j \in Slots, ks[j] # marked[j]
      PROVE  /\ j \notin Occupied
             /\ ks[j] \in KeyRecord
             /\ ks[j].p_key \in new
             /\ RankIn(new, ks[j].p_key) = RankIn(FreeSlots(marked), j)
             /\ ks[j].prev_state = 0 /\ ks[j].state = 1 /\ ks[j].hidden = 0
  <2>1. PICK k \in TakenBy(marked, new, j) :
            ks[j] = WithKey(marked[j], k)
    BY <1>3, <1>4
  <2>2. j \notin Occupied /\ marked[j] = empty_key_state
    BY <1>1, <1>2, <1>3, <1>4
  <2>3. k \in new /\ RankIn(new, k) = RankIn(FreeSlots(marked), j)
    BY DEF TakenBy
  <2> HIDE DEF ks, marked
  <2>4. k \in PhysicalKeys /\ marked[j] \in KeyRecord
    BY <2>3, <1>1
  <2>5. /\ marked[j].prev_state = 0
        /\ marked[j].hidden = 0
    BY <2>2 DEF empty_key_state
  <2>6. /\ ks[j] \in KeyRecord
        /\ ks[j].p_key = k /\ ks[j].prev_state = 0
        /\ ks[j].state = 1 /\ ks[j].hidden = 0
    BY <2>1, <2>4, <2>5 DEF KeyRecord, WithKey
  <2> QED
    BY <2>2, <2>3, <2>6
<1>5. ks \in [Slots -> KeyRecord]
  <2>1. ks = [j \in Slots |-> ks[j]]
    BY DEF ScannedSlots, RecordPressed
  <2> HIDE DEF ks, marked
  <2>2. \A j \in Slots : ks[j] \in KeyRecord
    BY <1>1, <1>4
  <2> QED
    BY <2>1, <2>2
<1>6. ASSUME NEW i \in Slots, NEW j \in Slots,
             ks[i].p_key = ks[j].p_key, ks[i].p_key # NO_KEY
      PROVE  i = j
  <2> HIDE DEF ks, marked
  <2>1. CASE ks[i] = marked[i] /\ ks[j] = marked[j]
    BY <2>1, <1>1, <1>6 DEF SlotsConsistent, Occupied
  <2>2. CASE ks[i] = marked[i] /\ ks[j] # marked[j]
    BY <2>2, <1>1, <1>4, <1>6 DEF SlotsConsistent, Occupied
  <2>3. CASE ks[i] # marked[i] /\ ks[j] = marked[j]
    BY <2>3, <1>1, <1>4, <1>6 DEF SlotsConsistent, Occupied
  <2>4. CASE ks[i] # marked[i] /\ ks[j] # marked[j]
    <3>1. RankIn(FreeSlots(marked), i) = RankIn(FreeSlots(marked), j)
      BY <2>4, <1>4, <1>6
    <3>2. i \in FreeSlots(marked) /\ j \in FreeSlots(marked)
      BY <2>4, <1>3
    <3>3. FreeSlots(marked) \in SUBSET Int /\ FreeSlots(marked) \in SUBSET Slots
      BY SizeAssumption DEF FreeSlots, Slots
    <3>4. IsFiniteSet(FreeSlots(marked))
      BY <3>3, SlotsFinite, FS_Subset
    <3> QED
      BY <3>1, <3>2, <3>3, <3>4, RankInjective
  <2> QED
    BY <2>1, <2>2, <2>3, <2>4
<1>7. ASSUME NEW j \in Slots
      PROVE  \/ /\ j \in Occupied
                /\ ks[j].p_key = key_states[j].p_key
                /\ ks[j].p_key # NO_KEY
                /\ ks[j].prev_state = 1
                /\ ks[j].state = IF ks[j].p_key \in down THEN 1 ELSE 0
                /\ ks[j].hidden = key_states[j].hidden
             \/ j \notin Occupied /\ ks[j] = empty_key_state
             \/ /\ j \notin Occupied
                /\ ks[j].p_key \in new
                /\ ks[j].prev_state = 0 /\ ks[j].state = 1 /\ ks[j].hidden = 0
  <2> HIDE DEF ks, marked
  <2>1. CASE ks[j] = marked[j]
    BY <2>1, <1>1 DEF Occupied
  <2>2. CASE ks[j] # marked[j]
    BY <2>2, <1>4
  <2> QED
    BY <2>1, <2>2
<1> HIDE DEF ks
<1> QED
  BY <1>5, <1>6, <1>7 DEF ScanResult, ks
-----------------------------------------------------------------------------
(***************************************************************************)
(* The loop that works out the layer.                                      *)
(***************************************************************************)

\* The lock key keeps the layer a layer.
LEMMA ToggleLockType ==
    ASSUME NEW ly \in Layer
    PROVE  /\ ToggleLock(ly) \in Layer
           /\ ToggleLock(ly).base = ly.base
           /\ ToggleLock(ly).lock = 1 \/ ToggleLock(ly).id = 0
           /\ ToggleLock(ly).lock = 1 => ToggleLock(ly).id # 0
<1>1. CASE ly.lock = 1
  BY <1>1 DEF Layer, LayerIds, ToggleLock
<1>2. CASE ly.lock # 1 /\ ly.id = 0
  BY <1>2 DEF Layer, LayerIds, ToggleLock
<1>3. CASE ly.lock # 1 /\ ly.id # 0
  BY <1>3 DEF Layer, LayerIds, ToggleLock
<1> QED
  BY <1>1, <1>2, <1>3

Shifts == {SPECIAL_HID_KEY_KEYPAD_SHIFT, SPECIAL_HID_KEY_FUNCTION_SHIFT}
Bases == {SPECIAL_HID_KEY_MACRO_SHIFT, SPECIAL_HID_KEY_PROGRAM}

\* What one layer key can do to the layer.
LEMMA UpdateLayerEffect ==
    ASSUME NEW ly \in Layer, NEW h \in HidCodes, NEW st \in 0..1
    PROVE  LET r == update_layer(ly, h, st)
           IN  /\ r \in Layer
               /\ r.base = IF h \in Bases THEN st ELSE ly.base
               /\ (ly.lock = 1 => ly.id # 0) => (r.lock = 1 => r.id # 0)
               /\ r.id # 0 /\ r.lock = 0 =>
                     \/ h \in Shifts /\ st = 1
                     \/ ly.id # 0 /\ ly.lock = 0 /\ h \notin Shifts
<1> USE DEF Layer, LayerIds, Bases, Shifts, SPECIAL_HID_KEY_LAYER_LOCK,
        SPECIAL_HID_KEY_KEYPAD_SHIFT, SPECIAL_HID_KEY_FUNCTION_SHIFT,
        SPECIAL_HID_KEY_MACRO_SHIFT, SPECIAL_HID_KEY_PROGRAM
<1>1. CASE h = SPECIAL_HID_KEY_LAYER_LOCK /\ st = 1
  <2>1. update_layer(ly, h, st) = ToggleLock(ly)
    BY <1>1 DEF update_layer
  <2> QED
    BY <2>1, <1>1, ToggleLockType
<1>2. CASE h = SPECIAL_HID_KEY_KEYPAD_SHIFT /\ st = 1
  BY <1>2 DEF update_layer
<1>3. CASE h = SPECIAL_HID_KEY_FUNCTION_SHIFT /\ st = 1
  BY <1>3 DEF update_layer
<1>4. CASE h \in Shifts /\ st = 0 /\ ly.lock = 0
  BY <1>4 DEF update_layer
<1>5. CASE h \in Bases
  BY <1>5 DEF update_layer
<1>6. CASE h \in Shifts /\ st = 0 /\ ly.lock # 0
  BY <1>6 DEF update_layer
<1>7. CASE h \notin Shifts \cup Bases /\ ~(h = SPECIAL_HID_KEY_LAYER_LOCK /\ st = 1)
  BY <1>7 DEF update_layer
<1> QED
  BY <1>1, <1>2, <1>3, <1>4, <1>5, <1>6, <1>7

\* Every physical key has a meaning on the base layer.
LEMMA DefinitionType ==
    ASSUME TypeOK, NEW p \in PhysicalKeys
    PROVE  p \in LogicalKeys /\ config_get_definition(p) \in HidCodes
<1>1. p \in LogicalKeys
  BY SizeAssumption DEF PhysicalKeys, LogicalKeys
<1> QED
  BY <1>1 DEF TypeOK, config_get_definition

\* One turn of the layer loop keeps the layer a layer.
LEMMA LayerStepType ==
    ASSUME TypeOK, NEW ly \in Layer, NEW k \in KeyRecord
    PROVE  LayerStep(ly, k) \in Layer
<1>1. CASE k.p_key = NO_KEY
  BY <1>1 DEF LayerStep
<1>2. CASE k.p_key # NO_KEY
  <2>1. k.p_key \in PhysicalKeys /\ k.state \in 0..1
    BY <1>2 DEF KeyRecord
  <2>2. config_get_definition(k.p_key) \in HidCodes
    BY <2>1, DefinitionType
  <2>3. update_layer(ly, config_get_definition(k.p_key), k.state) \in Layer
    BY <2>1, <2>2, UpdateLayerEffect
  <2> QED
    BY <2>3 DEF LayerStep
<1> QED
  BY <1>1, <1>2

\* The recursive definition of the loop is what it says.
LEMMA LayerFoldUnfolds ==
    ASSUME TypeOK, NEW ly \in Layer, NEW ks \in [Slots -> KeyRecord]
    PROVE  /\ LayerFold(ks, ly) \in [0..KEYSTATE_COUNT -> Layer]
           /\ LayerFold(ks, ly)[0] = ly
           /\ \A i \in 1..KEYSTATE_COUNT :
                 LayerFold(ks, ly)[i] = LayerStep(LayerFold(ks, ly)[i - 1], ks[i - 1])
<1> DEFINE n == KEYSTATE_COUNT
           step == [i \in 0..(n - 1) |-> [y \in Layer |-> LayerStep(y, ks[i])]]
           Body(f) == [i \in 0..n |-> IF i = 0 THEN ly ELSE LayerStep(f[i - 1], ks[i - 1])]
<1>1. n \in Nat
  BY SizeAssumption
<1>2. step \in [0..(n - 1) -> [Layer -> Layer]]
  <2>1. \A i \in 0..(n - 1) : ks[i] \in KeyRecord
    BY DEF Slots
  <2>2. \A i \in 0..(n - 1) : \A y \in Layer : LayerStep(y, ks[i]) \in Layer
    BY <2>1, LayerStepType
  <2> QED
    BY <2>2
<1>3. PICK f : IsRun(n, Layer, ly, step, f)
  <2>1. IsLoop(n, Layer, ly, step)
    BY <1>1, <1>2 DEF IsLoop
  <2> HIDE DEF step, n
  <2> QED BY <2>1, LoopExists
<1>4. \A i \in 1..n : f[i] = LayerStep(f[i - 1], ks[i - 1])
  <2> SUFFICES ASSUME NEW i \in 1..n PROVE f[i] = LayerStep(f[i - 1], ks[i - 1])
    OBVIOUS
  <2>1. i - 1 \in 0..(n - 1) /\ i - 1 \in 0..n
    BY <1>1
  <2> QED
    BY <2>1, <1>3 DEF IsRun
<1>5. f = Body(f)
  <2> HIDE DEF n
  <2>1. \A i \in 0..n : i # 0 => i \in 1..n
    BY <1>1
  <2> QED
    BY <1>3, <1>4, <2>1 DEF IsRun
<1>6. LayerFold(ks, ly) = CHOOSE g : g = Body(g)
  BY DEF LayerFold
<1>7. LayerFold(ks, ly) = Body(LayerFold(ks, ly))
  <2> HIDE DEF Body, n
  <2> QED BY <1>5, <1>6
<1> DEFINE g == LayerFold(ks, ly)
<1>8. /\ g = [i \in 0..n |-> g[i]]
      /\ g[0] = ly
      /\ \A i \in 1..n : g[i] = LayerStep(g[i - 1], ks[i - 1])
  <2> HIDE DEF g
  <2>1. g = Body(g)
    BY <1>7 DEF g
  <2> QED
    BY <2>1, <1>1
<1>9. \A i \in 0..n : g[i] \in Layer
  <2> DEFINE T == {i \in 0..n : g[i] \in Layer}
  <2>1. 0 \in T
    BY <1>1, <1>8
  <2>2. \A i \in 0..(n - 1) : i \in T => i + 1 \in T
    <3> SUFFICES ASSUME NEW i \in 0..(n - 1), g[i] \in Layer PROVE g[i + 1] \in Layer
      BY <1>1
    <3>1. i + 1 \in 1..n /\ (i + 1) - 1 = i /\ ks[i] \in KeyRecord
      BY <1>1 DEF Slots
    <3>2. g[i + 1] = LayerStep(g[i], ks[i])
      BY <1>8, <3>1
    <3> QED
      BY <3>1, <3>2, LayerStepType
  <2> HIDE DEF T
  <2>3. \A i \in 0..n : i \in T
    BY <2>1, <2>2, <1>1, IntervalInduction
  <2> QED
    BY <2>3 DEF T
<1> QED
  BY <1>8, <1>9

\* After the first n slots the layer is justified by keys as the loop sees
\* them: in their new state below n, in their old one from n on.
DownAt(ks, n, j, codes) ==
    /\ ks[j].p_key # NO_KEY
    /\ config_get_definition(ks[j].p_key) \in codes
    /\ (IF j < n THEN ks[j].state ELSE ks[j].prev_state) = 1

JustifiedAt(ks, n, ly) ==
    /\ ly.lock = 1 => ly.id # 0
    /\ ly.id # 0 /\ ly.lock = 0 => \E j \in Slots : DownAt(ks, n, j, Shifts)
    /\ ly.base = 1 => \E j \in Slots : DownAt(ks, n, j, Bases)

\* The shift and base codes are steering codes.
LEMMA SteeringCodes ==
    \A h \in Shifts \cup Bases : SPECIAL_HID_KEY_NOREMAP(h)
  BY DEF Shifts, Bases, SPECIAL_HID_KEY_NOREMAP, SPECIAL_HID_KEY_LAYER_LOCK,
         SPECIAL_HID_KEY_KEYPAD_SHIFT, SPECIAL_HID_KEY_FUNCTION_SHIFT,
         SPECIAL_HID_KEY_MACRO_SHIFT, SPECIAL_HID_KEY_PROGRAM, NO_KEY

\* A turn that looks at slot n leaves the reasons in the other slots alone.
LEMMA DownAtNext ==
    ASSUME NEW ks, NEW n \in Slots, NEW j \in Slots, NEW codes,
           DownAt(ks, n, j, codes),
           j # n \/ ks[j].state = ks[j].prev_state
    PROVE  DownAt(ks, n + 1, j, codes)
<1>1. n \in Int /\ j \in Int
  BY SizeAssumption DEF Slots
<1>2. CASE j < n
  BY <1>1, <1>2 DEF DownAt
<1>3. CASE ~(j < n)
  BY <1>1, <1>3 DEF DownAt
<1> QED
  BY <1>2, <1>3

\* One turn of the layer loop keeps the layer justified by the keys already
\* looked at (in their new state) and those still to come (in their old one).
LEMMA LayerTurn ==
    ASSUME TypeOK, NEW ks \in [Slots -> KeyRecord], NEW n \in Slots,
           NEW ly \in Layer, JustifiedAt(ks, n, ly)
    PROVE  JustifiedAt(ks, n + 1, LayerStep(ly, ks[n]))
<1> DEFINE k == ks[n]
           h == config_get_definition(k.p_key)
           r == LayerStep(ly, k)
<1>0. k \in KeyRecord /\ k.state \in 0..1 /\ k.prev_state \in 0..1
  BY DEF KeyRecord
<1>1. CASE k.p_key # NO_KEY /\ SPECIAL_HID_KEY_NOREMAP(h) /\ k.state # k.prev_state
  <2>1. r = update_layer(ly, h, k.state)
    BY <1>1 DEF LayerStep
  <2>2. h \in HidCodes
    BY <1>0, <1>1, DefinitionType DEF KeyRecord
  <2>3. /\ r.base = IF h \in Bases THEN k.state ELSE ly.base
        /\ (ly.lock = 1 => ly.id # 0) => (r.lock = 1 => r.id # 0)
        /\ r.id # 0 /\ r.lock = 0 =>
              \/ h \in Shifts /\ k.state = 1
              \/ ly.id # 0 /\ ly.lock = 0 /\ h \notin Shifts
    <3> HIDE DEF h
    <3> QED BY <2>1, <2>2, <1>0, UpdateLayerEffect
  <2>4. ASSUME NEW codes, h \in codes, k.state = 1 PROVE DownAt(ks, n + 1, n, codes)
    <3>1. n < n + 1
      BY SizeAssumption DEF Slots
    <3> QED BY <1>1, <2>4, <3>1 DEF DownAt
  <2>5. ASSUME NEW codes, h \notin codes, \E j \in Slots : DownAt(ks, n, j, codes)
        PROVE  \E j \in Slots : DownAt(ks, n + 1, j, codes)
    <3>1. PICK j \in Slots : DownAt(ks, n, j, codes)
      BY <2>5
    <3>2. j # n
      BY <2>5, <3>1 DEF DownAt
    <3> QED BY <3>1, <3>2, DownAtNext
  <2>6. r.id # 0 /\ r.lock = 0 => \E j \in Slots : DownAt(ks, n + 1, j, Shifts)
    <3> HIDE DEF r, h
    <3> QED BY <2>3, <2>4, <2>5 DEF JustifiedAt
  <2>7. r.base = 1 => \E j \in Slots : DownAt(ks, n + 1, j, Bases)
    <3> HIDE DEF r, h
    <3> QED BY <2>3, <2>4, <2>5 DEF JustifiedAt
  <2> QED
    BY <2>3, <2>6, <2>7 DEF JustifiedAt
<1>2. CASE ~(k.p_key # NO_KEY /\ SPECIAL_HID_KEY_NOREMAP(h) /\ k.state # k.prev_state)
  <2>1. r = ly
    BY <1>2 DEF LayerStep
  <2>2. ASSUME NEW codes \in SUBSET (Shifts \cup Bases), NEW j \in Slots,
               DownAt(ks, n, j, codes)
        PROVE  DownAt(ks, n + 1, j, codes)
    <3>1. j = n => SPECIAL_HID_KEY_NOREMAP(h) /\ k.p_key # NO_KEY
      BY <2>2, SteeringCodes DEF DownAt
    <3>2. j # n \/ ks[j].state = ks[j].prev_state
      BY <3>1, <1>2
    <3> QED BY <2>2, <3>2, DownAtNext
  <2>3. Shifts \in SUBSET (Shifts \cup Bases) /\ Bases \in SUBSET (Shifts \cup Bases)
    OBVIOUS
  <2> QED
    BY <2>1, <2>2, <2>3 DEF JustifiedAt
<1> QED
  BY <1>1, <1>2

\* The layer at the end of the loop is justified by keys still down.
LEMMA LayerAfterJustified ==
    ASSUME TypeOK, SlotsConsistent, LayerJustified,
           NEW ks, NEW down, NEW new, ScanResult(ks, down, new)
    PROVE  /\ LayerAfter(ks, layer) \in Layer
           /\ JustifiedAt(ks, KEYSTATE_COUNT, LayerAfter(ks, layer))
<1> DEFINE N == KEYSTATE_COUNT
           acc == LayerFold(ks, layer)
           T == {n \in 0..N : JustifiedAt(ks, n, acc[n])}
<1>0. N \in Nat /\ N # 0 /\ Slots = 0..(N - 1)
  BY SizeAssumption DEF Slots
<1>1. ks \in [Slots -> KeyRecord] /\ layer \in Layer
  BY DEF ScanResult, TypeOK
<1>2. /\ acc \in [0..N -> Layer]
      /\ acc[0] = layer
      /\ \A i \in 1..N : acc[i] = LayerStep(acc[i - 1], ks[i - 1])
  BY <1>1, LayerFoldUnfolds
<1>3. JustifiedAt(ks, 0, layer)
  <2>1. ASSUME NEW codes, HeldAs(codes) PROVE \E j \in Slots : DownAt(ks, 0, j, codes)
    <3>1. PICK j \in Occupied : config_get_definition(key_states[j].p_key) \in codes
      BY <2>1 DEF HeldAs
    <3>2. j \in Slots /\ ~(j < 0)
      BY <1>0 DEF Occupied
    <3>3. /\ ks[j].p_key = key_states[j].p_key
          /\ ks[j].p_key # NO_KEY /\ ks[j].prev_state = 1
      BY <3>2 DEF ScanResult
    <3>4. DownAt(ks, 0, j, codes)
      BY <3>1, <3>2, <3>3 DEF DownAt
    <3> QED BY <3>2, <3>4
  <2> QED
    BY <2>1 DEF LayerJustified, JustifiedAt, Shifts, Bases
<1>4. 0 \in T
  BY <1>0, <1>2, <1>3
<1>5. \A i \in 0..(N - 1) : i \in T => i + 1 \in T
  <2> SUFFICES ASSUME NEW i \in 0..(N - 1), JustifiedAt(ks, i, acc[i])
               PROVE  JustifiedAt(ks, i + 1, acc[i + 1])
    BY <1>0
  <2>1. i \in Slots /\ i + 1 \in 1..N /\ (i + 1) - 1 = i /\ i \in 0..N
    BY <1>0
  <2>2. acc[i + 1] = LayerStep(acc[i], ks[i]) /\ acc[i] \in Layer
    <3> HIDE DEF acc, N
    <3> QED BY <1>2, <2>1
  <2> HIDE DEF acc, N
  <2> QED
    BY <1>1, <2>1, <2>2, LayerTurn
<1> HIDE DEF T
<1>6. \A i \in 0..N : i \in T
  BY <1>0, <1>4, <1>5, IntervalInduction
<1>7. N \in T
  BY <1>0, <1>6
<1> QED
  BY <1>0, <1>2, <1>7 DEF T, LayerAfter
-----------------------------------------------------------------------------
(***************************************************************************)
(* One scan preserves the invariant.                                       *)
(***************************************************************************)

\* The slots that hold a counted key in their new (state) or old (prev_state)
\* state.
CountedNow(ks) ==
    {j \in Slots : /\ ks[j].p_key # NO_KEY
                   /\ is_hid_key_to_notify_about(config_get_definition(ks[j].p_key))
                   /\ ks[j].state = 1}

CountedBefore(ks) ==
    {j \in Slots : /\ ks[j].p_key # NO_KEY
                   /\ is_hid_key_to_notify_about(config_get_definition(ks[j].p_key))
                   /\ ks[j].prev_state = 1}

\* What the end of the notification loop leaves in one slot.
LEMMA SettledResult ==
    ASSUME NEW ks, NEW down \in SUBSET PhysicalKeys, NEW new \in SUBSET down,
           ScanResult(ks, down, new), NEW j \in Slots, NEW change \in BOOLEAN
    PROVE  LET k == Settled(ks[j], change)
           IN  /\ k \in KeyRecord
               /\ ks[j].p_key # NO_KEY /\ ks[j].state = 1 =>
                     /\ k.p_key = ks[j].p_key /\ k.state = 1 /\ k.prev_state = 1
                     /\ k.hidden = ks[j].hidden
                     /\ k.p_key \in down
               /\ ~(ks[j].p_key # NO_KEY /\ ks[j].state = 1) => k = empty_key_state
<1>0. ks[j] \in KeyRecord /\ empty_key_state \in KeyRecord
  BY DEF ScanResult, KeyRecord, empty_key_state
<1>1. CASE ks[j].p_key # NO_KEY /\ ks[j].state = 1 /\ ks[j].prev_state = 1
  <2>1. ks[j].p_key \in down
    BY <1>1 DEF ScanResult, empty_key_state
  <2>2. Settled(ks[j], change) \in {ks[j], [ks[j] EXCEPT !.prev_state = ks[j].state]}
    BY <1>1 DEF Settled
  <2> QED
    BY <1>0, <1>1, <2>1, <2>2 DEF KeyRecord
<1>2. CASE ks[j].p_key # NO_KEY /\ ks[j].state = 1 /\ ks[j].prev_state = 0
  <2>1. ks[j].p_key \in down
    BY <1>2 DEF ScanResult, empty_key_state
  <2>2. Settled(ks[j], change) = [ks[j] EXCEPT !.prev_state = ks[j].state]
    BY <1>2 DEF Settled, Changed
  <2> QED
    BY <1>0, <1>2, <2>1, <2>2 DEF KeyRecord
<1>3. CASE ks[j].p_key # NO_KEY /\ ks[j].state # 1
  <2>1. ks[j].prev_state = 1 /\ ks[j].state = 0
    BY <1>3 DEF ScanResult, empty_key_state
  <2>2. Settled(ks[j], change) = empty_key_state
    BY <1>3, <2>1 DEF Settled, Changed
  <2> QED
    BY <1>0, <1>3, <2>2
<1>4. CASE ks[j].p_key = NO_KEY
  <2>1. CASE ks[j] = empty_key_state
    BY <1>0, <1>4, <2>1 DEF Settled, Changed
  <2>2. CASE ks[j] # empty_key_state
    <3>1. ks[j].p_key \in new
      BY <1>4, <2>2 DEF ScanResult
    <3>2. NO_KEY \notin PhysicalKeys
      BY SizeAssumption DEF NO_KEY, PhysicalKeys
    <3> QED BY <3>1, <3>2, <1>4
  <2> QED
    BY <2>1, <2>2
<1>5. ks[j].prev_state = 0 \/ ks[j].prev_state = 1
  BY <1>0 DEF KeyRecord
<1> QED
  BY <1>1, <1>2, <1>3, <1>4, <1>5

\* The slots a scan notifies about, in terms of the keys counted before and
\* after it.
LEMMA NotifiedSlots ==
    ASSUME NEW ks \in [Slots -> KeyRecord]
    PROVE  /\ PressedSlots(ks, TRUE) = CountedNow(ks)
           /\ ReleasedSlots(ks, TRUE) = CountedBefore(ks)
           /\ PressedSlots(ks, FALSE) = CountedNow(ks) \ CountedBefore(ks)
           /\ ReleasedSlots(ks, FALSE) = CountedBefore(ks) \ CountedNow(ks)
<1>1. \A j \in Slots : ks[j].state \in 0..1 /\ ks[j].prev_state \in 0..1
  BY DEF KeyRecord
<1>2. PressedSlots(ks, TRUE) = CountedNow(ks)
  BY DEF PressedSlots, CountedNow, Notified, Changed
<1>3. ReleasedSlots(ks, TRUE) = CountedBefore(ks)
  BY DEF ReleasedSlots, CountedBefore, Notified, Changed
<1>4. PressedSlots(ks, FALSE) = CountedNow(ks) \ CountedBefore(ks)
  BY <1>1 DEF PressedSlots, CountedNow, CountedBefore, Notified, Changed
<1>5. ReleasedSlots(ks, FALSE) = CountedBefore(ks) \ CountedNow(ks)
  BY <1>1 DEF ReleasedSlots, CountedNow, CountedBefore, Notified, Changed
<1> QED
  BY <1>2, <1>3, <1>4, <1>5

\* Adding the presses and subtracting the releases keeps the count exact, and
\* the byte never wraps.
LEMMA CountBalance ==
    ASSUME NEW A \in SUBSET Slots, NEW B \in SUBSET Slots
    PROVE  /\ (Cardinality(A) + Cardinality(B) - Cardinality(A)) % 256 = Cardinality(B)
           /\ (Cardinality(A) + Cardinality(B \ A) - Cardinality(A \ B)) % 256
                 = Cardinality(B)
           /\ Cardinality(B) \in 0..255
<1>1. IsFiniteSet(A) /\ IsFiniteSet(B) /\ Cardinality(B) <= KEYSTATE_COUNT
  BY SlotsFinite, FS_Subset
<1>2. /\ Cardinality(A) \in Nat /\ Cardinality(B) \in Nat
      /\ Cardinality(A \cap B) \in Nat
  <2>1. IsFiniteSet(A \cap B)
    BY <1>1, FS_Intersection
  <2> QED BY <1>1, <2>1, FS_CardinalityType
<1>3. Cardinality(A \ B) = Cardinality(A) - Cardinality(A \cap B)
  BY <1>1, FS_Difference
<1>4. Cardinality(B \ A) = Cardinality(B) - Cardinality(A \cap B)
  <2>1. Cardinality(B \ A) = Cardinality(B) - Cardinality(B \cap A)
    BY <1>1, FS_Difference
  <2>2. B \cap A = A \cap B
    OBVIOUS
  <2> QED BY <2>1, <2>2
<1> DEFINE a == Cardinality(A)
           b == Cardinality(B)
           c == Cardinality(A \cap B)
<1>5. a \in Nat /\ b \in Nat /\ c \in Nat /\ b <= 255
  BY <1>1, <1>2, SizeAssumption
<1> HIDE DEF a, b, c
<1>6. a + b - a = b /\ a + (b - c) - (a - c) = b /\ b % 256 = b
  BY <1>5
<1> QED
  BY <1>3, <1>4, <1>5, <1>6 DEF a, b, c

\* Replacing the released codes by the pressed ones keeps the hook's set in
\* step with the counted keys.
LEMMA CodesBalance ==
    ASSUME NEW ks \in [Slots -> KeyRecord], NEW ly \in Layer,
           \A i, j \in Slots :
               ks[i].p_key = ks[j].p_key /\ ks[i].p_key # NO_KEY => i = j,
           NEW A \in SUBSET Slots, NEW B \in SUBSET Slots,
           \A j \in A \cup B : ks[j].p_key # NO_KEY
    PROVE  (CodesOf(ks, A, ly) \ CodesOf(ks, A \ B, ly)) \cup CodesOf(ks, B \ A, ly)
              = CodesOf(ks, B, ly)
<1> DEFINE code(j) == LogicalKey(ly, ks[j].p_key)
<1>1. ASSUME NEW i \in A \cup B, NEW j \in A \cup B, code(i) = code(j) PROVE i = j
  <2>1. ks[i].p_key \in PhysicalKeys /\ ks[j].p_key \in PhysicalKeys
    BY DEF KeyRecord
  <2>2. ks[i].p_key = ks[j].p_key
    BY <1>1, <2>1, LogicalKeyInjective
  <2> QED
    BY <2>2
<1>2. \A S : CodesOf(ks, S, ly) = {code(j) : j \in S}
  BY DEF CodesOf
<1> HIDE DEF code
<1>3. ({code(j) : j \in A} \ {code(j) : j \in A \ B}) \cup {code(j) : j \in B \ A}
         = {code(j) : j \in B}
  BY <1>1
<1> QED
  BY <1>2, <1>3

\* The ring and the debounced set after one scan.
LEMMA DebounceResult ==
    ASSUME TypeOK, NEW matrix \in SUBSET PhysicalKeys
    PROVE  LET rows == [debounce_bitfields EXCEPT ![NextRow] = matrix]
               all  == all_time_active(rows)
               down == (debounced \cup all) \cap any_time_active(rows)
           IN  /\ NextRow \in DebounceRows
               /\ rows \in [DebounceRows -> SUBSET PhysicalKeys]
               /\ down \in SUBSET PhysicalKeys
               /\ all \ debounced \in SUBSET down
<1> DEFINE rows == [debounce_bitfields EXCEPT ![NextRow] = matrix]
<1>1. debounce_len \in Nat /\ debounce_len >= 2 /\ debounce_len <= MAX_DEBOUNCE_LEN
  BY SizeAssumption DEF TypeOK
<1>2. active_debounce_index + 1 \in Nat /\ MAX_DEBOUNCE_LEN \in Nat
  BY SizeAssumption DEF TypeOK, DebounceRows
<1>3. NextRow \in 0..(debounce_len - 1)
  BY <1>1, <1>2 DEF NextRow
<1>4. NextRow \in DebounceRows
  BY <1>1, <1>2, <1>3 DEF DebounceRows
<1>5. rows \in [DebounceRows -> SUBSET PhysicalKeys]
  BY DEF TypeOK
<1>6. any_time_active(rows) \in SUBSET PhysicalKeys
  BY DEF any_time_active
<1>7. all_time_active(rows) \in SUBSET any_time_active(rows)
  <2>1. 0 \in 0..(debounce_len - 1)
    BY <1>1
  <2> HIDE DEF rows
  <2> QED
    BY <2>1 DEF all_time_active, any_time_active
<1> HIDE DEF rows
<1>8. /\ (debounced \cup all_time_active(rows)) \cap any_time_active(rows)
            \in SUBSET PhysicalKeys
      /\ all_time_active(rows) \ debounced
            \in SUBSET ((debounced \cup all_time_active(rows)) \cap any_time_active(rows))
  BY <1>6, <1>7
<1> QED
  BY <1>4, <1>5, <1>8 DEF rows

\* The layer, notification and clean-up part of a scan keeps the invariant.
LEMMA ApplyScanInvariant ==
    ASSUME IInv, logical_to_hid_map' = logical_to_hid_map,
           NEW down \in SUBSET PhysicalKeys, NEW new \in SUBSET down,
           debounced' = down,
           NEW ks, ScanResult(ks, down, new), ApplyScan(ks)
    PROVE  /\ key_states' \in [Slots -> KeyRecord]
           /\ layer' \in Layer
           /\ key_press_count' \in 0..255
           /\ hooked' \in SUBSET LogicalKeys
           /\ SlotsConsistent'
           /\ CountExact'
           /\ HookBalanced'
           /\ LayerJustified'
<1> DEFINE now == LayerAfter(ks, layer)
           change == LayerCode(now) # LayerCode(layer)
           A == CountedBefore(ks)
           B == CountedNow(ks)
<1> USE DEF IInv
<1>1. /\ layer' = now
      /\ key_states' = [j \in Slots |-> Settled(ks[j], change)]
      /\ key_press_count' = CountAfter(ks, change)
      /\ hooked' = (hooked \ CodesOf(ks, ReleasedSlots(ks, change), ReleaseLayer(now, change)))
                     \cup CodesOf(ks, PressedSlots(ks, change), now)
  BY DEF ApplyScan
<1>2. now \in Layer /\ JustifiedAt(ks, KEYSTATE_COUNT, now) /\ layer \in Layer
  BY LayerAfterJustified DEF TypeOK
<1>3. ks \in [Slots -> KeyRecord]
  BY DEF ScanResult
<1>4. \A p : config_get_definition(p)' = config_get_definition(p)
  BY DEF config_get_definition
<1> HIDE DEF now, change
<1>5. ASSUME NEW j \in Slots
      PROVE  /\ key_states'[j] \in KeyRecord
             /\ ks[j].p_key # NO_KEY /\ ks[j].state = 1 =>
                   /\ key_states'[j].p_key = ks[j].p_key
                   /\ key_states'[j].state = 1 /\ key_states'[j].prev_state = 1
                   /\ key_states'[j].p_key \in down
             /\ ~(ks[j].p_key # NO_KEY /\ ks[j].state = 1) =>
                   key_states'[j] = empty_key_state
  <2>1. key_states'[j] = Settled(ks[j], change)
    BY <1>1
  <2>2. change \in BOOLEAN
    BY DEF change
  <2>3. LET k == Settled(ks[j], change)
        IN  /\ k \in KeyRecord
            /\ ks[j].p_key # NO_KEY /\ ks[j].state = 1 =>
                  /\ k.p_key = ks[j].p_key /\ k.state = 1 /\ k.prev_state = 1
                  /\ k.p_key \in down
            /\ ~(ks[j].p_key # NO_KEY /\ ks[j].state = 1) => k = empty_key_state
    BY <2>2, SettledResult
  <2> QED
    BY <2>1, <2>3
<1>6. Occupied' = {j \in Slots : ks[j].p_key # NO_KEY /\ ks[j].state = 1}
  <2>1. \A j \in Slots : key_states'[j].p_key # NO_KEY
                            <=> ks[j].p_key # NO_KEY /\ ks[j].state = 1
    BY <1>5 DEF empty_key_state
  <2> QED BY <2>1 DEF Occupied
<1>7. key_states' \in [Slots -> KeyRecord]
  BY <1>1, <1>5
<1>8. SlotsConsistent'
  <2>1. \A j \in Slots :
          IF j \in Occupied'
          THEN /\ key_states'[j].state = 1 /\ key_states'[j].prev_state = 1
               /\ key_states'[j].p_key \in debounced'
          ELSE key_states'[j] = empty_key_state
    BY <1>5, <1>6
  <2>2. \A i, j \in Occupied' : key_states'[i].p_key = key_states'[j].p_key => i = j
    <3> SUFFICES ASSUME NEW i \in Occupied', NEW j \in Occupied',
                        key_states'[i].p_key = key_states'[j].p_key
                 PROVE  i = j
      OBVIOUS
    <3>1. /\ i \in Slots /\ j \in Slots /\ ks[i].p_key # NO_KEY
          /\ ks[i].p_key = ks[j].p_key
      BY <1>5, <1>6
    <3> QED BY <3>1 DEF ScanResult
  <2> QED
    BY <2>1, <2>2 DEF SlotsConsistent
<1>9. Counted = A /\ \A j \in A : key_states[j].p_key = ks[j].p_key
  <2>1. ASSUME NEW j \in Slots
        PROVE  /\ j \in Occupied <=> ks[j].p_key # NO_KEY /\ ks[j].prev_state = 1
               /\ j \in Occupied => key_states[j].p_key = ks[j].p_key
    BY DEF ScanResult, empty_key_state
  <2>2. Occupied \in SUBSET Slots
    BY DEF Occupied
  <2> QED
    BY <2>1, <2>2 DEF Counted, CountedBefore
<1>10. Counted' = B /\ \A j \in B : key_states'[j].p_key = ks[j].p_key
  BY <1>4, <1>5, <1>6 DEF Counted, CountedNow
<1>11. A \in SUBSET Slots /\ B \in SUBSET Slots
  BY DEF CountedBefore, CountedNow
<1>12. /\ change => PressedSlots(ks, change) = B /\ ReleasedSlots(ks, change) = A
       /\ ~change => PressedSlots(ks, change) = B \ A /\ ReleasedSlots(ks, change) = A \ B
  <2>1. change \in BOOLEAN
    BY DEF change
  <2>2. CASE change
    <3>1. change = TRUE
      BY <2>1, <2>2
    <3> QED BY <3>1, <1>3, NotifiedSlots
  <2>3. CASE ~change
    <3>1. change = FALSE
      BY <2>1, <2>3
    <3> QED BY <3>1, <1>3, NotifiedSlots
  <2> QED BY <2>2, <2>3
<1>13. CountExact' /\ key_press_count' \in 0..255
  <2> HIDE DEF A, B
  <2>1. key_press_count = Cardinality(A)
    BY <1>9 DEF CountExact
  <2>2. key_press_count' = Cardinality(B) /\ Cardinality(B) \in 0..255
    <3>1. key_press_count' = (Cardinality(A) + Cardinality(PressedSlots(ks, change))
                                 - Cardinality(ReleasedSlots(ks, change))) % 256
      BY <1>1, <2>1 DEF CountAfter
    <3>2. \/ key_press_count' = (Cardinality(A) + Cardinality(B) - Cardinality(A)) % 256
          \/ key_press_count' = (Cardinality(A) + Cardinality(B \ A) - Cardinality(A \ B)) % 256
      BY <3>1, <1>12
    <3>3. /\ (Cardinality(A) + Cardinality(B) - Cardinality(A)) % 256 = Cardinality(B)
          /\ (Cardinality(A) + Cardinality(B \ A) - Cardinality(A \ B)) % 256
                = Cardinality(B)
          /\ Cardinality(B) \in 0..255
      BY <1>11, CountBalance, ZenonT(60)
    <3> QED BY <3>2, <3>3
  <2> QED
    BY <2>2, <1>10 DEF CountExact
<1>14. hooked = CodesOf(ks, A, layer)
  BY <1>9 DEF HookBalanced, CodesOf
<1>15. hooked' = CodesOf(ks, B, now)
  <2> HIDE DEF A, B
  <2>1. CASE change
    <3>1. hooked' = (hooked \ CodesOf(ks, A, layer)) \cup CodesOf(ks, B, now)
      BY <1>1, <1>12, <2>1 DEF ReleaseLayer
    <3> QED BY <3>1, <1>14
  <2>2. CASE ~change
    <3>1. CodesOf(ks, A, layer) = CodesOf(ks, A, now)
      <4>1. LayerCode(layer) = LayerCode(now)
        BY <2>2 DEF change
      <4>2. \A p : LogicalKey(layer, p) = LogicalKey(now, p)
        BY <4>1, <1>2, SameLayerCode
      <4> QED BY <4>2 DEF CodesOf
    <3>2. hooked' = (CodesOf(ks, A, now) \ CodesOf(ks, A \ B, now)) \cup CodesOf(ks, B \ A, now)
      BY <1>1, <1>12, <1>14, <2>2, <3>1 DEF ReleaseLayer
    <3>3. \A j \in A \cup B : ks[j].p_key # NO_KEY
      BY DEF A, B, CountedBefore, CountedNow
    <3>4. \A i, j \in Slots : ks[i].p_key = ks[j].p_key /\ ks[i].p_key # NO_KEY => i = j
      BY DEF ScanResult
    <3> QED
      BY <3>2, <3>3, <3>4, <1>2, <1>3, <1>11, CodesBalance
  <2> QED
    BY <2>1, <2>2
<1>16. HookBalanced'
  <2>1. CodesOf(ks, B, now) = {LogicalKey(layer', key_states'[j].p_key) : j \in B}
    BY <1>1, <1>10 DEF CodesOf
  <2> QED
    BY <2>1, <1>10, <1>15 DEF HookBalanced, CodesOf
<1>17. hooked' \in SUBSET LogicalKeys
  <2>1. \A j \in B : ks[j].p_key \in PhysicalKeys
    BY <1>3 DEF CountedNow, KeyRecord
  <2>2. \A j \in B : LogicalKey(now, ks[j].p_key) \in LogicalKeys
    BY <2>1, <1>2, LogicalKeyType
  <2> QED
    BY <2>2, <1>15 DEF CodesOf
<1>18. LayerJustified'
  <2>1. ASSUME NEW codes, \E j \in Slots : DownAt(ks, KEYSTATE_COUNT, j, codes)
        PROVE  HeldAs(codes)'
    <3>1. PICK j \in Slots : DownAt(ks, KEYSTATE_COUNT, j, codes)
      BY <2>1
    <3>2. j < KEYSTATE_COUNT
      BY SizeAssumption DEF Slots
    <3>3. /\ ks[j].p_key # NO_KEY /\ ks[j].state = 1
          /\ config_get_definition(ks[j].p_key) \in codes
      BY <3>1, <3>2 DEF DownAt
    <3>4. j \in Occupied' /\ key_states'[j].p_key = ks[j].p_key
      BY <1>5, <1>6, <3>3
    <3> QED BY <3>3, <3>4 DEF HeldAs, config_get_definition
  <2>2. /\ now.lock = 1 => now.id # 0
        /\ now.id # 0 /\ now.lock = 0 => HeldAs(Shifts)'
        /\ now.base = 1 => HeldAs(Bases)'
    BY <1>2, <2>1 DEF JustifiedAt
  <2> QED
    BY <1>1, <2>2 DEF LayerJustified, Shifts, Bases
<1> QED
  BY <1>1, <1>2, <1>7, <1>8, <1>13, <1>16, <1>17, <1>18

\* A whole scan, keystate_update, keeps the invariant.
LEMMA ScanInvariant ==
    ASSUME IInv, NEW matrix \in SUBSET PhysicalKeys, keystate_update(matrix)
    PROVE  IInv'
<1> DEFINE rows == [debounce_bitfields EXCEPT ![NextRow] = matrix]
           all  == all_time_active(rows)
           down == (debounced \cup all) \cap any_time_active(rows)
           new  == all \ debounced
           ks   == ScannedSlots(down, new)
<1>1. /\ active_debounce_index' = NextRow
      /\ debounce_bitfields' = rows
      /\ debounced' = down
      /\ ApplyScan(ks)
      /\ logical_to_hid_map' = logical_to_hid_map
      /\ debounce_len' = debounce_len
  BY DEF keystate_update, configVars
<1>2. /\ NextRow \in DebounceRows
      /\ rows \in [DebounceRows -> SUBSET PhysicalKeys]
      /\ down \in SUBSET PhysicalKeys
      /\ new \in SUBSET down
  BY DebounceResult DEF IInv
<1>3. new \cap debounced = {}
  OBVIOUS
<1> HIDE DEF rows, all, down, new, ks
<1>4. ScanResult(ks, down, new)
  BY <1>2, <1>3, ScannedSlotsResult DEF IInv, ks
<1>5. /\ key_states' \in [Slots -> KeyRecord]
      /\ layer' \in Layer
      /\ key_press_count' \in 0..255
      /\ hooked' \in SUBSET LogicalKeys
      /\ SlotsConsistent'
      /\ CountExact'
      /\ HookBalanced'
      /\ LayerJustified'
  BY <1>1, <1>2, <1>4, ApplyScanInvariant
<1>6. TypeOK'
  BY <1>1, <1>2, <1>5 DEF IInv, TypeOK
<1>7. SpecialKeysFixed'
  BY <1>1 DEF IInv, SpecialKeysFixed
<1> QED
  BY <1>5, <1>6, <1>7 DEF IInv
-----------------------------------------------------------------------------
(***************************************************************************)
(* The steps between two scans preserve the invariant.                     *)
(***************************************************************************)

\* The codes handed out by keystate_get_keys are those of keys.
LEMMA GetKeysType ==
    ASSUME IInv
    PROVE  keystate_get_keys \in SUBSET LogicalKeys
<1>1. ASSUME NEW j \in GetKeysSlots PROVE LogicalKey(layer, key_states[j].p_key) \in LogicalKeys
  <2>1. j \in Slots /\ key_states[j].state = 1
    BY DEF GetKeysSlots
  <2>2. key_states[j].p_key # NO_KEY
    BY <2>1 DEF IInv, SlotsConsistent, Occupied, empty_key_state
  <2>3. key_states[j].p_key \in PhysicalKeys /\ layer \in Layer
    BY <2>1, <2>2 DEF IInv, TypeOK, KeyRecord
  <2> QED BY <2>3, LogicalKeyType
<1> QED
  BY <1>1 DEF keystate_get_keys, CodesOf

\* The slots may only change in their hidden flags, and a blank one not at all.
LEMMA HideInvariant ==
    ASSUME IInv, HideTrigger
    PROVE  IInv'
<1>1. PICK l_keys \in SUBSET (keystate_get_keys \cup {NO_KEY}) : keystate_hide_key(l_keys)
  <2>1. CASE HideProgramTrigger
    BY <2>1 DEF HideProgramTrigger
  <2>2. CASE \E main \in keystate_get_keys :
                keystate_hide_key({main}) \/ keystate_hide_key({main, NO_KEY})
    <3>1. PICK main \in keystate_get_keys :
              keystate_hide_key({main}) \/ keystate_hide_key({main, NO_KEY})
      BY <2>2
    <3>2. /\ {main} \in SUBSET (keystate_get_keys \cup {NO_KEY})
          /\ {main, NO_KEY} \in SUBSET (keystate_get_keys \cup {NO_KEY})
      OBVIOUS
    <3> QED BY <3>1, <3>2
  <2> QED BY <2>1, <2>2 DEF HideTrigger
<1>2. /\ logical_to_hid_map' = logical_to_hid_map /\ debounce_len' = debounce_len
      /\ active_debounce_index' = active_debounce_index
      /\ debounce_bitfields' = debounce_bitfields /\ debounced' = debounced
      /\ layer' = layer /\ key_press_count' = key_press_count /\ hooked' = hooked
  BY <1>1 DEF keystate_hide_key, configVars, ringVars
<1>3. key_states \in [Slots -> KeyRecord]
  BY DEF IInv, TypeOK
<1>4. \A j \in Slots : key_states'[j] \in {key_states[j], [key_states[j] EXCEPT !.hidden = 1]}
  BY <1>1 DEF keystate_hide_key
<1>5. key_states' = [j \in Slots |-> key_states'[j]]
  BY <1>1 DEF keystate_hide_key
<1>6. ASSUME NEW j \in Slots
      PROVE  /\ key_states'[j] \in KeyRecord
             /\ key_states'[j].p_key = key_states[j].p_key
             /\ key_states'[j].state = key_states[j].state
             /\ key_states'[j].prev_state = key_states[j].prev_state
  BY <1>3, <1>4 DEF KeyRecord
<1>a. ASSUME NEW j \in Slots \ Occupied PROVE key_states'[j] = key_states[j]
  <2>1. ASSUME NEW l_key \in l_keys PROVE l_key % KEYPAD_LAYER_SIZE # NO_KEY
    <3>1. l_key \in Nat
      BY GetKeysType, SizeAssumption DEF LogicalKeys, NO_KEY
    <3> QED BY <3>1, SizeAssumption DEF NO_KEY
  <2>2. key_states[j].p_key = NO_KEY
    BY DEF Occupied
  <2>3. \A l_key \in l_keys : j \notin FirstHolding(l_key)
    BY <2>1, <2>2 DEF FirstHolding
  <2> QED
    BY <1>1, <2>3 DEF keystate_hide_key
<1>7. key_states' \in [Slots -> KeyRecord]
  BY <1>5, <1>6
<1>8. Occupied' = Occupied /\ Occupied \in SUBSET Slots
  BY <1>6 DEF Occupied
<1>9. Counted' = Counted /\ Counted \in SUBSET Slots
  BY <1>2, <1>6, <1>8 DEF Counted, config_get_definition
<1>10. TypeOK'
  BY <1>2, <1>7 DEF IInv, TypeOK
<1>11. SlotsConsistent'
  BY <1>2, <1>6, <1>8, <1>a DEF IInv, SlotsConsistent
<1>12. HookBalanced'
  BY <1>2, <1>6, <1>9 DEF IInv, HookBalanced, CodesOf
<1>13. LayerJustified'
  BY <1>2, <1>6, <1>8 DEF IInv, LayerJustified, HeldAs, config_get_definition
<1>14. SpecialKeysFixed' /\ CountExact'
  BY <1>2, <1>9 DEF IInv, SpecialKeysFixed, CountExact
<1> QED
  BY <1>10, <1>11, <1>12, <1>13, <1>14 DEF IInv

\* The notification and layer loops only tell steering keys from the others,
\* so a mapping that agrees on the steering keys changes nothing for them.
LEMMA MappingInvariant ==
    ASSUME IInv,
           logical_to_hid_map' \in [LogicalKeys -> HidCodes],
           SpecialKeysFixed',
           UNCHANGED <<debounce_len, ringVars, key_states, layer, key_press_count, hooked>>
    PROVE  IInv'
<1>1. /\ debounce_len' = debounce_len
      /\ active_debounce_index' = active_debounce_index
      /\ debounce_bitfields' = debounce_bitfields /\ debounced' = debounced
      /\ key_states' = key_states
      /\ layer' = layer /\ key_press_count' = key_press_count /\ hooked' = hooked
  BY DEF ringVars
<1>2. ASSUME NEW l \in LogicalKeys
      PROVE  /\ is_hid_key_to_notify_about(logical_to_hid_map'[l])
                   <=> is_hid_key_to_notify_about(logical_to_hid_map[l])
             /\ \A h \in Shifts \cup Bases :
                   logical_to_hid_map[l] = h => logical_to_hid_map'[l] = h
  <2>1. /\ logical_to_hid_map[l] \in HidCodes /\ logical_to_hid_map'[l] \in HidCodes
    BY DEF IInv, TypeOK
  <2>2. \/ logical_to_hid_map'[l] = logical_to_hid_map[l]
        \/ /\ ~SPECIAL_HID_KEY_NOREMAP(logical_to_hid_map'[l])
           /\ ~SPECIAL_HID_KEY_NOREMAP(logical_to_hid_map[l])
    BY DEF IInv, SpecialKeysFixed
  <2>3. \A h \in HidCodes : ~SPECIAL_HID_KEY_NOREMAP(h) => is_hid_key_to_notify_about(h)
    BY DEF HidCodes, SPECIAL_HID_KEY_NOREMAP, is_hid_key_to_notify_about, NO_KEY,
           SPECIAL_HID_KEY_LAYER_LOCK, SPECIAL_HID_KEY_MACRO_SHIFT
  <2> QED
    BY <2>1, <2>2, <2>3, SteeringCodes
<1>3. \A j \in Occupied : j \in Slots /\ key_states[j].p_key \in LogicalKeys
  <2> SUFFICES ASSUME NEW j \in Occupied
               PROVE  j \in Slots /\ key_states[j].p_key \in LogicalKeys
    OBVIOUS
  <2>1. j \in Slots /\ key_states[j].p_key \in PhysicalKeys
    BY DEF IInv, TypeOK, Occupied, KeyRecord
  <2> QED BY <2>1, DefinitionType DEF IInv
<1>4. Occupied' = Occupied
  BY <1>1 DEF Occupied
<1>5. Counted' = Counted
  BY <1>1, <1>2, <1>3, <1>4 DEF Counted, config_get_definition
<1>6. TypeOK'
  BY <1>1 DEF IInv, TypeOK
<1>7. SlotsConsistent'
  BY <1>1, <1>4 DEF IInv, SlotsConsistent
<1>8. CountExact' /\ HookBalanced'
  BY <1>1, <1>5 DEF IInv, CountExact, HookBalanced, CodesOf
<1>9. LayerJustified'
  <2>1. ASSUME NEW codes \in SUBSET (Shifts \cup Bases), HeldAs(codes)
        PROVE  HeldAs(codes)'
    BY <1>1, <1>2, <1>3, <1>4, <2>1 DEF HeldAs, config_get_definition
  <2>2. Shifts \in SUBSET (Shifts \cup Bases) /\ Bases \in SUBSET (Shifts \cup Bases)
    OBVIOUS
  <2>3. (HeldAs(Shifts) => HeldAs(Shifts)') /\ (HeldAs(Bases) => HeldAs(Bases)')
    BY <2>1, <2>2
  <2> QED
    BY <1>1, <2>3 DEF IInv, LayerJustified, Shifts, Bases
<1> QED
  BY <1>6, <1>7, <1>8, <1>9 DEF IInv

\* Remapping the held key (handle_state_programming) keeps the invariant.
LEMMA RemapInvariant ==
    ASSUME IInv, RemapHeldKey
    PROVE  IInv'
<1>1. PICK dst \in RemapTargets, src \in RemapTargets :
          /\ ~SPECIAL_HID_KEY_NOREMAP(config_get_definition(dst))
          /\ ~SPECIAL_HID_KEY_NOREMAP(config_get_definition(src))
          /\ config_save_definition(dst, logical_to_hid_map_default[src])
  BY DEF RemapHeldKey
<1>2. dst \in LogicalKeys /\ src \in LogicalKeys
  BY BoundAssumption
<1>3. logical_to_hid_map' = [logical_to_hid_map EXCEPT ![dst] = logical_to_hid_map_default[src]]
  BY <1>1 DEF config_save_definition
<1>4. logical_to_hid_map' \in [LogicalKeys -> HidCodes]
  BY <1>2, <1>3, DefaultMapAssumption DEF IInv, TypeOK
<1>5. ~SPECIAL_HID_KEY_NOREMAP(logical_to_hid_map_default[dst])
  BY <1>1, <1>2 DEF IInv, SpecialKeysFixed, config_get_definition
<1>6. ~SPECIAL_HID_KEY_NOREMAP(logical_to_hid_map_default[src])
  BY <1>1, <1>2 DEF IInv, SpecialKeysFixed, config_get_definition
<1>7. SpecialKeysFixed'
  BY <1>2, <1>3, <1>5, <1>6 DEF IInv, TypeOK, SpecialKeysFixed
<1> QED
  BY <1>1, <1>4, <1>7, MappingInvariant DEF config_save_definition

\* Restoring the factory mapping keeps the invariant.
LEMMA ResetInvariant ==
    ASSUME IInv, config_reset_defaults
    PROVE  IInv'
<1>1. SpecialKeysFixed' /\ logical_to_hid_map' \in [LogicalKeys -> HidCodes]
  BY DefaultMapAssumption DEF config_reset_defaults, SpecialKeysFixed
<1> QED
  BY <1>1, MappingInvariant DEF config_reset_defaults

\* Loading a backup keeps the invariant: no backup moves a steering key.
LEMMA LoadInvariant ==
    ASSUME IInv, config_load_layout
    PROVE  IInv'
<1> DEFINE own == {l \in RemapTargets : ~SPECIAL_HID_KEY_NOREMAP(logical_to_hid_map_default[l])}
<1>1. PICK code \in [own -> own] :
          logical_to_hid_map' = [l \in LogicalKeys |-> logical_to_hid_map_default[IF l \in own THEN code[l] ELSE l]]
  BY DEF config_load_layout, BackedUp
<1>2. own \subseteq LogicalKeys
  BY BoundAssumption
<1>3. \A l \in own : code[l] \in own /\ ~SPECIAL_HID_KEY_NOREMAP(logical_to_hid_map_default[code[l]])
  OBVIOUS
<1>4. SpecialKeysFixed' /\ logical_to_hid_map' \in [LogicalKeys -> HidCodes]
  BY <1>1, <1>2, <1>3, DefaultMapAssumption DEF SpecialKeysFixed
<1> QED
  BY <1>4, MappingInvariant DEF config_load_layout

\* Only the length changes, and it stays a length the ring has rows for.
LEMMA DebounceLenInvariant ==
    ASSUME IInv, config_save_debounce_len
    PROVE  IInv'
<1>1. /\ UNCHANGED <<logical_to_hid_map, active_debounce_index, debounce_bitfields,
                      debounced, key_states, layer, key_press_count, hooked>>
      /\ debounce_len' \in 2..MAX_DEBOUNCE_LEN
  BY BoundAssumption DEF config_save_debounce_len, ringVars
<1>2. Occupied' = Occupied /\ Counted' = Counted
  BY <1>1 DEF Occupied, Counted, config_get_definition
<1>3. TypeOK' /\ SlotsConsistent' /\ SpecialKeysFixed'
  BY <1>1, <1>2 DEF IInv, TypeOK, SlotsConsistent, SpecialKeysFixed
<1>4. CountExact' /\ HookBalanced' /\ LayerJustified'
  BY <1>1, <1>2 DEF IInv, CountExact, HookBalanced, LayerJustified, HeldAs, CodesOf,
                    config_get_definition
<1> QED
  BY <1>3, <1>4 DEF IInv

\* A stuttering step keeps the invariant.
LEMMA StutterInvariant ==
    ASSUME IInv, UNCHANGED vars
    PROVE  IInv'
<1>1. UNCHANGED <<logical_to_hid_map, debounce_len, active_debounce_index,
                  debounce_bitfields, debounced, key_states, layer, key_press_count, hooked>>
  BY DEF vars
<1>2. Occupied' = Occupied /\ Counted' = Counted
  BY <1>1 DEF Occupied, Counted, config_get_definition
<1>3. TypeOK' /\ SlotsConsistent' /\ SpecialKeysFixed'
  BY <1>1, <1>2 DEF IInv, TypeOK, SlotsConsistent, SpecialKeysFixed
<1>4. CountExact' /\ HookBalanced' /\ LayerJustified'
  BY <1>1, <1>2 DEF IInv, CountExact, HookBalanced, LayerJustified, HeldAs, CodesOf,
                    config_get_definition
<1> QED
  BY <1>3, <1>4 DEF IInv

\* keystate_init establishes the invariant.
LEMMA InitInvariant ==
    ASSUME Init
    PROVE  IInv
<1>1. \A j \in Slots : key_states[j] = empty_key_state
  BY DEF Init
<1>2. Occupied = {}
  BY <1>1 DEF Occupied, empty_key_state
<1>3. Counted = {}
  BY <1>2 DEF Counted
<1>4. TypeOK
  <2>1. empty_key_state \in KeyRecord
    BY DEF empty_key_state, KeyRecord
  <2>2. key_states \in [Slots -> KeyRecord]
    BY <2>1 DEF Init
  <2>3. layer \in Layer
    BY DEF Init, Layer, LayerIds
  <2>4. 0 \in DebounceRows
    BY SizeAssumption DEF DebounceRows
  <2> QED
    BY <2>2, <2>3, <2>4, BoundAssumption, DefaultMapAssumption DEF Init, TypeOK
<1>5. SlotsConsistent
  BY <1>1, <1>2 DEF SlotsConsistent
<1>6. SpecialKeysFixed
  BY DEF Init, SpecialKeysFixed
<1>7. CountExact
  BY <1>3, FS_EmptySet DEF Init, CountExact
<1>8. HookBalanced
  BY <1>3 DEF Init, HookBalanced, CodesOf
<1>9. LayerJustified
  BY DEF Init, LayerJustified
<1> QED
  BY <1>4, <1>5, <1>6, <1>7, <1>8, <1>9 DEF IInv

\* Every step keeps the invariant.
LEMMA StepInvariant ==
    ASSUME IInv, [Next]_vars
    PROVE  IInv'
<1>1. CASE Scan
  BY <1>1, ScanInvariant DEF Scan
<1>2. CASE HideTrigger
  BY <1>2, HideInvariant
<1>3. CASE RemapHeldKey
  BY <1>3, RemapInvariant
<1>4. CASE config_reset_defaults
  BY <1>4, ResetInvariant
<1>5. CASE config_save_debounce_len
  BY <1>5, DebounceLenInvariant
<1>6. CASE UNCHANGED vars
  BY <1>6, StutterInvariant
<1>7. CASE config_load_layout
  BY <1>7, LoadInvariant
<1> QED
  BY <1>1, <1>2, <1>3, <1>4, <1>5, <1>6, <1>7 DEF Next

\* keystate_get_keys filters by the meaning on the active layer, the count by
\* the meaning on the base layer: with fixed steering keys these agree.
LEMMA GetKeysAgrees ==
    ASSUME IInv
    PROVE  GetKeysFillsCount
<1>1. ASSUME NEW p \in PhysicalKeys
      PROVE  is_hid_key_to_notify_about(config_get_definition(LogicalKey(layer, p)))
                <=> is_hid_key_to_notify_about(config_get_definition(p))
  <2>1. PICK id \in LayerIds : LogicalKey(layer, p) = p + id * KEYPAD_LAYER_SIZE
    <3>1. layer.id \in LayerIds /\ 0 \in LayerIds
      BY DEF IInv, TypeOK, Layer, LayerIds
    <3> QED BY <3>1 DEF LogicalKey
  <2>2. /\ p \in LogicalKeys /\ LogicalKey(layer, p) \in LogicalKeys
    BY DefinitionType, LogicalKeyType DEF IInv, TypeOK
  <2> DEFINE l == LogicalKey(layer, p)
             a == logical_to_hid_map[p]
             b == logical_to_hid_map[l]
  <2>3. a \in HidCodes /\ b \in HidCodes
    BY <2>2 DEF IInv, TypeOK
  <2>4. SPECIAL_HID_KEY_NOREMAP(a) \/ SPECIAL_HID_KEY_NOREMAP(b) => a = b
    <3>1. \/ SPECIAL_HID_KEY_NOREMAP(logical_to_hid_map_default[p])
          \/ SPECIAL_HID_KEY_NOREMAP(logical_to_hid_map_default[l])
          => logical_to_hid_map_default[p] = logical_to_hid_map_default[l]
      BY <2>1, DefaultMapAssumption
    <3>2. SPECIAL_HID_KEY_NOREMAP(a) \/ SPECIAL_HID_KEY_NOREMAP(logical_to_hid_map_default[p])
          => a = logical_to_hid_map_default[p]
      BY <2>2 DEF IInv, SpecialKeysFixed
    <3>3. SPECIAL_HID_KEY_NOREMAP(b) \/ SPECIAL_HID_KEY_NOREMAP(logical_to_hid_map_default[l])
          => b = logical_to_hid_map_default[l]
      BY <2>2 DEF IInv, SpecialKeysFixed
    <3> HIDE DEF a, b, l
    <3> QED BY <3>1, <3>2, <3>3
  <2>5. \A h \in HidCodes : ~SPECIAL_HID_KEY_NOREMAP(h) => is_hid_key_to_notify_about(h)
    BY DEF HidCodes, SPECIAL_HID_KEY_NOREMAP, is_hid_key_to_notify_about, NO_KEY,
           SPECIAL_HID_KEY_LAYER_LOCK, SPECIAL_HID_KEY_MACRO_SHIFT
  <2>6. is_hid_key_to_notify_about(a) <=> is_hid_key_to_notify_about(b)
    <3> HIDE DEF a, b, l
    <3> QED BY <2>3, <2>4, <2>5
  <2> QED
    BY <2>6 DEF config_get_definition
<1>2. ASSUME NEW j \in Slots
      PROVE  /\ j \in Occupied <=> key_states[j].state = 1
             /\ j \in Occupied => key_states[j].p_key \in PhysicalKeys
  <2>1. key_states[j] \in KeyRecord
    BY DEF IInv, TypeOK
  <2> QED
    BY <2>1 DEF IInv, KeyRecord, SlotsConsistent, Occupied, empty_key_state
<1>3. GetKeysSlots = Counted
  <2>1. Occupied \in SUBSET Slots
    BY DEF Occupied
  <2> QED BY <1>1, <1>2, <2>1 DEF GetKeysSlots, Counted
<1> QED
  BY <1>3 DEF IInv, CountExact, GetKeysFillsCount
-----------------------------------------------------------------------------
(***************************************************************************)
(* The theorems.                                                           *)
(***************************************************************************)

\* The inductive invariant holds in every reachable state of the key state.
THEOREM Invariance == Spec => []IInv
<1>1. Init => IInv
  BY InitInvariant
<1>2. IInv /\ [Next]_vars => IInv'
  BY StepInvariant
<1> QED
  BY <1>1, <1>2, PTL DEF Spec

\* Every variable of keystate.c keeps its type: in particular the ring index
\* stays inside the ring and key_press_count inside a byte.
THEOREM TypeCorrect == Spec => []TypeOK
<1>1. IInv => TypeOK
  BY DEF IInv
<1> QED
  BY <1>1, Invariance, PTL

\* Between two scans no slot of key_states is half way.
THEOREM SlotsAlwaysConsistent == Spec => []SlotsConsistent
<1>1. IInv => SlotsConsistent
  BY DEF IInv
<1> QED
  BY <1>1, Invariance, PTL

\* The on-board remapping never moves a steering key.
THEOREM SteeringKeysStay == Spec => []SpecialKeysFixed
<1>1. IInv => SpecialKeysFixed
  BY DEF IInv
<1> QED
  BY <1>1, Invariance, PTL

\* key_press_count, a byte updated by increments and decrements across layer
\* changes and remappings, never drifts from the keys that are down.
THEOREM CountNeverDrifts == Spec => []CountExact
<1>1. IInv => CountExact
  BY DEF IInv
<1> QED
  BY <1>1, Invariance, PTL

\* The change hook hears exactly one release, under the same logical code, for
\* every press it heard.
THEOREM HookAlwaysBalanced == Spec => []HookBalanced
<1>1. IInv => HookBalanced
  BY DEF IInv
<1> QED
  BY <1>1, Invariance, PTL

\* The keyboard is never stuck on a layer: a layer other than 0 is locked or
\* has its key held.
THEOREM LayerAlwaysJustified == Spec => []LayerJustified
<1>1. IInv => LayerJustified
  BY DEF IInv
<1> QED
  BY <1>1, Invariance, PTL

\* keystate_get_keys fills exactly the entries its callers read.
THEOREM GetKeysAlwaysFillsCount == Spec => []GetKeysFillsCount
<1>1. IInv => GetKeysFillsCount
  BY GetKeysAgrees
<1> QED
  BY <1>1, Invariance, PTL
-----------------------------------------------------------------------------
(***************************************************************************)
(* What a step does to the keys in the slots.                              *)
(***************************************************************************)

\* The scan's debounced keys, new keys and slots, with what is known of them.
LEMMA ScanFacts ==
    ASSUME IInv, NEW matrix \in SUBSET PhysicalKeys, keystate_update(matrix)
    PROVE  \E down \in SUBSET PhysicalKeys : \E new \in SUBSET down :
              /\ new \cap debounced = {} /\ down \ debounced = new
              /\ debounced' = down
              /\ ScanResult(ScannedSlots(down, new), down, new)
              /\ \E change \in BOOLEAN :
                    key_states' = [j \in Slots |-> Settled(ScannedSlots(down, new)[j], change)]
<1> DEFINE rows == [debounce_bitfields EXCEPT ![NextRow] = matrix]
           all  == all_time_active(rows)
           down == (debounced \cup all) \cap any_time_active(rows)
           new  == all \ debounced
           ks   == ScannedSlots(down, new)
<1>1. debounced' = down /\ ApplyScan(ks)
  BY DEF keystate_update
<1>2. down \in SUBSET PhysicalKeys /\ new \in SUBSET down
  BY DebounceResult DEF IInv
<1>3. new \cap debounced = {} /\ down \ debounced = new
  BY <1>2
<1>4. \E change \in BOOLEAN : key_states' = [j \in Slots |-> Settled(ks[j], change)]
  BY <1>1 DEF ApplyScan
<1> HIDE DEF rows, all, down, new, ks
<1>5. ScanResult(ks, down, new)
  BY <1>2, <1>3, ScannedSlotsResult DEF IInv, ks
<1> QED
  BY <1>1, <1>2, <1>3, <1>4, <1>5 DEF ks

\* Between two scans a step changes no key, and never takes a hidden flag away.
LEMMA StepBetweenScans ==
    ASSUME IInv, [Next]_vars, ~Scan
    PROVE  /\ debounced' = debounced
           /\ \A j \in Slots : /\ key_states'[j].p_key = key_states[j].p_key
                               /\ key_states[j].hidden = 1 => key_states'[j].hidden = 1
<1>1. CASE HideTrigger
  <2>1. PICK l_keys : keystate_hide_key(l_keys)
    BY <1>1 DEF HideTrigger, HideProgramTrigger
  <2>2. debounced' = debounced
    BY <2>1 DEF keystate_hide_key, ringVars
  <2>3. \A j \in Slots : key_states'[j] \in {key_states[j], [key_states[j] EXCEPT !.hidden = 1]}
    BY <2>1 DEF keystate_hide_key
  <2>4. \A j \in Slots : key_states[j] \in KeyRecord
    BY DEF IInv, TypeOK
  <2> QED
    BY <2>2, <2>3, <2>4 DEF KeyRecord
<1>2. CASE UNCHANGED <<debounced, key_states>>
  BY <1>2
<1> QED
  BY <1>1, <1>2 DEF Next, vars, RemapHeldKey, config_save_definition, config_reset_defaults,
     config_load_layout, config_save_debounce_len, ringVars

\* The slot of a hidden key keeps key and flag, or the key is no longer down.
LEMMA HiddenStep ==
    ASSUME IInv, [Next]_vars, NEW j \in Slots, key_states[j].hidden = 1
    PROVE  \/ key_states'[j].hidden = 1 /\ key_states'[j].p_key = key_states[j].p_key
           \/ key_states[j].p_key \notin debounced'
<1>1. CASE Scan
  <2>1. PICK matrix \in SUBSET PhysicalKeys : keystate_update(matrix)
    BY <1>1 DEF Scan
  <2>2. PICK down \in SUBSET PhysicalKeys : \E new \in SUBSET down :
              /\ debounced' = down
              /\ ScanResult(ScannedSlots(down, new), down, new)
              /\ \E change \in BOOLEAN :
                    key_states' = [i \in Slots |-> Settled(ScannedSlots(down, new)[i], change)]
    BY <2>1, ScanFacts
  <2>3. PICK new \in SUBSET down :
              /\ debounced' = down
              /\ ScanResult(ScannedSlots(down, new), down, new)
              /\ \E change \in BOOLEAN :
                    key_states' = [i \in Slots |-> Settled(ScannedSlots(down, new)[i], change)]
    BY <2>2
  <2> DEFINE ks == ScannedSlots(down, new)
  <2>4. PICK change \in BOOLEAN : key_states' = [i \in Slots |-> Settled(ks[i], change)]
    BY <2>3
  <2>5. ScanResult(ks, down, new)
    BY <2>3
  <2> HIDE DEF ks
  <2>6. j \in Occupied
    BY DEF IInv, SlotsConsistent, empty_key_state
  <2>7. /\ ks[j].p_key = key_states[j].p_key /\ ks[j].p_key # NO_KEY
        /\ ks[j].state = IF ks[j].p_key \in down THEN 1 ELSE 0
        /\ ks[j].hidden = key_states[j].hidden
    BY <2>5, <2>6 DEF ScanResult
  <2>8. key_states[j].p_key \in down =>
           /\ Settled(ks[j], change).p_key = ks[j].p_key
           /\ Settled(ks[j], change).hidden = ks[j].hidden
    BY <2>5, <2>7, SettledResult
  <2> QED
    BY <2>3, <2>4, <2>7, <2>8
<1>2. CASE ~Scan
  <2>1. \A i \in Slots : /\ key_states'[i].p_key = key_states[i].p_key
                         /\ key_states[i].hidden = 1 => key_states'[i].hidden = 1
    BY <1>2, StepBetweenScans
  <2> QED
    BY <2>1
<1> QED
  BY <1>1, <1>2

\* A key hidden from the reports stays hidden until it is released
\* (keystate.c), whatever scans, layer changes and remappings come between.
THEOREM HiddenStaysHidden == Spec => HiddenUntilReleased
<1>1. IInv /\ [Next]_vars =>
         [\A j \in Slots :
             key_states[j].hidden = 1 =>
                \/ key_states'[j].hidden = 1 /\ key_states'[j].p_key = key_states[j].p_key
                \/ key_states[j].p_key \notin debounced']_vars
  BY HiddenStep
<1> QED
  BY <1>1, Invariance, PTL DEF Spec, HiddenUntilReleased

\* When every debounced key has a slot, the free slots are as many as the keys
\* that may still come.
LEMMA FreeSlotsEnough ==
    ASSUME IInv, SlotKeys = debounced, NEW new \in SUBSET PhysicalKeys,
           new \cap debounced = {}, Cardinality(debounced \cup new) <= KEYSTATE_COUNT
    PROVE  /\ IsFiniteSet(Slots \ Occupied) /\ IsFiniteSet(new)
           /\ Cardinality(new) <= Cardinality(Slots \ Occupied)
<1>1. IsFiniteSet(PhysicalKeys)
  BY FS_Interval, SizeAssumption DEF PhysicalKeys
<1>2. IsFiniteSet(debounced) /\ IsFiniteSet(new)
  BY <1>1, FS_Subset DEF IInv, TypeOK
<1>3. Occupied \in SUBSET Slots /\ IsFiniteSet(Occupied) /\ IsFiniteSet(Slots \ Occupied)
  BY SlotsFinite, FS_Subset DEF Occupied
<1>4. Cardinality(Occupied) = Cardinality(debounced)
  <2> DEFINE f == [j \in Occupied |-> key_states[j].p_key]
  <2>1. /\ f \in [Occupied -> debounced]
        /\ \A k \in debounced : \E j \in Occupied : f[j] = k
    BY DEF SlotKeys
  <2>2. \A i, j \in Occupied : f[i] = f[j] => i = j
    BY DEF IInv, SlotsConsistent
  <2> HIDE DEF f
  <2>3. f \in Bijection(Occupied, debounced)
    BY <2>1, <2>2 DEF Bijection, Injection, Surjection, IsInjective
  <2> QED
    BY <1>3, <2>3, FS_Bijection DEF ExistsBijection
<1>5. Cardinality(Slots \ Occupied) = KEYSTATE_COUNT - Cardinality(Occupied)
  <2>1. Cardinality(Slots \ Occupied) = Cardinality(Slots) - Cardinality(Slots \cap Occupied)
    BY SlotsFinite, <1>3, FS_Difference
  <2>2. Slots \cap Occupied = Occupied
    BY <1>3
  <2> QED
    BY <2>1, <2>2, SlotsFinite
<1>6. Cardinality(debounced \cup new) = Cardinality(debounced) + Cardinality(new)
  <2>1. debounced \cap new = {}
    OBVIOUS
  <2>2. Cardinality(debounced \cup new)
           = Cardinality(debounced) + Cardinality(new) - Cardinality(debounced \cap new)
    BY <1>2, FS_Union
  <2>3. Cardinality(debounced \cap new) = 0
    BY <2>1, FS_EmptySet
  <2>4. Cardinality(debounced) \in Nat /\ Cardinality(new) \in Nat
    BY <1>2, FS_CardinalityType
  <2> QED
    BY <2>2, <2>3, <2>4
<1>7. /\ Cardinality(debounced) \in Nat /\ Cardinality(new) \in Nat /\ KEYSTATE_COUNT \in Nat
  BY <1>2, FS_CardinalityType, SizeAssumption
<1> QED
  BY <1>2, <1>3, <1>4, <1>5, <1>6, <1>7

\* With enough free slots the scan finds a slot for every new key.
LEMMA NewKeysRecorded ==
    ASSUME IInv, NEW down \in SUBSET PhysicalKeys, NEW new \in SUBSET down,
           IsFiniteSet(Slots \ Occupied), IsFiniteSet(new),
           Cardinality(new) <= Cardinality(Slots \ Occupied),
           NEW k \in new
    PROVE  \E j \in Slots : /\ ScannedSlots(down, new)[j].p_key = k
                            /\ ScannedSlots(down, new)[j].state = 1
<1> DEFINE marked == MarkReleased(key_states, down)
           free == Slots \ Occupied
<1>1. \A j \in Slots : marked[j].p_key = key_states[j].p_key
  <2>1. \A j \in Slots : key_states[j] \in KeyRecord
    BY DEF IInv, TypeOK
  <2> QED
    BY <2>1 DEF MarkReleased, KeyRecord
<1> HIDE DEF marked
<1>2. FreeSlots(marked) = free
  BY <1>1 DEF FreeSlots, Occupied
<1>3. new \in SUBSET Int /\ free \in SUBSET Int
  BY SizeAssumption DEF PhysicalKeys, Slots
<1>4. RankIn(new, k) \in 0..(Cardinality(free) - 1)
  <2>1. RankIn(new, k) \in 0..(Cardinality(new) - 1)
    BY <1>3, RankRange
  <2>2. Cardinality(new) \in Nat /\ Cardinality(free) \in Nat
    BY FS_CardinalityType
  <2> QED
    BY <2>1, <2>2
<1>5. PICK j \in free : RankIn(free, j) = RankIn(new, k)
  BY <1>3, <1>4, RankSurjective
<1>6. TakenBy(marked, new, j) = {k}
  <2>1. \A x \in new : RankIn(new, x) = RankIn(new, k) => x = k
    BY <1>3, RankInjective
  <2> QED
    BY <1>2, <1>5, <2>1 DEF TakenBy
<1>7. marked[j].p_key = NO_KEY
  BY <1>1, <1>5 DEF Occupied
<1>8. ScannedSlots(down, new)[j] = WithKey(marked[j], CHOOSE x \in {k} : TRUE)
  BY <1>5, <1>6, <1>7 DEF ScannedSlots, RecordPressed, marked
<1>9. (CHOOSE x \in {k} : TRUE) = k
  OBVIOUS
<1> QED
  BY <1>5, <1>8, <1>9 DEF WithKey

\* Within the capacity a step loses no key.
LEMMA CapacityStep ==
    ASSUME IInv, [Next]_vars, SlotKeys = debounced,
           Cardinality(debounced \cup debounced') <= KEYSTATE_COUNT
    PROVE  SlotKeys' = debounced'
<1>1. CASE ~Scan
  <2>1. /\ debounced' = debounced
        /\ \A j \in Slots : key_states'[j].p_key = key_states[j].p_key
    BY <1>1, StepBetweenScans
  <2> QED
    BY <2>1 DEF SlotKeys, Occupied
<1>2. CASE Scan
  <2>1. PICK matrix \in SUBSET PhysicalKeys : keystate_update(matrix)
    BY <1>2 DEF Scan
  <2> DEFINE Found(down, new) ==
                /\ new \cap debounced = {} /\ down \ debounced = new
                /\ debounced' = down
                /\ ScanResult(ScannedSlots(down, new), down, new)
                /\ \E change \in BOOLEAN :
                      key_states' = [j \in Slots |-> Settled(ScannedSlots(down, new)[j], change)]
  <2>2. \E down \in SUBSET PhysicalKeys : \E new \in SUBSET down : Found(down, new)
    BY <2>1, ScanFacts
  <2>a. PICK down \in SUBSET PhysicalKeys : \E new \in SUBSET down : Found(down, new)
    BY <2>2
  <2>3. PICK new \in SUBSET down : Found(down, new)
    BY <2>a
  <2> DEFINE ks == ScannedSlots(down, new)
  <2>4. PICK change \in BOOLEAN : key_states' = [j \in Slots |-> Settled(ks[j], change)]
    BY <2>3
  <2>5. /\ debounced' = down /\ new \cap debounced = {} /\ down \ debounced = new
        /\ ScanResult(ks, down, new)
    BY <2>3
  <2> HIDE DEF Found, ks
  <2>6. debounced \cup down = debounced \cup new /\ new \in SUBSET PhysicalKeys
    BY <2>5
  <2>7. /\ IsFiniteSet(Slots \ Occupied) /\ IsFiniteSet(new)
        /\ Cardinality(new) <= Cardinality(Slots \ Occupied)
    BY <2>5, <2>6, FreeSlotsEnough
  <2>8. ASSUME NEW k \in down
        PROVE  \E j \in Slots : ks[j].p_key = k /\ ks[j].state = 1
    <3>1. CASE k \in new
      BY <2>7, <3>1, NewKeysRecorded DEF ks
    <3>2. CASE k \notin new
      <4>1. k \in SlotKeys
        BY <2>5, <3>2
      <4>2. PICK j \in Occupied : key_states[j].p_key = k
        BY <4>1 DEF SlotKeys
      <4>3. j \in Slots /\ ks[j].p_key = k /\ ks[j].state = 1
        BY <2>5, <4>2 DEF ScanResult, Occupied
      <4> QED
        BY <4>3
    <3> QED
      BY <3>1, <3>2
  <2>9. ASSUME NEW k \in down PROVE k \in SlotKeys'
    <3>1. PICK j \in Slots : ks[j].p_key = k /\ ks[j].state = 1
      BY <2>8
    <3>2. k # NO_KEY
      BY SizeAssumption DEF NO_KEY, PhysicalKeys
    <3>3. Settled(ks[j], change).p_key = k
      <4>1. ks[j].p_key # NO_KEY /\ ks[j].state = 1
        BY <3>1, <3>2
      <4>2. Settled(ks[j], change).p_key = ks[j].p_key
        BY <2>5, <4>1, SettledResult
      <4> QED
        BY <3>1, <4>2
    <3>4. key_states'[j].p_key = k
      BY <2>4, <3>3
    <3> QED
      BY <3>2, <3>4 DEF SlotKeys, Occupied
  <2>10. SlotsConsistent'
    BY StepInvariant DEF IInv
  <2>11. SlotKeys' \subseteq debounced'
    BY <2>10 DEF SlotsConsistent, SlotKeys, Occupied
  <2> QED
    BY <2>5, <2>9, <2>11
<1> QED
  BY <1>1, <1>2

\* As long as the keys of two scans fit the slots together (keystate.c), no key
\* that is debounced as down goes without a slot: for any number of slots.
THEOREM NoKeyLost == Spec => NoKeyLostWithinCapacity
<1>1. IInv /\ [Next]_vars =>
         [/\ SlotKeys = debounced
          /\ Cardinality(debounced \cup debounced') <= KEYSTATE_COUNT
          => SlotKeys' = debounced']_vars
  BY CapacityStep
<1> QED
  BY <1>1, Invariance, PTL DEF Spec, NoKeyLostWithinCapacity
=============================================================================
