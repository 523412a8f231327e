------------------------------ MODULE KeyState ------------------------------
(***************************************************************************)
(* The key state of the firmware (keystate.c): one call of keystate_update *)
(* reads the whole matrix, debounces it, keeps the pressed keys in a fixed *)
(* array of slots, works out the active layer and notifies the change hook *)
(* of every logical key that went down or up.  The main loop makes the     *)
(* call every 2 ms and, between two calls, may hide a key, remap one,      *)
(* restore the default mapping or change the debounce length.              *)
(***************************************************************************)
EXTENDS Integers, FiniteSets, KeyCodes, Ranks

CONSTANTS
    KEYSTATE_COUNT,             \* slots: keys tracked at once (14)
    MAX_DEBOUNCE_LEN,           \* rows of the debounce ring (8)
    KEYPAD_LAYER_SIZE,          \* physical keys, hence keys per layer (84)
    logical_to_hid_map_default, \* the factory mapping
    RemapTargets,               \* bound: logical keys the user remaps
    DebounceLens                \* bound: debounce lengths the user chooses

Slots == 0..(KEYSTATE_COUNT - 1)
PhysicalKeys == 0..(KEYPAD_LAYER_SIZE - 1)
LayerIds == 0..2
LogicalKeys == 0..(3 * KEYPAD_LAYER_SIZE - 1)
DebounceRows == 0..(MAX_DEBOUNCE_LEN - 1)

\* Keys of a macro trigger.
MACRO_MAX_KEYS == 4

ASSUME SizeAssumption ==
    /\ KEYSTATE_COUNT \in 1..255
    /\ MAX_DEBOUNCE_LEN \in Nat \ {0, 1}
    /\ KEYPAD_LAYER_SIZE \in 1..84

ASSUME BoundAssumption ==
    /\ RemapTargets \subseteq LogicalKeys
    /\ DebounceLens \subseteq 2..MAX_DEBOUNCE_LEN

\* The mapping tables of hardware/*.c give a layer or program key the same
\* meaning on every layer.
ASSUME DefaultMapAssumption ==
    /\ logical_to_hid_map_default \in [LogicalKeys -> HidCodes]
    /\ \A p \in PhysicalKeys, id \in LayerIds :
          LET base == logical_to_hid_map_default[p]
              here == logical_to_hid_map_default[p + id * KEYPAD_LAYER_SIZE]
          IN  \/ SPECIAL_HID_KEY_NOREMAP(base)
              \/ SPECIAL_HID_KEY_NOREMAP(here)
              => base = here

VARIABLES
    logical_to_hid_map,    \* the mapping in force (config.c, in EEPROM)
    debounce_len,          \* the configured debounce length (config.c)
    active_debounce_index, \* the ring row written last
    debounce_bitfields,    \* the ring: each row a set of physical keys
    debounced,             \* debounced_bitfield: keys debounced as down
    key_states,            \* the slots
    layer,                 \* base, lock and id of the active layer
    key_press_count,       \* keys down that the main loop is told of
    hooked                 \* history: logical keys the change hook was told
                           \* are down and not yet told are up

vars == <<logical_to_hid_map, debounce_len, active_debounce_index,
          debounce_bitfields, debounced, key_states, layer,
          key_press_count, hooked>>

ringVars == <<active_debounce_index, debounce_bitfields, debounced>>
configVars == <<logical_to_hid_map, debounce_len>>
-----------------------------------------------------------------------------
Layer == [base : 0..1, lock : 0..1, id : LayerIds]

KeyRecord ==
    [p_key : PhysicalKeys \cup {NO_KEY}, prev_state : 0..1, state : 0..1,
     hidden : 0..1]

empty_key_state == [p_key |-> NO_KEY, prev_state |-> 0, state |-> 0, hidden |-> 0]

config_get_definition(l_key) == logical_to_hid_map[l_key]

\* keystate_get_layer_id: the forced base layer has a code of its own, so
\* that entering and leaving it is a layer change even from layer 0.
LayerCode(ly) == IF ly.base = 1 THEN 255 ELSE ly.id

\* extract_keycode(.., LOGICAL)
LogicalKey(ly, p_key) ==
    p_key + (IF ly.base = 1 THEN 0 ELSE ly.id) * KEYPAD_LAYER_SIZE
-----------------------------------------------------------------------------
(***************************************************************************)
(* The parts of keystate_update, in the order the code runs them.          *)
(***************************************************************************)

all_time_active(rows) ==
    {k \in PhysicalKeys : \A i \in 0..(debounce_len - 1) : k \in rows[i]}

any_time_active(rows) ==
    {k \in PhysicalKeys : \E i \in 0..(debounce_len - 1) : k \in rows[i]}

\* Slots of keys no longer debounced as down are marked for removal.
MarkReleased(ks, down) ==
    [j \in Slots |->
        IF ks[j].p_key # NO_KEY /\ ks[j].p_key \notin down
        THEN [ks[j] EXCEPT !.state = 0]
        ELSE ks[j]]

FreeSlots(ks) == {j \in Slots : ks[j].p_key = NO_KEY}

MutTakenBySkipsFirst(ks, new, j) ==
    {k \in new : RankIn(new, k) + 1 = RankIn(FreeSlots(ks), j)}

\* The keys that go to slot j: the n-th new key, in the order of the physical
\* codes, takes the n-th free slot; the keys left over are dropped.
TakenBy(ks, new, j) == {k \in new : RankIn(new, k) = RankIn(FreeSlots(ks), j)}

WithKey(k, p_key) ==
    [p_key |-> p_key, prev_state |-> k.prev_state, state |-> 1, hidden |-> k.hidden]

RecordPressed(ks, new) ==
    [j \in Slots |->
        IF ks[j].p_key = NO_KEY /\ TakenBy(ks, new, j) # {}
        THEN WithKey(ks[j], CHOOSE k \in TakenBy(ks, new, j) : TRUE)
        ELSE ks[j]]

MutToggleLockKeepsId(ly) ==
    CASE ly.lock = 1 -> [ly EXCEPT !.lock = 0]
      [] ly.lock = 0 /\ ly.id = 0 -> [base |-> ly.base, lock |-> 1, id |-> 1]
      [] OTHER -> [ly EXCEPT !.lock = 1]

\* The layer lock key: unlocking returns to layer 0, locking keeps the layer a
\* shift key has selected and takes layer 1 otherwise.
ToggleLock(ly) ==
    CASE ly.lock = 1 -> [base |-> ly.base, lock |-> 0, id |-> 0]
      [] ly.lock = 0 /\ ly.id = 0 -> [base |-> ly.base, lock |-> 1, id |-> 1]
      [] OTHER -> [ly EXCEPT !.lock = 1]

\* A layer key went down (state 1) or up (state 0).
update_layer(ly, key, state) ==
    CASE key = SPECIAL_HID_KEY_LAYER_LOCK /\ state = 1 -> ToggleLock(ly)
      [] key = SPECIAL_HID_KEY_KEYPAD_SHIFT /\ state = 1
            -> [ly EXCEPT !.id = 1]
      [] key = SPECIAL_HID_KEY_FUNCTION_SHIFT /\ state = 1
            -> [ly EXCEPT !.id = 2]
      [] /\ key \in {SPECIAL_HID_KEY_KEYPAD_SHIFT, SPECIAL_HID_KEY_FUNCTION_SHIFT}
         /\ state = 0
         /\ ly.lock = 0
            -> [ly EXCEPT !.id = 0]
      [] key \in {SPECIAL_HID_KEY_MACRO_SHIFT, SPECIAL_HID_KEY_PROGRAM}
            -> [ly EXCEPT !.base = state]
      [] OTHER -> ly

\* One turn of the loop over the slots that looks for layer keys.
LayerStep(ly, k) ==
    IF /\ k.p_key # NO_KEY
       /\ SPECIAL_HID_KEY_NOREMAP(config_get_definition(k.p_key))
       /\ k.state # k.prev_state
    THEN update_layer(ly, config_get_definition(k.p_key), k.state)
    ELSE ly

\* LayerFold(ks, ly)[n]: the layer after the first n slots.
LayerFold(ks, ly) ==
    LET acc[n \in 0..KEYSTATE_COUNT] ==
            IF n = 0 THEN ly ELSE LayerStep(acc[n - 1], ks[n - 1])
    IN  acc

LayerAfter(ks, ly) == LayerFold(ks, ly)[KEYSTATE_COUNT]

\* The slots the notification loop does not skip.
Changed(k, change) == k.p_key # NO_KEY /\ (change \/ k.prev_state # k.state)

Notified(k, change) ==
    /\ Changed(k, change)
    /\ is_hid_key_to_notify_about(config_get_definition(k.p_key))

\* notify_about_key_change: a held key is released from the old layer and
\* pressed on the new one.
PressedSlots(ks, change) ==
    {j \in Slots : Notified(ks[j], change) /\ ks[j].state = 1}

MutReleasedSlotsNoLayer(ks, change) ==
    {j \in Slots : Notified(ks[j], change) /\ ks[j].state = 0}

ReleasedSlots(ks, change) ==
    {j \in Slots : /\ Notified(ks[j], change)
                   /\ IF change THEN ks[j].prev_state = 1 ELSE ks[j].state = 0}

MutSettledKeepsRecord(k, change) ==
    IF ~Changed(k, change) THEN k
    ELSE IF k.prev_state = 1 /\ k.state = 0 THEN [k EXCEPT !.p_key = NO_KEY]
    ELSE [k EXCEPT !.prev_state = k.state]

MutSettledUnhides(k, change) ==
    IF ~Changed(k, change) THEN k
    ELSE IF k.prev_state = 1 /\ k.state = 0 THEN empty_key_state
    ELSE [k EXCEPT !.prev_state = k.state, !.hidden = 0]

\* The end of the notification loop: released slots are emptied.
Settled(k, change) ==
    IF ~Changed(k, change) THEN k
    ELSE IF k.prev_state = 1 /\ k.state = 0 THEN empty_key_state
    ELSE [k EXCEPT !.prev_state = k.state]

CodesOf(ks, S, ly) == {LogicalKey(ly, ks[j].p_key) : j \in S}

\* key_press_count is a byte.
CountAfter(ks, change) ==
    (key_press_count + Cardinality(PressedSlots(ks, change))
                     - Cardinality(ReleasedSlots(ks, change))) % 256

MutReleaseLayerNew(now, change) == now

\* The layer a release is notified on: the code's prev_layer, which is the
\* value layer has before the scan, when the layer changes.
ReleaseLayer(now, change) == IF change THEN layer ELSE now

\* Layer, notifications and clean-up for the slots ks of this scan.
ApplyScan(ks) ==
    LET now    == LayerAfter(ks, layer)
        change == LayerCode(now) # LayerCode(layer)
    IN  /\ layer' = now
        /\ key_states' = [j \in Slots |-> Settled(ks[j], change)]
        /\ key_press_count' = CountAfter(ks, change)
        /\ hooked' = (hooked \ CodesOf(ks, ReleasedSlots(ks, change),
                                      ReleaseLayer(now, change)))
                         \cup CodesOf(ks, PressedSlots(ks, change), now)

\* The slots after the released keys are marked and the new ones recorded.
ScannedSlots(down, new) ==
    RecordPressed(MarkReleased(key_states, down), new)

\* Mutant: the index wraps where it meets the length, which may have been shortened below it.
MutNextRowMeetsLength ==
    IF active_debounce_index + 1 = debounce_len THEN 0 ELSE active_debounce_index + 1

NextRow == (active_debounce_index + 1) % debounce_len

\* One scan that finds the keys in matrix closed.
keystate_update(matrix) ==
    LET rows == [debounce_bitfields EXCEPT ![NextRow] = matrix]
        all  == all_time_active(rows)
        down == (debounced \cup all) \cap any_time_active(rows)
    IN  /\ active_debounce_index' = NextRow
        /\ debounce_bitfields' = rows
        /\ debounced' = down
        /\ \E ks \in {ScannedSlots(down, all \ debounced)} : ApplyScan(ks)
        /\ UNCHANGED configVars
-----------------------------------------------------------------------------
(***************************************************************************)
(* What the main loop does to the key state between two scans.             *)
(***************************************************************************)

MutGetKeysSlotsAll == {j \in Slots : key_states[j].state = 1}

\* keystate_get_keys: the slots whose keys are handed out.  They are filtered
\* by what the key means on the active layer; the count is not.
GetKeysSlots ==
    {j \in Slots :
        /\ key_states[j].state = 1
        /\ is_hid_key_to_notify_about(
               config_get_definition(LogicalKey(layer, key_states[j].p_key)))}

keystate_get_keys == CodesOf(key_states, GetKeysSlots, layer)

\* The first slot that holds the physical key, as a set: empty if there is none.
FirstHolding(l_key) ==
    {j \in Slots :
        /\ key_states[j].p_key = l_key % KEYPAD_LAYER_SIZE
        /\ \A i \in 0..(j - 1) : key_states[i].p_key # l_key % KEYPAD_LAYER_SIZE}

keystate_is_key_hidden(l_key) ==
    \A j \in FirstHolding(l_key) : key_states[j].hidden = 1

\* keystate_hide_key for each of some keys.
keystate_hide_key(l_keys) ==
    /\ key_states' = [j \in Slots |->
          IF \E l_key \in l_keys : j \in FirstHolding(l_key)
          THEN [key_states[j] EXCEPT !.hidden = 1] ELSE key_states[j]]
    /\ UNCHANGED <<configVars, ringVars, layer, key_press_count, hooked>>

\* A program hides all keys of its trigger unless the first one is hidden.
HideProgramTrigger ==
    /\ \E first \in keystate_get_keys :
          /\ \A l_key \in keystate_get_keys : first <= l_key
          /\ ~keystate_is_key_hidden(first)
    /\ keystate_hide_key(keystate_get_keys)

\* handle_state_normal starts what the keys that are down trigger.  A macro
\* hides its main key; a program hides all keys, or, when only its main key is
\* the trigger, that key and the NO_KEY that replaced the others.
HideTrigger ==
    /\ key_press_count \in 1..MACRO_MAX_KEYS
    /\ \/ HideProgramTrigger
       \/ \E main \in keystate_get_keys :
             \/ keystate_hide_key({main})
             \/ /\ key_press_count > 1
                /\ ~keystate_is_key_hidden(main)
                /\ keystate_hide_key({main, NO_KEY})

\* Remapping: the one held key takes the default meaning of a source key that
\* was itself no layer or program key when it was chosen.
config_save_definition(l_key, h_key) ==
    /\ logical_to_hid_map' = [logical_to_hid_map EXCEPT ![l_key] = h_key]
    /\ UNCHANGED <<debounce_len, ringVars, key_states, layer, key_press_count, hooked>>

MutRemapHeldKeyAnySource ==
    /\ key_press_count = 1
    /\ \E dst \in keystate_get_keys \cap RemapTargets, src \in RemapTargets :
          /\ ~SPECIAL_HID_KEY_NOREMAP(config_get_definition(dst))
          /\ config_save_definition(dst, logical_to_hid_map_default[src])

RemapHeldKey ==
    /\ key_press_count = 1
    /\ \E dst \in keystate_get_keys \cap RemapTargets, src \in RemapTargets :
          /\ ~SPECIAL_HID_KEY_NOREMAP(config_get_definition(dst))
          /\ ~SPECIAL_HID_KEY_NOREMAP(config_get_definition(src))
          /\ config_save_definition(dst, logical_to_hid_map_default[src])

\* By a chord in the normal state or, at any time, by a request of the host.
config_reset_defaults ==
    /\ logical_to_hid_map' = logical_to_hid_map_default
    /\ UNCHANGED <<debounce_len, ringVars, key_states, layer, key_press_count, hooked>>

\* The layouts that were in force at one time or another, and so may be backed up.
BackedUp ==
    LET own == {l \in RemapTargets : ~SPECIAL_HID_KEY_NOREMAP(logical_to_hid_map_default[l])}
    IN  {[l \in LogicalKeys |-> logical_to_hid_map_default[IF l \in own THEN code[l] ELSE l]] :
            code \in [own -> own]}

config_load_layout ==
    /\ logical_to_hid_map' \in BackedUp
    /\ UNCHANGED <<debounce_len, ringVars, key_states, layer, key_press_count, hooked>>

\* At the end of the chord that edits the debounce length, or, with any keys held,
\* by config_reset_fully, which writes a length before it resets the mapping.
config_save_debounce_len ==
    /\ debounce_len' \in DebounceLens
    /\ UNCHANGED <<logical_to_hid_map, ringVars, key_states, layer, key_press_count, hooked>>
-----------------------------------------------------------------------------
\* keystate_init, with a debounce length saved in an earlier session.
Init ==
    /\ logical_to_hid_map = logical_to_hid_map_default
    /\ debounce_len \in DebounceLens
    /\ active_debounce_index = 0
    /\ debounce_bitfields = [i \in DebounceRows |-> {}]
    /\ debounced = {}
    /\ key_states = [j \in Slots |-> empty_key_state]
    /\ layer = [base |-> 0, lock |-> 0, id |-> 0]
    /\ key_press_count = 0
    /\ hooked = {}

Scan == \E matrix \in SUBSET PhysicalKeys : keystate_update(matrix)

Next ==
    \/ Scan
    \/ HideTrigger
    \/ RemapHeldKey
    \/ config_reset_defaults
    \/ config_load_layout
    \/ config_save_debounce_len

Spec == Init /\ [][Next]_vars
-----------------------------------------------------------------------------
(***************************************************************************)
(* Properties.                                                             *)
(***************************************************************************)

\* The type of every variable.
TypeOK ==
    /\ logical_to_hid_map \in [LogicalKeys -> HidCodes]
    /\ debounce_len \in 2..MAX_DEBOUNCE_LEN
    /\ active_debounce_index \in DebounceRows
    /\ debounce_bitfields \in [DebounceRows -> SUBSET PhysicalKeys]
    /\ debounced \in SUBSET PhysicalKeys
    /\ key_states \in [Slots -> KeyRecord]
    /\ layer \in Layer
    /\ key_press_count \in 0..255
    /\ hooked \in SUBSET LogicalKeys

Occupied == {j \in Slots : key_states[j].p_key # NO_KEY}

SlotKeys == {key_states[j].p_key : j \in Occupied}

Counted ==
    {j \in Occupied :
        is_hid_key_to_notify_about(config_get_definition(key_states[j].p_key))}

\* Between two scans no slot is half way: an occupied slot holds a key that is
\* debounced as down and was already announced, an empty one is blank, and no
\* key has two slots.
SlotsConsistent ==
    /\ \A j \in Slots :
          IF j \in Occupied
          THEN /\ key_states[j].state = 1 /\ key_states[j].prev_state = 1
               /\ key_states[j].p_key \in debounced
          ELSE key_states[j] = empty_key_state
    /\ \A i, j \in Occupied : key_states[i].p_key = key_states[j].p_key => i = j

\* The on-board operations never move a layer, lock, macro-shift or program
\* key: those have their factory meaning on every layer, whatever was remapped.
SpecialKeysFixed ==
    \A l \in LogicalKeys :
        \/ SPECIAL_HID_KEY_NOREMAP(logical_to_hid_map[l])
        \/ SPECIAL_HID_KEY_NOREMAP(logical_to_hid_map_default[l])
        => logical_to_hid_map[l] = logical_to_hid_map_default[l]

\* key_press_count, kept by one increment per press and one decrement per
\* release, is the number of tracked keys other than layer shifts and locks.
\* The main loop leaves its waiting states on this number.
CountExact == key_press_count = Cardinality(Counted)

\* A hook that follows the notifications knows exactly the logical keys that
\* are down on the active layer: every press is undone under the same logical
\* code it was announced with, across layer changes of held keys.
HookBalanced == hooked = CodesOf(key_states, Counted, layer)

\* keystate_get_keys, which filters by the meaning on the active layer, fills
\* exactly the key_press_count entries its callers go on to read.
GetKeysFillsCount == Cardinality(GetKeysSlots) = key_press_count

HeldAs(codes) ==
    \E j \in Occupied : config_get_definition(key_states[j].p_key) \in codes

\* No layer without a reason: an unlocked layer other than 0 has its shift key
\* held, a lock is never set on layer 0, and the forced base layer has a
\* program or macro-shift key held.
LayerJustified ==
    /\ layer.lock = 1 => layer.id # 0
    /\ layer.id # 0 /\ layer.lock = 0 =>
          HeldAs({SPECIAL_HID_KEY_KEYPAD_SHIFT, SPECIAL_HID_KEY_FUNCTION_SHIFT})
    /\ layer.base = 1 =>
          HeldAs({SPECIAL_HID_KEY_MACRO_SHIFT, SPECIAL_HID_KEY_PROGRAM})

\* While the keys going up and the keys going down fit the slots together, no
\* debounced key is lost: each one gets, keeps and gives back its slot.
NoKeyLostWithinCapacity ==
    [][/\ SlotKeys = debounced
       /\ Cardinality(debounced \cup debounced') <= KEYSTATE_COUNT
       => SlotKeys' = debounced']_vars

\* A hidden key stays hidden until it is released: the flag only goes away
\* together with the key.
HiddenUntilReleased ==
    [][\A j \in Slots :
          key_states[j].hidden = 1 =>
             \/ key_states'[j].hidden = 1 /\ key_states'[j].p_key = key_states[j].p_key
             \/ key_states[j].p_key \notin debounced']_vars
=============================================================================
