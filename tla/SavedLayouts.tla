---------------------------- MODULE SavedLayouts ----------------------------
(***************************************************************************)
(* Layout backups (config.c): up to ten layouts, each the list of its      *)
(* differences from the factory layout, packed one behind the other into   *)
(* one array and found through an array of first and last positions.       *)
(***************************************************************************)
EXTENDS Integers, FiniteSets, FiniteSetsExt, KeyCodes

CONSTANTS
    NUM_KEY_MAPPING_INDICES,    \* backup slots (10)
    SAVED_MAPPING_COUNT,        \* elements of the array (255)
    NUM_LOGICAL_KEYS,           \* keys of a layout (252)
    logical_to_hid_map_default, \* the factory layout
    HidValues                   \* bound: codes the user remaps keys to

Numbers == 0..(NUM_KEY_MAPPING_INDICES - 1)
Positions == 0..(SAVED_MAPPING_COUNT - 1)
LogicalKeys == 0..(NUM_LOGICAL_KEYS - 1)

ASSUME LayoutSizes ==
    /\ NUM_KEY_MAPPING_INDICES \in Nat \ {0}
    /\ SAVED_MAPPING_COUNT \in 1..256
    /\ NUM_LOGICAL_KEYS \in 1..255
    /\ HidValues \subseteq HidCodes
    /\ logical_to_hid_map_default \in [LogicalKeys -> HidCodes]

VARIABLES
    logical_to_hid_map,        \* the layout in force
    saved_key_mapping_indices, \* [start, end] of each backup, both inclusive
    saved_key_mappings,        \* [l_key, h_key] for each position
    message                    \* what the operation prints

vars == <<logical_to_hid_map, saved_key_mapping_indices, saved_key_mappings, message>>
-----------------------------------------------------------------------------
NoIndex == [start |-> NO_KEY, end |-> NO_KEY]

Used(indices) == {n \in Numbers : indices[n].start # NO_KEY}

\* Both ends are part of the backup.
Length(idx) == (idx.end - idx.start + 1) % 256

\* Mutant: the indices stay where they are.
MutShiftNone(indices, gone) == indices

\* The backups behind the removed one move down.
ShiftIndices(indices, gone) ==
    [n \in Numbers |->
        IF indices[n].start # NO_KEY /\ indices[n].start > gone.end
        THEN [start |-> indices[n].start - Length(gone),
              end   |-> indices[n].end - Length(gone)]
        ELSE indices[n]]

\* The last position in use behind the removed backup.
MaxEnd(indices, gone) ==
    Max({gone.end} \cup {indices[n].end : n \in
            {m \in Used(indices) : indices[m].start > gone.end}})

\* What config_delete_layout leaves: the indices and the array.
DeletedIndices(num) ==
    LET gone == saved_key_mapping_indices[num]
    IN  ShiftIndices([saved_key_mapping_indices EXCEPT ![num] = NoIndex], gone)

DeletedMappings(num) ==
    LET gone == saved_key_mapping_indices[num]
        len  == Length(gone)
        last == MaxEnd(saved_key_mapping_indices, gone)
    IN  [p \in Positions |->
            IF p \in gone.start..(last - len) /\ p + len \in Positions
            THEN saved_key_mappings[p + len] ELSE saved_key_mappings[p]]

HasBackup(num) == saved_key_mapping_indices[num].start # NO_KEY

config_delete_layout(num) ==
    /\ UNCHANGED logical_to_hid_map
    /\ \/ /\ ~HasBackup(num)
          /\ message' = "No layout"
          /\ UNCHANGED <<saved_key_mapping_indices, saved_key_mappings>>
       \/ /\ HasBackup(num)
          /\ message' = ""
          /\ saved_key_mapping_indices' = DeletedIndices(num)
          /\ saved_key_mappings' = DeletedMappings(num)
-----------------------------------------------------------------------------
(***************************************************************************)
(* config_save_layout.                                                     *)
(***************************************************************************)

Differences == {l \in LogicalKeys : logical_to_hid_map[l] # logical_to_hid_map_default[l]}

\* The old backup goes first, whatever happens then.
IndicesWithout(num) ==
    IF HasBackup(num) THEN DeletedIndices(num) ELSE saved_key_mapping_indices

MappingsWithout(num) ==
    IF HasBackup(num) THEN DeletedMappings(num) ELSE saved_key_mappings

\* One behind the last position in use.
FirstFree(indices) == Max({-1} \cup {indices[n].end : n \in Used(indices)}) + 1

\* The position the loop writes key l to, if it gets there.
PositionOf(l, start) == start + Cardinality({m \in Differences : m < l})

\* The loop gives up before it uses the last element of the array.
Fits(start) == start + Cardinality(Differences) <= SAVED_MAPPING_COUNT - 1

\* The differences written until the loop ends or gives up.
WrittenMappings(mappings, start) ==
    [p \in Positions |->
        LET here == {l \in Differences : PositionOf(l, start) = p}
        IN  IF here # {} /\ p < SAVED_MAPPING_COUNT - 1
            THEN LET l == CHOOSE l \in here : TRUE
                 IN  [l_key |-> l, h_key |-> logical_to_hid_map[l]]
            ELSE mappings[p]]

\* Where the differences go, and what the call leaves: the index is only written
\* when the loop got through.
SaveStart(num) == FirstFree(IndicesWithout(num))

SavedMappings(num) == WrittenMappings(MappingsWithout(num), SaveStart(num))

Saves(num) == Differences # {} /\ Fits(SaveStart(num))

SavedIndex(num) ==
    [start |-> SaveStart(num), end |-> SaveStart(num) + Cardinality(Differences) - 1]

SavedIndices(num) ==
    IF Saves(num) THEN [IndicesWithout(num) EXCEPT ![num] = SavedIndex(num)] ELSE IndicesWithout(num)

SavedMessage(num) ==
    IF Differences = {} THEN "No change" ELSE IF Saves(num) THEN "" ELSE "Fail: no space"

config_save_layout(num) ==
    /\ saved_key_mappings' = SavedMappings(num)
    /\ saved_key_mapping_indices' = SavedIndices(num)
    /\ message' = SavedMessage(num)
    /\ UNCHANGED logical_to_hid_map
-----------------------------------------------------------------------------
MutLoadPositionRunsOn(idx) ==
    LET at[l \in 0..NUM_LOGICAL_KEYS] ==
            IF l = 0 THEN idx.start
            ELSE IF saved_key_mappings[at[l - 1]].l_key = l - 1 /\ at[l - 1] + 1 \in Positions
            THEN at[l - 1] + 1 ELSE at[l - 1]
    IN  at

\* The position the load loop has read when it comes to key l: it goes on once
\* the key at the position has been restored, up to the end of the backup.
LoadPosition(idx) ==
    LET at[l \in 0..NUM_LOGICAL_KEYS] ==
            IF l = 0 THEN idx.start
            ELSE IF saved_key_mappings[at[l - 1]].l_key = l - 1 /\ at[l - 1] + 1 <= idx.end
            THEN at[l - 1] + 1 ELSE at[l - 1]
    IN  at

LoadedLayout(idx) ==
    LET at == LoadPosition(idx)
    IN  [l \in LogicalKeys |->
            IF saved_key_mappings[at[l]].l_key = l
            THEN saved_key_mappings[at[l]].h_key
            ELSE logical_to_hid_map_default[l]]

config_load_layout(num) ==
    /\ UNCHANGED <<saved_key_mapping_indices, saved_key_mappings>>
    /\ \/ /\ ~HasBackup(num)
          /\ message' = "No layout"
          /\ UNCHANGED logical_to_hid_map
       \/ /\ HasBackup(num)
          /\ message' = ""
          /\ logical_to_hid_map' = LoadedLayout(saved_key_mapping_indices[num])

config_save_definition(l_key, h_key) ==
    /\ logical_to_hid_map' = [logical_to_hid_map EXCEPT ![l_key] = h_key]
    /\ message' = ""
    /\ UNCHANGED <<saved_key_mapping_indices, saved_key_mappings>>

config_reset_defaults ==
    /\ logical_to_hid_map' = logical_to_hid_map_default
    /\ message' = ""
    /\ UNCHANGED <<saved_key_mapping_indices, saved_key_mappings>>

\* The whole reset: the indices are erased, the array keeps what it held.
config_reset_fully ==
    /\ saved_key_mapping_indices' = [n \in Numbers |-> NoIndex]
    /\ logical_to_hid_map' = logical_to_hid_map_default
    /\ message' = ""
    /\ UNCHANGED saved_key_mappings

\* A keyboard after config_reset_fully.
Init ==
    /\ logical_to_hid_map = logical_to_hid_map_default
    /\ saved_key_mapping_indices = [n \in Numbers |-> NoIndex]
    /\ saved_key_mappings = [p \in Positions |-> [l_key |-> NO_KEY, h_key |-> NO_KEY]]
    /\ message = ""

Next ==
    \/ \E l_key \in LogicalKeys, h_key \in HidValues : config_save_definition(l_key, h_key)
    \/ config_reset_defaults
    \/ config_reset_fully
    \/ \E num \in Numbers : config_save_layout(num)
    \/ \E num \in Numbers : config_delete_layout(num)
    \/ \E num \in Numbers : config_load_layout(num)

Spec == Init /\ [][Next]_vars
-----------------------------------------------------------------------------
(***************************************************************************)
(* Properties.                                                             *)
(***************************************************************************)

\* The type of every variable; all positions are bytes.
TypeOK ==
    /\ logical_to_hid_map \in [LogicalKeys -> HidCodes]
    /\ saved_key_mapping_indices \in [Numbers -> [start : 0..255, end : 0..255]]
    /\ saved_key_mappings \in [Positions -> [l_key : 0..255, h_key : HidCodes]]

PositionsOf(n) == saved_key_mapping_indices[n].start..saved_key_mapping_indices[n].end

\* The backups fill the front of the array without gaps and never share an
\* element, after any sequence of saves and deletes.
LayoutsPacked ==
    /\ UNION {PositionsOf(n) : n \in Used(saved_key_mapping_indices)}
          = 0..(FirstFree(saved_key_mapping_indices) - 1)
    /\ \A m, n \in Used(saved_key_mapping_indices) :
          m # n => PositionsOf(m) \cap PositionsOf(n) = {}

\* A save only fails for want of space when the differences do not fit the
\* elements of the array that no other backup uses.
WholeArrayUsable ==
    [][message' = "Fail: no space" =>
          FirstFree(saved_key_mapping_indices') + Cardinality(Differences)
             > SAVED_MAPPING_COUNT]_vars
-----------------------------------------------------------------------------
Backups ==
    [n \in Numbers |->
        IF HasBackup(n)
        THEN [l \in LogicalKeys |->
                LET at == {p \in PositionsOf(n) : saved_key_mappings[p].l_key = l}
                IN  IF at = {} THEN logical_to_hid_map_default[l]
                    ELSE saved_key_mappings[CHOOSE p \in at : TRUE].h_key]
        ELSE logical_to_hid_map_default]

Store == INSTANCE LayoutStore WITH
    Capacity <- SAVED_MAPPING_COUNT - 1,
    Factory <- logical_to_hid_map_default,
    layout <- logical_to_hid_map,
    backups <- Backups

\* The packed array behaves as ten independent layouts: saving, replacing or
\* deleting one leaves the others as they were, and loading one restores every
\* key, until the shared space is used up.
ImplementsStore == Store!StoreSpec
=============================================================================
