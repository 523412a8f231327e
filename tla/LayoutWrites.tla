------------------------------ MODULE LayoutWrites ------------------------------
(***************************************************************************)
(* The layout backups one storage write at a time, with power lost between *)
(* any two: config_save_layout, config_delete_layout and                   *)
(* config_load_layout as the writes they make, in their order.             *)
(***************************************************************************)
EXTENDS SavedLayouts, Sequences, Ranks

VARIABLES
    writes,     \* the writes the call has still to make
    answer,     \* the message it then prints
    num,        \* the backup slot it is about
    shown,      \* the storage before it
    power       \* whether there is still power

storage == [map |-> logical_to_hid_map, indices |-> saved_key_mapping_indices,
            mappings |-> saved_key_mappings, message |-> message]
stepVars == <<vars, writes, answer, num, shown, power>>

\* A write to the layout in force, to the indices or to the array.
Write(part, at, value) == [part |-> part, at |-> at, value |-> value]

\* Mutant: the last element stays.
MutMoveWritesShort(n) ==
    LET gone == saved_key_mapping_indices[n]
        left == DeletedMappings(n)
        last == MaxEnd(saved_key_mapping_indices, gone)
    IN  [i \in 1..(last - gone.end - 1) |->
            Write("mappings", gone.start + i - 1, left[gone.start + i - 1])]

\* The array is moved down from the front.
MoveWrites(n) ==
    LET gone == saved_key_mapping_indices[n]
        left == DeletedMappings(n)
        last == MaxEnd(saved_key_mapping_indices, gone)
    IN  [i \in 1..(last - gone.end) |->
            Write("mappings", gone.start + i - 1, left[gone.start + i - 1])]

\* Mutant: the index is erased and written anew.
MutShiftWritesErase(n) ==
    LET left == DeletedIndices(n)
        used == Ascending(Used(left))
    IN  [i \in 1..Len(used) |-> Write("indices", used[i], NoIndex)]
            \o [i \in 1..Len(used) |-> Write("indices", used[i], left[used[i]])]

\* The indices behind the removed one, by slot.
ShiftWrites(n) ==
    LET left == DeletedIndices(n)
        moved == Ascending({m \in Numbers \ {n} : left[m] # saved_key_mapping_indices[m]})
    IN  [i \in 1..Len(moved) |-> Write("indices", moved[i], left[moved[i]])]

DeleteWrites(n) ==
    IF ~HasBackup(n) THEN <<>>
    ELSE <<Write("indices", n, NoIndex)>> \o ShiftWrites(n) \o MoveWrites(n)

\* The differences that fit, behind the other backups.
DifferenceWrites(start) ==
    LET keys == Ascending({l \in Differences : PositionOf(l, start) < SAVED_MAPPING_COUNT - 1})
    IN  [i \in 1..Len(keys) |->
            Write("mappings", start + i - 1,
                  [l_key |-> keys[i], h_key |-> logical_to_hid_map[keys[i]]])]

\* The index comes last, when everything it stands for is written.
IndexWrites(n) == IF Saves(n) THEN <<Write("indices", n, SavedIndex(n))>> ELSE <<>>

\* Mutant: the index is written before the differences.
MutSaveWritesIndexFirst(n) == DeleteWrites(n) \o IndexWrites(n) \o DifferenceWrites(SaveStart(n))

SaveWrites(n) == DeleteWrites(n) \o DifferenceWrites(SaveStart(n)) \o IndexWrites(n)

LoadWrites(n) ==
    IF ~HasBackup(n) THEN <<>>
    ELSE LET layout == LoadedLayout(saved_key_mapping_indices[n])
         IN  [i \in 1..NUM_LOGICAL_KEYS |-> Write("map", i - 1, layout[i - 1])]

\* No call is in progress.
Between == writes = <<>>

Begin(n, list, text) ==
    /\ power /\ Between /\ list # <<>>
    /\ writes' = list /\ answer' = text /\ num' = n /\ shown' = storage
    /\ UNCHANGED <<vars, power>>

BeginSave(n) == Begin(n, SaveWrites(n), SavedMessage(n))

BeginDelete(n) == Begin(n, DeleteWrites(n), "")

BeginLoad(n) == Begin(n, LoadWrites(n), "")

\* One write_short or write_byte, or one element of the memmove.
DoWrite ==
    /\ power /\ writes # <<>>
    /\ writes' = Tail(writes)
    /\ message' = IF Len(writes) = 1 THEN answer ELSE message
    /\ LET w == Head(writes)
       IN  /\ saved_key_mapping_indices' = IF w.part # "indices" THEN saved_key_mapping_indices
                                           ELSE [saved_key_mapping_indices EXCEPT ![w.at] = w.value]
           /\ saved_key_mappings' = IF w.part # "mappings" THEN saved_key_mappings
                                    ELSE [saved_key_mappings EXCEPT ![w.at] = w.value]
           /\ logical_to_hid_map' = IF w.part # "map" THEN logical_to_hid_map
                                    ELSE [logical_to_hid_map EXCEPT ![w.at] = w.value]
    /\ UNCHANGED <<answer, num, shown, power>>

\* The writes to come are forgotten, and config_init will find a valid sentinel:
\* what is stored now is what the keyboard starts with.
PowerLoss ==
    /\ power /\ writes # <<>>
    /\ power' = FALSE
    /\ UNCHANGED <<vars, writes, answer, num, shown>>

\* The user remaps a key between two calls: one write.
Remap(l_key, h_key) ==
    /\ power /\ Between
    /\ config_save_definition(l_key, h_key)
    /\ UNCHANGED <<writes, answer, num, shown, power>>

\* The factory layout is written back: config_reset_defaults.
ResetDefaults ==
    /\ power /\ Between
    /\ config_reset_defaults
    /\ UNCHANGED <<writes, answer, num, shown, power>>

\* The backups go too: config_reset_fully.  Power lost inside it is FactoryReset's.
ResetFully ==
    /\ power /\ Between
    /\ config_reset_fully
    /\ UNCHANGED <<writes, answer, num, shown, power>>

StepInit ==
    /\ Init
    /\ writes = <<>> /\ answer = "" /\ num = 0 /\ shown = storage /\ power = TRUE

StepNext ==
    \/ DoWrite \/ PowerLoss \/ ResetDefaults \/ ResetFully
    \/ \E n \in Numbers : BeginSave(n) \/ BeginDelete(n) \/ BeginLoad(n)
    \/ \E l_key \in LogicalKeys, h_key \in HidValues : Remap(l_key, h_key)

StepSpec == StepInit /\ [][StepNext]_stepVars

--------------------------------------------------------------------------------
\* The storage as the calls leave it: what was there before, until the last
\* write of a call is made.
Visible == IF Between THEN storage ELSE shown

Whole == INSTANCE SavedLayouts WITH
    logical_to_hid_map <- Visible.map,
    saved_key_mapping_indices <- Visible.indices,
    saved_key_mappings <- Visible.mappings,
    message <- Visible.message

\* config_save_layout, config_delete_layout, config_load_layout: the writes of
\* a call that is not interrupted add up to the single step SavedLayouts takes
\* for it.  The list of writes is made from the call's arguments and the storage
\* before it; that their order loses nothing is what the refinement shows.
ImplementsSavedLayouts == Whole!Spec

\* config_save_layout, config_delete_layout: between two calls the backups fill
\* the front of the array without gaps and never share an element, after any
\* sequence of saves, refused saves and deletes.
PackedBetween == Whole!LayoutsPacked

\* config_save_layout, config_delete_layout, config_load_layout: the packed array
\* behaves as independent layouts (LayoutStore).  Saving, replacing or deleting one
\* leaves the others as they were, loading one restores every key, and the whole
\* reset leaves none.
ImplementsStoreBetween == Whole!ImplementsStore

\* config_save_layout, config_delete_layout: wherever power is lost in a call,
\* the backups stored in front of the one it removes keep every key, and so do
\* all the others when it removes none.
KeepsEarlier ==
    ~power => \A n \in Numbers \ {num} :
        shown.indices[n].start < shown.indices[num].start => Backups[n] = Whole!Backups[n]

\* config_save_layout: an index is never valid before its data is, so that an
\* interrupted save leaves the old backup, the new one or none.
NeverHalfSaved ==
    ~power => Backups[num] \in {Whole!Backups[num], logical_to_hid_map, logical_to_hid_map_default}

\* "You can create up to 10 independent backup layouts": a call about one slot
\* leaves the others alone, interrupted or not.
KeepsOthers ==
    ~power => \A n \in Numbers \ {num} : Backups[n] = Whole!Backups[n]
================================================================================
