------------------------------- MODULE Macros -------------------------------
(***************************************************************************)
(* Recorded macros (macro.c, macro_index.c): an index of trigger keys,     *)
(* sorted so that it can be searched by bisection, and a packed area of    *)
(* macro data that the index points into.  A trigger, up to four logical   *)
(* keys sorted and padded with NO_KEY, is abstracted to a number: its rank *)
(* in the order macro_idx_cmp compares triggers.                           *)
(***************************************************************************)
EXTENDS Integers, Sequences, FiniteSets, FiniteSetsExt, Ranks

CONSTANTS
    MACRO_INDEX_COUNT,     \* entries of the index (128)
    MACROS_SIZE,           \* bytes of the data area (3586 - 2)
    STORAGE_SIZE,          \* bytes of the chip behind the start of the area
    MACRO_DATA_HEADER_LEN, \* bytes of the length in front of a macro (2)
    Triggers,              \* ranks of the triggers
    NO_TRIGGER,            \* rank of the unused entry's keys, all NO_KEY: the last
    ProgramTriggers,       \* triggers the client application gave programs
    Events,                \* HID codes that are recorded
    macro_def_infos,       \* the factory macros: a sequence of [lkey, hkeys]
    MaxMacroLen            \* bound: events per recording

Entries == 0..(MACRO_INDEX_COUNT - 1)
Addresses == 0..(STORAGE_SIZE - 1)

ASSUME MacroSizes ==
    /\ MACRO_INDEX_COUNT \in 1..255
    /\ MACROS_SIZE \in Nat /\ STORAGE_SIZE \in Nat
    /\ MACROS_SIZE <= STORAGE_SIZE /\ STORAGE_SIZE <= 32768
    /\ MACRO_DATA_HEADER_LEN \in Nat \ {0}
    /\ NO_TRIGGER \in Nat /\ Triggers \subseteq 1..(NO_TRIGGER - 1)
    /\ ProgramTriggers \subseteq Triggers
    /\ macro_def_infos \in Seq([lkey : Triggers, hkeys : Seq(Nat)])
    /\ \A m, n \in DOMAIN macro_def_infos :
          /\ macro_def_infos[m].lkey = macro_def_infos[n].lkey => m = n
          /\ Len(macro_def_infos[m].hkeys) = Len(macro_def_infos[n].hkeys)
    /\ Len(macro_def_infos) <= MACRO_INDEX_COUNT
    /\ \A n \in DOMAIN macro_def_infos :
          Len(macro_def_infos) * (Len(macro_def_infos[n].hkeys) + MACRO_DATA_HEADER_LEN)
              <= MACROS_SIZE
    /\ MaxMacroLen \in Nat

VARIABLES
    macro_index,       \* [keys, type, data] for each entry
    macros_end_offset, \* where the next macro goes
    macros,            \* the bytes of the chip from the start of the area
    recording_state,   \* macro, cursor and index entry; NULL when idle
    playback_state,    \* remaining events and cursor
    disturbed          \* history: the host changed the storage under a recording, and
                       \* has not reset it outside of one since

vars == <<macro_index, macros_end_offset, macros, recording_state, playback_state, disturbed>>
-----------------------------------------------------------------------------
NULL == -1

NotRecording == [macro |-> NULL, cursor |-> NULL, index_entry |-> NULL]
NotPlaying == [remaining |-> 0, cursor |-> 0]

empty_entry == [keys |-> NO_TRIGGER, type |-> "MACRO", data |-> 0]

\* The events of a macro follow its length.
EventsAt(offset) == offset + MACRO_DATA_HEADER_LEN

\* bsearch over the index: n entries from lo on are left.  A turn compares the
\* middle one; the search is over when it matches or none is left.
Middle(left) == left.lo + left.n \div 2

SearchTurn(index, key, left) ==
    LET mid == Middle(left)
    IN  IF left.n = 0 \/ index[mid].keys = key THEN left
        ELSE IF index[mid].keys < key
             THEN [lo |-> mid + 1, n |-> left.n - left.n \div 2 - 1]
             ELSE [lo |-> left.lo, n |-> left.n \div 2]

\* Search(index, key)[t]: what is left after t turns.
Search(index, key) ==
    LET left[t \in 0..MACRO_INDEX_COUNT] ==
            IF t = 0 THEN [lo |-> 0, n |-> MACRO_INDEX_COUNT]
            ELSE SearchTurn(index, key, left[t - 1])
    IN  left

macro_idx_lookup(index, key) ==
    LET left == Search(index, key)[MACRO_INDEX_COUNT]
    IN  IF left.n = 0 THEN NULL ELSE Middle(left)

MutCreatePositionUnsorted(index, key) ==
    Max({i \in Entries : i = 0 \/ index[i - 1].keys # NO_TRIGGER})

\* The loop from the end stops at the first entry whose predecessor is lower.
CreatePosition(index, key) ==
    Max({i \in Entries : i = 0 \/ key >= index[i - 1].keys})

IndexFull(index) == index[MACRO_INDEX_COUNT - 1].keys # NO_TRIGGER

\* Entries from the position on move up, empty ones are not copied; only the
\* key of the new entry is written.
macro_idx_create(index, key) ==
    LET p == CreatePosition(index, key)
    IN  [i \in Entries |->
            CASE i < p -> index[i]
              [] i = p -> [index[i] EXCEPT !.keys = key]
              [] i > p /\ index[i - 1].keys # NO_TRIGGER -> index[i - 1]
              [] OTHER -> index[i]]

\* What macro_idx_remove moves down into entry i.
MovedDown(index, i) ==
    IF i = MACRO_INDEX_COUNT - 1 THEN empty_entry ELSE index[i + 1]

\* Entries move down until an empty one has been moved.
macro_idx_remove(index, entry) ==
    LET stop == Min({i \in Entries : i >= entry /\ MovedDown(index, i).keys = NO_TRIGGER})
    IN  [i \in Entries |->
            IF i \in entry..stop THEN MovedDown(index, i) ELSE index[i]]

MutShiftDownFirst(index, offset, len) ==
    [i \in Entries |->
        IF i = 0 /\ index[i].keys # NO_TRIGGER /\ index[i].type = "MACRO" /\ index[i].data > offset
        THEN [index[i] EXCEPT !.data = @ - len] ELSE index[i]]

\* macro_idx_iterate with macro_shift_down_iterator.
ShiftDown(index, offset, len) ==
    [i \in Entries |->
        IF /\ \A j \in 0..i : index[j].keys # NO_TRIGGER
           /\ index[i].type = "MACRO"
           /\ index[i].data > offset
        THEN [index[i] EXCEPT !.data = @ - len]
        ELSE index[i]]

\* storage_memmove down; the part behind the chip does not exist.
MoveDown(data, dst, src, len) ==
    [a \in Addresses |->
        IF a \in dst..(dst + len - 1) /\ a + (src - dst) \in Addresses
        THEN data[a + (src - dst)] ELSE data[a]]

\* What delete_macro_data leaves: index, end offset and data.
delete_macro_data(index, end, data, entry) ==
    LET offset == index[entry].data
        len    == data[offset] + MACRO_DATA_HEADER_LEN
        rest   == (end - (offset + len)) % 65536
    IN  IF index[entry].type # "MACRO"
        THEN [index |-> index, end |-> end, data |-> data]
        ELSE [index |-> IF rest # 0 THEN ShiftDown(index, offset, len) ELSE index,
              end   |-> (end - len) % 65536,
              data  |-> IF rest # 0 THEN MoveDown(data, offset, offset + len, rest) ELSE data]

\* The entry as macros_start_macro leaves it: where the events will go.
EntryAt(index, entry, end) ==
    [index EXCEPT ![entry] = [keys |-> index[entry].keys, type |-> "MACRO", data |-> end]]
-----------------------------------------------------------------------------
\* The main loop records and plays one macro at a time.
Idle == recording_state = NotRecording /\ playback_state.remaining = 0

\* The new entry points at the end of the area, where the events will go.
BeginRecording(index, end, entry) ==
    /\ macro_index' = EntryAt(index, entry, end)
    /\ macros_end_offset' = end
    /\ recording_state' = [macro |-> end, cursor |-> EventsAt(end), index_entry |-> entry]
    /\ UNCHANGED <<playback_state, disturbed>>

ReRecord(key) ==
    LET entry == macro_idx_lookup(macro_index, key)
        left  == delete_macro_data(macro_index, macros_end_offset, macros, entry)
    IN  /\ entry # NULL
        /\ BeginRecording(left.index, left.end, entry)
        /\ macros' = left.data

RecordNew(key) ==
    /\ macro_idx_lookup(macro_index, key) = NULL
    /\ ~IndexFull(macro_index)
    /\ BeginRecording(macro_idx_create(macro_index, key), macros_end_offset,
                      CreatePosition(macro_index, key))
    /\ UNCHANGED macros

\* No entry is left: the failure tone.
StartFails(key) ==
    /\ macro_idx_lookup(macro_index, key) = NULL
    /\ IndexFull(macro_index)
    /\ UNCHANGED vars

\* Bound: a disturbed storage is followed to the end of its recording only.  Its
\* lengths may be no lengths any more; nothing is started on it before a reset.
macros_start_macro(key) ==
    Idle /\ ~disturbed /\ (ReRecord(key) \/ RecordNew(key) \/ StartFails(key))

Recorded == recording_state.cursor - EventsAt(recording_state.macro)

\* macro_record_hook: no test for the end of the area.  Bounds: the events of a
\* recording, and the modelled part of the chip.
macros_append(event) ==
    /\ recording_state # NotRecording
    /\ Recorded < MaxMacroLen
    /\ recording_state.cursor \in Addresses
    /\ macros' = [macros EXCEPT ![recording_state.cursor] = event]
    /\ recording_state' = [recording_state EXCEPT !.cursor = @ + 1]
    /\ UNCHANGED <<macro_index, macros_end_offset, playback_state, disturbed>>

\* macro_record_hook when the chip does not take the event: the recording is
\* given up with its entry.
macros_abort_macro ==
    /\ recording_state # NotRecording
    /\ macro_index' = macro_idx_remove(macro_index, recording_state.index_entry)
    /\ recording_state' = NotRecording
    /\ UNCHANGED <<macros_end_offset, macros, playback_state, disturbed>>

\* Ending a recording: an empty one removes the entry.
macros_commit_macro ==
    /\ recording_state # NotRecording
    /\ recording_state' = NotRecording
    /\ UNCHANGED <<playback_state, disturbed>>
    /\ \/ /\ Recorded = 0
          /\ macro_index' = macro_idx_remove(macro_index, recording_state.index_entry)
          /\ UNCHANGED <<macros_end_offset, macros>>
       \/ /\ Recorded # 0
          /\ macros' = [macros EXCEPT ![recording_state.macro] = Recorded]
          /\ macros_end_offset' =
                (macros_end_offset + Recorded + MACRO_DATA_HEADER_LEN) % 65536
          /\ UNCHANGED macro_index

MutPlaybackFromHeader(key) ==
    LET entry == macro_idx_lookup(macro_index, key)
    IN  /\ Idle /\ ~disturbed
        /\ entry # NULL /\ macro_index[entry].type = "MACRO"
        /\ playback_state' = [remaining |-> macros[macro_index[entry].data],
                              cursor |-> macro_index[entry].data]
        /\ UNCHANGED <<macro_index, macros_end_offset, macros, recording_state, disturbed>>

\* handle_state_normal finds a macro for the keys that are down.
macros_start_playback(key) ==
    LET entry == macro_idx_lookup(macro_index, key)
    IN  /\ Idle /\ ~disturbed
        /\ entry # NULL /\ macro_index[entry].type = "MACRO"
        /\ playback_state' = [remaining |-> macros[macro_index[entry].data],
                              cursor |-> EventsAt(macro_index[entry].data)]
        /\ UNCHANGED <<macro_index, macros_end_offset, macros, recording_state, disturbed>>

\* One event per report.
macros_fill_next_report ==
    /\ playback_state.remaining # 0
    /\ playback_state' = [remaining |-> playback_state.remaining - 1,
                          cursor |-> playback_state.cursor + 1]
    /\ UNCHANGED <<macro_index, macros_end_offset, macros, recording_state, disturbed>>
-----------------------------------------------------------------------------
DefLen == IF macro_def_infos = <<>> THEN 0 ELSE Len(macro_def_infos[1].hkeys)
DefSize == DefLen + MACRO_DATA_HEADER_LEN

\* Where the data of the nth factory macro starts.
DefStart(n) == (n - 1) * DefSize

\* The factory macros by ascending trigger: repeatedly the lowest one above the
\* last, from 0 on.
DefKeys == {macro_def_infos[n].lkey : n \in DOMAIN macro_def_infos} \ {0}

FactoryEntry(i) ==
    LET def == {n \in DOMAIN macro_def_infos :
                   /\ macro_def_infos[n].lkey \in DefKeys
                   /\ RankIn(DefKeys, macro_def_infos[n].lkey) = i}
        n   == CHOOSE n \in def : TRUE
    IN  IF def = {} THEN empty_entry
        ELSE [keys |-> macro_def_infos[n].lkey, type |-> "MACRO", data |-> DefStart(n)]

FactoryIndex == [i \in Entries |-> FactoryEntry(i)]

\* The macros themselves stay in the order of the table, one behind the other.
FactoryByte(a, old) ==
    LET here == {n \in DOMAIN macro_def_infos : a - DefStart(n) \in 0..(DefSize - 1)}
        n    == CHOOSE n \in here : TRUE
        pos  == a - DefStart(n)
    IN  CASE here = {} -> old
          [] here # {} /\ pos = 0 -> DefLen
          [] here # {} /\ pos \in 1..(MACRO_DATA_HEADER_LEN - 1) -> 0
          [] OTHER -> macro_def_infos[n].hkeys[pos - MACRO_DATA_HEADER_LEN + 1]

\* The macro part of config_reset_fully: macro_idx_reset_defaults, then
\* macros_reset_defaults.  The host may ask for it at any time; a recording or a
\* playback goes on over what it stored.
reset_defaults ==
    /\ disturbed' = (recording_state # NotRecording)
    /\ macro_index' = FactoryIndex
    /\ macros' = [a \in Addresses |-> FactoryByte(a, macros[a])]
    /\ macros_end_offset' = Len(macro_def_infos) * DefSize
    /\ UNCHANGED <<recording_state, playback_state>>

Init ==
    /\ macro_index = FactoryIndex
    /\ macros = [a \in Addresses |-> FactoryByte(a, 255)]
    /\ macros_end_offset = Len(macro_def_infos) * DefSize
    /\ recording_state = NotRecording
    /\ playback_state = NotPlaying
    /\ disturbed = FALSE

\* The client application gives a trigger a program: it reads the index, adds
\* the entry in its place and writes the index back, whatever the keyboard does.
ClientAddsProgram(key) ==
    /\ macro_idx_lookup(macro_index, key) = NULL /\ ~IndexFull(macro_index)
    /\ macro_index' = [macro_idx_create(macro_index, key)
                          EXCEPT ![CreatePosition(macro_index, key)] =
                              [keys |-> key, type |-> "PROGRAM", data |-> 0]]
    /\ disturbed' = (disturbed \/ recording_state # NotRecording)
    /\ UNCHANGED <<macros_end_offset, macros, recording_state, playback_state>>

Next ==
    \/ \E key \in Triggers : macros_start_macro(key)
    \/ \E event \in Events : macros_append(event)
    \/ macros_abort_macro
    \/ macros_commit_macro
    \/ \E key \in Triggers : macros_start_playback(key)
    \/ macros_fill_next_report
    \/ reset_defaults
    \/ \E key \in ProgramTriggers : ClientAddsProgram(key)

Spec == Init /\ [][Next]_vars
-----------------------------------------------------------------------------
(***************************************************************************)
(* Properties.                                                             *)
(***************************************************************************)

\* The type of every variable; every offset fits the 15 bits it is stored in.
TypeOK ==
    /\ macro_index \in [Entries -> [keys : Triggers \cup {NO_TRIGGER},
                                    type : {"MACRO", "PROGRAM"}, data : 0..32767]]
    /\ macros_end_offset \in 0..32767
    /\ DOMAIN macros = Addresses
    /\ recording_state.index_entry \in Entries \cup {NULL}
    /\ playback_state.remaining \in 0..32767
    /\ disturbed \in BOOLEAN

\* Used entries come first and ascend strictly, so that bisection finds every
\* trigger and no trigger has two entries.
IndexSorted ==
    \A i, j \in Entries : i < j =>
        \/ macro_index[i].keys < macro_index[j].keys
        \/ macro_index[j].keys = NO_TRIGGER

Committed ==
    {i \in Entries : /\ macro_index[i].keys # NO_TRIGGER
                     /\ macro_index[i].type = "MACRO"
                     /\ i # recording_state.index_entry}

SizeOf(i) == macros[macro_index[i].data] + MACRO_DATA_HEADER_LEN

BytesOf(i) == macro_index[i].data..(macro_index[i].data + SizeOf(i) - 1)

\* The committed macros fill the area up to the end offset without gaps and
\* without overlaps, whatever was recorded, replaced or deleted in between, and
\* a recording goes right behind them.  A host request in a recording undoes it.
DataPacked ==
    /\ UNION {BytesOf(i) : i \in Committed} = 0..(macros_end_offset - 1)
    /\ \A i, j \in Committed : i # j => BytesOf(i) \cap BytesOf(j) = {}
    /\ recording_state # NotRecording =>
          /\ recording_state.macro = macros_end_offset
          /\ macro_index[recording_state.index_entry].data = macros_end_offset

\* macros_append refuses an event that does not fit the area any more.
RecordingInArea ==
    recording_state # NotRecording /\ Recorded > 0 => recording_state.cursor <= MACROS_SIZE
-----------------------------------------------------------------------------
(***************************************************************************)
(* The storage implements MacroStore.                                      *)
(***************************************************************************)
Bytes(from, n) == [k \in 1..n |-> macros[from + k - 1]]

Factory ==
    [k \in {macro_def_infos[n].lkey : n \in DOMAIN macro_def_infos} |->
        [type |-> "MACRO",
         events |-> macro_def_infos[CHOOSE n \in DOMAIN macro_def_infos :
                                       macro_def_infos[n].lkey = k].hkeys]]

StoredEntries ==
    {i \in Entries : macro_index[i].keys # NO_TRIGGER /\ i # recording_state.index_entry}

Stored ==
    [k \in {macro_index[i].keys : i \in StoredEntries} |->
        LET i == CHOOSE i \in StoredEntries : macro_index[i].keys = k
        IN  IF macro_index[i].type = "MACRO"
            THEN [type |-> "MACRO",
                  events |-> Bytes(EventsAt(macro_index[i].data), macros[macro_index[i].data])]
            ELSE [type |-> "PROGRAM"]]

RecordingNow ==
    IF recording_state = NotRecording THEN <<>>
    ELSE <<macro_index[recording_state.index_entry].keys,
           Bytes(EventsAt(recording_state.macro), Recorded)>>

\* What a disturbed storage holds is no map.
StoredNow == IF disturbed THEN <<>> ELSE Stored

Store == INSTANCE MacroStore WITH
    Capacity <- MACRO_INDEX_COUNT,
    store <- StoredNow,
    lost <- disturbed,
    recording <- RecordingNow,
    playing <- Bytes(playback_state.cursor, playback_state.remaining)

\* Index and data together behave as a map from triggers to macros: recording,
\* replacing or deleting one leaves all the others as they were, and playback
\* sends exactly the recorded events, until the host disturbs a recording.
ImplementsStore == Store!StoreSpec
=============================================================================
