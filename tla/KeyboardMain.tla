---------------------------- MODULE KeyboardMain ----------------------------
(***************************************************************************)
(* The main loop (Keyboard.c): Keyboard_Main scans the keys, saves an      *)
(* edited setting, runs the handler of the current state and lets the host *)
(* fetch reports, over and over.  The key state is abstracted to the set   *)
(* of keys that are down (KeyState shows that key_press_count is its       *)
(* size), the macro storage to the map of MacroStore, the layout backups   *)
(* to the mappings that a load may bring.                                  *)
(***************************************************************************)
EXTENDS Integers, FiniteSets, FiniteSetsExt, Functions

CONSTANTS
    Boards,            \* the keyboards the firmware is built for
    MACRO_INDEX_COUNT, \* entries of the macro index
    MAX_DEBOUNCE_LEN,  \* rows of the debounce ring
    MAX_DIV,           \* largest mouse and wheel divider (254)
    FactorySettings,   \* settings after a full reset
    NoKeyAlias,        \* the physical key that NO_KEY is taken for
    MaxEvents,         \* bound: recorded events that are told apart
    MessageLen         \* characters of a message

\* What keys mean.  The chord keys are plain keys outside of a chord.
NoRemap == {"PROGRAM", "MACRO_SHIFT"}
Modifiers == {"LEFT_CONTROL"}
LayoutChords == {"CONFIG_SAVE", "CONFIG_LOAD", "CONFIG_DELETE"}
Settings == {"DEBOUNCE", "MOUSE_DIV", "WHEEL_DIV"}
UpKey == [DEBOUNCE |-> "DEBOUNCE_UP", MOUSE_DIV |-> "MOUSE_DIV_UP", WHEEL_DIV |-> "WHEEL_DIV_UP"]
DownKey == [DEBOUNCE |-> "DEBOUNCE_DW", MOUSE_DIV |-> "MOUSE_DIV_DW", WHEEL_DIV |-> "WHEEL_DIV_DW"]
SettingChords == Range(UpKey) \cup Range(DownKey)
Codes == NoRemap \cup Modifiers \cup LayoutChords \cup SettingChords \cup
         {"PLAIN", "OTHER", "DIGIT", "MACRO_RECORD", "REMAP", "REBOOT", "MACROS_ENABLE",
          "RESET_CONFIG", "RESET_FULLY", "TOGGLE_BUZZER"}

States == {"NORMAL", "WAITING", "PRINTING", "PROGRAMMING_SRC", "PROGRAMMING_DST",
           "MACRO_RECORD_TRIGGER", "MACRO_RECORD", "MERGING_MACRO_PLAY", "MACRO_PLAY"}

Lowest == [DEBOUNCE |-> 2, MOUSE_DIV |-> 1, WHEEL_DIV |-> 1]
Highest == [DEBOUNCE |-> MAX_DEBOUNCE_LEN, MOUSE_DIV |-> MAX_DIV, WHEEL_DIV |-> MAX_DIV]

Flags == [macros_enabled : BOOLEAN, programs_enabled : BOOLEAN, key_sound_enabled : BOOLEAN]
Entry == [type : {"MACRO", "PROGRAM"}, len : 0..MaxEvents]

\* A board is its factory mapping of keys, by code, to meanings; the mappings of
\* its saved layouts; its macro index after a full reset, trigger -> entry, with
\* room for all its triggers and no macro without events; the flags of an earlier
\* session; and the keys of a trigger (4).
ASSUME MainAssumption ==
    /\ \A b \in Boards :
          /\ DOMAIN b.definition \subseteq Nat /\ IsFiniteSet(DOMAIN b.definition)
          /\ \A m \in b.backups \cup {b.definition} : m \in [DOMAIN b.definition -> Codes]
          /\ \A m \in b.backups, k \in DOMAIN b.definition :
                m[k] \in NoRemap \/ b.definition[k] \in NoRemap => m[k] = b.definition[k]
          /\ Cardinality(DOMAIN b.index) <= MACRO_INDEX_COUNT
          /\ \A t \in DOMAIN b.index :
                /\ t \subseteq DOMAIN b.definition /\ Cardinality(t) \in 1..b.max_keys
                /\ b.index[t] \in Entry
                /\ b.index[t].type = "MACRO" => b.index[t].len > 0
          /\ b.flags \subseteq Flags /\ b.max_keys \in Nat \ {0, 1}
    /\ MACRO_INDEX_COUNT \in Nat /\ MaxEvents \in Nat \ {0} /\ MessageLen \in Nat \ {0}
    /\ MAX_DEBOUNCE_LEN \in Nat /\ MAX_DIV \in Nat
    /\ \A s \in Settings : FactorySettings[s] \in Lowest[s]..Highest[s]

VARIABLES
    board,                      \* the keyboard
    pc,                         \* where the loop is: scan, handle, report, control
    update_keys,                \* an odd millisecond has passed since the last scan
    down,                       \* keys down
    hidden,                     \* keys down that are hidden
    base,                       \* the base layer is forced
    definition,                 \* the mapping in force
    flags,                      \* configuration_flags
    saved_value,                \* the saved settings
    current_state, next_state, wait_key_press_count,
    in_prg_chord_with_lcd_info, \* a setting is being edited
    new_value,                  \* new_debounce_len, new_mouse_div, new_wheel_div
    program_src_hkey,           \* the meaning to assign
    key,                        \* static of the trigger handler: the keys so far
    index,                      \* macro index and data: trigger -> entry
    recording,                  \* trigger being recorded, {} if none
    recorded,                   \* its events so far, counted up to MaxEvents
    recording_macro,            \* the hook is registered
    remaining,                  \* events left to play
    print_left,                 \* characters left to print
    prev_report,                \* the last report had a key
    seen,                       \* history: keys down since the trigger state began
    changed                     \* history: keys changed since the last playback began

loopVars == <<pc, update_keys>>
keyVars == <<down, hidden, base>>
configVars == <<definition, flags, saved_value>>
stateVars == <<current_state, next_state, wait_key_press_count>>
editVars == <<in_prg_chord_with_lcd_info, new_value>>
triggerVars == <<key, seen>>
recordVars == <<index, recording, recorded, recording_macro>>
printVars == <<print_left, prev_report>>
vars == <<board, loopVars, keyVars, configVars, stateVars, editVars, program_src_hkey,
          triggerVars, recordVars, remaining, printVars, changed>>
-----------------------------------------------------------------------------
DefaultDefinition == board.definition
Keys == DOMAIN DefaultDefinition
Backups == board.backups
InitIndex == board.index
MACRO_MAX_KEYS == board.max_keys

Mappings == [Keys -> Codes]

key_press_count == Cardinality(down)

\* The other static of the trigger handler; keys are only kept with a count.
last_count == Cardinality(key)

Meanings(S) == {definition[k] : k \in S}

\* keystate_check_keys(2, HID, SPECIAL_HID_KEY_PROGRAM, code)
ProgramAnd(code) == {"PROGRAM", code} \subseteq Meanings(down)

Goto(state, next) == current_state' = state /\ next_state' = next /\ UNCHANGED wait_key_press_count

NoEdits == [s \in Settings |-> 0]
-----------------------------------------------------------------------------
(***************************************************************************)
(* The start of an iteration: perhaps a scan, then the settings.           *)
(***************************************************************************)

\* update_layer: the last program or macro-shift key that changes, in the order of
\* the slots, decides whether the base layer is forced.
BaseAfter(now) ==
    LET steered == {k \in Keys : definition[k] \in NoRemap /\ (k \in now) # (k \in down)}
    IN  IF steered = {} THEN {base} ELSE {b \in BOOLEAN : \E k \in steered : b = (k \in now)}

\* The changes the hook hears of: when the layer changes, every held key is
\* released and pressed again.
Heard(now) ==
    LET typed(S) == {k \in S : definition[k] \notin NoRemap}
    IN  Cardinality(typed(now \ down)) + Cardinality(typed(down \ now))
        + (IF base' # base THEN 2 * Cardinality(typed(now \cap down)) ELSE 0)

\* macro_record_hook: nothing is recorded while the program key is down.  All slots have
\* their new state before the first notification, so each call of the hook sees the
\* keys the scan ends with.
HookEvents(now) ==
    IF recording_macro /\ "PROGRAM" \notin Meanings(now) THEN Heard(now) ELSE 0

Appended(n) == Min({recorded + n, MaxEvents})

\* The chip takes all events.
EventsRecorded(now) ==
    /\ recorded' = Appended(HookEvents(now))
    /\ UNCHANGED <<stateVars, index, recording, recording_macro>>

MutEventRefusedKeepsHook(now) ==
    /\ HookEvents(now) > 0
    /\ recording' = {} /\ recorded' = 0
    /\ Goto("WAITING", "NORMAL")
    /\ UNCHANGED <<index, recording_macro>>

\* The chip refuses one (only the I2C chip says so): the recording is given up.
EventRefused(now) ==
    /\ HookEvents(now) > 0
    /\ recording_macro' = FALSE
    /\ recording' = {} /\ recorded' = 0
    /\ Goto("WAITING", "NORMAL")
    /\ UNCHANGED index

keystate_update(now) ==
    /\ down' = now
    /\ hidden' = hidden \cap now
    /\ base' \in BaseAfter(now)
    /\ changed' = (changed \/ now # down)
    /\ EventsRecorded(now) \/ EventRefused(now)

NoScan == UNCHANGED <<keyVars, changed, stateVars, recordVars>>

\* The edited setting is saved when no key is down any more.
SaveSettings ==
    IF in_prg_chord_with_lcd_info /\ down' = {}
    THEN /\ in_prg_chord_with_lcd_info' = FALSE
         /\ saved_value' = [s \in Settings |->
                IF new_value[s] # 0 THEN new_value[s] ELSE saved_value[s]]
         /\ new_value' = NoEdits
    ELSE UNCHANGED <<editVars, saved_value>>

\* Keys are scanned in an even millisecond if the loop saw an odd one since.
Sense ==
    /\ pc = "scan" /\ pc' = "handle"
    /\ \E slice \in 0..1 :
          /\ update_keys' = (slice = 1)
          /\ IF slice = 0 /\ update_keys
             THEN \E now \in SUBSET Keys : keystate_update(now)
             ELSE NoScan
    /\ SaveSettings
    /\ seen' = IF current_state = "MACRO_RECORD_TRIGGER" THEN seen \cup down' ELSE {}
    /\ UNCHANGED <<board, definition, flags, program_src_hkey, key, remaining, printVars>>
-----------------------------------------------------------------------------
(***************************************************************************)
(* handle_state_normal: chords with the program key.                       *)
(***************************************************************************)

\* count keys are down, one is a program key, and the others mean codes.
Chord(count, codes) ==
    /\ key_press_count = count /\ count <= MACRO_MAX_KEYS
    /\ \E p \in down : definition[p] = "PROGRAM" /\ Meanings(down \ {p}) = codes

ChordChangesState ==
    /\ \/ Chord(2, {"MACRO_RECORD"}) /\ Goto("WAITING", "MACRO_RECORD_TRIGGER")
       \/ Chord(2, {"REMAP"}) /\ Goto("WAITING", "PROGRAMMING_SRC")
    /\ UNCHANGED <<configVars, editVars, index, printVars>>

\* Macros off, macros only, macros and programs, off again.
NextFlags ==
    IF flags.programs_enabled
    THEN [flags EXCEPT !.programs_enabled = FALSE, !.macros_enabled = FALSE]
    ELSE IF flags.macros_enabled THEN [flags EXCEPT !.programs_enabled = TRUE]
    ELSE [flags EXCEPT !.macros_enabled = TRUE]

ChordChangesFlags ==
    /\ \/ Chord(2, {"MACROS_ENABLE"}) /\ flags' = NextFlags
       \/ /\ Chord(2, {"TOGGLE_BUZZER"})
          /\ flags' = [flags EXCEPT !.key_sound_enabled = ~@]
    /\ Goto("WAITING", "NORMAL")
    /\ UNCHANGED <<definition, saved_value, editVars, index, printVars>>

\* config_reset_defaults
ChordResetsLayout ==
    /\ Chord(2, {"RESET_CONFIG"})
    /\ definition' = DefaultDefinition
    /\ Goto("WAITING", "NORMAL")
    /\ UNCHANGED <<flags, saved_value, editVars, index, printVars>>

\* config_reset_fully, as far as the main loop sees it.
ResetFully ==
    /\ definition' = DefaultDefinition
    /\ flags' = [macros_enabled |-> FALSE, programs_enabled |-> FALSE, key_sound_enabled |-> FALSE]
    /\ saved_value' = FactorySettings
    /\ index' = InitIndex

ChordResetsFully ==
    /\ Chord(3, {"RESET_CONFIG", "RESET_FULLY"})
    /\ ResetFully
    /\ Goto("WAITING", "NORMAL")
    /\ UNCHANGED <<editVars, printVars>>

\* Saving, loading or deleting a layout; a failure is printed.
ChordUsesLayout ==
    /\ \E op \in LayoutChords :
          /\ Chord(3, {op, "DIGIT"})
          /\ \/ /\ op = "CONFIG_LOAD"
                /\ definition' \in Backups
                /\ Goto("WAITING", "NORMAL")
                /\ UNCHANGED print_left
             \/ /\ op # "CONFIG_LOAD"
                /\ Goto("WAITING", "NORMAL")
                /\ UNCHANGED <<definition, print_left>>
             \/ /\ print_left' = MessageLen
                /\ Goto("PRINTING", "NORMAL")
                /\ UNCHANGED definition
    /\ UNCHANGED <<flags, saved_value, editVars, index, prev_report>>

\* One more or one less, from the second press on.
Edited(s, up) ==
    IF ~in_prg_chord_with_lcd_info THEN saved_value[s]
    ELSE IF up THEN Min({new_value[s] + 1, Highest[s]})
    ELSE Max({new_value[s] - 1, Lowest[s]})

EditChord(s) == Chord(2, {UpKey[s]}) \/ Chord(2, {DownKey[s]})

MutOtherEditedNever(s) == FALSE

\* A chord for another setting than the one being edited is ignored.
OtherEdited(s) == in_prg_chord_with_lcd_info /\ new_value[s] = 0

ChordEditsSetting ==
    /\ \E s \in Settings :
          /\ EditChord(s)
          /\ IF OtherEdited(s) THEN UNCHANGED <<stateVars, editVars>>
             ELSE /\ new_value' = [new_value EXCEPT ![s] = Edited(s, Chord(2, {UpKey[s]}))]
                  /\ in_prg_chord_with_lcd_info' = TRUE
                  /\ wait_key_press_count' = 2
                  /\ current_state' = "WAITING" /\ next_state' = "NORMAL"
    /\ UNCHANGED <<configVars, index, printVars>>

ChordKnown ==
    \/ \E code \in {"MACRO_RECORD", "REMAP", "REBOOT", "MACROS_ENABLE", "RESET_CONFIG",
                    "TOGGLE_BUZZER"} \cup SettingChords : Chord(2, {code})
    \/ Chord(3, {"RESET_CONFIG", "RESET_FULLY"})
    \/ \E op \in LayoutChords : Chord(3, {op, "DIGIT"})

HandleChord ==
    /\ \/ ChordChangesState \/ ChordChangesFlags \/ ChordResetsLayout
       \/ ChordResetsFully \/ ChordUsesLayout \/ ChordEditsSetting
    /\ UNCHANGED <<hidden, recording, recorded, recording_macro, remaining, changed>>
-----------------------------------------------------------------------------
(***************************************************************************)
(* handle_state_normal: triggers.                                          *)
(***************************************************************************)

\* select_main_trigger_key
MainKey(trigger) ==
    LET typed == {k \in trigger : definition[k] \notin NoRemap \cup Modifiers}
    IN  IF typed # {} THEN Min(typed) ELSE Min(trigger)

\* The entry the keys select: their own, or the one of their main key.
Trigger ==
    IF down \in DOMAIN index THEN down ELSE {MainKey(down)}

\* The keys hidden for a program: those of its trigger, and whatever NO_KEY is
\* taken for when the main key stands for several.
HiddenBy(trigger) ==
    IF trigger = down THEN down ELSE (trigger \cup {NoKeyAlias}) \cap down

ProgramStarts ==
    /\ index[Trigger].type = "PROGRAM" /\ flags.programs_enabled
    /\ Min(Trigger) \notin hidden
    /\ hidden' = hidden \cup HiddenBy(Trigger)
    /\ UNCHANGED <<stateVars, remaining, changed>>

PlaybackStarts ==
    /\ index[Trigger].type = "MACRO" /\ flags.macros_enabled
    /\ remaining' = index[Trigger].len
    /\ wait_key_press_count' = key_press_count
    /\ hidden' = hidden \cup {MainKey(Trigger)}
    /\ current_state' = IF Trigger = down /\ key_press_count > 1
                        THEN "MACRO_PLAY" ELSE "MERGING_MACRO_PLAY"
    /\ changed' = FALSE
    /\ UNCHANGED next_state

\* The length cannot be read.
PlaybackFails ==
    /\ index[Trigger].type = "MACRO" /\ flags.macros_enabled
    /\ UNCHANGED <<stateVars, hidden, remaining, changed>>

Startable ==
    /\ key_press_count \in 1..MACRO_MAX_KEYS
    /\ flags.macros_enabled \/ flags.programs_enabled
    /\ Trigger \in DOMAIN index
    /\ CASE index[Trigger].type = "PROGRAM" ->
              flags.programs_enabled /\ Min(Trigger) \notin hidden
         [] OTHER -> flags.macros_enabled

HandleTrigger ==
    /\ ~ChordKnown
    /\ IF Startable THEN ProgramStarts \/ PlaybackStarts \/ PlaybackFails
       ELSE UNCHANGED <<stateVars, hidden, remaining, changed>>
    /\ UNCHANGED <<configVars, editVars, recordVars, printVars>>

handle_state_normal ==
    /\ current_state = "NORMAL"
    /\ HandleChord \/ HandleTrigger
    /\ UNCHANGED <<program_src_hkey, triggerVars>>
-----------------------------------------------------------------------------
(***************************************************************************)
(* The other states.                                                       *)
(***************************************************************************)

MutLeaveWaitingAnyCount == key_press_count = 0 \/ wait_key_press_count # 0

MutLeaveWaitingNeedsCount ==
    wait_key_press_count # 0 /\ key_press_count # wait_key_press_count

\* Until all keys are up or, if a count was noted, until it changes.
LeaveWaiting ==
    \/ key_press_count = 0
    \/ wait_key_press_count # 0 /\ key_press_count # wait_key_press_count

HandleWaiting ==
    /\ current_state = "WAITING"
    /\ IF LeaveWaiting
       THEN /\ wait_key_press_count' = 0
            /\ current_state' = next_state /\ next_state' = "NORMAL"
       ELSE UNCHANGED stateVars
    /\ UNCHANGED <<hidden, configVars, editVars, program_src_hkey, triggerVars, recordVars,
                    remaining, printVars, changed>>

HandlePrinting ==
    /\ current_state = "PRINTING"
    /\ current_state' = IF print_left = 0 THEN "WAITING" ELSE "PRINTING"
    /\ UNCHANGED <<next_state, wait_key_press_count, hidden, configVars, editVars,
                   program_src_hkey, triggerVars, recordVars, remaining, printVars, changed>>

\* Macros are played by the report callback.
HandlePlaying ==
    /\ current_state \in {"MACRO_PLAY", "MERGING_MACRO_PLAY"}
    /\ UNCHANGED <<stateVars, hidden, configVars, editVars, program_src_hkey, triggerVars,
                   recordVars, remaining, printVars, changed>>

MutProgrammingKeyAny(k) ==
    \/ /\ current_state = "PROGRAMMING_SRC"
       /\ program_src_hkey' = DefaultDefinition[k]
       /\ Goto("WAITING", "PROGRAMMING_DST")
       /\ UNCHANGED definition
    \/ /\ current_state = "PROGRAMMING_DST"
       /\ definition[k] \notin NoRemap
       /\ definition' = [definition EXCEPT ![k] = program_src_hkey]
       /\ Goto("WAITING", "PROGRAMMING_SRC")
       /\ UNCHANGED program_src_hkey

\* The one key that is down becomes the source, then the destination.
ProgrammingKey(k) ==
    /\ definition[k] \notin NoRemap
    /\ \/ /\ current_state = "PROGRAMMING_SRC"
          /\ program_src_hkey' = DefaultDefinition[k]
          /\ Goto("WAITING", "PROGRAMMING_DST")
          /\ UNCHANGED definition
       \/ /\ current_state = "PROGRAMMING_DST"
          /\ definition' = [definition EXCEPT ![k] = program_src_hkey]
          /\ Goto("WAITING", "PROGRAMMING_SRC")
          /\ UNCHANGED program_src_hkey

handle_state_programming ==
    /\ current_state \in {"PROGRAMMING_SRC", "PROGRAMMING_DST"}
    /\ \/ /\ key_press_count = 2 /\ ProgramAnd("REMAP")
          /\ Goto("WAITING", "NORMAL")
          /\ UNCHANGED <<definition, program_src_hkey>>
       \/ /\ key_press_count = 1
          /\ \E k \in down : ProgrammingKey(k)
       \/ /\ \/ key_press_count = 2 /\ ~ProgramAnd("REMAP")
             \/ key_press_count = 1 /\ Meanings(down) \subseteq NoRemap
             \/ key_press_count \notin 1..2
          /\ UNCHANGED <<stateVars, definition, program_src_hkey>>
    /\ UNCHANGED <<hidden, flags, saved_value, editVars, triggerVars, recordVars, remaining,
                   printVars, changed>>

\* macros_start_macro: what the trigger started before is gone.
StartRecording(trigger) ==
    IF trigger \in DOMAIN index \/ Cardinality(DOMAIN index) < MACRO_INDEX_COUNT
    THEN /\ index' = Restrict(index, DOMAIN index \ {trigger})
         /\ recording' = trigger /\ recorded' = 0
         /\ Goto("WAITING", "MACRO_RECORD")
    ELSE /\ Goto("WAITING", "NORMAL")
         /\ UNCHANGED <<index, recording, recorded>>

\* The keys down when most of them were; the first release ends the trigger.
handle_state_macro_record_trigger ==
    /\ current_state = "MACRO_RECORD_TRIGGER"
    /\ \/ /\ ProgramAnd("MACRO_RECORD")
          /\ Goto("WAITING", "NORMAL")
          /\ UNCHANGED <<key, index, recording, recorded>>
       \/ /\ ~ProgramAnd("MACRO_RECORD")
          /\ key_press_count > MACRO_MAX_KEYS
          /\ key' = {}
          /\ Goto("WAITING", "NORMAL")
          /\ UNCHANGED <<index, recording, recorded>>
       \/ /\ ~ProgramAnd("MACRO_RECORD")
          /\ key_press_count \in last_count..MACRO_MAX_KEYS
          /\ key' = down
          /\ UNCHANGED <<stateVars, index, recording, recorded>>
       \/ /\ ~ProgramAnd("MACRO_RECORD")
          /\ key_press_count < last_count
          /\ key' = {}
          /\ StartRecording(key)
    /\ UNCHANGED <<hidden, configVars, editVars, program_src_hkey, seen, recording_macro,
                   remaining, printVars, changed>>

\* macros_commit_macro: an empty recording leaves no macro.
Committed ==
    IF recorded = 0 THEN index
    ELSE [t \in DOMAIN index \cup {recording} |->
             IF t = recording THEN [type |-> "MACRO", len |-> recorded] ELSE index[t]]

handle_state_macro_record ==
    /\ current_state = "MACRO_RECORD"
    /\ IF ProgramAnd("MACRO_RECORD")
       THEN /\ recording_macro' = FALSE
            /\ index' = Committed
            /\ recording' = {} /\ recorded' = 0
            /\ Goto("WAITING", "NORMAL")
       ELSE /\ recording_macro' = TRUE
            /\ UNCHANGED <<stateVars, index, recording, recorded>>
    /\ UNCHANGED <<hidden, configVars, editVars, program_src_hkey, triggerVars, remaining,
                   printVars, changed>>

Handle ==
    /\ pc = "handle" /\ pc' = "report"
    /\ \/ handle_state_normal \/ HandleWaiting \/ HandlePrinting \/ HandlePlaying
       \/ handle_state_programming \/ handle_state_macro_record_trigger
       \/ handle_state_macro_record
    /\ UNCHANGED <<board, update_keys, down, base>>
-----------------------------------------------------------------------------
(***************************************************************************)
(* Reports.                                                                *)
(***************************************************************************)

\* keystate_Fill_KeyboardReport: a program key that is down fills the report.
KeysReported == \E k \in down \ hidden : definition[k] # "MACRO_SHIFT"

\* macros_fill_next_report: one event, and the end of the macro with the last
\* one or with one that cannot be read.
PlayEvent ==
    /\ current_state \in {"MACRO_PLAY", "MERGING_MACRO_PLAY"}
    /\ \/ remaining > 1 /\ remaining' = remaining - 1 /\ UNCHANGED stateVars
       \/ remaining' = 0 /\ Goto("WAITING", "NORMAL")
    /\ prev_report' \in BOOLEAN
    /\ UNCHANGED print_left

\* printing_Fill_KeyboardReport: a character, or the release of the last one.
PrintChar ==
    /\ current_state = "PRINTING"
    /\ prev_report' = ~prev_report
    /\ print_left' = IF prev_report THEN print_left ELSE print_left - 1
    /\ UNCHANGED <<stateVars, remaining>>

\* Programs add keys of their own in the normal state; in most other states
\* the report is empty.
ReportKeys ==
    /\ current_state \notin {"MACRO_PLAY", "MERGING_MACRO_PLAY", "PRINTING"}
    /\ prev_report' \in
          CASE current_state = "NORMAL" -> {KeysReported, TRUE}
            [] \/ current_state = "MACRO_RECORD"
               \/ current_state = "WAITING" /\ wait_key_press_count # 0 -> {KeysReported}
            [] OTHER -> {FALSE}
    /\ UNCHANGED <<stateVars, remaining, print_left>>

Fill_KeyboardReport ==
    /\ PlayEvent \/ PrintChar \/ ReportKeys
    /\ UNCHANGED <<board, update_keys, keyVars, configVars, editVars, program_src_hkey, triggerVars,
                   recordVars, changed>>

\* The endpoint takes a report.
SendReport == pc = "report" /\ pc' = "control" /\ Fill_KeyboardReport

\* The host asks for one more with a control request.
GetReport == pc = "control" /\ pc' = "scan" /\ Fill_KeyboardReport

NoReport ==
    /\ pc \in {"report", "control"} /\ pc' = "scan"
    /\ UNCHANGED <<board, update_keys, keyVars, configVars, stateVars, editVars, program_src_hkey,
                   triggerVars, recordVars, remaining, printVars, changed>>

\* The host writes the flags (those of a session, by bound), resets the layout or
\* resets everything, in any state.  A full reset inside a recording is in Macros.
HostRequest ==
    /\ pc \in {"report", "control"} /\ pc' = "scan"
    /\ \/ flags' \in board.flags /\ UNCHANGED <<definition, saved_value, index>>
       \/ definition' = DefaultDefinition /\ UNCHANGED <<flags, saved_value, index>>
       \/ recording = {} /\ ResetFully
    /\ UNCHANGED <<board, update_keys, keyVars, stateVars, editVars, program_src_hkey, triggerVars,
                   recording, recorded, recording_macro, remaining, printVars, changed>>

\* reboot_firmware: everything but the stored configuration starts anew.
Reboot ==
    /\ pc = "handle" /\ current_state = "NORMAL" /\ Chord(2, {"REBOOT"})
    /\ pc' = "scan" /\ update_keys' = FALSE
    /\ down' = {} /\ hidden' = {} /\ base' = FALSE
    /\ current_state' = "NORMAL" /\ next_state' = "NORMAL" /\ wait_key_press_count' = 0
    /\ in_prg_chord_with_lcd_info' = FALSE /\ new_value' = NoEdits
    /\ program_src_hkey' = "OTHER"
    /\ key' = {} /\ seen' = {}
    /\ recording' = {} /\ recorded' = 0 /\ recording_macro' = FALSE
    /\ remaining' = 0 /\ print_left' = 0 /\ prev_report' = FALSE /\ changed' = FALSE
    /\ UNCHANGED <<board, configVars, index>>
-----------------------------------------------------------------------------
\* Power up with flags of an earlier session.
Init ==
    /\ board \in Boards
    /\ pc = "scan" /\ update_keys = FALSE
    /\ down = {} /\ hidden = {} /\ base = FALSE
    /\ definition = DefaultDefinition
    /\ flags \in board.flags
    /\ saved_value = FactorySettings
    /\ current_state = "NORMAL" /\ next_state = "NORMAL" /\ wait_key_press_count = 0
    /\ in_prg_chord_with_lcd_info = FALSE /\ new_value = NoEdits
    /\ program_src_hkey = "OTHER"
    /\ key = {} /\ seen = {}
    /\ index = InitIndex
    /\ recording = {} /\ recorded = 0 /\ recording_macro = FALSE
    /\ remaining = 0 /\ print_left = 0 /\ prev_report = FALSE /\ changed = FALSE

Next == Sense \/ Handle \/ SendReport \/ GetReport \/ HostRequest \/ NoReport \/ Reboot

Spec == Init /\ [][Next]_vars

\* The loop never stops, and the host goes on polling the endpoint.
FairSpec == Spec /\ WF_vars(Next) /\ SF_vars(SendReport)
-----------------------------------------------------------------------------
(***************************************************************************)
(* Properties.                                                             *)
(***************************************************************************)
Triggers == {t \in SUBSET Keys : Cardinality(t) \in 1..MACRO_MAX_KEYS}

\* The type of every variable; the settings stay within their limits.
TypeOK ==
    /\ board \in Boards
    /\ pc \in {"scan", "handle", "report", "control"} /\ update_keys \in BOOLEAN
    /\ hidden \subseteq down /\ down \subseteq Keys /\ base \in BOOLEAN
    /\ definition \in Mappings /\ flags \in Flags
    /\ \A s \in Settings : saved_value[s] \in Lowest[s]..Highest[s]
    /\ current_state \in States /\ next_state \in States
    /\ wait_key_press_count \in 0..MACRO_MAX_KEYS
    /\ in_prg_chord_with_lcd_info \in BOOLEAN
    /\ program_src_hkey \in Codes
    /\ key \in Triggers \cup {{}} /\ seen \subseteq Keys
    /\ DOMAIN index \subseteq Triggers /\ Cardinality(DOMAIN index) <= MACRO_INDEX_COUNT
    /\ \A t \in DOMAIN index : index[t] \in Entry
    /\ recording \in Triggers \cup {{}} /\ recorded \in 0..MaxEvents
    /\ recording_macro \in BOOLEAN /\ remaining \in 0..MaxEvents

Playing == current_state \in {"MACRO_PLAY", "MERGING_MACRO_PLAY"}

\* A recording exists exactly while the recording state is entered or held, the
\* hook is only registered there, and a macro that plays has an event left and
\* runs beside no recording: macro.c may keep one of each in statics.
OneMacroAtATime ==
    /\ recording # {} <=>
          \/ current_state = "MACRO_RECORD"
          \/ current_state = "WAITING" /\ next_state = "MACRO_RECORD"
    /\ recording_macro => current_state = "MACRO_RECORD"
    /\ Playing => remaining > 0

\* A trigger that is held plays its macro once: between two starts of a
\* playback keys have gone down or up.
HeldTriggerPlaysOnce ==
    [][current_state = "NORMAL" /\ Playing' => changed]_vars

\* Whatever the chords, only one setting is edited at a time and it stays within
\* its limits; nothing is left to be saved once the chord is over.
OneSettingEdited ==
    /\ \A s, t \in Settings : new_value[s] # 0 /\ new_value[t] # 0 => s = t
    /\ \A s \in Settings : new_value[s] # 0 => new_value[s] \in Lowest[s]..Highest[s]
    /\ in_prg_chord_with_lcd_info <=> new_value # NoEdits

\* Remapping in two presses, loading and resetting never give a key a steering
\* meaning or take it away: the program key always opens the chords.
SteeringKeysFixed ==
    \A k \in Keys :
        definition[k] \in NoRemap \/ DefaultDefinition[k] \in NoRemap
        => definition[k] = DefaultDefinition[k]

Busy == current_state \in {"WAITING", "PRINTING", "MACRO_PLAY", "MERGING_MACRO_PLAY"}

\* If the user lets go of the keys again and again, the keyboard always comes
\* back from waiting, printing and playing.
ComesBack == ([]<>(down = {})) => (Busy ~> ~Busy)

\* The trigger of a recording is made of keys pressed since the trigger was
\* asked for.
TriggerPressedNow == [][recording = {} /\ recording' # {} => recording' \subseteq seen]_vars

\* No key goes down between the start of the recording state and the
\* registration of the hook: what passes through is recorded.
NothingMissed == current_state = "MACRO_RECORD" /\ ~recording_macro /\ pc = "handle" => down = {}
=============================================================================
