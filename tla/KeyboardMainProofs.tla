------------------------- MODULE KeyboardMainProofs -------------------------
(***************************************************************************)
(* Proofs about KeyboardMain, for every board: the steering keys stay, one *)
(* setting is edited at a time, one macro is recorded or played at a time, *)
(* and a trigger that is held plays its macro once.                        *)
(***************************************************************************)
EXTENDS KeyboardMain, Lemmas, FiniteSetTheorems, TLAPS

-----------------------------------------------------------------------------
(***************************************************************************)
(* Steering keys.                                                          *)
(***************************************************************************)

\* The meaning to assign is none of a steering key, so that assigning it
\* keeps the steering keys.
SteeringInv ==
    /\ board \in Boards
    /\ down \subseteq Keys
    /\ definition \in Mappings
    /\ program_src_hkey \in Codes \ NoRemap
    /\ SteeringKeysFixed

\* The factory mapping and every saved layout keep the steering keys.
LEMMA FactoryMappings ==
    ASSUME board \in Boards
    PROVE  /\ DefaultDefinition \in Mappings
           /\ \A m \in Backups : m \in Mappings
           /\ \A m \in Backups, k \in Keys :
                 m[k] \in NoRemap \/ DefaultDefinition[k] \in NoRemap
                 => m[k] = DefaultDefinition[k]
  BY MainAssumption DEF MainAssumption, DefaultDefinition, Mappings, Backups, Keys

\* The meaning that stands for none is not a steering meaning.
LEMMA OtherIsPlain == "OTHER" \in Codes \ NoRemap
  BY DEF Codes, NoRemap

\* Power up satisfies the invariant.
LEMMA InitSteering == Init => SteeringInv
<1> SUFFICES ASSUME Init PROVE SteeringInv
  OBVIOUS
<1>1. board \in Boards /\ down = {} /\ definition = DefaultDefinition
      /\ program_src_hkey = "OTHER"
  BY DEF Init
<1>2. QED
  BY <1>1, FactoryMappings, OtherIsPlain DEF SteeringInv, SteeringKeysFixed

\* Steps that leave the board alone, keep the keys, and change the mapping to the
\* factory's or to a saved one, or not at all.
LEMMA SteeringKept ==
    ASSUME SteeringInv, board' = board, down' \subseteq Keys,
           definition' \in {definition, DefaultDefinition} \cup Backups,
           program_src_hkey' \in {program_src_hkey, "OTHER"}
    PROVE  SteeringInv'
<1>1. DefaultDefinition' = DefaultDefinition /\ Keys' = Keys
      /\ Mappings' = Mappings
  BY DEF DefaultDefinition, Keys, Mappings
<1>2. definition' \in Mappings
  BY FactoryMappings DEF SteeringInv
<1>3. SteeringKeysFixed'
  BY <1>1, FactoryMappings DEF SteeringInv, SteeringKeysFixed
<1>4. QED
  BY <1>1, <1>2, <1>3, OtherIsPlain DEF SteeringInv

\* Assigning a meaning: neither it nor the one it replaces is a steering meaning.
LEMMA SteeringProgramming ==
    ASSUME SteeringInv, handle_state_programming, board' = board, down' = down
    PROVE  SteeringInv'
<1>1. DefaultDefinition' = DefaultDefinition /\ Keys' = Keys
      /\ Mappings' = Mappings
  BY DEF DefaultDefinition, Keys, Mappings
<1>2. CASE UNCHANGED <<definition, program_src_hkey>>
  BY <1>2, SteeringKept DEF SteeringInv
<1>3. ASSUME NEW k \in down, ProgrammingKey(k) PROVE SteeringInv'
  <2>1. k \in Keys /\ definition[k] \notin NoRemap
    BY <1>3 DEF SteeringInv, ProgrammingKey
  <2>2. DefaultDefinition[k] \in Codes \ NoRemap
    BY <2>1, FactoryMappings DEF SteeringInv, SteeringKeysFixed, Mappings
  <2>3. CASE program_src_hkey' = DefaultDefinition[k] /\ UNCHANGED definition
    BY <1>1, <2>2, <2>3 DEF SteeringInv, SteeringKeysFixed
  <2>4. CASE /\ definition' = [definition EXCEPT ![k] = program_src_hkey]
             /\ UNCHANGED program_src_hkey
    <3>1. definition' \in Mappings
      BY <2>4 DEF SteeringInv, Mappings
    <3>2. \A j \in Keys : definition'[j] = IF j = k THEN program_src_hkey ELSE definition[j]
      BY <2>4 DEF SteeringInv, Mappings
    <3>3. SteeringKeysFixed'
      BY <1>1, <2>2, <3>2 DEF SteeringInv, SteeringKeysFixed
    <3>4. QED
      BY <1>1, <2>4, <3>1, <3>3 DEF SteeringInv
  <2>5. QED
    BY <1>3, <2>3, <2>4 DEF ProgrammingKey
<1>4. QED
  BY <1>2, <1>3 DEF handle_state_programming

\* Every step keeps the steering keys.
LEMMA NextSteering == SteeringInv /\ [Next]_vars => SteeringInv'
<1> SUFFICES ASSUME SteeringInv, [Next]_vars PROVE SteeringInv'
  OBVIOUS
<1>1. CASE Sense
  <2>1. board' = board /\ definition' = definition /\ program_src_hkey' = program_src_hkey
    BY <1>1 DEF Sense
  <2>2. down' \in SUBSET Keys
    BY <1>1 DEF Sense, keystate_update, NoScan, keyVars, SteeringInv
  <2>3. QED
    BY <2>1, <2>2, SteeringKept
<1>2. CASE Handle
  <2>1. board' = board /\ down' = down
    BY <1>2 DEF Handle
  <2>2. CASE handle_state_normal
    <3>1. program_src_hkey' = program_src_hkey
      BY <2>2 DEF handle_state_normal
    <3>2. CASE HandleChord
      <4>1. definition' \in {definition, DefaultDefinition} \cup Backups
        BY <3>2 DEF HandleChord, ChordChangesState, ChordChangesFlags, ChordResetsLayout,
             ChordResetsFully, ResetFully, ChordUsesLayout, ChordEditsSetting, configVars
      <4>2. QED
        BY <2>1, <3>1, <4>1, SteeringKept DEF SteeringInv
    <3>3. CASE HandleTrigger
      <4>1. definition' = definition
        BY <3>3 DEF HandleTrigger, configVars
      <4>2. QED
        BY <2>1, <3>1, <4>1, SteeringKept DEF SteeringInv
    <3>4. QED
      BY <2>2, <3>2, <3>3 DEF handle_state_normal
  <2>3. CASE handle_state_programming
    BY <2>1, <2>3, SteeringProgramming
  <2>4. CASE \/ HandleWaiting \/ HandlePrinting \/ HandlePlaying
             \/ handle_state_macro_record_trigger \/ handle_state_macro_record
    <3>1. definition' = definition /\ program_src_hkey' = program_src_hkey
      BY <2>4 DEF HandleWaiting, HandlePrinting, HandlePlaying,
           handle_state_macro_record_trigger, handle_state_macro_record, configVars
    <3>2. QED
      BY <2>1, <3>1, SteeringKept DEF SteeringInv
  <2>5. QED
    BY <1>2, <2>2, <2>3, <2>4 DEF Handle
<1>3. CASE SendReport \/ GetReport \/ NoReport \/ UNCHANGED vars
  <2>1. /\ board' = board /\ down' = down /\ definition' = definition
        /\ program_src_hkey' = program_src_hkey
    BY <1>3 DEF SendReport, GetReport, NoReport, Fill_KeyboardReport, keyVars, configVars, vars
  <2>2. QED
    BY <2>1, SteeringKept DEF SteeringInv
<1>4. CASE Reboot
  BY <1>4, SteeringKept DEF Reboot, configVars
<1>5. CASE HostRequest
  <2>1. /\ board' = board /\ down' = down /\ program_src_hkey' = program_src_hkey
        /\ definition' \in {definition, DefaultDefinition}
    BY <1>5 DEF HostRequest, ResetFully, keyVars
  <2>2. QED
    BY <2>1, SteeringKept DEF SteeringInv
<1>6. QED
  BY <1>1, <1>2, <1>3, <1>4, <1>5 DEF Next

\* Remapping in two presses, loading a layout and the resets (Keyboard.c:442,
\* config.c) keep the program and macro-shift keys, on every board.
THEOREM SteeringStays == Spec => []SteeringKeysFixed
<1>1. SteeringInv => SteeringKeysFixed
  BY DEF SteeringInv
<1>2. QED
  BY <1>1, InitSteering, NextSteering, PTL DEF Spec
-----------------------------------------------------------------------------
(***************************************************************************)
(* Settings.                                                               *)
(***************************************************************************)

\* A saved setting is within its limits, so it is not zero, which stands for no
\* edit; the edit that starts from it is told from no edit.
EditInv ==
    /\ \A s \in Settings : saved_value[s] \in Lowest[s]..Highest[s]
    /\ new_value \in [Settings -> Nat]
    /\ in_prg_chord_with_lcd_info \in BOOLEAN
    /\ OneSettingEdited

\* The smaller and the larger of two numbers.
LEMMA MinMaxOfTwo ==
    \A a, b \in Int : /\ Min({a, b}) = IF a <= b THEN a ELSE b
                      /\ Max({a, b}) = IF a >= b THEN a ELSE b
<1> SUFFICES ASSUME NEW a \in Int, NEW b \in Int
             PROVE  /\ Min({a, b}) = IF a <= b THEN a ELSE b
                    /\ Max({a, b}) = IF a >= b THEN a ELSE b
  OBVIOUS
<1>1. \E x \in {a, b} : \A y \in {a, b} : x <= y
  OBVIOUS
<1>2. \E x \in {a, b} : \A y \in {a, b} : x >= y
  OBVIOUS
<1>3. Min({a, b}) \in {a, b} /\ \A y \in {a, b} : Min({a, b}) <= y
  BY <1>1 DEF Min
<1>4. Max({a, b}) \in {a, b} /\ \A y \in {a, b} : Max({a, b}) >= y
  BY <1>2 DEF Max
<1>5. QED
  BY <1>3, <1>4

\* No limit is zero and none excludes the factory's value.
LEMMA LimitFacts ==
    \A s \in Settings : Lowest[s] \in Nat \ {0} /\ Highest[s] \in Nat /\ Lowest[s] <= Highest[s]
<1>1. \A s \in Settings : Lowest[s] \in Nat \ {0} /\ Highest[s] \in Nat
  BY MainAssumption DEF MainAssumption, Settings, Lowest, Highest
<1>2. \A s \in Settings : FactorySettings[s] \in Lowest[s]..Highest[s]
  BY MainAssumption DEF MainAssumption
<1>3. QED
  BY <1>1, <1>2

\* Power up satisfies the invariant.
LEMMA InitEdit == Init => EditInv
<1> SUFFICES ASSUME Init PROVE EditInv
  OBVIOUS
<1>1. /\ saved_value = FactorySettings /\ new_value = NoEdits
      /\ in_prg_chord_with_lcd_info = FALSE
  BY DEF Init
<1>2. \A s \in Settings : FactorySettings[s] \in Lowest[s]..Highest[s]
  BY MainAssumption DEF MainAssumption
<1>3. NoEdits \in [Settings -> Nat] /\ \A s \in Settings : NoEdits[s] = 0
  BY DEF NoEdits
<1>4. OneSettingEdited
  BY <1>1, <1>3 DEF OneSettingEdited
<1>5. QED
  BY <1>1, <1>2, <1>3, <1>4 DEF EditInv

\* A press of the chord brings the setting to a value within its limits.
LEMMA EditedInLimits ==
    ASSUME EditInv, NEW s \in Settings, NEW up \in BOOLEAN, ~OtherEdited(s)
    PROVE  Edited(s, up) \in Lowest[s]..Highest[s]
<1>1. CASE ~in_prg_chord_with_lcd_info
  BY <1>1 DEF Edited, EditInv
<1>2. CASE in_prg_chord_with_lcd_info
  <2>1. new_value[s] # 0
    BY <1>2 DEF OtherEdited
  <2>2. new_value[s] \in Lowest[s]..Highest[s]
    BY <2>1 DEF EditInv, OneSettingEdited
  <2>3. Min({new_value[s] + 1, Highest[s]}) \in Lowest[s]..Highest[s]
    BY <2>2, MinMaxOfTwo, LimitFacts
  <2>4. Max({new_value[s] - 1, Lowest[s]}) \in Lowest[s]..Highest[s]
    <3>1. /\ new_value[s] - 1 \in Int /\ new_value[s] - 1 <= Highest[s]
          /\ Lowest[s] \in Int /\ Highest[s] \in Int /\ Lowest[s] <= Highest[s]
      BY <2>2, LimitFacts
    <3>2. Max({new_value[s] - 1, Lowest[s]}) =
             IF new_value[s] - 1 >= Lowest[s] THEN new_value[s] - 1 ELSE Lowest[s]
      BY <3>1, MinMaxOfTwo
    <3>3. QED
      BY <3>1, <3>2
  <2>5. QED
    BY <1>2, <2>3, <2>4 DEF Edited
<1>3. QED
  BY <1>1, <1>2

\* A chord edits one setting: the others have no edit.
LEMMA ChordKeepsEdit ==
    ASSUME EditInv, ChordEditsSetting
    PROVE  EditInv'
<1>1. PICK s \in Settings :
         IF OtherEdited(s) THEN UNCHANGED <<stateVars, editVars>>
         ELSE /\ new_value' = [new_value EXCEPT ![s] = Edited(s, Chord(2, {UpKey[s]}))]
              /\ in_prg_chord_with_lcd_info' = TRUE
  BY DEF ChordEditsSetting
<1>2. saved_value' = saved_value
  BY DEF ChordEditsSetting, configVars
<1>3. CASE OtherEdited(s)
  <2>1. UNCHANGED editVars
    BY <1>1, <1>3
  <2>2. QED
    BY <1>2, <2>1 DEF EditInv, OneSettingEdited, editVars
<1>4. CASE ~OtherEdited(s)
  <2> DEFINE v == Edited(s, Chord(2, {UpKey[s]}))
  <2>1. Chord(2, {UpKey[s]}) \in BOOLEAN
    BY DEF Chord
  <2>2. v \in Lowest[s]..Highest[s]
    BY <1>4, <2>1, EditedInLimits
  <2>3. v \in Nat \ {0}
    BY <2>2, LimitFacts
  <2> HIDE DEF v
  <2>4. new_value' = [new_value EXCEPT ![s] = v] /\ in_prg_chord_with_lcd_info' = TRUE
    BY <1>1, <1>4 DEF v
  <2>5. new_value' \in [Settings -> Nat] /\ new_value'[s] = v
    BY <2>3, <2>4 DEF EditInv
  <2>6. \A t \in Settings \ {s} : new_value'[t] = new_value[t]
    BY <2>4 DEF EditInv
  <2>7. \A t \in Settings \ {s} : new_value[t] = 0
    <3>1. CASE in_prg_chord_with_lcd_info
      BY <1>4, <3>1 DEF OtherEdited, EditInv, OneSettingEdited
    <3>2. CASE ~in_prg_chord_with_lcd_info
      BY <3>2 DEF EditInv, OneSettingEdited, NoEdits
    <3>3. QED
      BY <3>1, <3>2
  <2>8. new_value' # NoEdits
    BY <2>3, <2>5 DEF NoEdits
  <2>9. OneSettingEdited'
    BY <2>2, <2>4, <2>5, <2>6, <2>7, <2>8 DEF OneSettingEdited
  <2>10. QED
    BY <1>2, <2>4, <2>5, <2>9 DEF EditInv
<1>5. QED
  BY <1>3, <1>4

\* Every step keeps the invariant.
LEMMA NextEdit == EditInv /\ [Next]_vars => EditInv'
<1> SUFFICES ASSUME EditInv, [Next]_vars PROVE EditInv'
  OBVIOUS
<1>1. NoEdits \in [Settings -> Nat] /\ \A s \in Settings : NoEdits[s] = 0
  BY DEF NoEdits
<1>2. CASE UNCHANGED <<editVars, saved_value>>
  BY <1>2 DEF EditInv, OneSettingEdited, editVars
<1>3. CASE /\ in_prg_chord_with_lcd_info' = FALSE /\ new_value' = NoEdits
           /\ \A s \in Settings : saved_value'[s] \in Lowest[s]..Highest[s]
  <2>1. OneSettingEdited'
    BY <1>1, <1>3 DEF OneSettingEdited
  <2>2. QED
    BY <1>1, <1>3, <2>1 DEF EditInv
<1>4. CASE ResetFully /\ UNCHANGED editVars
  <2>1. saved_value' = FactorySettings
    BY <1>4 DEF ResetFully
  <2>2. \A s \in Settings : saved_value'[s] \in Lowest[s]..Highest[s]
    BY <2>1, MainAssumption DEF MainAssumption
  <2>3. QED
    BY <1>4, <2>2 DEF EditInv, OneSettingEdited, editVars
<1>5. CASE Sense
  <2>1. CASE /\ in_prg_chord_with_lcd_info' = FALSE
             /\ saved_value' = [s \in Settings |->
                    IF new_value[s] # 0 THEN new_value[s] ELSE saved_value[s]]
             /\ new_value' = NoEdits
    <3>1. \A s \in Settings : saved_value'[s] \in Lowest[s]..Highest[s]
      BY <2>1 DEF EditInv, OneSettingEdited
    <3>2. QED
      BY <1>3, <2>1, <3>1
  <2>2. QED
    BY <1>2, <1>5, <2>1 DEF Sense, SaveSettings
<1>6. CASE Handle
  <2>1. CASE HandleChord
    <3>1. CASE ChordEditsSetting
      BY <3>1, ChordKeepsEdit
    <3>2. CASE ChordResetsFully
      BY <1>4, <3>2 DEF ChordResetsFully
    <3>3. CASE \/ ChordChangesState \/ ChordChangesFlags \/ ChordResetsLayout \/ ChordUsesLayout
      BY <1>2, <3>3 DEF ChordChangesState, ChordChangesFlags, ChordResetsLayout, ChordUsesLayout,
         configVars
    <3>4. QED
      BY <2>1, <3>1, <3>2, <3>3 DEF HandleChord
  <2>2. CASE \/ HandleTrigger \/ HandleWaiting \/ HandlePrinting \/ HandlePlaying
             \/ handle_state_programming \/ handle_state_macro_record_trigger
             \/ handle_state_macro_record
    BY <1>2, <2>2 DEF HandleTrigger, HandleWaiting, HandlePrinting, HandlePlaying,
       handle_state_programming, handle_state_macro_record_trigger, handle_state_macro_record,
       configVars
  <2>3. QED
    BY <1>6, <2>1, <2>2 DEF Handle, handle_state_normal
<1>7. CASE SendReport \/ GetReport \/ NoReport \/ UNCHANGED vars
  BY <1>2, <1>7 DEF SendReport, GetReport, NoReport, Fill_KeyboardReport, configVars, vars
<1>8. CASE Reboot
  BY <1>3, <1>8 DEF Reboot, configVars, EditInv
<1>9. CASE HostRequest
  BY <1>2, <1>4, <1>9 DEF HostRequest
<1>10. QED
  BY <1>5, <1>6, <1>7, <1>8, <1>9 DEF Next

\* Whatever the chords (Keyboard.c:268), one setting is edited at a time, within its
\* limits, and nothing is left to be saved when no chord is: for every limit and
\* every factory value.
THEOREM OneSettingAtATime == Spec => []OneSettingEdited
<1>1. EditInv => OneSettingEdited
  BY DEF EditInv
<1>2. QED
  BY <1>1, InitEdit, NextEdit, PTL DEF Spec
-----------------------------------------------------------------------------
(***************************************************************************)
(* A held trigger.                                                         *)
(***************************************************************************)

\* Until a key changes, a playback and the waiting after it see the number of
\* keys noted when it began; before any playback no key is down.
HeldInv ==
    ~changed => \/ down = {}
                \/ /\ wait_key_press_count = key_press_count /\ key_press_count # 0
                   /\ Playing \/ current_state = "WAITING"

\* No key down is counted as none.
LEMMA NoKeysCount == down = {} => key_press_count = 0
  BY FS_EmptySet DEF key_press_count

\* Power up satisfies the invariant.
LEMMA InitHeld == Init => HeldInv
  BY DEF Init, HeldInv

\* A step that changes neither the keys nor what was noted, and leads to a state
\* that plays or waits, or to none other.
LEMMA HeldKept ==
    ASSUME HeldInv, down' = down, changed' = changed, wait_key_press_count' = wait_key_press_count,
           current_state' \in {current_state, "WAITING"}
    PROVE  HeldInv'
  BY DEF HeldInv, Playing, key_press_count

\* A scan keeps the invariant: the waiting it may lead to does not end by itself.
LEMMA SenseHeld == HeldInv /\ Sense => HeldInv'
<1> SUFFICES ASSUME HeldInv, Sense PROVE HeldInv'
  OBVIOUS
<1>1. CASE NoScan
  BY <1>1, HeldKept DEF NoScan, keyVars, stateVars
<1>2. ASSUME NEW now \in SUBSET Keys, keystate_update(now) PROVE HeldInv'
  <2>1. CASE now = down /\ ~changed
    <3>1. down' = down /\ ~changed'
      BY <1>2, <2>1 DEF keystate_update
    <3>2. /\ wait_key_press_count' = wait_key_press_count
          /\ current_state' \in {current_state, "WAITING"}
      BY <1>2 DEF keystate_update, EventsRecorded, EventRefused, Goto, stateVars
    <3>3. QED
      BY <2>1, <3>1, <3>2 DEF HeldInv, Playing, key_press_count
  <2>2. CASE now # down \/ changed
    BY <1>2, <2>2 DEF keystate_update, HeldInv
  <2>3. QED
    BY <2>1, <2>2
<1>3. QED
  BY <1>1, <1>2 DEF Sense

\* In the normal state a chord and a trigger need keys, and with keys down in
\* the normal state some key has changed.
LEMMA NormalHeld ==
    ASSUME HeldInv, handle_state_normal, down' = down
    PROVE  /\ HeldInv'
           /\ Playing' => changed
<1>0. current_state = "NORMAL" /\ ~Playing
  BY DEF handle_state_normal, Playing
<1>1. changed \/ down = {}
  BY <1>0 DEF HeldInv
<1>2. CASE HandleChord
  <2>1. changed' = changed
    BY <1>2 DEF HandleChord
  <2>2. current_state' \in {"NORMAL", "WAITING", "PRINTING"}
    BY <1>0, <1>2 DEF HandleChord, ChordChangesState, ChordChangesFlags, ChordResetsLayout,
       ChordResetsFully, ChordUsesLayout, ChordEditsSetting, Goto, stateVars
  <2>3. QED
    BY <1>1, <2>1, <2>2 DEF HeldInv, Playing
<1>3. CASE HandleTrigger
  <2>1. CASE ~Startable
    BY <1>0, <1>3, <2>1, HeldKept DEF HandleTrigger, stateVars, Playing
  <2>2. CASE Startable
    <3>1. key_press_count # 0
      BY <2>2 DEF Startable
    <3>2. changed /\ down # {}
      BY <1>1, <3>1, NoKeysCount
    <3>3. CASE ProgramStarts \/ PlaybackFails
      BY <1>0, <3>2, <3>3, HeldKept DEF ProgramStarts, PlaybackFails, stateVars
    <3>4. CASE PlaybackStarts
      BY <3>1, <3>2, <3>4 DEF PlaybackStarts, HeldInv, Playing, key_press_count
    <3>5. QED
      BY <1>3, <2>2, <3>2, <3>3, <3>4 DEF HandleTrigger
  <2>3. QED
    BY <2>1, <2>2
<1>4. QED
  BY <1>2, <1>3 DEF handle_state_normal

\* The other states: waiting goes on until the count differs from the one noted.
LEMMA OthersHeld ==
    ASSUME HeldInv, down' = down, changed' = changed,
           \/ HandleWaiting \/ HandlePrinting \/ HandlePlaying \/ handle_state_programming
           \/ handle_state_macro_record_trigger \/ handle_state_macro_record
    PROVE  HeldInv'
<1>1. CASE HandleWaiting
  <2>1. CASE LeaveWaiting
    <3>1. changed \/ down = {}
      BY <1>1, <2>1 DEF HandleWaiting, LeaveWaiting, HeldInv, key_press_count, Playing
    <3>2. QED
      BY <3>1 DEF HeldInv
  <2>2. CASE ~LeaveWaiting
    BY <1>1, <2>2, HeldKept DEF HandleWaiting, stateVars
  <2>3. QED
    BY <2>1, <2>2
<1>2. CASE HandlePrinting \/ HandlePlaying
  BY <1>2, HeldKept DEF HandlePrinting, HandlePlaying, stateVars
<1>3. CASE handle_state_programming
  BY <1>3, HeldKept DEF handle_state_programming, ProgrammingKey, Goto, stateVars
<1>4. CASE handle_state_macro_record_trigger
  BY <1>4, HeldKept DEF handle_state_macro_record_trigger, StartRecording, Goto, stateVars
<1>5. CASE handle_state_macro_record
  BY <1>5, HeldKept DEF handle_state_macro_record, Goto, stateVars
<1>6. QED
  BY <1>1, <1>2, <1>3, <1>4, <1>5

\* A report changes no key and moves at most to waiting; a request of the host moves nowhere.
LEMMA ReportHeld ==
    ASSUME HeldInv, SendReport \/ GetReport \/ HostRequest \/ NoReport
    PROVE  /\ HeldInv'
           /\ current_state' \in {current_state, "WAITING"}
<1>1. /\ down' = down /\ changed' = changed /\ wait_key_press_count' = wait_key_press_count
      /\ current_state' \in {current_state, "WAITING"}
  BY DEF SendReport, GetReport, HostRequest, NoReport, Fill_KeyboardReport, PlayEvent, PrintChar,
     ReportKeys, Goto, keyVars, stateVars
<1>2. QED
  BY <1>1, HeldKept

\* Every step keeps the invariant, and a playback starts after a change of keys.
LEMMA NextHeld ==
    HeldInv /\ [Next]_vars => HeldInv' /\ (current_state = "NORMAL" /\ Playing' => changed)
<1> SUFFICES ASSUME HeldInv, [Next]_vars
             PROVE  HeldInv' /\ (current_state = "NORMAL" /\ Playing' => changed)
  OBVIOUS
<1>1. CASE Sense
  <2>1. current_state' \in {current_state, "WAITING"}
    BY <1>1 DEF Sense, NoScan, keystate_update, EventsRecorded, EventRefused, Goto, stateVars
  <2>2. QED
    BY <1>1, <2>1, SenseHeld DEF Playing
<1>2. CASE Handle
  <2>1. down' = down
    BY <1>2 DEF Handle
  <2>2. CASE handle_state_normal
    BY <2>1, <2>2, NormalHeld
  <2>3. CASE \/ HandleWaiting \/ HandlePrinting \/ HandlePlaying \/ handle_state_programming
             \/ handle_state_macro_record_trigger \/ handle_state_macro_record
    <3>1. changed' = changed /\ current_state # "NORMAL"
      BY <2>3 DEF HandleWaiting, HandlePrinting, HandlePlaying, handle_state_programming,
         handle_state_macro_record_trigger, handle_state_macro_record
    <3>2. QED
      BY <2>1, <2>3, <3>1, OthersHeld
  <2>4. QED
    BY <1>2, <2>2, <2>3 DEF Handle
<1>3. CASE SendReport \/ GetReport \/ HostRequest \/ NoReport
  BY <1>3, ReportHeld DEF Playing
<1>4. CASE Reboot
  BY <1>4 DEF Reboot, HeldInv, Playing
<1>5. CASE UNCHANGED vars
  BY <1>5, HeldKept DEF vars, keyVars, stateVars, Playing
<1>6. QED
  BY <1>1, <1>2, <1>3, <1>4, <1>5 DEF Next

\* A trigger that is held plays its macro once (Keyboard.c:153, 411): for any number
\* of keys, macros of any length, scans and reports in any order.
THEOREM HeldTriggerOnce == Spec => HeldTriggerPlaysOnce
<1>1. HeldInv /\ [Next]_vars => [current_state = "NORMAL" /\ Playing' => changed]_vars
  BY NextHeld
<1>2. HeldInv /\ [Next]_vars => HeldInv'
  BY NextHeld
<1>3. QED
  BY <1>1, <1>2, InitHeld, PTL DEF Spec, HeldTriggerPlaysOnce
-----------------------------------------------------------------------------
(***************************************************************************)
(* Recording and playing.                                                  *)
(***************************************************************************)

\* What a wait may lead to.  Playing and printing are not among them: they start
\* with a macro or a message to go through.
AfterWaiting ==
    {"NORMAL", "PROGRAMMING_SRC", "PROGRAMMING_DST", "MACRO_RECORD_TRIGGER", "MACRO_RECORD"}

StatesInv ==
    /\ current_state \in States
    /\ next_state \in AfterWaiting
    /\ current_state # "WAITING" => next_state = "NORMAL"

\* A macro index: triggers that fit, and no macro without events.
GoodIndex(ix) ==
    /\ DOMAIN ix \subseteq Triggers
    /\ Cardinality(DOMAIN ix) <= MACRO_INDEX_COUNT
    /\ \A t \in DOMAIN ix : ix[t] \in Entry /\ (ix[t].type = "MACRO" => ix[t].len > 0)

\* The index has an entry to spare for the macro being recorded.
RecordInv ==
    /\ key \in Triggers \cup {{}}
    /\ GoodIndex(index)
    /\ recording \in Triggers \cup {{}}
    /\ recorded \in 0..MaxEvents
    /\ remaining \in 0..MaxEvents
    /\ recording_macro \in BOOLEAN
    /\ recording # {} => /\ recording \notin DOMAIN index
                         /\ Cardinality(DOMAIN index) < MACRO_INDEX_COUNT

MacroInv == SteeringInv /\ StatesInv /\ RecordInv /\ OneMacroAtATime

\* What the assumption says of a board's keys and triggers.
LEMMA BoardFacts ==
    ASSUME board \in Boards
    PROVE  /\ IsFiniteSet(Keys) /\ Keys \subseteq Nat
           /\ MACRO_MAX_KEYS \in Nat /\ MACRO_MAX_KEYS >= 2
           /\ MACRO_INDEX_COUNT \in Nat /\ MaxEvents \in Nat \ {0}
           /\ GoodIndex(InitIndex)
  BY MainAssumption DEF MainAssumption, Keys, DefaultDefinition, MACRO_MAX_KEYS, InitIndex,
     GoodIndex, Triggers

\* Sets of keys can be counted, and only no keys count as none.
LEMMA CountKeys ==
    ASSUME board \in Boards, NEW S, S \subseteq Keys
    PROVE  /\ IsFiniteSet(S) /\ Cardinality(S) \in Nat
           /\ Cardinality(S) = 0 <=> S = {}
  BY BoardFacts, FS_Subset, FS_CardinalityType, FS_EmptySet

\* There are finitely many triggers, and a trigger has keys.
LEMMA TriggerFacts ==
    ASSUME board \in Boards
    PROVE  /\ IsFiniteSet(Triggers)
           /\ {} \notin Triggers
           /\ \A t \in Triggers : t \subseteq Keys
<1>1. IsFiniteSet(SUBSET Keys)
  BY BoardFacts, FS_SUBSET
<1>2. Triggers \subseteq SUBSET Keys
  BY DEF Triggers
<1>3. Cardinality({}) \notin 1..MACRO_MAX_KEYS
  BY BoardFacts, FS_EmptySet
<1>4. QED
  BY <1>1, <1>2, <1>3, FS_Subset DEF Triggers

\* Power up satisfies the invariant.
LEMMA InitMacro == Init => MacroInv
<1> SUFFICES ASSUME Init PROVE MacroInv
  OBVIOUS
<1>1. SteeringInv /\ board \in Boards
  BY InitSteering DEF SteeringInv
<1>2. StatesInv
  BY DEF Init, StatesInv, States, AfterWaiting
<1>3. RecordInv
  <2>1. /\ key = {} /\ index = InitIndex /\ recording = {} /\ recorded = 0 /\ remaining = 0
        /\ recording_macro = FALSE
    BY DEF Init
  <2>2. 0 \in 0..MaxEvents /\ GoodIndex(InitIndex)
    BY <1>1, BoardFacts
  <2>3. QED
    BY <2>1, <2>2, Zenon DEF RecordInv
<1>4. OneMacroAtATime
  BY DEF Init, OneMacroAtATime, Playing
<1>5. QED
  BY <1>1, <1>2, <1>3, <1>4 DEF MacroInv

\* The triggers are those of the board.
LEMMA SameTriggers ==
    ASSUME board' = board
    PROVE  Triggers' = Triggers
  BY DEF Triggers, Keys, DefaultDefinition, MACRO_MAX_KEYS

\* A step that starts or ends no recording and no playback.
LEMMA MacroKept ==
    ASSUME MacroInv, SteeringInv', StatesInv', board' = board,
           key' \in Triggers \cup {{}},
           UNCHANGED <<index, recording, recording_macro, remaining>>,
           recorded' \in 0..MaxEvents,
           \/ UNCHANGED <<current_state, next_state>>
           \/ /\ recording = {} /\ ~recording_macro
              /\ ~Playing'
              /\ current_state' # "MACRO_RECORD" /\ next_state' # "MACRO_RECORD"
    PROVE  MacroInv'
<1>1. GoodIndex(index)'
  BY SameTriggers DEF MacroInv, RecordInv, GoodIndex
<1>2. RecordInv'
  BY <1>1, SameTriggers, Zenon DEF MacroInv, RecordInv
<1>3. OneMacroAtATime'
  BY DEF MacroInv, OneMacroAtATime, Playing
<1>4. QED
  BY <1>2, <1>3 DEF MacroInv

\* The events of a scan are counted up to the bound.
LEMMA AppendedType ==
    ASSUME MacroInv, NEW now \in SUBSET Keys
    PROVE  Appended(HookEvents(now)) \in 0..MaxEvents
<1>1. board \in Boards /\ down \subseteq Keys /\ recorded \in 0..MaxEvents
  BY DEF MacroInv, SteeringInv, RecordInv
<1> DEFINE typed(S) == {k \in S : definition[k] \notin NoRemap}
<1>2. \A S \in SUBSET Keys : Cardinality(typed(S)) \in Nat
  <2>1. \A S \in SUBSET Keys : typed(S) \subseteq Keys
    OBVIOUS
  <2>2. QED
    BY <1>1, <2>1, CountKeys
<1>3. Heard(now) \in Nat
  <2>1. /\ Cardinality(typed(now \ down)) \in Nat /\ Cardinality(typed(down \ now)) \in Nat
        /\ Cardinality(typed(now \cap down)) \in Nat
    <3>1. now \ down \in SUBSET Keys /\ down \ now \in SUBSET Keys /\ now \cap down \in SUBSET Keys
      BY <1>1
    <3>2. QED
      BY <1>2, <3>1
  <2>2. Heard(now) = Cardinality(typed(now \ down)) + Cardinality(typed(down \ now))
                     + (IF base' # base THEN 2 * Cardinality(typed(now \cap down)) ELSE 0)
    BY DEF Heard
  <2> HIDE DEF typed
  <2>3. QED
    BY <2>1, <2>2
<1>4. HookEvents(now) \in Nat
  BY <1>3 DEF HookEvents
<1>5. MaxEvents \in Nat
  BY <1>1, BoardFacts
<1>6. \A n \in Nat : Appended(n) \in 0..MaxEvents
  BY <1>1, <1>5, MinMaxOfTwo DEF Appended
<1>7. QED
  BY <1>4, <1>6

\* A scan: the hook's events are counted, or the recording is given up.
LEMMA SenseMacro ==
    ASSUME MacroInv, SteeringInv', Sense
    PROVE  MacroInv'
<1>1. board' = board /\ key' = key /\ remaining' = remaining
  BY DEF Sense
<1>2. key \in Triggers \cup {{}} /\ recorded \in 0..MaxEvents /\ StatesInv
  BY DEF MacroInv, RecordInv
<1>3. CASE NoScan
  <2>1. UNCHANGED <<index, recording, recorded, recording_macro, current_state, next_state>>
    BY <1>3 DEF NoScan, recordVars, stateVars
  <2>2. StatesInv'
    BY <1>2, <2>1 DEF StatesInv
  <2>3. QED
    BY <1>1, <1>2, <2>1, <2>2, MacroKept
<1>4. ASSUME NEW now \in SUBSET Keys, keystate_update(now) PROVE MacroInv'
  <2>1. CASE EventsRecorded(now)
    <3>1. UNCHANGED <<index, recording, recording_macro, current_state, next_state>>
      BY <2>1 DEF EventsRecorded, stateVars
    <3>2. recorded' \in 0..MaxEvents
      BY <2>1, AppendedType DEF EventsRecorded
    <3>3. StatesInv'
      BY <1>2, <3>1 DEF StatesInv
    <3>4. QED
      BY <1>1, <1>2, <3>1, <3>2, <3>3, MacroKept
  <2>2. CASE EventRefused(now)
    <3>1. /\ recording_macro' = FALSE /\ recording' = {} /\ recorded' = 0 /\ index' = index
          /\ current_state' = "WAITING" /\ next_state' = "NORMAL"
      BY <2>2 DEF EventRefused, Goto
    <3>2. 0 \in 0..MaxEvents
      BY BoardFacts DEF MacroInv, SteeringInv
    <3>3. GoodIndex(index)'
      BY <1>1, <3>1, SameTriggers DEF MacroInv, RecordInv, GoodIndex
    <3>4. RecordInv'
      BY <1>1, <3>1, <3>2, <3>3, SameTriggers, Zenon DEF MacroInv, RecordInv
    <3>5. StatesInv' /\ OneMacroAtATime'
      BY <3>1 DEF StatesInv, States, AfterWaiting, OneMacroAtATime, Playing
    <3>6. QED
      BY <3>4, <3>5 DEF MacroInv
  <2>3. QED
    BY <1>4, <2>1, <2>2 DEF keystate_update
<1>5. QED
  BY <1>3, <1>4 DEF Sense

\* The normal state holds no recording.
LEMMA NormalFacts ==
    ASSUME MacroInv, current_state = "NORMAL"
    PROVE  recording = {} /\ ~recording_macro /\ next_state = "NORMAL" /\ ~Playing
  BY DEF MacroInv, StatesInv, OneMacroAtATime, Playing

\* A full reset outside a recording brings the factory's index.
LEMMA ResetMacro ==
    ASSUME MacroInv, SteeringInv', StatesInv', OneMacroAtATime', board' = board, index' = InitIndex,
           UNCHANGED <<key, recording, recorded, recording_macro, remaining>>, recording = {}
    PROVE  MacroInv'
<1>1. GoodIndex(index)'
  BY SameTriggers, BoardFacts DEF MacroInv, SteeringInv, GoodIndex
<1>2. RecordInv'
  BY <1>1, SameTriggers, Zenon DEF MacroInv, RecordInv
<1>3. QED
  BY <1>2 DEF MacroInv

\* Chords lead to a wait or a message; the full reset brings the factory's index.
LEMMA ChordMacro ==
    ASSUME MacroInv, SteeringInv', board' = board, current_state = "NORMAL", HandleChord, key' = key
    PROVE  MacroInv'
<1>1. recording = {} /\ ~recording_macro /\ next_state = "NORMAL"
  BY NormalFacts
<1>2. UNCHANGED <<recording, recorded, recording_macro, remaining>>
  BY DEF HandleChord
<1>3. key \in Triggers \cup {{}} /\ recorded \in 0..MaxEvents
  BY DEF MacroInv, RecordInv
<1>4. /\ current_state' \in {"NORMAL", "WAITING", "PRINTING"}
      /\ next_state' \in {"NORMAL", "MACRO_RECORD_TRIGGER", "PROGRAMMING_SRC"}
      /\ current_state' # "WAITING" => next_state' = "NORMAL"
  BY <1>1 DEF HandleChord, ChordChangesState, ChordChangesFlags, ChordResetsLayout,
     ChordResetsFully, ChordUsesLayout, ChordEditsSetting, Goto, stateVars
<1>5. StatesInv'
  BY <1>4 DEF StatesInv, States, AfterWaiting
<1>6. ~Playing' /\ current_state' # "MACRO_RECORD" /\ next_state' # "MACRO_RECORD"
  BY <1>4 DEF Playing
<1>7. CASE index' = index
  BY <1>1, <1>2, <1>3, <1>5, <1>6, <1>7, MacroKept
<1>8. CASE ChordResetsFully
  <2>1. index' = InitIndex
    BY <1>8 DEF ChordResetsFully, ResetFully
  <2>2. OneMacroAtATime'
    BY <1>1, <1>2, <1>6 DEF OneMacroAtATime
  <2>3. QED
    BY <1>1, <1>2, <1>5, <2>1, <2>2, ResetMacro
<1>9. QED
  BY <1>7, <1>8 DEF HandleChord, ChordChangesState, ChordChangesFlags, ChordResetsLayout,
     ChordUsesLayout, ChordEditsSetting

\* A trigger: a macro that starts has events.
LEMMA TriggerMacro ==
    ASSUME MacroInv, SteeringInv', board' = board, current_state = "NORMAL", HandleTrigger,
           key' = key
    PROVE  MacroInv'
<1>1. recording = {} /\ ~recording_macro /\ next_state = "NORMAL"
  BY NormalFacts
<1>2. UNCHANGED <<index, recording, recorded, recording_macro>>
  BY DEF HandleTrigger, recordVars
<1>3. key \in Triggers \cup {{}} /\ recorded \in 0..MaxEvents /\ StatesInv
  BY DEF MacroInv, RecordInv
<1>4. CASE UNCHANGED <<stateVars, remaining>>
  <2>1. StatesInv'
    BY <1>3, <1>4 DEF StatesInv, stateVars
  <2>2. QED
    BY <1>2, <1>3, <1>4, <2>1, MacroKept DEF stateVars
<1>5. CASE Startable /\ PlaybackStarts
  <2>1. /\ Trigger \in DOMAIN index /\ index[Trigger].type = "MACRO"
        /\ remaining' = index[Trigger].len /\ next_state' = "NORMAL"
        /\ current_state' \in {"MACRO_PLAY", "MERGING_MACRO_PLAY"}
    BY <1>1, <1>5 DEF Startable, PlaybackStarts
  <2>2. index[Trigger].len \in 0..MaxEvents /\ index[Trigger].len > 0
    BY <2>1 DEF MacroInv, RecordInv, GoodIndex, Entry
  <2>3. GoodIndex(index)'
    BY <1>2, SameTriggers DEF MacroInv, RecordInv, GoodIndex
  <2>4. RecordInv'
    BY <1>2, <2>1, <2>2, <2>3, SameTriggers, Zenon DEF MacroInv, RecordInv
  <2>5. StatesInv'
    BY <2>1 DEF StatesInv, States, AfterWaiting
  <2>6. OneMacroAtATime'
    BY <1>1, <1>2, <2>1, <2>2 DEF OneMacroAtATime
  <2>7. QED
    BY <2>4, <2>5, <2>6 DEF MacroInv
<1>6. QED
  BY <1>4, <1>5 DEF HandleTrigger, ProgramStarts, PlaybackFails

\* Waiting, printing, playing and remapping touch no macro; a wait leads to the
\* recording state only with a recording begun.
LEMMA QuietMacro ==
    ASSUME MacroInv, SteeringInv', board' = board,
           HandleWaiting \/ HandlePrinting \/ HandlePlaying \/ handle_state_programming
    PROVE  MacroInv'
<1>1. UNCHANGED <<key, index, recording, recorded, recording_macro, remaining>>
  BY DEF HandleWaiting, HandlePrinting, HandlePlaying, handle_state_programming, triggerVars,
     recordVars
<1>2. key \in Triggers \cup {{}} /\ recorded \in 0..MaxEvents /\ StatesInv
  BY DEF MacroInv, RecordInv
<1>3. CASE UNCHANGED stateVars
  <2>1. StatesInv'
    BY <1>2, <1>3 DEF StatesInv, stateVars
  <2>2. QED
    BY <1>1, <1>2, <1>3, <2>1, MacroKept DEF stateVars
<1>4. CASE /\ current_state = "WAITING"
           /\ current_state' = next_state /\ next_state' = "NORMAL"
  <2>1. StatesInv'
    BY <1>2, <1>4 DEF StatesInv, States, AfterWaiting
  <2>2. GoodIndex(index)'
    BY <1>1, SameTriggers DEF MacroInv, RecordInv, GoodIndex
  <2>3. RecordInv'
    BY <1>1, <2>2, SameTriggers, Zenon DEF MacroInv, RecordInv
  <2>4. OneMacroAtATime'
    BY <1>1, <1>2, <1>4 DEF MacroInv, OneMacroAtATime, Playing, StatesInv, AfterWaiting
  <2>5. QED
    BY <2>1, <2>3, <2>4 DEF MacroInv
<1>5. CASE /\ current_state \in {"PRINTING", "PROGRAMMING_SRC", "PROGRAMMING_DST"}
           /\ current_state' \in {"PRINTING", "WAITING"}
           /\ next_state' \in {"NORMAL", "PROGRAMMING_SRC", "PROGRAMMING_DST"}
           /\ current_state' # "WAITING" => next_state' = "NORMAL"
  <2>1. StatesInv'
    BY <1>5 DEF StatesInv, States, AfterWaiting
  <2>2. recording = {} /\ ~recording_macro
    BY <1>5 DEF MacroInv, OneMacroAtATime
  <2>3. ~Playing' /\ current_state' # "MACRO_RECORD" /\ next_state' # "MACRO_RECORD"
    BY <1>5 DEF Playing
  <2>4. QED
    BY <1>1, <1>2, <2>1, <2>2, <2>3, MacroKept
<1>6. CASE HandleWaiting
  BY <1>3, <1>4, <1>6 DEF HandleWaiting
<1>7. CASE HandlePrinting
  <2>1. next_state = "NORMAL"
    BY <1>2, <1>7 DEF HandlePrinting, StatesInv
  <2>2. QED
    BY <1>5, <1>7, <2>1 DEF HandlePrinting
<1>8. CASE HandlePlaying
  BY <1>3, <1>8 DEF HandlePlaying
<1>9. CASE handle_state_programming
  BY <1>3, <1>5, <1>9 DEF handle_state_programming, ProgrammingKey, Goto
<1>10. QED
  BY <1>6, <1>7, <1>8, <1>9

\* The keys of a trigger that ends are a trigger; its old entry makes room for
\* the new one, or there was room.
LEMMA StartMacro ==
    ASSUME MacroInv, SteeringInv', board' = board, current_state = "MACRO_RECORD_TRIGGER",
           key \in Triggers, key' = {}, StartRecording(key),
           UNCHANGED <<recording_macro, remaining>>
    PROVE  MacroInv'
<1>1. recording = {} /\ ~recording_macro /\ board \in Boards /\ GoodIndex(index)
  BY DEF MacroInv, OneMacroAtATime, SteeringInv, RecordInv
<1>2. MACRO_INDEX_COUNT \in Nat /\ 0 \in 0..MaxEvents
  BY <1>1, BoardFacts
<1>3. CASE key \in DOMAIN index \/ Cardinality(DOMAIN index) < MACRO_INDEX_COUNT
  <2>1. /\ index' = Restrict(index, DOMAIN index \ {key})
        /\ recording' = key /\ recorded' = 0
        /\ current_state' = "WAITING" /\ next_state' = "MACRO_RECORD"
    BY <1>3 DEF StartRecording, Goto
  <2>2. /\ DOMAIN index' = DOMAIN index \ {key}
        /\ \A t \in DOMAIN index' : index'[t] = index[t]
    BY <2>1 DEF Restrict
  <2>3. IsFiniteSet(DOMAIN index) /\ Cardinality(DOMAIN index) \in Nat
    BY <1>1, TriggerFacts, FS_Subset, FS_CardinalityType DEF GoodIndex
  <2>4. Cardinality(DOMAIN index') < MACRO_INDEX_COUNT
    <3>1. CASE key \in DOMAIN index
      <4>1. Cardinality(DOMAIN index \ {key}) = Cardinality(DOMAIN index) - 1
        BY <2>3, <3>1, FS_RemoveElement
      <4>2. QED
        BY <1>1, <1>2, <2>2, <2>3, <4>1 DEF GoodIndex
    <3>2. CASE key \notin DOMAIN index
      <4>1. DOMAIN index' = DOMAIN index
        BY <2>2, <3>2
      <4>2. QED
        BY <1>3, <3>2, <4>1
    <3>3. QED
      BY <3>1, <3>2
  <2>5. GoodIndex(index)'
    <3>1. IsFiniteSet(DOMAIN index') /\ Cardinality(DOMAIN index') \in Nat
      BY <2>2, <2>3, FS_Subset, FS_CardinalityType
    <3>2. Cardinality(DOMAIN index') <= MACRO_INDEX_COUNT
      BY <1>2, <2>4, <3>1
    <3>3. QED
      BY <1>1, <2>2, <3>2, SameTriggers DEF GoodIndex
  <2>6. RecordInv'
    BY <1>2, <2>1, <2>2, <2>4, <2>5, SameTriggers, Zenon DEF MacroInv, RecordInv
  <2>7. StatesInv'
    BY <2>1 DEF StatesInv, States, AfterWaiting
  <2>8. key # {}
    BY <1>1, TriggerFacts
  <2>9. OneMacroAtATime'
    BY <1>1, <2>1, <2>8 DEF OneMacroAtATime, Playing
  <2>10. QED
    BY <2>6, <2>7, <2>9 DEF MacroInv
<1>4. CASE ~(key \in DOMAIN index \/ Cardinality(DOMAIN index) < MACRO_INDEX_COUNT)
  <2>1. /\ UNCHANGED <<index, recording, recorded>>
        /\ current_state' = "WAITING" /\ next_state' = "NORMAL"
    BY <1>4 DEF StartRecording, Goto
  <2>2. StatesInv' /\ ~Playing'
    BY <2>1 DEF StatesInv, States, AfterWaiting, Playing
  <2>3. recorded \in 0..MaxEvents
    BY DEF MacroInv, RecordInv
  <2>4. QED
    BY <1>1, <2>1, <2>2, <2>3, MacroKept
<1>5. QED
  BY <1>3, <1>4

\* Choosing a trigger keeps at most as many keys as a trigger has.
LEMMA RecordTriggerMacro ==
    ASSUME MacroInv, SteeringInv', board' = board, handle_state_macro_record_trigger
    PROVE  MacroInv'
<1>1. /\ current_state = "MACRO_RECORD_TRIGGER" /\ next_state = "NORMAL"
      /\ recording = {} /\ ~recording_macro
      /\ UNCHANGED <<recording_macro, remaining>>
  BY DEF MacroInv, OneMacroAtATime, StatesInv, handle_state_macro_record_trigger
<1>2. key \in Triggers \cup {{}} /\ recorded \in 0..MaxEvents /\ StatesInv
  BY DEF MacroInv, RecordInv
<1>3. ASSUME UNCHANGED <<index, recording, recorded>>, key' \in {key, {}},
             Goto("WAITING", "NORMAL")
      PROVE  MacroInv'
  <2>1. current_state' = "WAITING" /\ next_state' = "NORMAL"
    BY <1>3 DEF Goto
  <2>2. StatesInv' /\ ~Playing'
    BY <2>1 DEF StatesInv, States, AfterWaiting, Playing
  <2>3. QED
    BY <1>1, <1>2, <1>3, <2>1, <2>2, MacroKept
<1>4. ASSUME key_press_count \in last_count..MACRO_MAX_KEYS, key' = down,
             UNCHANGED <<stateVars, index, recording, recorded>>
      PROVE  MacroInv'
  <2>1. board \in Boards /\ down \subseteq Keys
    BY DEF MacroInv, SteeringInv
  <2>2. key' \in Triggers \cup {{}}
    <3>1. Cardinality(down) \in Nat /\ (Cardinality(down) = 0 <=> down = {})
      BY <2>1, CountKeys
    <3>2. Cardinality(down) <= MACRO_MAX_KEYS
      <4>1. key \subseteq Keys
        BY <1>2, <2>1, TriggerFacts
      <4>2. last_count \in Nat /\ MACRO_MAX_KEYS \in Nat
        BY <2>1, <4>1, CountKeys, BoardFacts DEF last_count
      <4>3. QED
        BY <1>4, <4>2 DEF key_press_count
    <3>3. down = {} \/ Cardinality(down) \in 1..MACRO_MAX_KEYS
      BY <2>1, <3>1, <3>2, BoardFacts
    <3>4. QED
      BY <1>4, <2>1, <3>3 DEF Triggers
  <2>3. StatesInv'
    BY <1>2, <1>4 DEF StatesInv, stateVars
  <2>4. QED
    BY <1>1, <1>2, <1>4, <2>2, <2>3, MacroKept DEF stateVars
<1>5. ASSUME key_press_count < last_count, key' = {}, StartRecording(key)
      PROVE  MacroInv'
  <2>1. board \in Boards /\ down \subseteq Keys
    BY DEF MacroInv, SteeringInv
  <2>2. key # {}
    <3>1. Cardinality({}) = 0 /\ Cardinality(down) \in Nat
      BY <2>1, CountKeys, FS_EmptySet
    <3>2. QED
      BY <1>5, <3>1 DEF key_press_count, last_count
  <2>3. QED
    BY <1>1, <1>2, <1>5, <2>2, StartMacro
<1>6. QED
  BY <1>3, <1>4, <1>5 DEF handle_state_macro_record_trigger

\* Committing uses the entry that was spared.
LEMMA RecordMacro ==
    ASSUME MacroInv, SteeringInv', board' = board, handle_state_macro_record
    PROVE  MacroInv'
<1>1. /\ current_state = "MACRO_RECORD" /\ next_state = "NORMAL" /\ UNCHANGED <<key, remaining>>
      /\ board \in Boards /\ recording # {}
  BY DEF MacroInv, StatesInv, OneMacroAtATime, SteeringInv, handle_state_macro_record, triggerVars
<1>2. /\ key \in Triggers \cup {{}} /\ recorded \in 0..MaxEvents /\ StatesInv
      /\ recording \in Triggers /\ recording \notin DOMAIN index
      /\ GoodIndex(index) /\ Cardinality(DOMAIN index) < MACRO_INDEX_COUNT
  BY <1>1 DEF MacroInv, RecordInv
<1>3. CASE ProgramAnd("MACRO_RECORD")
  <2>1. /\ recording_macro' = FALSE /\ index' = Committed
        /\ recording' = {} /\ recorded' = 0
        /\ current_state' = "WAITING" /\ next_state' = "NORMAL"
    BY <1>3 DEF handle_state_macro_record, Goto
  <2>2. StatesInv' /\ OneMacroAtATime'
    BY <2>1 DEF StatesInv, States, AfterWaiting, OneMacroAtATime, Playing
  <2>3. MACRO_INDEX_COUNT \in Nat /\ 0 \in 0..MaxEvents
    BY <1>1, BoardFacts
  <2>4. GoodIndex(index)'
    <3>1. CASE recorded = 0
      BY <1>2, <2>1, <3>1, SameTriggers DEF Committed, GoodIndex
    <3>2. CASE recorded # 0
      <4>1. /\ DOMAIN index' = DOMAIN index \cup {recording}
            /\ \A t \in DOMAIN index' :
                  index'[t] = IF t = recording THEN [type |-> "MACRO", len |-> recorded]
                              ELSE index[t]
        BY <2>1, <3>2 DEF Committed
      <4>2. IsFiniteSet(DOMAIN index) /\ Cardinality(DOMAIN index) \in Nat
        BY <1>1, <1>2, TriggerFacts, FS_Subset, FS_CardinalityType DEF GoodIndex
      <4>3. Cardinality(DOMAIN index') = Cardinality(DOMAIN index) + 1
        BY <1>2, <4>1, <4>2, FS_AddElement
      <4>4. Cardinality(DOMAIN index') <= MACRO_INDEX_COUNT
        BY <1>2, <2>3, <4>2, <4>3
      <4>5. [type |-> "MACRO", len |-> recorded] \in Entry /\ recorded > 0
        BY <1>2, <3>2 DEF Entry
      <4>6. \A t \in DOMAIN index' : index'[t] \in Entry
                                  /\ (index'[t].type = "MACRO" => index'[t].len > 0)
        BY <1>2, <4>1, <4>5 DEF GoodIndex
      <4>7. DOMAIN index' \subseteq Triggers'
        BY <1>2, <4>1, SameTriggers DEF GoodIndex
      <4>8. QED
        BY <4>4, <4>6, <4>7 DEF GoodIndex
    <3>3. QED
      BY <3>1, <3>2
  <2>5. RecordInv'
    BY <1>1, <2>1, <2>3, <2>4, SameTriggers, Zenon DEF MacroInv, RecordInv
  <2>6. QED
    BY <2>2, <2>5 DEF MacroInv
<1>4. CASE ~ProgramAnd("MACRO_RECORD")
  <2>1. recording_macro' = TRUE /\ UNCHANGED <<stateVars, index, recording, recorded>>
    BY <1>4 DEF handle_state_macro_record
  <2>2. StatesInv'
    BY <1>2, <2>1 DEF StatesInv, stateVars
  <2>3. GoodIndex(index)'
    BY <1>2, <2>1, SameTriggers DEF GoodIndex
  <2>4. RecordInv'
    BY <1>1, <2>1, <2>3, SameTriggers, Zenon DEF MacroInv, RecordInv
  <2>5. OneMacroAtATime'
    BY <1>1, <2>1 DEF MacroInv, OneMacroAtATime, Playing, stateVars
  <2>6. QED
    BY <2>2, <2>4, <2>5 DEF MacroInv
<1>5. QED
  BY <1>3, <1>4

\* A report plays one event; the playback ends with its last one.
LEMMA ReportMacro ==
    ASSUME MacroInv, SteeringInv', SendReport \/ GetReport \/ NoReport
    PROVE  MacroInv'
<1>1. board' = board /\ UNCHANGED <<key, index, recording, recorded, recording_macro>>
  BY DEF SendReport, GetReport, NoReport, Fill_KeyboardReport, triggerVars, recordVars
<1>2. key \in Triggers \cup {{}} /\ recorded \in 0..MaxEvents /\ StatesInv
      /\ remaining \in 0..MaxEvents
  BY DEF MacroInv, RecordInv
<1>3. CASE UNCHANGED <<stateVars, remaining>>
  <2>1. StatesInv'
    BY <1>2, <1>3 DEF StatesInv, stateVars
  <2>2. QED
    BY <1>1, <1>2, <1>3, <2>1, MacroKept DEF stateVars
<1>4. CASE PlayEvent
  <2>1. GoodIndex(index)'
    BY <1>1, SameTriggers DEF MacroInv, RecordInv, GoodIndex
  <2>2. remaining' \in 0..MaxEvents
    <3>1. MaxEvents \in Nat
      BY BoardFacts DEF MacroInv, SteeringInv
    <3>2. QED
      BY <1>2, <1>4, <3>1 DEF PlayEvent
  <2>3. RecordInv'
    BY <1>1, <2>1, <2>2, SameTriggers, Zenon DEF MacroInv, RecordInv
  <2>4. CASE remaining > 1 /\ remaining' = remaining - 1 /\ UNCHANGED stateVars
    <3>1. StatesInv'
      BY <1>2, <2>4 DEF StatesInv, stateVars
    <3>2. remaining' > 0
      BY <1>2, <2>4
    <3>3. OneMacroAtATime'
      BY <1>1, <2>4, <3>2 DEF MacroInv, OneMacroAtATime, Playing, stateVars
    <3>4. QED
      BY <2>3, <3>1, <3>3 DEF MacroInv
  <2>5. CASE remaining' = 0 /\ Goto("WAITING", "NORMAL")
    <3>1. recording = {} /\ ~recording_macro
      BY <1>4 DEF MacroInv, OneMacroAtATime, PlayEvent
    <3>2. StatesInv' /\ OneMacroAtATime'
      BY <1>1, <2>5, <3>1 DEF StatesInv, States, AfterWaiting, OneMacroAtATime, Playing, Goto
    <3>3. QED
      BY <2>3, <3>2 DEF MacroInv
  <2>6. QED
    BY <1>4, <2>4, <2>5 DEF PlayEvent
<1>5. QED
  BY <1>3, <1>4 DEF SendReport, GetReport, NoReport, Fill_KeyboardReport, PrintChar, ReportKeys

\* Every step keeps the invariant.
LEMMA NextMacro == MacroInv /\ [Next]_vars => MacroInv'
<1> SUFFICES ASSUME MacroInv, [Next]_vars PROVE MacroInv'
  OBVIOUS
<1>1. SteeringInv'
  BY NextSteering DEF MacroInv
<1>2. CASE Sense
  BY <1>1, <1>2, SenseMacro
<1>3. CASE Handle
  <2>1. board' = board
    BY <1>3 DEF Handle
  <2>2. CASE handle_state_normal
    BY <1>1, <2>1, <2>2, ChordMacro, TriggerMacro DEF handle_state_normal, triggerVars
  <2>3. QED
    BY <1>1, <1>3, <2>1, <2>2, QuietMacro, RecordTriggerMacro, RecordMacro DEF Handle
<1>4. CASE SendReport \/ GetReport \/ NoReport
  BY <1>1, <1>4, ReportMacro
<1>5. CASE Reboot
  <2>1. /\ board' = board /\ index' = index /\ key' = {} /\ recording' = {} /\ recorded' = 0
        /\ remaining' = 0 /\ recording_macro' = FALSE
        /\ current_state' = "NORMAL" /\ next_state' = "NORMAL"
    BY <1>5 DEF Reboot
  <2>2. 0 \in 0..MaxEvents
    BY BoardFacts DEF MacroInv, SteeringInv
  <2>3. GoodIndex(index)'
    BY <2>1, SameTriggers DEF MacroInv, RecordInv, GoodIndex
  <2>4. RecordInv'
    BY <2>1, <2>2, <2>3, SameTriggers, Zenon DEF MacroInv, RecordInv
  <2>5. StatesInv' /\ OneMacroAtATime'
    BY <2>1 DEF StatesInv, States, AfterWaiting, OneMacroAtATime, Playing
  <2>6. QED
    BY <1>1, <2>4, <2>5 DEF MacroInv
<1>6. CASE UNCHANGED vars
  <2>1. /\ board' = board
        /\ UNCHANGED <<key, index, recording, recorded, recording_macro, remaining,
                       current_state, next_state>>
    BY <1>6 DEF vars, triggerVars, recordVars, stateVars
  <2>2. key \in Triggers \cup {{}} /\ recorded \in 0..MaxEvents /\ StatesInv
    BY DEF MacroInv, RecordInv
  <2>3. StatesInv'
    BY <2>1, <2>2 DEF StatesInv
  <2>4. QED
    BY <1>1, <2>1, <2>2, <2>3, MacroKept
<1>7. CASE HostRequest
  <2>1. /\ board' = board
        /\ UNCHANGED <<key, recording, recorded, recording_macro, remaining,
                       current_state, next_state>>
        /\ index' = index \/ (recording = {} /\ index' = InitIndex)
    BY <1>7 DEF HostRequest, ResetFully, triggerVars, stateVars
  <2>2. key \in Triggers \cup {{}} /\ recorded \in 0..MaxEvents /\ StatesInv
    BY DEF MacroInv, RecordInv
  <2>3. StatesInv' /\ OneMacroAtATime'
    BY <2>1, <2>2 DEF StatesInv, MacroInv, OneMacroAtATime, Playing
  <2>4. QED
    BY <1>1, <2>1, <2>2, <2>3, MacroKept, ResetMacro
<1>8. QED
  BY <1>2, <1>3, <1>4, <1>5, <1>6, <1>7 DEF Next

\* One macro is recorded at a time, only where the hook expects it, and a macro
\* that plays has an event left (Keyboard.c:460, macro.c:275): for every board,
\* size of the index and length of macros.
THEOREM OneMacro == Spec => []OneMacroAtATime
<1>1. MacroInv => OneMacroAtATime
  BY DEF MacroInv
<1>2. QED
  BY <1>1, InitMacro, NextMacro, PTL DEF Spec
-----------------------------------------------------------------------------
(***************************************************************************)
(* Types.                                                                  *)
(***************************************************************************)

\* What the other invariants leave of TypeOK.
KeysInv ==
    /\ hidden \subseteq down
    /\ seen \subseteq Keys
    /\ wait_key_press_count \in 0..MACRO_MAX_KEYS

FlagsInv == flags \in Flags

LoopInv ==
    /\ pc \in {"scan", "handle", "report", "control"}
    /\ update_keys \in BOOLEAN /\ base \in BOOLEAN

TypeInv == MacroInv /\ EditInv /\ KeysInv /\ FlagsInv /\ LoopInv

\* Power up satisfies the invariant.
LEMMA InitType == Init => TypeInv
<1> SUFFICES ASSUME Init PROVE TypeInv
  OBVIOUS
<1>1. MacroInv /\ EditInv /\ board \in Boards
  BY InitMacro, InitEdit DEF MacroInv, SteeringInv
<1>2. hidden = {} /\ seen = {} /\ wait_key_press_count = 0
  BY DEF Init
<1>3. KeysInv
  BY <1>1, <1>2, BoardFacts DEF KeysInv
<1>4. FlagsInv
  BY <1>1, MainAssumption DEF Init, FlagsInv, MainAssumption
<1>5. LoopInv
  BY DEF Init, LoopInv
<1>6. QED
  BY <1>1, <1>3, <1>4, <1>5 DEF TypeInv

\* The flags are three switches.
LEMMA FlagsChange ==
    ASSUME FlagsInv
    PROVE  /\ NextFlags \in Flags
           /\ [flags EXCEPT !.key_sound_enabled = ~@] \in Flags
           /\ [macros_enabled |-> FALSE, programs_enabled |-> FALSE,
               key_sound_enabled |-> FALSE] \in Flags
  BY DEF FlagsInv, Flags, NextFlags

\* A step keeps the flags' type.
LEMMA NextFlagsInv == SteeringInv /\ FlagsInv /\ [Next]_vars => FlagsInv'
<1> SUFFICES ASSUME SteeringInv, FlagsInv, [Next]_vars PROVE FlagsInv'
  OBVIOUS
<1>1. CASE flags' = flags
  BY <1>1 DEF FlagsInv
<1>2. CASE ChordChangesFlags \/ ResetFully
  BY <1>2, FlagsChange DEF ChordChangesFlags, ResetFully, FlagsInv
<1>3. CASE flags' \in board.flags
  BY <1>3, MainAssumption DEF MainAssumption, SteeringInv, FlagsInv
<1>4. QED
  BY <1>1, <1>2, <1>3 DEF Next, HostRequest, ChordResetsFully, vars, Sense, Handle, SendReport, GetReport, NoReport, Reboot,
     Fill_KeyboardReport, handle_state_normal, HandleChord, HandleTrigger, ChordChangesState,
     ChordResetsLayout, ChordUsesLayout, ChordEditsSetting, HandleWaiting,
     HandlePrinting, HandlePlaying, handle_state_programming, handle_state_macro_record_trigger,
     handle_state_macro_record, configVars

\* A step keeps the type of the loop's variables.
LEMMA NextLoop == LoopInv /\ [Next]_vars => LoopInv'
<1> SUFFICES ASSUME LoopInv, [Next]_vars PROVE LoopInv'
  OBVIOUS
<1>1. pc' \in {"scan", "handle", "report", "control"}
  BY DEF LoopInv, Next, vars, loopVars, Sense, Handle, SendReport, GetReport, HostRequest, NoReport,
     Reboot
<1>2. update_keys' \in BOOLEAN
  BY DEF LoopInv, Next, vars, loopVars, Sense, Handle, SendReport, GetReport, HostRequest, NoReport,
     Reboot, Fill_KeyboardReport
<1>3. base' \in BOOLEAN
  <2>1. \A now : \A b \in BaseAfter(now) : b \in BOOLEAN
    BY Zenon DEF LoopInv, BaseAfter
  <2>2. QED
    BY <2>1 DEF LoopInv, Next, vars, Sense, keystate_update, NoScan, keyVars, Handle, SendReport,
       GetReport, HostRequest, NoReport, Reboot, Fill_KeyboardReport
<1>4. QED
  BY <1>1, <1>2, <1>3 DEF LoopInv

\* The main key of a trigger is one of its keys, and what a program or a macro
\* hides is down.
LEMMA TriggerKeysDown ==
    ASSUME board \in Boards, down \subseteq Keys, down # {}
    PROVE  HiddenBy(Trigger) \subseteq down /\ MainKey(Trigger) \in down
<1>1. \A S \in SUBSET Keys : S # {} => Min(S) \in S
  <2>1. \A S \in SUBSET Keys : S # {} => \E x \in S : \A y \in S : x <= y
    BY BoardFacts, LeastElement
  <2>2. QED
    BY <2>1 DEF Min
<1>2. \A t \in SUBSET Keys : t # {} => MainKey(t) \in t
  <2> SUFFICES ASSUME NEW t \in SUBSET Keys, t # {} PROVE MainKey(t) \in t
    OBVIOUS
  <2> DEFINE typed == {k \in t : definition[k] \notin NoRemap \cup Modifiers}
  <2>1. MainKey(t) = IF typed # {} THEN Min(typed) ELSE Min(t)
    BY DEF MainKey
  <2>2. QED
    BY <1>1, <2>1
<1>3. Trigger \subseteq down /\ Trigger # {}
  BY <1>2 DEF Trigger
<1>4. QED
  BY <1>2, <1>3 DEF HiddenBy

\* A step that keeps the keys and hides only keys that are down.
LEMMA KeysKept ==
    ASSUME KeysInv, board \in Boards, board' = board, down' = down, hidden' \subseteq down,
           seen' \subseteq Keys,
           wait_key_press_count' \in {0, 2, wait_key_press_count}
              \cup {n \in {key_press_count} : n \in 1..MACRO_MAX_KEYS}
    PROVE  KeysInv'
<1>1. Keys' = Keys /\ MACRO_MAX_KEYS' = MACRO_MAX_KEYS
  BY DEF Keys, DefaultDefinition, MACRO_MAX_KEYS
<1>2. wait_key_press_count' \in 0..MACRO_MAX_KEYS
  BY BoardFacts DEF KeysInv
<1>3. QED
  BY <1>1, <1>2 DEF KeysInv

\* Every step keeps hidden keys among those that are down.
LEMMA NextKeys == SteeringInv /\ SteeringInv' /\ KeysInv /\ [Next]_vars => KeysInv'
<1> SUFFICES ASSUME SteeringInv, SteeringInv', KeysInv, [Next]_vars PROVE KeysInv'
  OBVIOUS
<1>0. board \in Boards /\ down \subseteq Keys
  BY DEF SteeringInv
<1>1. CASE Sense
  <2>1. board' = board /\ Keys' = Keys /\ MACRO_MAX_KEYS' = MACRO_MAX_KEYS
    BY <1>1 DEF Sense, Keys, DefaultDefinition, MACRO_MAX_KEYS
  <2>2. hidden' \subseteq down'
    BY <1>1 DEF Sense, keystate_update, NoScan, keyVars, KeysInv
  <2>3. seen' \subseteq Keys
    BY <1>1, <2>1 DEF Sense, KeysInv, SteeringInv
  <2>4. wait_key_press_count' = wait_key_press_count
    BY <1>1 DEF Sense, keystate_update, NoScan, EventsRecorded, EventRefused, Goto, stateVars
  <2>5. QED
    BY <2>1, <2>2, <2>3, <2>4 DEF KeysInv
<1>2. CASE Handle
  <2>1. board' = board /\ down' = down
    BY <1>2 DEF Handle
  <2>2. seen' = seen /\ seen \subseteq Keys /\ hidden \subseteq down
    BY <1>2 DEF Handle, KeysInv, handle_state_normal, HandleWaiting, HandlePrinting, HandlePlaying,
       handle_state_programming, handle_state_macro_record_trigger, handle_state_macro_record,
       triggerVars
  <2>3. CASE HandleChord
    <3>1. hidden' = hidden
      BY <2>3 DEF HandleChord
    <3>2. wait_key_press_count' \in {2, wait_key_press_count}
      BY <2>3 DEF HandleChord, ChordChangesState, ChordChangesFlags, ChordResetsLayout,
         ChordResetsFully, ChordUsesLayout, ChordEditsSetting, Goto, stateVars
    <3>3. QED
      BY <1>0, <2>1, <2>2, <3>1, <3>2, KeysKept
  <2>4. CASE HandleTrigger
    <3>1. CASE UNCHANGED <<stateVars, hidden>>
      BY <1>0, <2>1, <2>2, <3>1, KeysKept DEF stateVars
    <3>2. CASE Startable /\ (ProgramStarts \/ PlaybackStarts)
      <4>1. key_press_count \in 1..MACRO_MAX_KEYS
        BY <3>2 DEF Startable
      <4>2. down # {}
        BY <4>1, NoKeysCount
      <4>3. hidden' \subseteq down
        BY <1>0, <2>2, <3>2, <4>2, TriggerKeysDown DEF ProgramStarts, PlaybackStarts
      <4>4. wait_key_press_count' \in {wait_key_press_count, key_press_count}
        BY <3>2 DEF ProgramStarts, PlaybackStarts, stateVars
      <4>5. QED
        BY <1>0, <2>1, <2>2, <4>1, <4>3, <4>4, KeysKept
    <3>3. QED
      BY <2>4, <3>1, <3>2 DEF HandleTrigger, PlaybackFails
  <2>5. CASE \/ HandleWaiting \/ HandlePrinting \/ HandlePlaying \/ handle_state_programming
             \/ handle_state_macro_record_trigger \/ handle_state_macro_record
    <3>1. hidden' = hidden
      BY <2>5 DEF HandleWaiting, HandlePrinting, HandlePlaying, handle_state_programming,
         handle_state_macro_record_trigger, handle_state_macro_record
    <3>2. wait_key_press_count' \in {0, wait_key_press_count}
      BY <2>5 DEF HandleWaiting, HandlePrinting, HandlePlaying, handle_state_programming,
         ProgrammingKey, handle_state_macro_record_trigger, StartRecording,
         handle_state_macro_record, Goto, stateVars
    <3>3. QED
      BY <1>0, <2>1, <2>2, <3>1, <3>2, KeysKept
  <2>6. QED
    BY <1>2, <2>3, <2>4, <2>5 DEF Handle, handle_state_normal
<1>3. CASE SendReport \/ GetReport \/ HostRequest \/ NoReport \/ UNCHANGED vars
  <2>1. board' = board /\ UNCHANGED <<down, hidden, seen, wait_key_press_count>>
    BY <1>3 DEF SendReport, GetReport, HostRequest, NoReport, Fill_KeyboardReport, PlayEvent, PrintChar,
       ReportKeys, Goto, vars, keyVars, triggerVars, stateVars
  <2>2. QED
    BY <1>0, <2>1, KeysKept DEF KeysInv
<1>4. CASE Reboot
  <2>1. /\ board' = board /\ hidden' = {} /\ seen' = {} /\ wait_key_press_count' = 0
    BY <1>4 DEF Reboot
  <2>2. MACRO_MAX_KEYS' = MACRO_MAX_KEYS /\ MACRO_MAX_KEYS \in Nat
    BY <1>0, <2>1, BoardFacts DEF MACRO_MAX_KEYS
  <2>3. QED
    BY <2>1, <2>2 DEF KeysInv
<1>5. QED
  BY <1>1, <1>2, <1>3, <1>4 DEF Next

\* Every variable of the main loop keeps its type, and the macro index its bound
\* (macro.c:193), on every board.
THEOREM TypeCorrect == Spec => []TypeOK
<1>1. TypeInv /\ [Next]_vars => TypeInv'
  <2> SUFFICES ASSUME TypeInv, [Next]_vars PROVE TypeInv'
    OBVIOUS
  <2>1. SteeringInv /\ SteeringInv'
    BY NextSteering DEF TypeInv, MacroInv
  <2>2. QED
    BY <2>1, NextMacro, NextEdit, NextKeys, NextFlagsInv, NextLoop DEF TypeInv
<1>2. TypeInv => TypeOK
  <2> SUFFICES ASSUME TypeInv PROVE TypeOK
    OBVIOUS
  <2>1. /\ board \in Boards /\ down \subseteq Keys /\ definition \in Mappings
        /\ program_src_hkey \in Codes
    BY DEF TypeInv, MacroInv, SteeringInv
  <2>2. current_state \in States /\ next_state \in States
    BY DEF TypeInv, MacroInv, StatesInv, States, AfterWaiting
  <2>3. /\ key \in Triggers \cup {{}} /\ recording \in Triggers \cup {{}}
        /\ recorded \in 0..MaxEvents /\ remaining \in 0..MaxEvents
        /\ recording_macro \in BOOLEAN
        /\ DOMAIN index \subseteq Triggers /\ Cardinality(DOMAIN index) <= MACRO_INDEX_COUNT
        /\ \A t \in DOMAIN index : index[t] \in Entry
    BY Zenon DEF TypeInv, MacroInv, RecordInv, GoodIndex
  <2>4. /\ \A s \in Settings : saved_value[s] \in Lowest[s]..Highest[s]
        /\ in_prg_chord_with_lcd_info \in BOOLEAN
    BY Zenon DEF TypeInv, EditInv
  <2>5. QED
    BY <2>1, <2>2, <2>3, <2>4, Zenon DEF TypeInv, KeysInv, FlagsInv, LoopInv, TypeOK
<1>3. QED
  BY <1>1, <1>2, InitType, PTL DEF Spec
=============================================================================
