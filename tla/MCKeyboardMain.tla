--------------------------- MODULE MCKeyboardMain ---------------------------
(***************************************************************************)
(* Small boards for KeyboardMain: the meanings of keys 1, 2, ...           *)
(***************************************************************************)
EXTENDS KeyboardMain, Sequences

Flag(macros, programs) ==
    [macros_enabled |-> macros, programs_enabled |-> programs, key_sound_enabled |-> FALSE]
NoFlags == {Flag(FALSE, FALSE)}
AnyFlags == {Flag(FALSE, FALSE), Flag(TRUE, FALSE), Flag(TRUE, TRUE)}

NoMacros == [t \in {} |-> [type |-> "MACRO", len |-> 1]]

\* Recording and playing, beside a program on the plain key, which a trigger of
\* several keys reduces to.  Three keys are too many for a trigger.
MacroBoard ==
    [definition |-> <<"PLAIN", "MACRO_RECORD", "PROGRAM">>, backups |-> {},
     index |-> [t \in {{1}} |-> [type |-> "PROGRAM", len |-> 0]],
     flags |-> {Flag(TRUE, TRUE)}, max_keys |-> 2]

\* Two settings and the reboot.
SettingsBoard ==
    [definition |-> <<"DEBOUNCE_UP", "DEBOUNCE_DW", "MOUSE_DIV_UP", "REBOOT", "PROGRAM">>,
     backups |-> {}, index |-> NoMacros, flags |-> NoFlags, max_keys |-> 4]

\* Layouts, with a backup that swaps two keys, the full reset, and a macro on the
\* first key.
LayoutBoard ==
    LET factory == <<"CONFIG_SAVE", "CONFIG_LOAD", "DIGIT", "RESET_CONFIG", "RESET_FULLY", "PROGRAM">>
    IN  [definition |-> factory,
         backups |-> {[factory EXCEPT ![1] = "CONFIG_LOAD", ![2] = "CONFIG_SAVE"]},
         index |-> [t \in {{1}} |-> [type |-> "MACRO", len |-> 2]],
         flags |-> AnyFlags, max_keys |-> 4]

\* Remapping with both kinds of steering keys.
RemapBoard ==
    [definition |-> <<"REMAP", "RESET_CONFIG", "MACRO_SHIFT", "PROGRAM">>,
     backups |-> {}, index |-> NoMacros, flags |-> NoFlags, max_keys |-> 4]

\* The flags, with a macro that they allow.
FlagBoard ==
    [definition |-> <<"PLAIN", "MACROS_ENABLE", "TOGGLE_BUZZER", "PROGRAM">>, backups |-> {},
     index |-> [t \in {{1}} |-> [type |-> "MACRO", len |-> 2]], flags |-> NoFlags, max_keys |-> 4]

AllBoards == {FlagBoard, MacroBoard, SettingsBoard, LayoutBoard, RemapBoard}

Factory == [DEBOUNCE |-> 3, MOUSE_DIV |-> 2, WHEEL_DIV |-> 1]
=============================================================================
