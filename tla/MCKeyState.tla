---------------------------- MODULE MCKeyState ------------------------------
(***************************************************************************)
(* Small boards for KeyState.  A board is a sequence of steering keys      *)
(* followed by plain keys, whose HID code tells the layer.                 *)
(***************************************************************************)
EXTENDS KeyState

Board(steering) ==
    [l \in LogicalKeys |->
        LET p == l % KEYPAD_LAYER_SIZE
        IN  IF p < Len(steering) THEN steering[p + 1] ELSE 4 + l \div KEYPAD_LAYER_SIZE]

\* Program, layer lock and keypad shift: the K80CS steering keys.
LockBoard == Board(<<SPECIAL_HID_KEY_PROGRAM, SPECIAL_HID_KEY_LAYER_LOCK,
                     SPECIAL_HID_KEY_KEYPAD_SHIFT>>)

\* Function shift and macro shift, which only the K84CS has.
ShiftBoard == Board(<<SPECIAL_HID_KEY_FUNCTION_SHIFT, SPECIAL_HID_KEY_MACRO_SHIFT>>)
=============================================================================
