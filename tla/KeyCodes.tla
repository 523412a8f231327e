------------------------------ MODULE KeyCodes ------------------------------
(***************************************************************************)
(* The key codes every component shares (keystate.h).  A physical code is  *)
(* a position of the matrix, a logical code is a physical code moved up by *)
(* a whole number of layers, and a HID code is what a logical code is      *)
(* mapped to.  All three are bytes.                                        *)
(***************************************************************************)
EXTENDS Naturals

HidCodes == 0..255

NO_KEY == 255

HID_KEYBOARD_SC_LEFT_CONTROL == 224

SPECIAL_HID_KEYS_START == 232

SPECIAL_HID_KEY_LAYER_LOCK == 250
SPECIAL_HID_KEY_KEYPAD_SHIFT == 251
SPECIAL_HID_KEY_FUNCTION_SHIFT == 252
SPECIAL_HID_KEY_MACRO_SHIFT == 253
SPECIAL_HID_KEY_PROGRAM == 254

\* The keys that steer the keyboard itself: the on-board remapping leaves
\* them alone.
SPECIAL_HID_KEY_NOREMAP(k) == k >= SPECIAL_HID_KEY_LAYER_LOCK /\ k # NO_KEY

\* The layer lock and the two layer shifts never leave the key state.
is_hid_key_to_notify_about(k) ==
    k < SPECIAL_HID_KEY_LAYER_LOCK \/ k >= SPECIAL_HID_KEY_MACRO_SHIFT
=============================================================================
