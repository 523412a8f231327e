------------------------------ MODULE MCPlayback ------------------------------
(***************************************************************************)
(* Every macro of a few events over three keys and a modifier, played      *)
(* alone, while a key is held, and while two keys that are mapped to the   *)
(* same code are.                                                          *)
(***************************************************************************)
EXTENDS Playback

CONSTANT MaxEvents

AllMacros == UNION {[1..n -> Keys \cup Modifiers] : n \in 0..MaxEvents}

HeldKeys == [keys : {<<k>> : k \in Keys} \cup {<<k, k>> : k \in Keys}, mods : {{}, Modifiers}]
================================================================================
