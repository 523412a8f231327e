------------------------------ MODULE ExtraReport ------------------------------
(***************************************************************************)
(* Keys pressed by the firmware itself, for a program or for a macro that  *)
(* is played back (extrareport.c), and how they are merged into a keyboard *)
(* report.  An extra report has a fixed number of places, kept unsorted    *)
(* and unpacked, and a set of modifiers; a keyboard report is a packed     *)
(* sequence of at most KEYBOARDREPORT_KEY_COUNT keys and a set of          *)
(* modifiers.                                                              *)
(***************************************************************************)
EXTENDS Integers, Sequences, FiniteSets

CONSTANTS
    Keys,                       \* HID codes below LEFT_CONTROL
    Modifiers,                  \* HID codes LEFT_CONTROL..RIGHT_GUI
    NO_KEY,                     \* an empty place (0xFF)
    EXTRA_REPORT_KEY_COUNT,     \* places of an extra report
    KEYBOARDREPORT_KEY_COUNT    \* places of a keyboard report

ASSUME ReportAssumption ==
    /\ Keys \cap Modifiers = {} /\ NO_KEY \notin Keys \cup Modifiers
    /\ EXTRA_REPORT_KEY_COUNT \in Nat \ {0}
    /\ KEYBOARDREPORT_KEY_COUNT \in Nat \ {0}

Places == 1..EXTRA_REPORT_KEY_COUNT

ExtraReports == [keys : [Places -> Keys \cup {NO_KEY}], mods : SUBSET Modifiers]

KeyboardReports ==
    [keys : UNION {[1..n -> Keys] : n \in 0..KEYBOARDREPORT_KEY_COUNT}, mods : SUBSET Modifiers]

EmptyReport == [keys |-> <<>>, mods |-> {}]

PlacesOf(r, k) == {p \in Places : r.keys[p] = k}

Lowest(places) == CHOOSE p \in places : \A q \in places : p <= q

\* Keys and modifiers that an extra report holds.
Held(r) == ({r.keys[p] : p \in Places} \ {NO_KEY}) \cup r.mods

\* Keys and modifiers that a keyboard report shows.
Content(r) == {r.keys[j] : j \in DOMAIN r.keys} \cup r.mods

ExtraKeyboardReport_clear == [keys |-> [p \in Places |-> NO_KEY], mods |-> {}]

\* The key goes to the lowest free place; it is dropped when there is none.
Insert(r, k) ==
    LET free == PlacesOf(r, NO_KEY)
    IN  IF free = {} THEN r
        ELSE [keys |-> [r.keys EXCEPT ![Lowest(free)] = k], mods |-> r.mods]

\* Mutant: a key that is already pressed takes a second place.
MutAddRepeats(r, k) ==
    IF k \in Modifiers THEN [keys |-> r.keys, mods |-> r.mods \cup {k}] ELSE Insert(r, k)

ExtraKeyboardReport_add(r, k) ==
    CASE k \in Modifiers -> [keys |-> r.keys, mods |-> r.mods \cup {k}]
      [] k \in Keys /\ PlacesOf(r, k) # {} -> r
      [] OTHER -> Insert(r, k)

\* Codes beyond the modifiers (special keys) shift out of the modifier byte.
ExtraKeyboardReport_remove(r, k) ==
    CASE k \in Keys /\ PlacesOf(r, k) # {} ->
            [keys |-> [r.keys EXCEPT ![Lowest(PlacesOf(r, k))] = NO_KEY], mods |-> r.mods]
      [] OTHER -> [keys |-> r.keys, mods |-> r.mods \ {k}]

\* No key takes two places, so it does not matter which of them is cleared.
ExtraKeyboardReport_toggle(r, k) ==
    CASE k \in Modifiers -> [keys |-> r.keys, mods |-> (r.mods \ {k}) \cup ({k} \ r.mods)]
      [] k \in Keys /\ PlacesOf(r, k) # {} -> ExtraKeyboardReport_remove(r, k)
      [] OTHER -> Insert(r, k)

\* Mutant: keys that the report already holds are not skipped.
MutSkippedUnlessHeld(k, keys, report) == k = NO_KEY \/ Len(keys) = KEYBOARDREPORT_KEY_COUNT

\* A place of the extra report that adds nothing: it is empty, the keyboard
\* report, whose keys are by now keys, is full, or it held the key before.
Skipped(k, keys, report) ==
    \/ k = NO_KEY \/ Len(keys) = KEYBOARDREPORT_KEY_COUNT
    \/ \E j \in DOMAIN report.keys : report.keys[j] = k

\* The extra keys that the report does not hold yet, in the order of their
\* places, as far as the report has room.
ExtraKeyboardReport_append(extra, report) ==
    LET keys[p \in 0..EXTRA_REPORT_KEY_COUNT] ==
            IF p = 0 THEN report.keys
            ELSE IF Skipped(extra.keys[p], keys[p - 1], report) THEN keys[p - 1]
            ELSE Append(keys[p - 1], extra.keys[p])
    IN  [keys |-> keys[EXTRA_REPORT_KEY_COUNT], mods |-> report.mods \cup extra.mods]
================================================================================
