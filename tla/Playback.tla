-------------------------------- MODULE Playback --------------------------------
(***************************************************************************)
(* Playing a recorded macro back into the keyboard reports (macro.c,       *)
(* STATE_MACRO_PLAY and STATE_MERGING_MACRO_PLAY of Fill_KeyboardReport).  *)
(* A macro is the sequence of key changes seen while it was recorded; one  *)
(* event is played per report.                                             *)
(***************************************************************************)
EXTENDS ExtraReport

CONSTANTS
    Macros,         \* the recorded macros: sequences of keys and modifiers
    BaseReports     \* what the held keys contribute when a merging macro plays

Codes == Keys \cup Modifiers

Bases == BaseReports \cup {EmptyReport}

ASSUME PlaybackAssumption == Macros \subseteq Seq(Codes) /\ BaseReports \subseteq KeyboardReports

VARIABLES
    state,          \* current_state: playing, or anything that is not
    macro,          \* the events of the macro being played
    remaining,      \* playback_state.remaining
    playback,       \* playback_state.report
    base,           \* the held keys' part of the last report
    sent,           \* the last keyboard report
    pressed         \* history: the keys the played events leave pressed

playVars == <<state, macro, remaining, playback, base, sent, pressed>>

PlayTypeOK ==
    /\ state \in {"MACRO_PLAY", "WAITING"}
    /\ macro \in Macros /\ remaining \in 0..Len(macro)
    /\ playback \in ExtraReports /\ base \in Bases /\ sent \in KeyboardReports
    /\ pressed \subseteq Codes

PlayInit ==
    /\ state = "WAITING" /\ macro \in Macros /\ remaining = 0
    /\ playback = ExtraKeyboardReport_clear /\ pressed = {}
    /\ base = EmptyReport /\ sent = EmptyReport

macros_start_playback(m) ==
    /\ state = "WAITING"
    /\ state' = "MACRO_PLAY" /\ macro' = m /\ remaining' = Len(m)
    /\ playback' = ExtraKeyboardReport_clear /\ pressed' = {}
    /\ UNCHANGED <<base, sent>>

\* The event at the cursor is toggled into the playback report, which is then
\* merged into b, what the held keys contribute (nothing in a plain playback).
\* The last event ends the playback.
PlayEvent(b) ==
    LET event == macro[Len(macro) - remaining + 1]
    IN  /\ remaining > 0
        /\ remaining' = remaining - 1
        /\ playback' = ExtraKeyboardReport_toggle(playback, event)
        /\ base' = b /\ sent' = ExtraKeyboardReport_append(playback', b)
        /\ pressed' = IF event \in pressed THEN pressed \ {event} ELSE pressed \cup {event}
        /\ state' = IF remaining' = 0 THEN "WAITING" ELSE state

\* A macro without events ends at once.
PlayNothing(b) ==
    /\ remaining = 0
    /\ base' = b /\ sent' = b /\ state' = "WAITING"
    /\ UNCHANGED <<remaining, playback, pressed>>

macros_fill_next_report(b) ==
    /\ state = "MACRO_PLAY"
    /\ PlayEvent(b) \/ PlayNothing(b)
    /\ UNCHANGED macro

\* Once the macro has ended the held keys alone make the report.
ReportHeldKeys(b) ==
    /\ state = "WAITING"
    /\ base' = b /\ sent' = b
    /\ UNCHANGED <<state, macro, remaining, playback, pressed>>

PlayNext ==
    \/ \E m \in Macros : macros_start_playback(m)
    \/ \E b \in Bases : macros_fill_next_report(b)
    \/ \E b \in Bases : ReportHeldKeys(b)

PlaySpec == PlayInit /\ [][PlayNext]_playVars

--------------------------------------------------------------------------------
PressedBy(m, n) == {k \in Codes : Cardinality({i \in 1..n : m[i] = k}) % 2 = 1}

\* A macro that never has more plain keys down than an extra report has places.
Fits(m) == \A n \in 0..Len(m) : Cardinality(PressedBy(m, n) \cap Keys) <= EXTRA_REPORT_KEY_COUNT

\* "If not pressed, press, else release" (the comment on macro_data.events),
\* for every recorded macro: no key is held that the played events released.
ReleaseReleases == Held(playback) \subseteq pressed

\* What the host sees of an event is what the held keys contribute and, behind
\* it, the other keys of the macro, each once, as long as both fit: merging
\* never shadows, repeats or leaks a key.
ReportShowsMacro ==
    [][LET added == (pressed' \cap Keys) \ Content(base')
       IN  /\ remaining' < remaining /\ Fits(macro)
           /\ Len(base'.keys) + Cardinality(added) <= KEYBOARDREPORT_KEY_COUNT
           => /\ Content(sent') = Content(base') \cup pressed'
              /\ Len(sent'.keys) = Len(base'.keys) + Cardinality(added)]_playVars
================================================================================
