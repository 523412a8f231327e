-------------------------------- MODULE Buzzer --------------------------------
(***************************************************************************)
(* The buzzer (buzzer.c): the main loop starts a tone, the millisecond     *)
(* interrupt counts it down and silences it.  The remaining time is two    *)
(* bytes, which the main loop stores one after the other with interrupts   *)
(* enabled; which of them is first depends on the processor's family.      *)
(***************************************************************************)
EXTENDS Integers

CONSTANTS
    Durations,      \* the lengths that tones are started with
    Digit,          \* the base of a "byte" of the remaining time
    MaxStarts       \* bound: tones that are started

ASSUME BuzzerAssumption ==
    /\ Digit \in Nat \ {0, 1} /\ Durations \subseteq 1..(Digit * Digit - 1)
    /\ MaxStarts \in Nat

VARIABLES
    buzzer_ms,      \* remaining time
    on,             \* the tone's output is enabled
    pc,             \* where buzzer_start_f is
    ms,             \* its argument
    ticked,         \* has the interrupt fallen into this call?
    starts          \* tones started so far

vars == <<buzzer_ms, on, pc, ms, ticked, starts>>

Times == 0..(Digit * Digit - 1)
Low(t) == t % Digit
High(t) == t \div Digit

TypeOK ==
    /\ buzzer_ms \in Times /\ on \in BOOLEAN /\ ticked \in BOOLEAN
    /\ pc \in {"idle", "first", "low", "high", "period"} /\ ms \in Times /\ starts \in 0..MaxStarts

Init ==
    /\ buzzer_ms = 0 /\ on = FALSE /\ pc = "idle" /\ ms = 0 /\ ticked = FALSE /\ starts = 0

buzzer_start_f(d) ==
    /\ pc = "idle" /\ starts < MaxStarts
    /\ pc' = "first" /\ ms' = d /\ ticked' = FALSE /\ starts' = starts + 1
    /\ UNCHANGED <<buzzer_ms, on>>

\* buzzer_ms = ms: "low" and "high" name the byte that is still to be stored.
StoreFirst ==
    /\ pc = "first"
    /\ \/ pc' = "high" /\ buzzer_ms' = High(buzzer_ms) * Digit + Low(ms)
       \/ pc' = "low" /\ buzzer_ms' = High(ms) * Digit + Low(buzzer_ms)
    /\ UNCHANGED <<on, ms, ticked, starts>>

StoreSecond ==
    /\ \/ pc = "high" /\ buzzer_ms' = High(ms) * Digit + Low(buzzer_ms)
       \/ pc = "low" /\ buzzer_ms' = High(buzzer_ms) * Digit + Low(ms)
    /\ pc' = "period"
    /\ UNCHANGED <<on, ms, ticked, starts>>

\* The period is set, then the output is enabled.
hfPwmStart ==
    /\ pc = "period"
    /\ on' = TRUE /\ pc' = "idle"
    /\ UNCHANGED <<buzzer_ms, ms, ticked, starts>>

\* Mutant: the last millisecond is never taken.
MutCountdownStops == buzzer_ms' = (IF buzzer_ms > 1 THEN buzzer_ms - 1 ELSE buzzer_ms) /\ UNCHANGED on

Countdown ==
    IF buzzer_ms = 0 THEN UNCHANGED <<buzzer_ms, on>>
    ELSE buzzer_ms' = buzzer_ms - 1 /\ on' = (on /\ buzzer_ms' # 0)

\* The interrupt; a call of buzzer_start_f is too short for two of them.
buzzer_update ==
    /\ pc = "idle" \/ ~ticked
    /\ ticked' = (pc # "idle") /\ Countdown
    /\ UNCHANGED <<pc, ms, starts>>

Next ==
    \/ \E d \in Durations : buzzer_start_f(d)
    \/ StoreFirst \/ StoreSecond \/ hfPwmStart \/ buzzer_update

\* The interrupt comes every millisecond and the call returns.
Spec ==
    /\ Init /\ [][Next]_vars
    /\ WF_vars(buzzer_update) /\ WF_vars(StoreFirst \/ StoreSecond \/ hfPwmStart)

-------------------------------------------------------------------------------
\* buzz "requests that the buzzer be run for the next time ms": once no tone is
\* started any more the buzzer falls silent, unless the last tone was one of
\* 1 ms or of a length whose low byte is zero.
EventuallySilent == <>[](~on \/ ms = 1 \/ Low(ms) = 0)

\* The same for tones of every length.
AlwaysSilent == <>[](~on)
===============================================================================
