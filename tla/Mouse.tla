--------------------------------- MODULE Mouse ---------------------------------
(***************************************************************************)
(* The mouse reports made from the held keys (keystate_Fill_MouseReport).  *)
(* Every mouse_div-th report samples the keys, and every wheel_div-th of   *)
(* those the wheel; a held direction accelerates.  Speeds are signed       *)
(* bytes, here of 2 * Int8 values.                                         *)
(***************************************************************************)
EXTENDS Integers

CONSTANTS
    Buttons,                \* mouse buttons on the board
    MoveAxes, WheelAxes,    \* axes with a key for each direction
    Int8,                   \* 128: values are -Int8..(Int8 - 1)
    Divs                    \* the settings of mouse_div and wheel_div

Axes == MoveAxes \cup WheelAxes
DirectionKeys == Axes \X {-1, 1}
MouseKeys == Buttons \cup DirectionKeys

ASSUME MouseAssumption ==
    /\ Int8 \in Nat \ {0} /\ Divs \subseteq Nat \ {0}
    /\ MoveAxes \cap WheelAxes = {} /\ Buttons \cap DirectionKeys = {}

VARIABLES
    current_state,          \* NORMAL: normal or recording; OTHER: reports no mouse
    down,                   \* mouse keys that are pressed and not hidden
    mouse_div, wheel_div,
    prev_button, cnt_move, cnt_wheel, speed,    \* the function's static variables
    report, fresh           \* the last report, and whether the normal state made it

settings == <<mouse_div, wheel_div>>
statics == <<prev_button, cnt_move, cnt_wheel, speed>>
mouseVars == <<current_state, down, settings, statics, report, fresh>>

Bytes == -Int8..(Int8 - 1)

Wrap(x) == ((x + Int8) % (2 * Int8)) - Int8

MouseTypeOK ==
    /\ current_state \in {"NORMAL", "OTHER"} /\ down \subseteq MouseKeys
    /\ mouse_div \in Divs /\ wheel_div \in Divs
    /\ prev_button \subseteq Buttons /\ cnt_move \in Nat /\ cnt_wheel \in Nat
    /\ speed \in [Axes -> Bytes]
    /\ report \in [button : SUBSET Buttons, motion : [Axes -> Bytes]] /\ fresh \in BOOLEAN

Still == [a \in Axes |-> 0]

MouseInit ==
    /\ current_state = "NORMAL" /\ down = {} /\ mouse_div \in Divs /\ wheel_div \in Divs
    /\ prev_button = {} /\ cnt_move = 0 /\ cnt_wheel = 0 /\ speed = Still
    /\ report = [button |-> {}, motion |-> Still] /\ fresh = FALSE

\* Opposite keys cancel out.
Direction(a) == (IF <<a, 1>> \in down THEN 1 ELSE 0) - (IF <<a, -1>> \in down THEN 1 ELSE 0)
Moving(a) == <<a, 1>> \in down \/ <<a, -1>> \in down

\* Mutant: the speed is kept when the key is released.
MutAdjustedKeepsSpeed(axes) ==
    [a \in Axes |-> IF a \in axes /\ Moving(a) THEN Wrap(speed[a] + Direction(a)) ELSE speed[a]]

\* adjust_speed_and_report
AdjustedSpeed(axes) ==
    [a \in Axes |-> IF a \notin axes THEN speed[a]
                    ELSE IF Moving(a) THEN Wrap(speed[a] + Direction(a)) ELSE 0]

\* Mutant: the reports between two samples are empty.
MutRepeatSampleEmpty ==
    /\ cnt_move' # 1
    /\ report' = [button |-> {}, motion |-> Still]
    /\ UNCHANGED <<prev_button, cnt_wheel, speed>>

\* Between two samples the buttons of the last one are repeated.
RepeatSample ==
    /\ cnt_move' # 1
    /\ report' = [button |-> prev_button, motion |-> Still]
    /\ UNCHANGED <<prev_button, cnt_wheel, speed>>

\* Mutant: a sample moves the mouse and repeats the buttons.
MutTakeSampleMoves ==
    /\ cnt_move' = 1
    /\ cnt_wheel' = (cnt_wheel + 1) % wheel_div
    /\ LET axes == IF cnt_wheel' = 1 THEN Axes ELSE MoveAxes
       IN  /\ speed' = AdjustedSpeed(axes)
           /\ report' = [button |-> prev_button,
                         motion |-> [a \in Axes |-> IF a \in axes THEN speed'[a] ELSE 0]]
    /\ UNCHANGED prev_button

TakeSample ==
    /\ cnt_move' = 1
    /\ prev_button' = Buttons \cap down
    /\ cnt_wheel' = (cnt_wheel + 1) % wheel_div
    /\ LET axes == IF cnt_wheel' = 1 THEN Axes ELSE MoveAxes
       IN  /\ speed' = AdjustedSpeed(axes)
           /\ report' = [button |-> prev_button',
                         motion |-> [a \in Axes |-> IF a \in axes THEN speed'[a] ELSE 0]]

keystate_Fill_MouseReport ==
    /\ current_state = "NORMAL"
    /\ cnt_move' = (cnt_move + 1) % mouse_div
    /\ RepeatSample \/ TakeSample
    /\ fresh' = TRUE
    /\ UNCHANGED <<current_state, down, settings>>

\* The other states report a mouse at rest and leave the samples alone.
FillElsewhere ==
    /\ current_state = "OTHER"
    /\ report' = [button |-> {}, motion |-> Still] /\ fresh' = FALSE
    /\ UNCHANGED <<current_state, down, settings, statics>>

ChangeKey(k) ==
    /\ down' = IF k \in down THEN down \ {k} ELSE down \cup {k}
    /\ UNCHANGED <<current_state, settings, statics, report, fresh>>

ChangeState ==
    /\ current_state' = IF current_state = "NORMAL" THEN "OTHER" ELSE "NORMAL"
    /\ UNCHANGED <<down, settings, statics, report, fresh>>

\* config_save_mouse_div, config_save_wheel_div, and config_reset_fully, which
\* the host may ask for in any state
SaveDiv(d) ==
    /\ \/ mouse_div' = d /\ UNCHANGED wheel_div
       \/ wheel_div' = d /\ UNCHANGED mouse_div
    /\ UNCHANGED <<current_state, down, statics, report, fresh>>

MouseNext ==
    \/ keystate_Fill_MouseReport \/ FillElsewhere \/ ChangeState
    \/ \E k \in MouseKeys : ChangeKey(k)
    \/ \E d \in Divs : SaveDiv(d)

\* The host keeps polling the mouse endpoint.
MouseSpec == MouseInit /\ [][MouseNext]_mouseVars /\ WF_mouseVars(keystate_Fill_MouseReport)

--------------------------------------------------------------------------------
\* With mouse_div 1 cnt_move stays 0 and no report ever samples the keys, and
\* with wheel_div 1 none samples the wheel.
Sampled(a) == mouse_div # 1 /\ (a \in WheelAxes => wheel_div # 1)

\* Fill_MouseReport: a held button is reported before it is released, unless
\* the user leaves the normal state or sets mouse_div to 1 first.
ButtonsReported ==
    \A b \in Buttons :
        (b \in down /\ current_state = "NORMAL")
            ~> (b \notin down \/ current_state # "NORMAL" \/ mouse_div = 1 \/ b \in report.button)

\* The same for every mouse_div that can be set.
ButtonsAlwaysReported ==
    \A b \in Buttons :
        (b \in down /\ current_state = "NORMAL")
            ~> (b \notin down \/ current_state # "NORMAL" \/ b \in report.button)

\* Fill_MouseReport: between two reports of the normal state a button goes down
\* for the host only if its key is held, and up only if it is not, although
\* most reports repeat an earlier sample.  (The first reports after another
\* state may repeat a sample from before it: fresh leaves them out.)
ButtonsFollowKeys ==
    [][fresh /\ fresh' =>
        /\ report'.button \subseteq report.button \cup down
        /\ report.button \cap down \subseteq report'.button]_mouseVars

\* keystate_Fill_MouseReport: once the keys of an axis stay released and its
\* rate limits stay other than 1, whatever they were before and however they
\* change, the mouse stops along it and the next move starts from rest.
Stops ==
    \A a \in Axes :
        <>[](current_state = "NORMAL" /\ ~Moving(a) /\ Sampled(a))
            => <>[](report.motion[a] = 0 /\ speed[a] = 0)

\* The same for every setting of the rate limits.
AlwaysStops ==
    \A a \in Axes :
        <>[](current_state = "NORMAL" /\ ~Moving(a)) => <>[](report.motion[a] = 0 /\ speed[a] = 0)

\* adjust_speed_and_report: without its opposite, the key that moves right
\* never turns a mouse moving right to the left.
MovesForward ==
    [][\A a \in MoveAxes :
        (fresh' /\ <<a, -1>> \notin down /\ speed[a] >= 0) => report'.motion[a] >= 0]_mouseVars
================================================================================
