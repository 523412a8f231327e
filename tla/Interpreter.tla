------------------------------ MODULE Interpreter ------------------------------
(***************************************************************************)
(* The program interpreter (interpreter.c): a few stack machines that the  *)
(* main loop steps in turn while it is in its normal state, one            *)
(* instruction each, and that wait for key presses, for the millisecond    *)
(* counter or for a USB report.                                            *)
(*                                                                         *)
(* A program is any compiled program: at each step it executes any         *)
(* instruction whose operands the current method has on the stack, so the  *)
(* values on the stack are not kept, only where its top is.                *)
(***************************************************************************)
EXTENDS ExtraReport

CONSTANTS
    PROGRAM_COUNT,      \* virtual machines
    Setups,             \* the keyboards to consider, see below
    SpecialKeys,        \* HID codes from SPECIAL_HID_KEYS_START on
    LKeys,              \* logical keys
    HidOf,              \* their HID codes
    STACK_SIZE,         \* bytes of a machine's stack
    Methods,            \* the methods besides main: their nargs and nlocals
    Delays,             \* arguments of delay and of a timed wait
    MouseMax,           \* INT8_MAX
    Wrap,               \* values of the millisecond counter
    Splits              \* values of its low bytes, one number for each place
                        \* where a read of it can be interrupted

Programs == 1..PROGRAM_COUNT
Bytes == (-MouseMax - 1)..MouseMax      \* int8_t
Uptimes == 0..(Wrap - 1)                \* uint32_t
FRAME_HEADER == 6       \* return_addr, return_stack and previous_frame

(***************************************************************************)
(* A setup is what one keyboard holds: for each of the machines in present *)
(* the instructions its program uses, and the sizes of its globals and of  *)
(* main's locals; the logical keys of the board, the HID codes they and    *)
(* the programs send, how far its mouse keys move the pointer, and a bound *)
(* that the counter is not driven past.                                    *)
(***************************************************************************)
ASSUME InterpreterAssumption ==
    /\ PROGRAM_COUNT \in Nat \ {0}
    /\ HidOf \in [LKeys -> Keys \cup Modifiers \cup SpecialKeys]
    /\ {STACK_SIZE, MouseMax} \subseteq Nat /\ Wrap \in Nat \ {0}
    /\ Splits \subseteq Nat \ {0} /\ \A low \in Splits : Wrap % low = 0
    /\ \A s \in Setups :
        /\ s.present \subseteq Programs /\ s.lkeys \subseteq LKeys
        /\ s.codes \subseteq Keys \cup Modifiers /\ s.moves \subseteq Bytes
        /\ {s.nglobals, s.nlocals, s.horizon} \subseteq Nat
    /\ Methods \subseteq [nargs : Nat, nlocals : Nat] /\ Delays \subseteq Nat
    /\ \A m \in Methods : m.nargs <= m.nlocals

VARIABLES
    setup,              \* one of Setups
    vms,                \* the virtual machines
    current_state,      \* of the main loop: normal or any other
    down,               \* logical keys that are pressed
    uptimems,           \* the millisecond counter
    past,               \* history: the milliseconds before it last wrapped
    mouse               \* the movement in the last mouse report

vars == <<setup, vms, current_state, down, uptimems, past, mouse>>

Halted == {"STOPPED", "CRASHED", "NOPROGRAM"}
KeyWaits == {"WAITKEY", "WAITPHYSKEY"}
ReportWaits == {"WAITREPORT", "WAITMOUSEREPORT"}
States == Halted \cup KeyWaits \cup ReportWaits \cup {"RUNNING", "DELAY"}

Instructions == setup.instructions
Horizon == setup.horizon
NGlobals == setup.nglobals
MainLocals == setup.nlocals
Codes == setup.codes

\* What the held keys may contribute to a report.
BaseReports == {EmptyReport} \cup {[keys |-> <<k>>, mods |-> {}] : k \in Codes \cap Keys}
BaseMoves == setup.moves

NothingPending == [key |-> NO_KEY, pressed |-> FALSE]
KEY_ZERO == NO_KEY      \* key 0 of a wait: the trigger key, or any HID key

(***************************************************************************)
(* A machine has its state, its stack, what it contributes to the reports  *)
(* and what it waits for.  Some of it is history: io.pending is the last   *)
(* press or release that no report has shown yet, wait.until the           *)
(* millisecond up to which the machine was asked to wait, wait.wrapped     *)
(* whether the deadline that stands for it lies behind the counter's wrap, *)
(* and wait.early whether the last wait that ran out did so too early.     *)
(***************************************************************************)
VM(state, stack, io, wait) == [state |-> state, stack |-> stack, io |-> io, wait |-> wait]

Active(vm) == vm.state \notin Halted

--------------------------------------------------------------------------------
(***************************************************************************)
(* The stack.  top is the index of its last used byte and reach the        *)
(* highest byte ever written; a frame is where the caller's stack ended    *)
(* and where the method's operands start.                                  *)
(***************************************************************************)
Larger(a, b) == IF a < b THEN b ELSE a

MainFrame ==
    LET top == NGlobals + FRAME_HEADER + MainLocals
    IN  [top |-> top, reach |-> NGlobals + FRAME_HEADER - 1,
         frames |-> <<[return_stack |-> NGlobals - 1, operands |-> top]>>]

Current(stack) == stack.frames[Len(stack.frames)]

Depth(stack) == stack.top - Current(stack).operands

\* Pop some bytes, then push some.
Operate(stack, pops, pushes) ==
    LET top == stack.top - pops + pushes
    IN  [top |-> top, frames |-> stack.frames,
         reach |-> IF pushes = 0 THEN stack.reach ELSE Larger(stack.reach, top)]

\* What the instructions without other effects pop and push.
VariableOps == {<<1, 0>>, <<2, 0>>, <<0, 1>>, <<0, 2>>}    \* [GBS]STORE, LOAD
ConstantOps == {<<0, 1>>, <<0, 2>>}                        \* BCONST, SCONST
ShuffleOps == {<<1, 2>>, <<2, 4>>, <<1, 0>>, <<2, 0>>, <<2, 2>>}
ByteOps == {<<2, 1>>, <<1, 1>>}
ShortOps == {<<4, 2>>, <<2, 2>>, <<4, 1>>, <<3, 2>>}
ConversionOps == {<<1, 2>>, <<2, 1>>}
JumpOps == {<<1, 0>>, <<0, 0>>}
ClockOps == {<<0, 2>>}                                     \* GETUPTIME, GETUPTIMEMS

StackOps ==
    VariableOps \cup ConstantOps \cup ShuffleOps \cup ByteOps \cup ShortOps
        \cup ConversionOps \cup JumpOps \cup ClockOps

\* Mutant: the caller's stack is cut by the arguments a second time.
MutCalledCutsTwice(stack, m) ==
    LET frame == stack.top - m.nargs + 1
        top   == frame + FRAME_HEADER + m.nlocals
    IN  [top |-> top, reach |-> Larger(stack.reach, frame + FRAME_HEADER + m.nargs - 1),
         frames |-> Append(stack.frames, [return_stack |-> frame - 1 - m.nargs, operands |-> top])]

\* The arguments are popped and become the first locals of the new frame.
Called(stack, m) ==
    LET frame == stack.top - m.nargs + 1
        top   == frame + FRAME_HEADER + m.nlocals
    IN  [top |-> top,
         frames |-> Append(stack.frames, [return_stack |-> frame - 1, operands |-> top]),
         reach |-> Larger(stack.reach, frame + FRAME_HEADER + m.nargs - 1)]

\* vm_do_return, and the n bytes of the result pushed for the caller.
Returned(stack, n) ==
    LET top == Current(stack).return_stack + n
    IN  [top |-> top, reach |-> Larger(stack.reach, top),
         frames |-> SubSeq(stack.frames, 1, Len(stack.frames) - 1)]

--------------------------------------------------------------------------------
(***************************************************************************)
(* Waiting.  A read of the counter has the value t that it returns, the    *)
(* millisecond now in which it was made, and the values torn of the bytes  *)
(* that it took before an interrupt, 0 when none fell into it.             *)
(***************************************************************************)
Read(t, now, torn) == [t |-> t, now |-> now, torn |-> torn]

Deadline(t, d) == (t + d) % Wrap

\* No wait ran out too early.
OnTime == [by |-> 0, torn |-> 0, wrapped |-> FALSE]

\* How many milliseconds too early wait w ran out, by a read of the counter;
\* d whole milliseconds have passed when the interrupt came d + 1 times.
RanOut(w, read) ==
    IF w.until < read.now THEN OnTime
    ELSE [by |-> w.until + 1 - read.now, torn |-> read.torn, wrapped |-> w.wrapped]

\* keystate_check_key(key, LOGICAL), keystate_check_hid_key(key): the latter
\* takes 0 for any key.
PhysKeyDown(vm) == (IF vm.wait.key = KEY_ZERO THEN vm.wait.trigger ELSE vm.wait.key) \in down
HidKeyDown(vm) == \E l \in down : vm.wait.key \in {KEY_ZERO, HidOf[l]}

\* Mutant: the timeout is taken to have passed in its last millisecond.
MutExpiredEarly(vm, t) == vm.wait.delay_end # 0 /\ t >= vm.wait.delay_end

\* Mutant: only the very millisecond after the timeout counts.
MutExpiredExactly(vm, t) == vm.wait.delay_end # 0 /\ t = vm.wait.delay_end + 1

Expired(vm, t) == vm.wait.delay_end # 0 /\ t > vm.wait.delay_end

NoWait(w, early) ==
    [trigger |-> w.trigger, key |-> w.key, delay_end |-> 0, until |-> 0, wrapped |-> FALSE,
     early |-> early]

\* A key press or the timeout ends the wait and pushes which of them it was.
KeyWaited(vm, read) ==
    LET pressed == IF vm.state = "WAITKEY" THEN HidKeyDown(vm) ELSE PhysKeyDown(vm)
    IN  IF pressed \/ Expired(vm, read.t)
        THEN VM("RUNNING", Operate(vm.stack, 0, 1), vm.io,
                NoWait(vm.wait, IF pressed THEN OnTime ELSE RanOut(vm.wait, read)))
        ELSE vm

DelayFor(vm, key, read, d) ==
    [trigger |-> vm.wait.trigger, key |-> key, early |-> vm.wait.early,
     delay_end |-> Deadline(read.t, d), until |-> read.now + d, wrapped |-> read.t + d >= Wrap]

\* A timeout of 0 never runs out.
WaitFor(vm, key, read, d) ==
    IF d = 0 THEN NoWait([vm.wait EXCEPT !.key = key], vm.wait.early)
    ELSE DelayFor(vm, key, read, d)

--------------------------------------------------------------------------------
(***************************************************************************)
(* The instructions: the machines that executing one can lead to.          *)
(***************************************************************************)
Compute(vm) ==
    {VM("RUNNING", Operate(vm.stack, op[1], op[2]), vm.io, vm.wait) :
        op \in {o \in StackOps : o[1] <= Depth(vm.stack)}}

CALL(vm) ==
    {VM("RUNNING", Called(vm.stack, m), vm.io, vm.wait) :
        m \in {n \in Methods : n.nargs <= Depth(vm.stack)}}

\* Returning from main stops the program.
RETURN(vm) ==
    IF Len(vm.stack.frames) = 1 THEN {VM("STOPPED", vm.stack, vm.io, vm.wait)}
    ELSE {VM("RUNNING", Returned(vm.stack, n), vm.io, vm.wait) :
            n \in {b \in 0..2 : b <= Depth(vm.stack)}}

VMEXIT(vm) == {VM("STOPPED", vm.stack, vm.io, vm.wait)}

SetKeys(io, extra, key, pressed) ==
    [extra |-> extra, button |-> io.button, x |-> io.x, pending |-> [key |-> key, pressed |-> pressed]]

\* Special keys are ignored, and a key that finds no place is dropped.
PRESSKEY(vm) ==
    LET Press(k) == ExtraKeyboardReport_add(vm.io.extra, k)
    IN  {VM("RUNNING", Operate(vm.stack, 1, 0), vm.io, vm.wait) : k \in SpecialKeys}
        \cup {VM("WAITREPORT", Operate(vm.stack, 1, 0),
                 SetKeys(vm.io, Press(k), IF k \in Held(Press(k)) THEN k ELSE NO_KEY, TRUE), vm.wait) :
                k \in Codes}

RELEASEKEY(vm) ==
    {VM("WAITREPORT", Operate(vm.stack, 1, 0),
        SetKeys(vm.io, ExtraKeyboardReport_remove(vm.io.extra, k),
                IF k \in Codes THEN k ELSE NO_KEY, FALSE), vm.wait) :
        k \in Codes \cup SpecialKeys}

SetMouse(io, button, x) == [extra |-> io.extra, button |-> button, x |-> x, pending |-> io.pending]

MOUSEBUTTONS(vm) ==
    {VM("WAITMOUSEREPORT", Operate(vm.stack, 1, 0), SetMouse(vm.io, b, vm.io.x), vm.wait) :
        b \in BOOLEAN}

MOVEMOUSE(vm) ==
    {VM("WAITMOUSEREPORT", Operate(vm.stack, 2, 0), SetMouse(vm.io, vm.io.button, x), vm.wait) :
        x \in Bytes}

CHECK(vm) == {VM("RUNNING", Operate(vm.stack, 1, 1), vm.io, vm.wait)}

WAIT(vm, read) ==
    {VM("WAITKEY", Operate(vm.stack, 3, 0), vm.io, WaitFor(vm, k, read, d)) :
        k \in Codes \cup {KEY_ZERO}, d \in Delays}
    \cup {VM("WAITPHYSKEY", Operate(vm.stack, 3, 0), vm.io, WaitFor(vm, k, read, d)) :
        k \in setup.lkeys \cup {KEY_ZERO}, d \in Delays}

DELAY(vm, read) ==
    {VM("DELAY", Operate(vm.stack, 2, 0), vm.io, DelayFor(vm, vm.wait.key, read, d)) : d \in Delays}

BUZZ(vm) ==
    {VM("RUNNING", Operate(vm.stack, n, 0), vm.io, vm.wait) :
        n \in {m \in {2, 3} : m <= Depth(vm.stack)}}

Operands == [CHECK |-> 1, PRESSKEY |-> 1, RELEASEKEY |-> 1, MOUSEBUTTONS |-> 1, MOVEMOUSE |-> 2,
             WAIT |-> 3, DELAY |-> 2, BUZZ |-> 2]

Effect(instruction, vm, read) ==
    CASE instruction = "CHECK" -> CHECK(vm)
      [] instruction = "PRESSKEY" -> PRESSKEY(vm)
      [] instruction = "RELEASEKEY" -> RELEASEKEY(vm)
      [] instruction = "MOUSEBUTTONS" -> MOUSEBUTTONS(vm)
      [] instruction = "MOVEMOUSE" -> MOVEMOUSE(vm)
      [] instruction = "WAIT" -> WAIT(vm, read)
      [] instruction = "DELAY" -> DELAY(vm, read)
      [] instruction = "BUZZ" -> BUZZ(vm)

Execute(vm, read) ==
    (UNION {Effect(i, vm, read) : i \in {j \in Instructions \cap DOMAIN Operands : Operands[j] <= Depth(vm.stack)}})
    \cup (IF "COMPUTE" \in Instructions THEN Compute(vm) ELSE {})
    \cup (IF "CALL" \in Instructions THEN CALL(vm) \cup RETURN(vm) ELSE {})
    \cup VMEXIT(vm)

\* Mutant: the check counts the frames' headers out.
MutStackFullLate(vm) == vm.stack.top - FRAME_HEADER * Len(vm.stack.frames) > STACK_SIZE - 2

StackFull(vm) == vm.stack.top > STACK_SIZE - 2

\* A machine that is not waiting executes one instruction, and so does one
\* whose delay is over; a stack that is too full stops it first.  The counter
\* is read to check a deadline and again to set one.
vm_step(vm, reads) ==
    CASE ~Active(vm) -> {vm}
      [] Active(vm) /\ StackFull(vm) -> {VM("CRASHED", vm.stack, vm.io, vm.wait)}
      [] ~StackFull(vm) /\ vm.state \in ReportWaits -> {vm}
      [] ~StackFull(vm) /\ vm.state \in KeyWaits -> {KeyWaited(vm, reads.check)}
      [] ~StackFull(vm) /\ vm.state = "DELAY" ->
            IF reads.check.t <= vm.wait.delay_end THEN {vm}
            ELSE Execute(VM("RUNNING", vm.stack, vm.io,
                            NoWait(vm.wait, RanOut(vm.wait, reads.check))), reads.set)
      [] ~StackFull(vm) /\ vm.state = "RUNNING" -> Execute(vm, reads.set)

--------------------------------------------------------------------------------
(***************************************************************************)
(* The machines and their surroundings.                                    *)
(***************************************************************************)
\* vm_init_vm: all zero, with an empty report.
InitVM(i) ==
    VM(IF i \in setup.present THEN "STOPPED" ELSE "NOPROGRAM", MainFrame,
       [extra |-> ExtraKeyboardReport_clear, button |-> FALSE, x |-> 0, pending |-> NothingPending],
       [trigger |-> KEY_ZERO, key |-> KEY_ZERO, delay_end |-> 0, until |-> 0, wrapped |-> FALSE,
        early |-> OnTime])

Init ==
    /\ setup \in Setups
    /\ vms = [i \in Programs |-> InitVM(i)]
    /\ current_state = "NORMAL" /\ down = {} /\ uptimems = 0 /\ past = 0
    /\ mouse = 0

\* The millisecond interrupt.
Now == past + uptimems

NextUptime == (uptimems + 1) % Wrap

Tick ==
    /\ Now < Horizon
    /\ uptimems' = NextUptime
    /\ past' = IF NextUptime = 0 THEN past + Wrap ELSE past

Update_Millis ==
    /\ Tick
    /\ UNCHANGED <<setup, vms, current_state, down, mouse>>

\* What a machine reads when no interrupt falls into its step, and after one.
Reads(check, set) == [check |-> check, set |-> set]

Before == Read(uptimems, Now, 0)
After == Read(NextUptime, Now + 1, 0)

\* uptimems() copies the counter from its lowest byte on with interrupts
\* enabled: the low bytes may be the old and the others the new ones.
Torn(low) == (NextUptime - (NextUptime % low)) + (uptimems % low)

\* What a machine reads when an interrupt falls into its step, between two
\* reads or into one.  A wait is over when the read that ends it is, and it
\* starts when the read that sets its deadline does.
Interrupted ==
    {Reads(After, After), Reads(Before, After)}
        \cup {Reads(Read(Torn(low), Now + 1, low), After) : low \in Splits}
        \cup {Reads(Before, Read(Torn(low), Now, low)) : low \in Splits}

\* Every machine makes a step.
StepWith(reads) ==
    \E steps \in {{<<i, vm_step(vms[i], reads[i])>> : i \in Programs}} :
        vms' \in {f \in [Programs -> UNION {s[2] : s \in steps}] : \A s \in steps : f[s[1]] \in s[2]}

\* An interrupt may fall into the step of one machine: those before it read
\* the old and those behind it the new counter.
vm_step_all ==
    /\ current_state = "NORMAL"
    /\ \/ StepWith([i \in Programs |-> Reads(Before, Before)]) /\ UNCHANGED <<uptimems, past>>
       \/ /\ Tick
          /\ \E n \in Programs, r \in Interrupted :
                StepWith([i \in Programs |-> IF i < n THEN Reads(Before, Before)
                                             ELSE IF i = n THEN r ELSE Reads(After, After)])
    /\ UNCHANGED <<setup, current_state, down, mouse>>

\* A trigger starts a program that is not running.  What the last run of it
\* pressed and did not release is pressed again.
vm_start(i, lkey) ==
    /\ current_state = "NORMAL" /\ lkey \in down
    /\ vms[i].state \in {"STOPPED", "CRASHED"}
    /\ vms' = [vms EXCEPT ![i] =
                 VM("RUNNING", MainFrame, vms[i].io, [vms[i].wait EXCEPT !.trigger = lkey])]
    /\ UNCHANGED <<setup, current_state, down, uptimems, past, mouse>>

\* The report with the keys of the first n machines.
AppendedReport(b) ==
    LET upTo[n \in 0..PROGRAM_COUNT] ==
            IF n = 0 THEN b
            ELSE IF Active(vms[n]) THEN ExtraKeyboardReport_append(vms[n].io.extra, upTo[n - 1])
            ELSE upTo[n - 1]
    IN  upTo[PROGRAM_COUNT]

\* Does report r, with b of the held keys, show the pending change of machine i?
Shows(i, r, b) ==
    LET p == vms[i].io.pending
    IN  IF p.pressed
        THEN \/ p.key \in Content(r)
             \/ p.key \in Keys /\ Len(r.keys) = KEYBOARDREPORT_KEY_COUNT
        ELSE \/ p.key \notin Content(r)
             \/ p.key \in Content(b)
             \/ \E j \in Programs \ {i} : p.key \in Held(vms[j].io.extra)

\* Mutant: the last machine is left out.
MutKeyboardReportedButLast(i, r, b) ==
    IF ~Active(vms[i]) \/ i = PROGRAM_COUNT THEN vms[i]
    ELSE VM(IF vms[i].state = "WAITREPORT" THEN "RUNNING" ELSE vms[i].state, vms[i].stack,
            [vms[i].io EXCEPT !.pending = IF Shows(i, r, b) THEN NothingPending ELSE @], vms[i].wait)

KeyboardReported(i, r, b) ==
    IF ~Active(vms[i]) THEN vms[i]
    ELSE VM(IF vms[i].state = "WAITREPORT" THEN "RUNNING" ELSE vms[i].state, vms[i].stack,
            [vms[i].io EXCEPT !.pending = IF Shows(i, r, b) THEN NothingPending ELSE @], vms[i].wait)

\* The host fetches a keyboard report: the held keys, and in the normal state
\* the machines' keys, which resumes the machines that waited for it.
Fill_KeyboardReport(b) ==
    /\ current_state = "NORMAL"
    /\ vms' = [i \in Programs |-> KeyboardReported(i, AppendedReport(b), b)]
    /\ UNCHANGED <<setup, current_state, down, uptimems, past, mouse>>

\* In the other states the machines are left alone, and the reports have only
\* the held keys and the movement of the mouse keys.
FillElsewhere(m) ==
    /\ current_state = "OTHER"
    /\ mouse' = m
    /\ UNCHANGED <<setup, vms, current_state, down, uptimems, past>>

addT(x, y) ==
    IF x + y > MouseMax THEN MouseMax ELSE IF x + y < -MouseMax - 1 THEN -MouseMax - 1 ELSE x + y

\* Mutant: the movement is not taken out once it has been reported.
MutMouseReportedKeepsX(vm) ==
    IF ~Active(vm) THEN vm
    ELSE VM(IF vm.state = "WAITMOUSEREPORT" THEN "RUNNING" ELSE vm.state, vm.stack, vm.io, vm.wait)

MouseReported(vm) ==
    IF ~Active(vm) THEN vm
    ELSE VM(IF vm.state = "WAITMOUSEREPORT" THEN "RUNNING" ELSE vm.state, vm.stack,
            SetMouse(vm.io, vm.io.button, 0), vm.wait)

\* m is the movement of the mouse keys.
Fill_MouseReport(m) ==
    LET upTo[n \in 0..PROGRAM_COUNT] ==
            IF n = 0 THEN m
            ELSE IF Active(vms[n]) THEN addT(upTo[n - 1], vms[n].io.x) ELSE upTo[n - 1]
    IN  /\ current_state = "NORMAL"
        /\ mouse' = upTo[PROGRAM_COUNT]
        /\ vms' = [i \in Programs |-> MouseReported(vms[i])]
        /\ UNCHANGED <<setup, current_state, down, uptimems, past>>

\* The main loop enters and leaves its other states, and keys move.
ChangeState ==
    /\ current_state' = IF current_state = "NORMAL" THEN "OTHER" ELSE "NORMAL"
    /\ UNCHANGED <<setup, vms, down, uptimems, past, mouse>>

ChangeKey(l) ==
    /\ down' = IF l \in down THEN down \ {l} ELSE down \cup {l}
    /\ UNCHANGED <<setup, vms, current_state, uptimems, past, mouse>>

Next ==
    \/ vm_step_all \/ Update_Millis \/ ChangeState
    \/ \E m \in BaseMoves : Fill_MouseReport(m) \/ FillElsewhere(m)
    \/ \E b \in BaseReports : Fill_KeyboardReport(b)
    \/ \E l \in setup.lkeys : ChangeKey(l) \/ \E i \in Programs : vm_start(i, l)

Spec == Init /\ [][Next]_vars

(***************************************************************************)
(* The main loop steps the machines in every iteration that ends in the    *)
(* normal state, also in the one that enters it, so stepping is strongly   *)
(* fair; the host polls both endpoints all the time, much faster than a    *)
(* user can leave the normal state and come back; the user leaves the      *)
(* other states; time passes.                                              *)
(***************************************************************************)
FairSpec ==
    /\ Spec
    /\ SF_vars(vm_step_all) /\ WF_vars(Update_Millis)
    /\ SF_vars(\E b \in BaseReports : Fill_KeyboardReport(b)) /\ SF_vars(\E m \in BaseMoves : Fill_MouseReport(m))
    /\ WF_vars(current_state = "OTHER" /\ ChangeState)
--------------------------------------------------------------------------------
(***************************************************************************)
(* Properties.                                                             *)
(***************************************************************************)
Stacks == [top : Int, reach : Int, frames : Seq([return_stack : Int, operands : Int])]

Pendings == [key : Keys \cup Modifiers \cup {NO_KEY}, pressed : BOOLEAN]

Outputs == [extra : ExtraReports, button : BOOLEAN, x : Bytes, pending : Pendings]

Waits ==
    [trigger : LKeys \cup {KEY_ZERO}, key : Keys \cup Modifiers \cup LKeys \cup {KEY_ZERO},
     delay_end : Uptimes, until : Nat, wrapped : BOOLEAN,
     early : [by : Nat, torn : Nat, wrapped : BOOLEAN]]

Machines == [state : States, stack : Stacks, io : Outputs, wait : Waits]

TypeOK ==
    /\ setup \in Setups /\ vms \in [Programs -> Machines]
    /\ current_state \in {"NORMAL", "OTHER"} /\ down \subseteq LKeys /\ uptimems \in Uptimes
    /\ past \in Nat /\ mouse \in Bytes /\ \A b \in BaseReports : AppendedReport(b) \in KeyboardReports

\* "Does not return until a report has been sent" (PRESSKEY, RELEASEKEY): a
\* program goes on only after a report has shown the key it pressed or no
\* longer shows the key it released, unless the report is full or something
\* else holds the key.
ChangesReachHost ==
    \A i \in Programs : vms[i].io.pending.key # NO_KEY => vms[i].state = "WAITREPORT"

\* A mouse movement is reported once: the program waits while it is pending,
\* and it is taken out when the program goes on.
MovesOnce == \A i \in Programs : vms[i].io.x # 0 => vms[i].state = "WAITMOUSEREPORT"

\* "Execution is stopped until arg1 ms elapsed" (DELAY, and the timeouts of the
\* waits), as far as the code ensures it: a wait that runs out too early had a
\* deadline behind the counter's wrap, or an interrupt fell into the very read
\* that ended it, and then the wait misses less than the torn bytes count.
DelayElapses ==
    \A i \in Programs :
        LET e == vms[i].wait.early
        IN  e.by > 0 => e.wrapped \/ e.by < e.torn

\* The same without the exceptions.
NoDelayCut == \A i \in Programs : vms[i].wait.early.by = 0

\* The check before each instruction "must keep enough stack to push a short":
\* no instruction writes past the end of the stack.
StackInBounds == \A i \in Programs : vms[i].stack.reach < STACK_SIZE

\* What the check does guarantee: an overflow is met before a second
\* instruction runs, so nothing further than a frame header is overwritten.
OverrunBounded == \A i \in Programs : vms[i].stack.reach <= STACK_SIZE - 2 + FRAME_HEADER

\* Calls nest: every method's operands lie above its frame, its frame above
\* what its caller had on the stack, and a program never pops below its own
\* operands.
FramesNest ==
    \A i \in Programs :
        LET s == vms[i].stack
        IN  /\ s.top >= Current(s).operands
            /\ \A f \in DOMAIN s.frames : s.frames[f].return_stack + FRAME_HEADER < s.frames[f].operands
            /\ \A f \in 1..(Len(s.frames) - 1) : s.frames[f].operands <= s.frames[f + 1].return_stack

\* A program that waits for a report goes on, although the user may go through
\* the other states of the main loop again and again.
ReportWaitsEnd ==
    \A i \in Programs :
        vms[i].state \in ReportWaits ~> vms[i].state \notin ReportWaits

\* A delay or a timed wait ends as long as the counter does not wrap.
TimedWaitsEnd ==
    \A i \in Programs :
        LET waits == /\ vms[i].state \in KeyWaits \cup {"DELAY"}
                     /\ vms[i].wait.delay_end \in 1..(Horizon - 1) /\ Horizon < Wrap
        IN  waits ~> ~waits
================================================================================
