--------------------------- MODULE InterpreterProofs ---------------------------
(***************************************************************************)
(* Proofs about the program interpreter, for any number of machines, any   *)
(* programs, any stack size and any reports.                               *)
(*                                                                         *)
(* A step of the system changes each machine in one of six ways            *)
(* (MachineChange), and an instruction in one of five (Outcome).  The      *)
(* invariants of a machine are proved from these two lists.                *)
(***************************************************************************)
EXTENDS Interpreter, ExtraReportProofs, TLAPS

--------------------------------------------------------------------------------
(***************************************************************************)
(* The stack.                                                              *)
(***************************************************************************)
\* A stack as the calls and returns leave it.
StackOK(s) ==
    /\ s \in Stacks /\ Len(s.frames) > 0
    /\ s.top >= Current(s).operands
    /\ \A f \in DOMAIN s.frames : s.frames[f].return_stack + FRAME_HEADER < s.frames[f].operands
    /\ \A f \in 1..(Len(s.frames) - 1) : s.frames[f].operands <= s.frames[f + 1].return_stack

\* The last element of a sequence.
LEMMA LastElement ==
    ASSUME NEW F, NEW q \in Seq(F), Len(q) > 0
    PROVE  Len(q) \in Nat \ {0} /\ q[Len(q)] \in F
  OBVIOUS

\* The fields of a stack.
LEMMA StackFields ==
    ASSUME NEW s, StackOK(s)
    PROVE  /\ s.frames \in Seq([return_stack : Int, operands : Int])
           /\ s.top \in Int /\ s.reach \in Int /\ Len(s.frames) \in Nat \ {0}
           /\ Current(s) \in [return_stack : Int, operands : Int]
           /\ Current(s).return_stack \in Int /\ Current(s).operands \in Int
           /\ s.top >= Current(s).operands
<1> DEFINE F == [return_stack : Int, operands : Int]
<1>1. s.frames \in Seq(F) /\ s.top \in Int /\ s.reach \in Int /\ Len(s.frames) > 0
      /\ s.top >= Current(s).operands
  BY DEF StackOK, Stacks
<1> HIDE DEF F
<1>2. Len(s.frames) \in Nat \ {0} /\ Current(s) \in F
  BY <1>1, LastElement DEF Current
<1>3. Current(s).return_stack \in Int /\ Current(s).operands \in Int
  BY <1>2 DEF F
<1> QED
  BY <1>1, <1>2, <1>3 DEF F

\* No more is popped than the method has pushed, so its frame stays below.
LEMMA OperateOK ==
    ASSUME NEW s, StackOK(s), NEW pops \in Nat, NEW pushes \in Nat, pops <= Depth(s)
    PROVE  StackOK(Operate(s, pops, pushes))
<1>1. s.frames \in Seq([return_stack : Int, operands : Int]) /\ s.top \in Int /\ s.reach \in Int
  BY StackFields
<1>2. Current(s).operands \in Int
  BY StackFields
<1>3. s.top - pops + pushes \in Int /\ s.top - pops + pushes >= Current(s).operands
  BY <1>1, <1>2 DEF Depth
<1>4. Operate(s, pops, pushes).frames = s.frames /\ Operate(s, pops, pushes).top = s.top - pops + pushes
  BY DEF Operate
<1>5. Operate(s, pops, pushes) \in Stacks
  BY <1>1, <1>3 DEF Operate, Stacks, Larger
<1> QED
  BY <1>3, <1>4, <1>5 DEF StackOK, Current

\* A call puts the new frame on top of what the caller keeps.
LEMMA CalledOK ==
    ASSUME NEW s, StackOK(s), NEW m \in Methods, m.nargs <= Depth(s)
    PROVE  StackOK(Called(s, m))
<1> DEFINE F == [return_stack : Int, operands : Int]
           frame == s.top - m.nargs + 1
           top == frame + FRAME_HEADER + m.nlocals
           new == [return_stack |-> frame - 1, operands |-> top]
<1>1. s.frames \in Seq(F) /\ s.top \in Int /\ s.reach \in Int
  BY StackFields
<1>2. m.nargs \in Nat /\ m.nlocals \in Nat
  BY InterpreterAssumption
<1>3. Current(s).operands \in Int /\ Len(s.frames) \in Nat \ {0}
  BY StackFields
<1>d. m.nargs <= s.top - Current(s).operands
  BY DEF Depth
<1>a. frame - 1 \in Int /\ top \in Int /\ frame - 1 + FRAME_HEADER < top
      /\ Current(s).operands <= frame - 1
  <2>1. s.top \in Int /\ Current(s).operands \in Int /\ m.nargs \in Nat /\ m.nlocals \in Nat
    BY <1>1, <1>2, <1>3
  <2>2. frame - 1 \in Int
    BY <2>1
  <2>3. top \in Int
    BY <2>1 DEF FRAME_HEADER
  <2>4. frame - 1 + FRAME_HEADER < top
    BY <2>1 DEF FRAME_HEADER
  <2>5. Current(s).operands <= frame - 1
    BY <2>1, <1>d
  <2> QED BY <2>2, <2>3, <2>4, <2>5
<1>b. new.return_stack = frame - 1 /\ new.operands = top
  OBVIOUS
<1> HIDE DEF frame, top
<1>c. new \in F
  BY <1>a
<1>4. new \in F /\ top = new.operands /\ new.return_stack + FRAME_HEADER < new.operands
      /\ Current(s).operands <= new.return_stack
  BY <1>a, <1>b, <1>c
<1>5. Called(s, m) = [top |-> top, frames |-> Append(s.frames, new),
                       reach |-> Larger(s.reach, frame + FRAME_HEADER + m.nargs - 1)]
  BY DEF Called, frame, top
<1>6. frame + FRAME_HEADER + m.nargs - 1 \in Int
  BY <1>1, <1>2 DEF FRAME_HEADER, frame
<1> HIDE DEF new, F
<1>7. Append(s.frames, new) \in Seq(F) /\ Len(Append(s.frames, new)) = Len(s.frames) + 1
      /\ Append(s.frames, new)[Len(s.frames) + 1] = new
      /\ \A f \in 1..Len(s.frames) : Append(s.frames, new)[f] = s.frames[f]
  BY <1>1, <1>4
<1>8. Called(s, m) \in Stacks
  BY <1>1, <1>a, <1>5, <1>6, <1>7 DEF Stacks, Larger, F
<1> DEFINE g == Append(s.frames, new)
<1> HIDE DEF g
<1>9. \A f \in DOMAIN g : g[f].return_stack + FRAME_HEADER < g[f].operands
  BY <1>1, <1>3, <1>4, <1>7 DEF StackOK, g
<1>10. \A f \in 1..(Len(g) - 1) : g[f].operands <= g[f + 1].return_stack
  <2> SUFFICES ASSUME NEW f \in 1..(Len(g) - 1) PROVE g[f].operands <= g[f + 1].return_stack
    OBVIOUS
  <2>1. CASE f = Len(s.frames)
    BY <2>1, <1>3, <1>4, <1>7 DEF Current, g
  <2>2. CASE f # Len(s.frames)
    BY <2>2, <1>3, <1>7 DEF StackOK, g
  <2> QED BY <2>1, <2>2
<1>11. Called(s, m).frames = g /\ Called(s, m).top = top
  BY <1>5 DEF g
<1>12. Current(Called(s, m)) = new
  BY <1>7, <1>11, <1>3 DEF Current, g
<1>14. Called(s, m).top >= Current(Called(s, m)).operands
  BY <1>a, <1>b, <1>11, <1>12
<1>15. Len(g) > 0
  BY <1>3, <1>7 DEF g
<1> QED
  BY <1>8, <1>9, <1>10, <1>11, <1>14, <1>15 DEF StackOK

\* A return gives the caller what it kept, and the result.
LEMMA ReturnedOK ==
    ASSUME NEW s, StackOK(s), Len(s.frames) # 1, NEW n \in 0..2
    PROVE  StackOK(Returned(s, n)) /\ Returned(s, n).top <= s.top - 5
<1> DEFINE F == [return_stack : Int, operands : Int]
           k == Len(s.frames) - 1
           g == SubSeq(s.frames, 1, k)
<1>a. Len(s.frames) \in Nat \ {0}
  BY StackFields
<1>1. s.frames \in Seq(F) /\ s.top \in Int /\ s.reach \in Int
  BY StackFields
<1>e. k \in Nat \ {0} /\ Len(s.frames) = k + 1
  BY <1>a
<1>f. Len(s.frames) - 1 = k
  OBVIOUS
<1> HIDE DEF F, k
<1>2. k \in Nat \ {0} /\ Len(s.frames) = k + 1 /\ k \in 1..(Len(s.frames) - 1)
  BY <1>e
<1>3. g \in Seq(F) /\ Len(g) = k /\ \A f \in 1..k : g[f] = s.frames[f]
  BY <1>1, <1>2
<1>4. Current(s) = s.frames[k + 1] /\ s.frames[k] \in F /\ s.frames[k + 1] \in F
  BY <1>1, <1>2 DEF Current
<1>5. s.frames[k].operands <= Current(s).return_stack
  BY <1>2, <1>4 DEF StackOK
<1>b. DOMAIN s.frames = 1..(k + 1) /\ k + 1 \in DOMAIN s.frames
  BY <1>1, <1>2
<1>c. s.frames[k + 1].return_stack + FRAME_HEADER < s.frames[k + 1].operands
  BY <1>b DEF StackOK
<1>6. Current(s).return_stack + FRAME_HEADER < Current(s).operands /\ Current(s).operands <= s.top
      /\ Current(s).return_stack \in Int /\ Current(s).operands \in Int
  BY <1>c, <1>4, StackFields
<1>d. s.frames[k].operands \in Int
  BY <1>4 DEF F
<1> DEFINE top == Current(s).return_stack + n
<1>7. Returned(s, n) = [top |-> top, reach |-> Larger(s.reach, top), frames |-> g]
  BY <1>f DEF Returned
<1>8. top \in Int /\ top >= s.frames[k].operands /\ top <= s.top - 5
  BY <1>1, <1>d, <1>5, <1>6, SMTT(30) DEF FRAME_HEADER
<1> HIDE DEF g, top
<1>9. Returned(s, n) \in Stacks
  BY <1>1, <1>3, <1>7, <1>8 DEF Stacks, Larger, F
<1>10. Returned(s, n).frames = g /\ Returned(s, n).top = top /\ Current(Returned(s, n)) = s.frames[k]
  BY <1>2, <1>3, <1>7 DEF Current
<1>g. \A f \in 1..k : f \in DOMAIN s.frames
  BY <1>2, <1>b
<1>h. DOMAIN g = 1..k
  BY <1>2, <1>3
<1>11. \A f \in DOMAIN g : g[f].return_stack + FRAME_HEADER < g[f].operands
  BY <1>3, <1>g, <1>h DEF StackOK
<1>12. \A f \in 1..(Len(g) - 1) : g[f].operands <= g[f + 1].return_stack
  BY <1>2, <1>3, SMTT(30) DEF StackOK
<1> QED
  BY <1>2, <1>3, <1>8, <1>9, <1>10, <1>11, <1>12 DEF StackOK

\* The stack of a program that starts.
LEMMA MainFrameOK ==
    ASSUME setup \in Setups
    PROVE  StackOK(MainFrame) /\ MainFrame.reach = setup.nglobals + FRAME_HEADER - 1
<1>1. setup.nglobals \in Nat /\ setup.nlocals \in Nat
  BY InterpreterAssumption
<1> DEFINE top == NGlobals + FRAME_HEADER + MainLocals
           new == [return_stack |-> NGlobals - 1, operands |-> top]
<1>2. top \in Int /\ NGlobals - 1 \in Int /\ NGlobals + FRAME_HEADER - 1 \in Int
      /\ NGlobals - 1 + FRAME_HEADER < top
  BY <1>1 DEF NGlobals, MainLocals, FRAME_HEADER
<1>3. MainFrame = [top |-> top, reach |-> NGlobals + FRAME_HEADER - 1, frames |-> <<new>>]
  BY DEF MainFrame
<1> HIDE DEF top
<1>4. <<new>> \in Seq([return_stack : Int, operands : Int]) /\ Len(<<new>>) = 1 /\ <<new>>[1] = new
      /\ DOMAIN <<new>> = 1..1
  BY <1>2
<1>5. MainFrame \in Stacks
  BY <1>2, <1>3, <1>4 DEF Stacks
<1>6. MainFrame.frames = <<new>> /\ MainFrame.top = top
  BY <1>3
<1> QED
  BY <1>2, <1>3, <1>4, <1>5, <1>6 DEF StackOK, Current, NGlobals

--------------------------------------------------------------------------------
(***************************************************************************)
(* What an instruction does, as far as the proofs need it: to the stack,   *)
(* and to the state, the output and the wait.                              *)
(***************************************************************************)
\* The new stack s of a machine whose stack was old.
StackEffect(old, s) ==
    StackOK(old) => /\ StackOK(s)
                    /\ old.top <= STACK_SIZE - 2 /\ old.reach <= STACK_SIZE - 2 + FRAME_HEADER
                       => s.reach <= STACK_SIZE - 2 + FRAME_HEADER

Pressed(io, k) ==
    LET extra == ExtraKeyboardReport_add(io.extra, k)
    IN  SetKeys(io, extra, IF k \in Held(extra) THEN k ELSE NO_KEY, TRUE)

Released(io, k) ==
    SetKeys(io, ExtraKeyboardReport_remove(io.extra, k), IF k \in Codes THEN k ELSE NO_KEY, FALSE)

\* v is what an instruction of the running machine vm leads to with the read t of the counter.
Outcome(vm, v, t) ==
    /\ v = VM(v.state, v.stack, v.io, v.wait)
    /\ \/ v.state \in {"RUNNING", "STOPPED"} /\ v.io = vm.io /\ v.wait = vm.wait
       \/ /\ v.state = "WAITREPORT" /\ v.wait = vm.wait /\ v.stack = Operate(vm.stack, 1, 0)
          /\ \/ \E k \in Codes : v.io = Pressed(vm.io, k)
             \/ \E k \in Codes \cup SpecialKeys : v.io = Released(vm.io, k)
       \/ /\ v.state = "WAITMOUSEREPORT" /\ v.wait = vm.wait
          /\ \/ v.stack = Operate(vm.stack, 1, 0) /\ \E b \in BOOLEAN : v.io = SetMouse(vm.io, b, vm.io.x)
             \/ v.stack = Operate(vm.stack, 2, 0) /\ \E x \in Bytes : v.io = SetMouse(vm.io, vm.io.button, x)
       \/ /\ v.state \in KeyWaits /\ v.io = vm.io
          /\ \E k \in Codes \cup setup.lkeys \cup {KEY_ZERO}, d \in Delays : v.wait = WaitFor(vm, k, t, d)
       \/ /\ v.state = "DELAY" /\ v.io = vm.io
          /\ \E d \in Delays : v.wait = DelayFor(vm, vm.wait.key, t, d)

\* What popping and pushing a few bytes does to the stack.
LEMMA OperateEffect ==
    ASSUME NEW s, NEW pops \in Nat, NEW pushes \in Nat, pops <= Depth(s), pushes <= pops + 2
    PROVE  StackEffect(s, Operate(s, pops, pushes))
<1> SUFFICES ASSUME StackOK(s)
             PROVE  /\ StackOK(Operate(s, pops, pushes))
                    /\ s.top <= STACK_SIZE - 2 /\ s.reach <= STACK_SIZE - 2 + FRAME_HEADER
                       => Operate(s, pops, pushes).reach <= STACK_SIZE - 2 + FRAME_HEADER
  BY DEF StackEffect
<1>1. s.top \in Int /\ s.reach \in Int /\ STACK_SIZE \in Nat
  BY StackFields, InterpreterAssumption
<1>2. Operate(s, pops, pushes).reach = IF pushes = 0 THEN s.reach ELSE Larger(s.reach, s.top - pops + pushes)
  BY DEF Operate
<1>3. s.top <= STACK_SIZE - 2 => s.top - pops + pushes <= STACK_SIZE - 2 + FRAME_HEADER
  BY <1>1 DEF FRAME_HEADER
<1> QED
  BY <1>1, <1>2, <1>3, OperateOK DEF Larger

\* An instruction that pops and does not push.
LEMMA PopEffect ==
    ASSUME NEW s, NEW n \in 1..3, n <= Depth(s)
    PROVE  StackEffect(s, Operate(s, n, 0))
<1>1. n \in Nat /\ 0 \in Nat /\ 0 <= n + 2
  OBVIOUS
<1> QED
  BY <1>1, OperateEffect

\* A call writes at most a frame header past the caller's operands.
LEMMA CalledEffect ==
    ASSUME NEW s, NEW m \in Methods, m.nargs <= Depth(s)
    PROVE  StackEffect(s, Called(s, m))
<1> SUFFICES ASSUME StackOK(s)
             PROVE  /\ StackOK(Called(s, m))
                    /\ s.top <= STACK_SIZE - 2 /\ s.reach <= STACK_SIZE - 2 + FRAME_HEADER
                       => Called(s, m).reach <= STACK_SIZE - 2 + FRAME_HEADER
  BY DEF StackEffect
<1>1. s.top \in Int /\ s.reach \in Int /\ STACK_SIZE \in Nat /\ m.nargs \in Nat
  BY StackFields, InterpreterAssumption
<1>2. Called(s, m).reach = Larger(s.reach, s.top - m.nargs + 1 + FRAME_HEADER + m.nargs - 1)
  BY DEF Called
<1>3. s.top - m.nargs + 1 + FRAME_HEADER + m.nargs - 1 = s.top + FRAME_HEADER
  BY <1>1 DEF FRAME_HEADER
<1>4. s.top <= STACK_SIZE - 2 => s.top + FRAME_HEADER <= STACK_SIZE - 2 + FRAME_HEADER
  BY <1>1 DEF FRAME_HEADER
<1> QED
  BY <1>1, <1>2, <1>3, <1>4, CalledOK DEF Larger

\* A return writes below the callee's frame.
LEMMA ReturnedEffect ==
    ASSUME NEW s, NEW n \in 0..2, Len(s.frames) # 1
    PROVE  StackEffect(s, Returned(s, n))
<1> SUFFICES ASSUME StackOK(s)
             PROVE  /\ StackOK(Returned(s, n))
                    /\ s.top <= STACK_SIZE - 2 /\ s.reach <= STACK_SIZE - 2 + FRAME_HEADER
                       => Returned(s, n).reach <= STACK_SIZE - 2 + FRAME_HEADER
  BY DEF StackEffect
<1>1. s.top \in Int /\ s.reach \in Int /\ STACK_SIZE \in Nat
  BY StackFields, InterpreterAssumption
<1>2. StackOK(Returned(s, n)) /\ Returned(s, n).top <= s.top - 5
  BY ReturnedOK
<1>3. Returned(s, n).top \in Int
  BY <1>2, StackFields
<1>4. Returned(s, n).reach = Larger(s.reach, Returned(s, n).top)
  BY DEF Returned
<1>5. s.top <= STACK_SIZE - 2 => Returned(s, n).top <= STACK_SIZE - 2 + FRAME_HEADER
  BY <1>1, <1>2, <1>3 DEF FRAME_HEADER
<1> QED
  BY <1>1, <1>2, <1>3, <1>4, <1>5 DEF Larger

\* The instructions without other effects push at most two bytes more than they pop.
LEMMA StackOpsBounded ==
    ASSUME NEW op \in StackOps
    PROVE  op[1] \in Nat /\ op[2] \in Nat /\ op[2] <= op[1] + 2
  BY DEF StackOps, VariableOps, ConstantOps, ShuffleOps, ByteOps, ShortOps, ConversionOps, JumpOps, ClockOps

\* Every instruction has one of the outcomes, and its effect on the stack.
LEMMA InstructionEffect ==
    ASSUME NEW vm, NEW t, NEW i \in DOMAIN Operands, Operands[i] <= Depth(vm.stack),
           NEW v \in Effect(i, vm, t)
    PROVE  StackEffect(vm.stack, v.stack) /\ Outcome(vm, v, t)
<1> USE DEF VM
<1>0. i \in {"CHECK", "PRESSKEY", "RELEASEKEY", "MOUSEBUTTONS", "MOVEMOUSE", "WAIT", "DELAY", "BUZZ"}
  BY DEF Operands
<1>1. CASE i = "CHECK"
  <2>1. v = VM("RUNNING", Operate(vm.stack, 1, 1), vm.io, vm.wait)
    BY <1>1 DEF Effect, CHECK
  <2>2. 1 <= Depth(vm.stack)
    BY <1>1 DEF Operands
  <2>3. StackEffect(vm.stack, Operate(vm.stack, 1, 1))
    BY <2>2, OperateEffect
  <2> QED BY <2>1, <2>3 DEF Outcome
<1>2. CASE i = "PRESSKEY"
  <2>1. 1 <= Depth(vm.stack)
    BY <1>2 DEF Operands
  <2>2. StackEffect(vm.stack, Operate(vm.stack, 1, 0))
    BY <2>1, PopEffect
  <2>3. v \in PRESSKEY(vm)
    BY <1>2 DEF Effect
  <2>4. \/ v = VM("RUNNING", Operate(vm.stack, 1, 0), vm.io, vm.wait)
        \/ \E k \in Codes : v = VM("WAITREPORT", Operate(vm.stack, 1, 0), Pressed(vm.io, k), vm.wait)
    BY <2>3 DEF PRESSKEY, Pressed
  <2> HIDE DEF VM
  <2>5. CASE v = VM("RUNNING", Operate(vm.stack, 1, 0), vm.io, vm.wait)
    BY <2>5, <2>2 DEF Outcome, VM
  <2>6. ASSUME NEW k \in Codes, v = VM("WAITREPORT", Operate(vm.stack, 1, 0), Pressed(vm.io, k), vm.wait)
        PROVE  StackEffect(vm.stack, v.stack) /\ Outcome(vm, v, t)
    BY <2>6, <2>2 DEF Outcome, VM
  <2> QED BY <2>4, <2>5, <2>6
<1>3. CASE i = "RELEASEKEY"
  <2>1. 1 <= Depth(vm.stack)
    BY <1>3 DEF Operands
  <2>2. StackEffect(vm.stack, Operate(vm.stack, 1, 0))
    BY <2>1, PopEffect
  <2>3. v \in RELEASEKEY(vm)
    BY <1>3 DEF Effect
  <2> HIDE DEF VM
  <2>4. PICK k \in Codes \cup SpecialKeys :
            v = VM("WAITREPORT", Operate(vm.stack, 1, 0), Released(vm.io, k), vm.wait)
    BY <2>3 DEF RELEASEKEY, Released
  <2> QED BY <2>2, <2>4 DEF Outcome, VM
<1>4. CASE i = "MOUSEBUTTONS"
  <2>1. 1 <= Depth(vm.stack)
    BY <1>4 DEF Operands
  <2>2. StackEffect(vm.stack, Operate(vm.stack, 1, 0))
    BY <2>1, PopEffect
  <2>3. v \in MOUSEBUTTONS(vm)
    BY <1>4 DEF Effect
  <2> HIDE DEF VM
  <2>4. PICK b \in BOOLEAN :
            v = VM("WAITMOUSEREPORT", Operate(vm.stack, 1, 0), SetMouse(vm.io, b, vm.io.x), vm.wait)
    BY <2>3 DEF MOUSEBUTTONS
  <2> QED BY <2>2, <2>4 DEF Outcome, VM
<1>5. CASE i = "MOVEMOUSE"
  <2>1. 2 <= Depth(vm.stack)
    BY <1>5 DEF Operands
  <2>2. StackEffect(vm.stack, Operate(vm.stack, 2, 0))
    BY <2>1, PopEffect
  <2>3. v \in MOVEMOUSE(vm)
    BY <1>5 DEF Effect
  <2> HIDE DEF VM
  <2>4. PICK x \in Bytes :
            v = VM("WAITMOUSEREPORT", Operate(vm.stack, 2, 0), SetMouse(vm.io, vm.io.button, x), vm.wait)
    BY <2>3 DEF MOVEMOUSE
  <2> QED BY <2>2, <2>4 DEF Outcome, VM
<1>6. CASE i = "WAIT"
  <2>1. 3 <= Depth(vm.stack)
    BY <1>6 DEF Operands
  <2>2. StackEffect(vm.stack, Operate(vm.stack, 3, 0))
    BY <2>1, PopEffect
  <2>3. v \in WAIT(vm, t)
    BY <1>6 DEF Effect
  <2> HIDE DEF VM
  <2>4. PICK st \in KeyWaits, k \in Codes \cup setup.lkeys \cup {KEY_ZERO}, d \in Delays :
            v = VM(st, Operate(vm.stack, 3, 0), vm.io, WaitFor(vm, k, t, d))
    BY <2>3 DEF WAIT, KeyWaits
  <2> QED BY <2>2, <2>4 DEF Outcome, VM
<1>7. CASE i = "DELAY"
  <2>1. 2 <= Depth(vm.stack)
    BY <1>7 DEF Operands
  <2>2. StackEffect(vm.stack, Operate(vm.stack, 2, 0))
    BY <2>1, PopEffect
  <2>3. v \in DELAY(vm, t)
    BY <1>7 DEF Effect
  <2> HIDE DEF VM
  <2>4. PICK d \in Delays : v = VM("DELAY", Operate(vm.stack, 2, 0), vm.io, DelayFor(vm, vm.wait.key, t, d))
    BY <2>3 DEF DELAY
  <2> QED BY <2>2, <2>4 DEF Outcome, VM
<1>8. CASE i = "BUZZ"
  <2>3. v \in BUZZ(vm)
    BY <1>8 DEF Effect
  <2> HIDE DEF VM
  <2>4. PICK n \in {2, 3} : n <= Depth(vm.stack) /\ v = VM("RUNNING", Operate(vm.stack, n, 0), vm.io, vm.wait)
    BY <2>3 DEF BUZZ
  <2>5. StackEffect(vm.stack, Operate(vm.stack, n, 0))
    BY <2>4, PopEffect
  <2> QED BY <2>4, <2>5 DEF Outcome, VM
<1> QED
  BY <1>0, <1>1, <1>2, <1>3, <1>4, <1>5, <1>6, <1>7, <1>8

\* The same for whatever a running machine executes.
LEMMA ExecuteEffect ==
    ASSUME NEW vm, NEW t, NEW v \in Execute(vm, t)
    PROVE  StackEffect(vm.stack, v.stack) /\ Outcome(vm, v, t)
<1> DEFINE Goal == StackEffect(vm.stack, v.stack) /\ Outcome(vm, v, t)
<1>1. \/ \E i \in DOMAIN Operands : Operands[i] <= Depth(vm.stack) /\ v \in Effect(i, vm, t)
      \/ v \in Compute(vm) \/ v \in CALL(vm) \/ v \in RETURN(vm) \/ v \in VMEXIT(vm)
  BY DEF Execute
<1>2. ASSUME NEW i \in DOMAIN Operands, Operands[i] <= Depth(vm.stack), v \in Effect(i, vm, t) PROVE Goal
  BY <1>2, InstructionEffect
<1>3. CASE v \in Compute(vm)
  <2>1. PICK op \in StackOps : op[1] <= Depth(vm.stack)
                /\ v = VM("RUNNING", Operate(vm.stack, op[1], op[2]), vm.io, vm.wait)
    BY <1>3 DEF Compute
  <2>2. op[1] \in Nat /\ op[2] \in Nat /\ op[2] <= op[1] + 2
    BY StackOpsBounded
  <2>3. StackEffect(vm.stack, Operate(vm.stack, op[1], op[2]))
    BY <2>1, <2>2, OperateEffect
  <2> QED BY <2>1, <2>3 DEF Outcome, VM
<1>4. CASE v \in CALL(vm)
  <2>1. PICK m \in Methods : m.nargs <= Depth(vm.stack)
                /\ v = VM("RUNNING", Called(vm.stack, m), vm.io, vm.wait)
    BY <1>4 DEF CALL
  <2>2. StackEffect(vm.stack, Called(vm.stack, m))
    BY <2>1, CalledEffect
  <2> QED BY <2>1, <2>2 DEF Outcome, VM
<1>a. ASSUME v = VM("STOPPED", vm.stack, vm.io, vm.wait) PROVE Goal
  BY <1>a DEF Outcome, VM, StackEffect
<1>5. CASE v \in RETURN(vm)
  <2>1. CASE Len(vm.stack.frames) = 1
    BY <2>1, <1>5, <1>a DEF RETURN
  <2>2. CASE Len(vm.stack.frames) # 1
    <3>1. PICK n \in 0..2 : v = VM("RUNNING", Returned(vm.stack, n), vm.io, vm.wait)
      BY <2>2, <1>5 DEF RETURN
    <3>2. StackEffect(vm.stack, Returned(vm.stack, n))
      BY <2>2, ReturnedEffect
    <3> QED BY <3>1, <3>2 DEF Outcome, VM
  <2> QED BY <2>1, <2>2
<1>6. CASE v \in VMEXIT(vm)
  BY <1>6, <1>a DEF VMEXIT
<1> QED
  BY <1>1, <1>2, <1>3, <1>4, <1>5, <1>6

--------------------------------------------------------------------------------
(***************************************************************************)
(* Types.                                                                  *)
(***************************************************************************)
\* A machine of the right type with a stack as calls and returns leave it.
Sound(vm) == vm \in Machines /\ StackOK(vm.stack)

\* Reads of the counter, and how early a wait ran out.
CounterReads == [t : Nat, now : Nat, torn : Nat]
Earlies == [by : Nat, torn : Nat, wrapped : BOOLEAN]

\* What a machine reads in a step.  The read that checks a deadline is behind
\* the time at its end, or ahead of it by less than its torn bytes count; the
\* one that sets a deadline is not behind the time at its start.
GoodReads(r) ==
    /\ r.check \in CounterReads /\ r.set \in CounterReads
    /\ past + r.check.t <= r.check.now \/ past + r.check.t < r.check.now + r.check.torn
    /\ r.set.now <= past' + r.set.t

\* The ways in which machine i can change in a step.
MachineChange(i) ==
    \/ vms'[i] = vms[i]
    \/ \E r : GoodReads(r) /\ vms'[i] \in vm_step(vms[i], r)
    \/ /\ vms[i].state \in {"STOPPED", "CRASHED"}
       /\ \E l \in LKeys : vms'[i] = VM("RUNNING", MainFrame, vms[i].io, [vms[i].wait EXCEPT !.trigger = l])
    \/ \E b \in BaseReports : vms'[i] = KeyboardReported(i, AppendedReport(b), b)
    \/ vms'[i] = MouseReported(vms[i])

\* The wait of a machine whose delay is over.
Over(vm, r) == NoWait(vm.wait, RanOut(vm.wait, r.check))

\* What a step of a machine can be.
LEMMA StepCases ==
    ASSUME NEW vm, vm.state \in States, NEW r, NEW v \in vm_step(vm, r)
    PROVE  \/ v = vm
           \/ Active(vm) /\ StackFull(vm) /\ v = VM("CRASHED", vm.stack, vm.io, vm.wait)
           \/ ~StackFull(vm) /\ vm.state \in KeyWaits /\ v = KeyWaited(vm, r.check)
           \/ /\ ~StackFull(vm) /\ vm.state = "DELAY" /\ ~(r.check.t <= vm.wait.delay_end)
              /\ v \in Execute(VM("RUNNING", vm.stack, vm.io, Over(vm, r)), r.set)
           \/ ~StackFull(vm) /\ vm.state = "RUNNING" /\ v \in Execute(vm, r.set)
<1>1. CASE ~Active(vm)
  <2>1. ~(vm.state \in ReportWaits) /\ ~(vm.state \in KeyWaits) /\ vm.state # "DELAY" /\ vm.state # "RUNNING"
    BY <1>1 DEF Active, Halted, ReportWaits, KeyWaits
  <2> QED BY <1>1, <2>1 DEF vm_step
<1>2. CASE Active(vm) /\ StackFull(vm)
  BY <1>2 DEF vm_step
<1>3. CASE Active(vm) /\ ~StackFull(vm) /\ vm.state \in ReportWaits
  <2>1. ~(vm.state \in KeyWaits) /\ vm.state # "DELAY" /\ vm.state # "RUNNING"
    BY <1>3 DEF ReportWaits, KeyWaits
  <2> QED BY <1>3, <2>1 DEF vm_step
<1>4. CASE Active(vm) /\ ~StackFull(vm) /\ vm.state \in KeyWaits
  <2>1. ~(vm.state \in ReportWaits) /\ vm.state # "DELAY" /\ vm.state # "RUNNING"
    BY <1>4 DEF ReportWaits, KeyWaits
  <2> QED BY <1>4, <2>1 DEF vm_step
<1>5. CASE Active(vm) /\ ~StackFull(vm) /\ vm.state = "DELAY"
  <2>1. ~(vm.state \in ReportWaits) /\ ~(vm.state \in KeyWaits) /\ vm.state # "RUNNING"
    BY <1>5 DEF ReportWaits, KeyWaits
  <2>2. v \in IF r.check.t <= vm.wait.delay_end THEN {vm}
              ELSE Execute(VM("RUNNING", vm.stack, vm.io, Over(vm, r)), r.set)
    BY <1>5, <2>1 DEF vm_step, Over
  <2> QED BY <1>5, <2>2
<1>6. CASE Active(vm) /\ ~StackFull(vm) /\ vm.state = "RUNNING"
  <2>1. ~(vm.state \in ReportWaits) /\ ~(vm.state \in KeyWaits) /\ vm.state # "DELAY"
    BY <1>6 DEF ReportWaits, KeyWaits
  <2>2. v \in Execute(vm, r.set)
    BY <1>6, <2>1 DEF vm_step
  <2> QED BY <1>6, <2>2
<1> QED
  BY <1>1, <1>2, <1>3, <1>4, <1>5, <1>6 DEF States, Active

\* A number below the modulus is its own remainder.
LEMMA SmallRemainder ==
    ASSUME NEW n \in Nat, NEW x \in Nat, x < n
    PROVE  x % n = x
  OBVIOUS

\* The remainder of the next number is one more, or none.
LEMMA NextRemainder ==
    ASSUME NEW n \in Nat, NEW m \in Nat \ {0}
    PROVE  n % m \in 0..(m - 1) /\ n % m <= n /\ (n + 1) % m <= (n % m) + 1
<1> DEFINE x == n % m
           y == (n + 1) % m
           p == n \div m
           q == (n + 1) \div m
<1>1. x \in 0..(m - 1) /\ p \in Nat /\ n = m * p + x /\ y \in 0..(m - 1) /\ q \in Nat /\ n + 1 = m * q + y
  OBVIOUS
<1> HIDE DEF x, y, p, q
<1>2. m * p \in Nat /\ m * q \in Nat
  BY <1>1
<1>3. ASSUME y > x + 1 PROVE FALSE
  <2>1. m * q < m * p
    BY <1>1, <1>2, <1>3
  <2>2. q < p
    BY <1>1, <2>1
  <2>3. m * q <= m * (p - 1)
    BY <1>1, <2>2
  <2>4. m * (p - 1) = m * p - m
    BY <1>1
  <2> QED BY <1>1, <1>2, <2>3, <2>4
<1>4. x <= n /\ y <= x + 1
  BY <1>1, <1>2, <1>3
<1> QED
  BY <1>1, <1>4 DEF x, y

\* The interrupt: time goes on by one millisecond, also when the counter wraps.
LEMMA TickTime ==
    ASSUME uptimems \in Uptimes, past \in Nat, Tick
    PROVE  /\ NextUptime \in Uptimes /\ past' \in Nat /\ past <= past'
           /\ past' + NextUptime = Now + 1
           /\ NextUptime = 0 \/ (NextUptime = uptimems + 1 /\ past' = past)
<1>1. Wrap \in Nat \ {0} /\ uptimems \in 0..(Wrap - 1)
  BY InterpreterAssumption DEF Uptimes
<1>2. CASE uptimems + 1 = Wrap
  <2>1. Wrap % Wrap = 0
    BY <1>1
  <2> QED BY <1>1, <1>2, <2>1 DEF NextUptime, Tick, Now, Uptimes
<1>3. CASE uptimems + 1 < Wrap
  <2>1. NextUptime = uptimems + 1
    BY <1>1, <1>3, SmallRemainder DEF NextUptime
  <2> QED BY <1>1, <1>3, <2>1 DEF Tick, Now, Uptimes
<1> QED
  BY <1>1, <1>2, <1>3

\* A torn read is not behind the time, and ahead of it by less than the torn
\* bytes count.
LEMMA TornRead ==
    ASSUME uptimems \in Uptimes, past \in Nat, Tick, NEW low \in Splits
    PROVE  Torn(low) \in Nat /\ past' + Torn(low) < Now + 1 + low /\ Now <= past' + Torn(low)
<1> DEFINE old == uptimems
           new == NextUptime
           q == past'
<1>1. /\ old \in Nat /\ new \in Nat /\ q \in Nat /\ past <= q /\ q + new = Now + 1
      /\ new = 0 \/ (new = old + 1 /\ q = past)
      /\ Now = past + old /\ low \in Nat \ {0}
  BY TickTime, InterpreterAssumption DEF Uptimes, Now
<1>2. old % low \in 0..(low - 1) /\ new % low \in 0..(low - 1) /\ new % low <= new
      /\ (old + 1) % low <= (old % low) + 1
  BY <1>1, NextRemainder
<1>3. Torn(low) = (new - (new % low)) + (old % low)
  BY DEF Torn
<1> HIDE DEF old, new, q
<1> DEFINE x == old % low
           y == new % low
<1>4. x \in 0..(low - 1) /\ y \in 0..(low - 1) /\ y <= new /\ (new = old + 1 => y <= x + 1)
  BY <1>2
<1>5. Torn(low) = (new - y) + x
  BY <1>3
<1> HIDE DEF x, y
<1>6. Torn(low) \in Nat
  BY <1>1, <1>4, <1>5
<1>7. Torn(low) < new + low
  BY <1>1, <1>4, <1>5
<1>8. y <= x + 1
  BY <1>1, <1>4
<1>9. new <= Torn(low) + 1
  BY <1>1, <1>4, <1>5, <1>8
<1>10. Now \in Nat
  BY <1>1
<1>11. q + Torn(low) < Now + 1 + low /\ Now <= q + Torn(low)
  BY <1>1, <1>6, <1>7, <1>9, <1>10
<1> QED
  BY <1>6, <1>11 DEF q

\* Two reads that are good.
LEMMA GoodPair ==
    ASSUME NEW x \in CounterReads, NEW y \in CounterReads, y.now <= past' + y.t,
           past + x.t <= x.now \/ past + x.t < x.now + x.torn
    PROVE  GoodReads(Reads(x, y))
<1>1. Reads(x, y).check = x /\ Reads(x, y).set = y
  BY DEF Reads
<1> QED
  BY <1>1 DEF GoodReads

\* Every read of a step is a good one, wherever the interrupt falls.
LEMMA InterruptedReads ==
    ASSUME uptimems \in Uptimes, past \in Nat, Tick
    PROVE  /\ GoodReads(Reads(Before, Before)) /\ GoodReads(Reads(After, After))
           /\ \A r \in Interrupted : GoodReads(r)
<1> DEFINE q == past'
<1>1. /\ uptimems \in Nat /\ NextUptime \in Nat /\ q \in Nat /\ past <= q
      /\ q + NextUptime = Now + 1 /\ Now = past + uptimems /\ Now \in Nat
  BY TickTime, InterpreterAssumption DEF Uptimes, Now
<1> HIDE DEF q
<1>2. /\ Before \in CounterReads /\ Before.t = uptimems /\ Before.now = Now /\ Before.torn = 0
      /\ After \in CounterReads /\ After.t = NextUptime /\ After.now = Now + 1 /\ After.torn = 0
  BY <1>1 DEF Before, After, Read, CounterReads
<1>3. /\ \A x \in {Before, After} : x \in CounterReads /\ past + x.t <= x.now /\ x.now <= past' + x.t
      /\ \A x \in {Before, After}, y \in {Before, After} : GoodReads(Reads(x, y))
  <2>1. past + Before.t <= Before.now /\ Before.now <= q + Before.t
    BY <1>1, <1>2
  <2>2. past + After.t <= After.now /\ After.now <= q + After.t
    BY <1>1, <1>2
  <2>3. \A x \in {Before, After} : x \in CounterReads /\ past + x.t <= x.now /\ x.now <= past' + x.t
    BY <1>2, <2>1, <2>2 DEF q
  <2> QED BY <2>3, GoodPair
<1>4. ASSUME NEW low \in Splits
      PROVE  /\ GoodReads(Reads(Read(Torn(low), Now + 1, low), After))
             /\ GoodReads(Reads(Before, Read(Torn(low), Now, low)))
  <2>1. Torn(low) \in Nat /\ q + Torn(low) < Now + 1 + low /\ Now <= q + Torn(low) /\ low \in Nat
    BY TornRead, InterpreterAssumption DEF q
  <2> DEFINE c == Read(Torn(low), Now + 1, low)
             w == Read(Torn(low), Now, low)
  <2>2. /\ c \in CounterReads /\ c.t = Torn(low) /\ c.now = Now + 1 /\ c.torn = low
        /\ w \in CounterReads /\ w.t = Torn(low) /\ w.now = Now
    BY <1>1, <2>1 DEF Read, CounterReads
  <2> HIDE DEF c, w
  <2>3. past + c.t < c.now + c.torn
    BY <1>1, <2>1, <2>2
  <2>4. w.now <= q + w.t
    BY <1>1, <2>1, <2>2
  <2>5. GoodReads(Reads(c, After))
    BY <1>3, <2>2, <2>3, GoodPair
  <2>6. GoodReads(Reads(Before, w))
    BY <1>3, <2>2, <2>4, GoodPair DEF q
  <2> QED BY <2>5, <2>6 DEF c, w
<1> QED
  BY <1>3, <1>4 DEF Interrupted

\* What the machines do with their reads.
LEMMA EachSteps ==
    ASSUME NEW reads, StepWith(reads)
    PROVE  /\ \A i \in Programs : vms'[i] \in vm_step(vms[i], reads[i])
           /\ vms' = [i \in Programs |-> vms'[i]]
<1> DEFINE steps == {<<i, vm_step(vms[i], reads[i])>> : i \in Programs}
<1>1. vms' \in {f \in [Programs -> UNION {s[2] : s \in steps}] : \A s \in steps : f[s[1]] \in s[2]}
  BY DEF StepWith
<1>2. ASSUME NEW i \in Programs PROVE vms'[i] \in vm_step(vms[i], reads[i])
  <2>1. <<i, vm_step(vms[i], reads[i])>> \in steps
    OBVIOUS
  <2>2. \A s \in steps : vms'[s[1]] \in s[2]
    BY <1>1
  <2> QED BY <2>1, <2>2
<1> QED
  BY <1>1, <1>2

\* A step of the system changes each machine in one of the five ways.
LEMMA MachineChanges ==
    ASSUME vms \in [Programs -> Machines], uptimems \in Uptimes, past \in Nat, setup \in Setups, [Next]_vars
    PROVE  /\ setup' = setup /\ \A i \in Programs : MachineChange(i)
           /\ vms' = [i \in Programs |-> vms'[i]]
<1> DEFINE Goal == /\ setup' = setup /\ \A i \in Programs : MachineChange(i)
                   /\ vms' = [i \in Programs |-> vms'[i]]
<1>1. CASE UNCHANGED vars
  BY <1>1 DEF MachineChange, vars
<1>2. CASE vm_step_all
  <2>1. ASSUME NEW reads, StepWith(reads), \A i \in Programs : GoodReads(reads[i]) PROVE Goal
    <3>1. /\ \A i \in Programs : vms'[i] \in vm_step(vms[i], reads[i])
          /\ vms' = [i \in Programs |-> vms'[i]]
      BY <2>1, EachSteps
    <3>2. \A i \in Programs : MachineChange(i)
      BY <2>1, <3>1 DEF MachineChange
    <3> QED BY <1>2, <3>1, <3>2 DEF vm_step_all
  <2>2. CASE StepWith([i \in Programs |-> Reads(Before, Before)]) /\ UNCHANGED <<uptimems, past>>
    <3>1. GoodReads(Reads(Before, Before))
      <4>1. uptimems \in Nat /\ past' = past
        BY <2>2 DEF Uptimes
      <4> QED BY <4>1, InterpreterAssumption DEF GoodReads, Reads, Before, Read, CounterReads, Now
    <3> DEFINE reads == [i \in Programs |-> Reads(Before, Before)]
    <3>2. StepWith(reads) /\ \A i \in Programs : GoodReads(reads[i])
      BY <2>2, <3>1
    <3> HIDE DEF reads
    <3> QED BY <2>1, <3>2
  <2>3. ASSUME Tick, NEW n \in Programs, NEW r \in Interrupted,
               StepWith([i \in Programs |-> IF i < n THEN Reads(Before, Before)
                                            ELSE IF i = n THEN r ELSE Reads(After, After)])
        PROVE  Goal
    <3> DEFINE reads == [i \in Programs |-> IF i < n THEN Reads(Before, Before)
                                            ELSE IF i = n THEN r ELSE Reads(After, After)]
    <3>1. GoodReads(Reads(Before, Before)) /\ GoodReads(Reads(After, After)) /\ GoodReads(r)
      BY <2>3, InterruptedReads
    <3>2. StepWith(reads) /\ \A i \in Programs : GoodReads(reads[i])
      BY <2>3, <3>1
    <3> HIDE DEF reads
    <3> QED BY <2>1, <3>2
  <2> QED BY <1>2, <2>2, <2>3 DEF vm_step_all
<1>3. CASE Update_Millis
  BY <1>3 DEF Update_Millis, MachineChange
<1>4. CASE ChangeState
  BY <1>4 DEF ChangeState, MachineChange
<1>5. ASSUME NEW m \in BaseMoves, Fill_MouseReport(m) PROVE Goal
  BY <1>5 DEF Fill_MouseReport, MachineChange
<1>6. ASSUME NEW m \in BaseMoves, FillElsewhere(m) PROVE Goal
  BY <1>6 DEF FillElsewhere, MachineChange
<1>7. ASSUME NEW b \in BaseReports, Fill_KeyboardReport(b) PROVE Goal
  BY <1>7 DEF Fill_KeyboardReport, MachineChange
<1>8. ASSUME NEW l \in setup.lkeys, ChangeKey(l) PROVE Goal
  BY <1>8 DEF ChangeKey, MachineChange
<1>9. ASSUME NEW l \in setup.lkeys, NEW i \in Programs, vm_start(i, l) PROVE Goal
  <2>1. l \in LKeys
    BY InterpreterAssumption
  <2> QED BY <1>9, <2>1 DEF vm_start, MachineChange
<1> QED
  BY <1>1, <1>2, <1>3, <1>4, <1>5, <1>6, <1>7, <1>8, <1>9 DEF Next

\* Deadlines are values of the counter.
LEMMA DeadlineType ==
    ASSUME NEW t \in Nat, NEW d \in Nat
    PROVE  Deadline(t, d) \in Uptimes /\ 0 \in Uptimes
<1>1. Wrap \in Nat \ {0}
  BY InterpreterAssumption
<1> QED
  BY <1>1 DEF Deadline, Uptimes

\* The waits that an instruction sets and the one that is left when a wait is
\* over have the right type.
LEMMA WaitTypes ==
    ASSUME NEW vm, vm.wait \in Waits, NEW t \in CounterReads, NEW d \in Nat,
           NEW k \in Keys \cup Modifiers \cup LKeys \cup {KEY_ZERO}
    PROVE  /\ DelayFor(vm, k, t, d) \in Waits /\ WaitFor(vm, k, t, d) \in Waits
           /\ RanOut(vm.wait, t) \in Earlies /\ OnTime \in Earlies
           /\ \A e \in Earlies : NoWait(vm.wait, e) \in Waits
<1>1. /\ vm.wait.trigger \in LKeys \cup {KEY_ZERO} /\ vm.wait.until \in Nat /\ vm.wait.wrapped \in BOOLEAN
      /\ vm.wait.key \in Keys \cup Modifiers \cup LKeys \cup {KEY_ZERO} /\ vm.wait.early \in Earlies
      /\ t.t \in Nat /\ t.now \in Nat /\ t.torn \in Nat
  BY DEF Waits, CounterReads, Earlies
<1>2. Deadline(t.t, d) \in Uptimes /\ 0 \in Uptimes /\ t.now + d \in Nat /\ (t.t + d >= Wrap) \in BOOLEAN
  BY <1>1, DeadlineType
<1>3. DelayFor(vm, k, t, d) \in Waits
  BY <1>1, <1>2 DEF DelayFor, Waits, Earlies
<1>4. ASSUME NEW w \in Waits, NEW e \in Earlies PROVE NoWait(w, e) \in Waits
  BY <1>2, <1>4 DEF NoWait, Waits, Earlies
<1>5. [vm.wait EXCEPT !.key = k] \in Waits
  BY DEF Waits
<1>6. WaitFor(vm, k, t, d) \in Waits
  BY <1>1, <1>3, <1>4, <1>5 DEF WaitFor
<1>7. RanOut(vm.wait, t) \in Earlies /\ OnTime \in Earlies
  BY <1>1 DEF RanOut, OnTime, Earlies
<1> QED
  BY <1>3, <1>4, <1>6, <1>7

\* What an instruction leaves behind has the right type.
LEMMA OutcomeTypes ==
    ASSUME setup \in Setups, NEW vm, vm.io \in Outputs, vm.wait \in Waits, NEW t \in CounterReads,
           NEW v, Outcome(vm, v, t)
    PROVE  v.state \in States /\ v.io \in Outputs /\ v.wait \in Waits
<1>1. v.state \in States
  BY DEF Outcome, States, KeyWaits, ReportWaits, Halted
<1>a. Codes \subseteq Keys \cup Modifiers /\ setup.lkeys \subseteq LKeys /\ Delays \subseteq Nat
  BY InterpreterAssumption DEF Codes
<1>2. v.wait \in Waits
  <2>1. CASE v.wait = vm.wait
    BY <2>1
  <2>2. ASSUME NEW k \in Codes \cup setup.lkeys \cup {KEY_ZERO}, NEW d \in Delays, v.wait = WaitFor(vm, k, t, d)
        PROVE  v.wait \in Waits
    <3>1. k \in Keys \cup Modifiers \cup LKeys \cup {KEY_ZERO} /\ d \in Nat
      BY <1>a
    <3> QED BY <2>2, <3>1, WaitTypes
  <2>3. ASSUME NEW d \in Delays, v.wait = DelayFor(vm, vm.wait.key, t, d) PROVE v.wait \in Waits
    <3>1. d \in Nat /\ vm.wait.key \in Keys \cup Modifiers \cup LKeys \cup {KEY_ZERO}
      BY <1>a DEF Waits
    <3> QED BY <2>3, <3>1, WaitTypes
  <2> QED BY <2>1, <2>2, <2>3 DEF Outcome
<1>3. v.io \in Outputs
  <2>0. vm.io.extra \in ExtraReports /\ vm.io.button \in BOOLEAN /\ vm.io.x \in Bytes
        /\ vm.io.pending \in Pendings
    BY DEF Outputs
  <2>1. CASE v.io = vm.io
    BY <2>1
  <2>2. ASSUME NEW k \in Codes, v.io = Pressed(vm.io, k) PROVE v.io \in Outputs
    <3> DEFINE extra == ExtraKeyboardReport_add(vm.io.extra, k)
    <3>1. extra \in ExtraReports
      BY <1>a, <2>0, ExtraTypes
    <3> HIDE DEF extra
    <3>2. [key |-> IF k \in Held(extra) THEN k ELSE NO_KEY, pressed |-> TRUE] \in Pendings
      BY <1>a DEF Pendings
    <3>3. v.io = SetKeys(vm.io, extra, IF k \in Held(extra) THEN k ELSE NO_KEY, TRUE)
      BY <2>2 DEF Pressed, extra
    <3> QED BY <2>0, <3>1, <3>2, <3>3 DEF SetKeys, Outputs
  <2>3. ASSUME NEW k \in Codes \cup SpecialKeys, v.io = Released(vm.io, k) PROVE v.io \in Outputs
    <3> DEFINE extra == ExtraKeyboardReport_remove(vm.io.extra, k)
    <3>1. extra \in ExtraReports
      BY <2>0, ExtraTypes
    <3> HIDE DEF extra
    <3>2. [key |-> IF k \in Codes THEN k ELSE NO_KEY, pressed |-> FALSE] \in Pendings
      BY <1>a DEF Pendings
    <3>3. v.io = SetKeys(vm.io, extra, IF k \in Codes THEN k ELSE NO_KEY, FALSE)
      BY <2>3 DEF Released, extra
    <3> QED BY <2>0, <3>1, <3>2, <3>3 DEF SetKeys, Outputs
  <2>4. ASSUME NEW b \in BOOLEAN, NEW x \in Bytes, v.io = SetMouse(vm.io, b, x) PROVE v.io \in Outputs
    BY <2>0, <2>4 DEF SetMouse, Outputs
  <2> QED BY <2>0, <2>1, <2>2, <2>3, <2>4 DEF Outcome
<1> QED
  BY <1>1, <1>2, <1>3

\* The parts of a sound machine.
LEMMA SoundParts ==
    ASSUME NEW vm, Sound(vm)
    PROVE  /\ vm.state \in States /\ StackOK(vm.stack) /\ vm.io \in Outputs /\ vm.wait \in Waits
           /\ vm = VM(vm.state, vm.stack, vm.io, vm.wait)
  BY DEF Sound, Machines, VM

\* Sound parts make a sound machine.
LEMMA SoundVM ==
    ASSUME NEW st \in States, NEW s, StackOK(s), NEW io \in Outputs, NEW w \in Waits
    PROVE  Sound(VM(st, s, io, w))
<1>1. s \in Stacks
  BY DEF StackOK
<1> QED
  BY <1>1 DEF Sound, Machines, VM

\* An instruction keeps a machine sound.
LEMMA ExecuteSound ==
    ASSUME setup \in Setups, NEW vm, Sound(vm), NEW t \in CounterReads, NEW v \in Execute(vm, t)
    PROVE  Sound(v)
<1>1. StackEffect(vm.stack, v.stack) /\ Outcome(vm, v, t)
  BY ExecuteEffect
<1>2. vm.io \in Outputs /\ vm.wait \in Waits /\ StackOK(vm.stack)
  BY SoundParts
<1>3. v.state \in States /\ v.io \in Outputs /\ v.wait \in Waits
  BY <1>1, <1>2, OutcomeTypes
<1>4. StackOK(v.stack)
  BY <1>1, <1>2 DEF StackEffect
<1>5. v = VM(v.state, v.stack, v.io, v.wait)
  BY <1>1 DEF Outcome
<1>6. Sound(VM(v.state, v.stack, v.io, v.wait))
  BY <1>3, <1>4, SoundVM
<1> QED
  BY <1>5, <1>6

\* So does the end of a wait.
LEMMA WaitSound ==
    ASSUME NEW vm, Sound(vm), NEW t \in CounterReads
    PROVE  Sound(KeyWaited(vm, t)) /\ NoWait(vm.wait, RanOut(vm.wait, t)) \in Waits
<1>1. vm.state \in States /\ StackOK(vm.stack) /\ vm.io \in Outputs /\ vm.wait \in Waits
  BY SoundParts
<1>2. RanOut(vm.wait, t) \in Earlies /\ OnTime \in Earlies /\ \A e \in Earlies : NoWait(vm.wait, e) \in Waits
  <2>1. 0 \in Nat /\ KEY_ZERO \in Keys \cup Modifiers \cup LKeys \cup {KEY_ZERO}
    OBVIOUS
  <2> QED BY <1>1, <2>1, WaitTypes
<1>3. StackOK(Operate(vm.stack, 0, 1))
  <2>1. vm.stack.top \in Int /\ Current(vm.stack).operands \in Int
        /\ vm.stack.top >= Current(vm.stack).operands
    BY <1>1, StackFields
  <2>2. 0 <= Depth(vm.stack)
    BY <2>1 DEF Depth
  <2> QED BY <1>1, <2>2, OperateOK
<1>4. ASSUME NEW e \in Earlies PROVE Sound(VM("RUNNING", Operate(vm.stack, 0, 1), vm.io, NoWait(vm.wait, e)))
  BY <1>1, <1>2, <1>3, SoundVM DEF States
<1>5. Sound(KeyWaited(vm, t))
  BY <1>2, <1>4 DEF KeyWaited
<1> QED
  BY <1>2, <1>5

\* A machine's own step keeps it sound.
LEMMA StepSound ==
    ASSUME setup \in Setups, NEW vm, Sound(vm), NEW r, GoodReads(r), NEW v \in vm_step(vm, r)
    PROVE  Sound(v)
<1>1. /\ vm.state \in States /\ StackOK(vm.stack) /\ vm.io \in Outputs /\ vm.wait \in Waits
      /\ r.check \in CounterReads /\ r.set \in CounterReads
  BY SoundParts DEF GoodReads
<1>2. CASE v = VM("CRASHED", vm.stack, vm.io, vm.wait)
  BY <1>1, <1>2, SoundVM DEF States, Halted
<1>3. CASE v = KeyWaited(vm, r.check)
  BY <1>1, <1>3, WaitSound
<1>4. CASE v \in Execute(VM("RUNNING", vm.stack, vm.io, Over(vm, r)), r.set)
  <2>1. Over(vm, r) \in Waits
    BY <1>1, WaitSound DEF Over
  <2>2. Sound(VM("RUNNING", vm.stack, vm.io, Over(vm, r)))
    BY <1>1, <2>1, SoundVM DEF States
  <2> QED BY <1>1, <1>4, <2>2, ExecuteSound
<1>5. CASE v \in Execute(vm, r.set)
  BY <1>1, <1>5, ExecuteSound
<1> QED
  BY <1>1, <1>2, <1>3, <1>4, <1>5, StepCases

\* And so does whatever a step of the system does to it.
LEMMA ChangeSound ==
    ASSUME setup \in Setups, NEW i \in Programs, Sound(vms[i]), MachineChange(i)
    PROVE  Sound(vms'[i])
<1>1. vms[i].state \in States /\ StackOK(vms[i].stack) /\ vms[i].io \in Outputs /\ vms[i].wait \in Waits
  BY SoundParts
<1>2. ASSUME NEW l \in LKeys,
             vms'[i] = VM("RUNNING", MainFrame, vms[i].io, [vms[i].wait EXCEPT !.trigger = l])
      PROVE  Sound(vms'[i])
  <2>1. [vms[i].wait EXCEPT !.trigger = l] \in Waits
    BY <1>1 DEF Waits
  <2> QED BY <1>1, <1>2, <2>1, MainFrameOK, SoundVM DEF States
<1>3. ASSUME NEW b, NEW r, vms'[i] = KeyboardReported(i, r, b) PROVE Sound(vms'[i])
  <2>1. NothingPending \in Pendings
    BY DEF NothingPending, Pendings
  <2>2. [vms[i].io EXCEPT !.pending = IF Shows(i, r, b) THEN NothingPending ELSE @] \in Outputs
    BY <1>1, <2>1 DEF Outputs
  <2>3. (IF vms[i].state = "WAITREPORT" THEN "RUNNING" ELSE vms[i].state) \in States
    BY <1>1 DEF States
  <2> QED BY <1>1, <1>3, <2>2, <2>3, SoundVM DEF KeyboardReported
<1>4. CASE vms'[i] = MouseReported(vms[i])
  <2>1. 0 \in Bytes
    BY InterpreterAssumption DEF Bytes
  <2>2. SetMouse(vms[i].io, vms[i].io.button, 0) \in Outputs
    BY <1>1, <2>1 DEF SetMouse, Outputs
  <2>3. (IF vms[i].state = "WAITMOUSEREPORT" THEN "RUNNING" ELSE vms[i].state) \in States
    BY <1>1 DEF States
  <2> QED BY <1>1, <1>4, <2>2, <2>3, SoundVM DEF MouseReported
<1> QED
  BY <1>2, <1>3, <1>4, StepSound DEF MachineChange

\* The counter, the setup and the machines' types and stacks.
MachinesInv ==
    /\ setup \in Setups /\ uptimems \in Uptimes /\ past \in Nat
    /\ vms = [i \in Programs |-> vms[i]] /\ \A i \in Programs : Sound(vms[i])

\* So the machines are a function to sound machines.
LEMMA MachinesType ==
    ASSUME MachinesInv
    PROVE  vms \in [Programs -> Machines]
  BY DEF MachinesInv, Sound

\* A machine as it is set up.
LEMMA InitSound ==
    ASSUME setup \in Setups, NEW i \in Programs
    PROVE  Sound(InitVM(i))
<1>1. (IF i \in setup.present THEN "STOPPED" ELSE "NOPROGRAM") \in States
  BY DEF States, Halted
<1>2. ExtraKeyboardReport_clear \in ExtraReports /\ NothingPending \in Pendings /\ 0 \in Bytes
  BY InterpreterAssumption DEF ExtraKeyboardReport_clear, ExtraReports, NothingPending, Pendings, Bytes
<1>3. [extra |-> ExtraKeyboardReport_clear, button |-> FALSE, x |-> 0, pending |-> NothingPending] \in Outputs
  BY <1>2 DEF Outputs
<1>4. [trigger |-> KEY_ZERO, key |-> KEY_ZERO, delay_end |-> 0, until |-> 0, wrapped |-> FALSE,
       early |-> OnTime] \in Waits
  BY DeadlineType DEF Waits, OnTime
<1> QED
  BY <1>1, <1>3, <1>4, MainFrameOK, SoundVM DEF InitVM

\* The counter stays in its range, and time does not go back.
LEMMA UptimeType ==
    ASSUME uptimems \in Uptimes, past \in Nat, [Next]_vars
    PROVE  uptimems' \in Uptimes /\ past' \in Nat /\ past <= past'
<1>1. UNCHANGED <<uptimems, past>> \/ (Tick /\ uptimems' = NextUptime)
  BY DEF Next, vars, vm_step_all, Tick, Update_Millis, ChangeState, Fill_MouseReport, FillElsewhere,
         Fill_KeyboardReport, ChangeKey, vm_start
<1>2. CASE UNCHANGED <<uptimems, past>>
  BY <1>2
<1>3. CASE Tick /\ uptimems' = NextUptime
  BY <1>3, TickTime
<1> QED
  BY <1>1, <1>2, <1>3

\* The counter and the machines keep their types, and the stacks their shape.
LEMMA MachinesStep ==
    ASSUME MachinesInv, [Next]_vars
    PROVE  MachinesInv'
<1>1. setup \in Setups /\ uptimems \in Uptimes /\ past \in Nat /\ vms \in [Programs -> Machines]
  BY MachinesType DEF MachinesInv
<1>2. setup' = setup /\ (\A i \in Programs : MachineChange(i)) /\ vms' = [i \in Programs |-> vms'[i]]
  BY <1>1, MachineChanges
<1>3. uptimems' \in Uptimes /\ past' \in Nat
  BY <1>1, UptimeType
<1>4. \A i \in Programs : Sound(vms'[i])
  BY <1>1, <1>2, ChangeSound DEF MachinesInv
<1> QED
  BY <1>1, <1>2, <1>3, <1>4 DEF MachinesInv

\* The machines always have their types, and their stacks the shape that
\* calls and returns give them.
LEMMA MachinesAlways == Spec => []MachinesInv
<1>1. Init => MachinesInv
  <2> SUFFICES ASSUME Init PROVE MachinesInv
    OBVIOUS
  <2>1. setup \in Setups /\ vms = [i \in Programs |-> InitVM(i)] /\ uptimems = 0 /\ past = 0
    BY DEF Init
  <2>2. \A i \in Programs : Sound(vms[i])
    BY <2>1, InitSound
  <2> QED BY <2>1, <2>2, DeadlineType DEF MachinesInv
<1>2. MachinesInv /\ [Next]_vars => MachinesInv'
  BY MachinesStep
<1> QED
  BY <1>1, <1>2, PTL DEF Spec

--------------------------------------------------------------------------------
(***************************************************************************)
(* Calls and the stack check.                                              *)
(***************************************************************************)
\* Calls nest, for programs of any methods, called and returned from in any
\* order, at any depth: CALL builds a frame above the caller's operands, and
\* vm_do_return and the pops of the other instructions never reach below
\* those of the current method.
THEOREM CallsNest == Spec => []FramesNest
<1>1. MachinesInv => FramesNest
  BY DEF MachinesInv, Sound, StackOK, FramesNest
<1> QED
  BY <1>1, MachinesAlways, PTL

\* A step of a machine writes at most a frame header past the check's limit.
LEMMA StepReach ==
    ASSUME setup \in Setups, NEW vm, Sound(vm), NEW r, NEW v \in vm_step(vm, r),
           vm.stack.reach <= STACK_SIZE - 2 + FRAME_HEADER
    PROVE  v.stack.reach <= STACK_SIZE - 2 + FRAME_HEADER
<1>1. vm.state \in States /\ StackOK(vm.stack)
  BY SoundParts
<1>2. vm.stack.top \in Int /\ STACK_SIZE \in Nat
  BY <1>1, StackFields, InterpreterAssumption
<1>3. ASSUME NEW s, ~StackFull(vm), StackEffect(vm.stack, s) PROVE s.reach <= STACK_SIZE - 2 + FRAME_HEADER
  <2>1. vm.stack.top <= STACK_SIZE - 2
    BY <1>2, <1>3 DEF StackFull
  <2> QED BY <1>1, <1>3, <2>1 DEF StackEffect
<1>4. CASE v = vm \/ v = VM("CRASHED", vm.stack, vm.io, vm.wait)
  BY <1>4 DEF VM
<1>5. CASE ~StackFull(vm) /\ v = KeyWaited(vm, r.check)
  <2>1. StackEffect(vm.stack, Operate(vm.stack, 0, 1))
    <3>1. Current(vm.stack).operands \in Int /\ vm.stack.top >= Current(vm.stack).operands
      BY <1>1, StackFields
    <3>2. 0 <= Depth(vm.stack)
      BY <1>2, <3>1 DEF Depth
    <3> QED BY <3>2, OperateEffect
  <2>2. v.stack = vm.stack \/ v.stack = Operate(vm.stack, 0, 1)
    BY <1>5 DEF KeyWaited, VM
  <2> QED BY <1>5, <1>3, <2>1, <2>2
<1>6. CASE ~StackFull(vm)
           /\ v \in Execute(VM("RUNNING", vm.stack, vm.io, Over(vm, r)), r.set)
  <2> DEFINE u == VM("RUNNING", vm.stack, vm.io, Over(vm, r))
  <2>1. u.stack = vm.stack
    BY DEF VM
  <2> HIDE DEF u
  <2>2. StackEffect(u.stack, v.stack)
    BY <1>6, ExecuteEffect DEF u
  <2> QED BY <1>6, <1>3, <2>1, <2>2
<1>7. CASE ~StackFull(vm) /\ v \in Execute(vm, r.set)
  BY <1>7, <1>3, ExecuteEffect
<1> QED
  BY <1>1, <1>4, <1>5, <1>6, <1>7, StepCases

\* The stack check of vm_step comes too late for a push of two bytes and for a
\* call, but it bounds the damage: as long as the program's globals fit the
\* stack (nothing in the firmware checks that they do), no instruction of any
\* program writes further than a frame header past the check's limit.
THEOREM OverrunIsBounded ==
    ASSUME \A s \in Setups : s.nglobals < STACK_SIZE
    PROVE  Spec => []OverrunBounded
<1>a. STACK_SIZE \in Nat
  BY InterpreterAssumption
<1>b. ASSUME setup \in Setups PROVE MainFrame.reach <= STACK_SIZE - 2 + FRAME_HEADER
  <2>1. setup.nglobals \in Nat /\ setup.nglobals < STACK_SIZE
    BY <1>b, InterpreterAssumption
  <2> QED BY <1>a, <1>b, <2>1, MainFrameOK DEF FRAME_HEADER
<1>1. Init /\ MachinesInv => OverrunBounded
  <2> SUFFICES ASSUME Init PROVE OverrunBounded
    OBVIOUS
  <2>1. \A i \in Programs : vms[i].stack = MainFrame
    BY DEF Init, InitVM, VM
  <2> QED BY <2>1, <1>b DEF Init, OverrunBounded
<1>2. MachinesInv /\ OverrunBounded /\ [Next]_vars => OverrunBounded'
  <2> SUFFICES ASSUME MachinesInv, OverrunBounded, [Next]_vars, NEW i \in Programs
               PROVE  vms'[i].stack.reach <= STACK_SIZE - 2 + FRAME_HEADER
    BY DEF OverrunBounded
  <2>1. setup \in Setups /\ Sound(vms[i]) /\ MachineChange(i)
    BY MachinesType, MachineChanges DEF MachinesInv
  <2>2. vms[i].stack.reach <= STACK_SIZE - 2 + FRAME_HEADER
    BY DEF OverrunBounded
  <2>3. ASSUME NEW r, vms'[i] \in vm_step(vms[i], r)
        PROVE  vms'[i].stack.reach <= STACK_SIZE - 2 + FRAME_HEADER
    BY <2>1, <2>2, <2>3, StepReach
  <2>6. CASE vms'[i].stack = vms[i].stack \/ vms'[i].stack = MainFrame
    BY <2>1, <2>2, <2>6, <1>b
  <2>7. ASSUME NEW b, NEW r, vms'[i] = KeyboardReported(i, r, b) PROVE vms'[i].stack = vms[i].stack
    BY <2>7 DEF KeyboardReported, VM
  <2>8. ASSUME vms'[i] = MouseReported(vms[i]) PROVE vms'[i].stack = vms[i].stack
    BY <2>8 DEF MouseReported, VM
  <2>9. ASSUME NEW l \in LKeys,
               vms'[i] = VM("RUNNING", MainFrame, vms[i].io, [vms[i].wait EXCEPT !.trigger = l])
        PROVE  vms'[i].stack = MainFrame
    BY <2>9 DEF VM
  <2>10. CASE vms'[i] = vms[i] \/ vms'[i] = MouseReported(vms[i])
    BY <2>6, <2>8, <2>10
  <2>11. CASE \E b \in BaseReports : vms'[i] = KeyboardReported(i, AppendedReport(b), b)
    BY <2>6, <2>7, <2>11
  <2>12. CASE \E l \in LKeys : vms'[i] = VM("RUNNING", MainFrame, vms[i].io, [vms[i].wait EXCEPT !.trigger = l])
    BY <2>6, <2>9, <2>12
  <2>13. CASE \E r : GoodReads(r) /\ vms'[i] \in vm_step(vms[i], r)
    BY <2>3, <2>13
  <2> QED BY <2>1, <2>10, <2>11, <2>12, <2>13 DEF MachineChange
<1> QED
  BY <1>1, <1>2, MachinesAlways, PTL DEF Spec

--------------------------------------------------------------------------------
(***************************************************************************)
(* Mouse movements.                                                        *)
(***************************************************************************)
\* A machine with a movement pending waits for the report that takes it, and
\* the stack check cannot stop a machine that waits for a report.
MoveSound(vm) ==
    /\ vm.io.x # 0 => vm.state = "WAITMOUSEREPORT"
    /\ vm.state \in ReportWaits => ~StackFull(vm)

MoveInv == \A i \in Programs : MoveSound(vms[i])

\* A machine that pops its last operand cannot have a full stack.
LEMMA PoppedNotFull ==
    ASSUME NEW vm, StackOK(vm.stack), ~StackFull(vm), NEW v, NEW n \in 1..2, v.stack = Operate(vm.stack, n, 0)
    PROVE  ~StackFull(v)
<1>1. vm.stack.top \in Int /\ STACK_SIZE \in Nat
  BY StackFields, InterpreterAssumption
<1>2. v.stack.top = vm.stack.top - n + 0
  BY DEF Operate
<1> QED
  BY <1>1, <1>2 DEF StackFull

\* An instruction that starts without a movement keeps the two.
LEMMA ExecuteMoves ==
    ASSUME NEW vm, StackOK(vm.stack), ~StackFull(vm), vm.io.x = 0, NEW t, NEW v \in Execute(vm, t)
    PROVE  MoveSound(v)
<1>1. Outcome(vm, v, t)
  BY ExecuteEffect
<1>2. CASE v.state \notin ReportWaits /\ v.io = vm.io
  BY <1>2 DEF MoveSound
<1>3. CASE v.state = "WAITREPORT"
  <2>1. v.stack = Operate(vm.stack, 1, 0) /\ ~StackFull(v)
    BY <1>1, <1>3, PoppedNotFull DEF Outcome, KeyWaits
  <2>2. (\E k \in Codes : v.io = Pressed(vm.io, k)) \/ \E k \in Codes \cup SpecialKeys : v.io = Released(vm.io, k)
    BY <1>1, <1>3 DEF Outcome, KeyWaits
  <2>3. ASSUME NEW k PROVE Pressed(vm.io, k).x = vm.io.x /\ Released(vm.io, k).x = vm.io.x
    BY DEF Pressed, Released, SetKeys
  <2>4. v.io.x = 0
    BY <2>2, <2>3
  <2> QED BY <2>1, <2>4 DEF MoveSound
<1>4. CASE v.state = "WAITMOUSEREPORT"
  <2>1. \E n \in 1..2 : v.stack = Operate(vm.stack, n, 0)
    BY <1>1, <1>4 DEF Outcome, KeyWaits
  <2>2. ~StackFull(v)
    BY <2>1, PoppedNotFull
  <2> QED BY <1>4, <2>2 DEF MoveSound
<1> QED
  BY <1>1, <1>2, <1>3, <1>4 DEF Outcome, KeyWaits, ReportWaits

\* A machine's own step keeps them.
LEMMA StepMoves ==
    ASSUME NEW vm, Sound(vm), MoveSound(vm), NEW r, NEW v \in vm_step(vm, r)
    PROVE  MoveSound(v)
<1>1. vm.state \in States /\ StackOK(vm.stack)
  BY SoundParts
<1>2. CASE StackFull(vm) /\ v = VM("CRASHED", vm.stack, vm.io, vm.wait)
  <2>1. vm.state \notin ReportWaits /\ vm.io.x = 0
    BY <1>2 DEF MoveSound, ReportWaits
  <2> QED BY <1>2, <2>1 DEF MoveSound, VM, ReportWaits
<1>3. CASE vm.state \in KeyWaits /\ v = KeyWaited(vm, r.check)
  <2>1. vm.io.x = 0
    BY <1>3 DEF MoveSound, KeyWaits
  <2>2. v = vm \/ (v.state = "RUNNING" /\ v.io = vm.io)
    BY <1>3 DEF KeyWaited, VM
  <2> QED BY <2>1, <2>2 DEF MoveSound, ReportWaits
<1>4. CASE ~StackFull(vm) /\ vm.state = "DELAY"
           /\ v \in Execute(VM("RUNNING", vm.stack, vm.io, Over(vm, r)), r.set)
  <2> DEFINE u == VM("RUNNING", vm.stack, vm.io, Over(vm, r))
  <2>1. u.stack = vm.stack /\ u.io = vm.io
    BY DEF VM
  <2>2. v \in Execute(u, r.set)
    BY <1>4
  <2> HIDE DEF u
  <2>3. StackOK(u.stack) /\ ~StackFull(u) /\ u.io.x = 0
    BY <1>1, <1>4, <2>1 DEF MoveSound, StackFull
  <2> QED BY <2>2, <2>3, ExecuteMoves
<1>5. CASE ~StackFull(vm) /\ vm.state = "RUNNING" /\ v \in Execute(vm, r.set)
  <2>1. vm.io.x = 0
    BY <1>5 DEF MoveSound
  <2> QED BY <1>1, <1>5, <2>1, ExecuteMoves
<1> QED
  BY <1>1, <1>2, <1>3, <1>4, <1>5, StepCases

\* Movements and report waits are always sound.
LEMMA MovesAlways == Spec => []MoveInv
<1>1. Init => MoveInv
  BY DEF Init, InitVM, VM, MoveInv, MoveSound, ReportWaits
<1>2. MachinesInv /\ MoveInv /\ [Next]_vars => MoveInv'
  <2> SUFFICES ASSUME MachinesInv, MoveInv, [Next]_vars, NEW i \in Programs
               PROVE  MoveSound(vms'[i])
    BY DEF MoveInv, MoveSound, StackFull
  <2>1. Sound(vms[i]) /\ MachineChange(i) /\ MoveSound(vms[i])
    BY MachinesType, MachineChanges DEF MachinesInv, MoveInv
  <2>3. ASSUME NEW r, vms'[i] \in vm_step(vms[i], r) PROVE MoveSound(vms'[i])
    BY <2>1, <2>3, StepMoves
  <2>4. ASSUME vms[i].state \in {"STOPPED", "CRASHED"}, NEW l \in LKeys,
               vms'[i] = VM("RUNNING", MainFrame, vms[i].io, [vms[i].wait EXCEPT !.trigger = l])
        PROVE  MoveSound(vms'[i])
    BY <2>1, <2>4 DEF VM, MoveSound, ReportWaits
  <2>5. ASSUME NEW b, NEW r, vms'[i] = KeyboardReported(i, r, b) PROVE MoveSound(vms'[i])
    <3>1. vms'[i].io.x = vms[i].io.x /\ vms'[i].stack = vms[i].stack
      <4>1. vms[i].io \in Outputs
        BY <2>1, SoundParts
      <4> QED BY <4>1, <2>5 DEF KeyboardReported, VM, Outputs
    <3>2. vms'[i].state = vms[i].state \/ (vms[i].state = "WAITREPORT" /\ vms'[i].state = "RUNNING")
      BY <2>5 DEF KeyboardReported, VM
    <3> QED BY <2>1, <3>1, <3>2 DEF MoveSound, ReportWaits, StackFull
  <2>6. ASSUME vms'[i] = MouseReported(vms[i]) PROVE MoveSound(vms'[i])
    <3>1. CASE ~Active(vms[i])
      BY <2>1, <2>6, <3>1 DEF MouseReported
    <3>2. CASE Active(vms[i])
      <4>1. vms'[i].io.x = 0 /\ vms'[i].stack = vms[i].stack
        BY <2>6, <3>2 DEF MouseReported, VM, SetMouse
      <4>2. vms'[i].state = vms[i].state \/ vms'[i].state = "RUNNING"
        BY <2>6, <3>2 DEF MouseReported, VM
      <4> QED BY <2>1, <4>1, <4>2 DEF MoveSound, ReportWaits, StackFull
    <3> QED BY <3>1, <3>2
  <2>7. CASE vms'[i] = vms[i] \/ vms'[i] = MouseReported(vms[i])
    BY <2>1, <2>6, <2>7
  <2>8. CASE \E b \in BaseReports : vms'[i] = KeyboardReported(i, AppendedReport(b), b)
    BY <2>5, <2>8
  <2>9. CASE /\ vms[i].state \in {"STOPPED", "CRASHED"}
             /\ \E l \in LKeys : vms'[i] = VM("RUNNING", MainFrame, vms[i].io, [vms[i].wait EXCEPT !.trigger = l])
    BY <2>4, <2>9
  <2>10. CASE \E r : GoodReads(r) /\ vms'[i] \in vm_step(vms[i], r)
    BY <2>3, <2>10
  <2> QED BY <2>1, <2>7, <2>8, <2>9, <2>10 DEF MachineChange
<1> QED
  BY <1>1, <1>2, MachinesAlways, PTL DEF Spec

\* A mouse movement is reported exactly once, whatever the other machines and
\* the main loop do meanwhile: while it is pending the machine waits, and
\* vm_append_MouseReport takes it out when it lets the machine go on.
THEOREM MovementsOnce == Spec => []MovesOnce
<1>1. MoveInv => MovesOnce
  BY DEF MoveInv, MoveSound, MovesOnce
<1> QED
  BY <1>1, MovesAlways, PTL

--------------------------------------------------------------------------------
(***************************************************************************)
(* Delays.                                                                 *)
(***************************************************************************)
\* What DelayElapses says of the last wait that ran out, and with p the time
\* at which the counter last was 0: the deadline of the current one is not
\* before the time up to which the machine was asked to wait, unless it is
\* behind the counter's wrap.
TimeSound(vm, p) ==
    /\ vm.wait.early.by > 0 => vm.wait.early.wrapped \/ vm.wait.early.by < vm.wait.early.torn
    /\ vm.wait.wrapped \/ vm.wait.until <= p + vm.wait.delay_end

TimeInv == \A i \in Programs : TimeSound(vms[i], past)

\* It stays so when the counter wraps.
LEMMA LaterTime ==
    ASSUME NEW vm, vm.wait \in Waits, NEW p \in Nat, NEW q \in Nat, p <= q, TimeSound(vm, p)
    PROVE  TimeSound(vm, q)
<1>1. vm.wait.until \in Nat /\ vm.wait.delay_end \in Nat
  BY DEF Waits, Uptimes
<1> QED
  BY <1>1 DEF TimeSound

\* The deadline that an instruction sets.
LEMMA OutcomeTime ==
    ASSUME NEW vm, NEW t \in CounterReads, NEW p \in Nat, t.now <= p + t.t, TimeSound(vm, p),
           NEW v, Outcome(vm, v, t)
    PROVE  TimeSound(v, p)
<1>1. CASE v.wait = vm.wait
  BY <1>1 DEF TimeSound
<1>2. ASSUME NEW k, NEW d \in Delays, v.wait = DelayFor(vm, k, t, d) PROVE TimeSound(v, p)
  <2>1. d \in Nat /\ t.t \in Nat /\ t.now \in Nat /\ Wrap \in Nat
    BY InterpreterAssumption DEF CounterReads
  <2>2. /\ v.wait.early = vm.wait.early /\ v.wait.until = t.now + d
        /\ v.wait.wrapped = (t.t + d >= Wrap) /\ v.wait.delay_end = Deadline(t.t, d)
    BY <1>2 DEF DelayFor
  <2>3. CASE t.t + d >= Wrap
    BY <2>2, <2>3 DEF TimeSound
  <2>4. CASE t.t + d < Wrap
    <3>1. Deadline(t.t, d) = t.t + d
      <4>1. t.t + d \in Nat
        BY <2>1
      <4>2. (t.t + d) % Wrap = t.t + d
        BY <2>1, <2>4, <4>1, SmallRemainder
      <4> QED BY <4>2 DEF Deadline
    <3> QED BY <2>1, <2>2, <3>1 DEF TimeSound
  <2> QED BY <2>1, <2>3, <2>4
<1>3. ASSUME NEW k, NEW d \in Delays, v.wait = WaitFor(vm, k, t, d) PROVE TimeSound(v, p)
  <2>1. CASE d # 0
    BY <1>2, <1>3, <2>1 DEF WaitFor
  <2>2. CASE d = 0
    <3>1. v.wait.early = vm.wait.early /\ v.wait.until = 0 /\ v.wait.delay_end = 0
      BY <1>3, <2>2 DEF WaitFor, NoWait
    <3> QED BY <3>1 DEF TimeSound
  <2> QED BY <2>1, <2>2
<1> QED
  BY <1>1, <1>2, <1>3 DEF Outcome

\* A wait that the counter is read to be over runs out in time, but for the
\* two exceptions.
LEMMA OverTime ==
    ASSUME NEW w \in Waits, NEW c \in CounterReads, NEW p \in Nat,
           p + c.t <= c.now \/ p + c.t < c.now + c.torn,
           w.wrapped \/ w.until <= p + w.delay_end, w.delay_end < c.t,
           NEW vm, vm.wait = NoWait(w, RanOut(w, c))
    PROVE  \A q \in Nat : TimeSound(vm, q)
<1>1. w.until \in Nat /\ w.delay_end \in Nat /\ w.wrapped \in BOOLEAN
      /\ c.t \in Nat /\ c.now \in Nat /\ c.torn \in Nat
  BY DEF Waits, Uptimes, CounterReads
<1>2. vm.wait.early = RanOut(w, c) /\ vm.wait.until = 0 /\ vm.wait.delay_end = 0
  BY DEF NoWait
<1>3. CASE w.until < c.now
  <2>1. vm.wait.early.by = 0
    BY <1>2, <1>3 DEF RanOut, OnTime
  <2> QED BY <1>2, <2>1 DEF TimeSound
<1>4. CASE ~(w.until < c.now)
  <2>1. /\ vm.wait.early.by = w.until + 1 - c.now /\ vm.wait.early.torn = c.torn
        /\ vm.wait.early.wrapped = w.wrapped
    BY <1>2, <1>4 DEF RanOut
  <2>2. w.wrapped \/ w.until + 1 - c.now < c.torn
    BY <1>1, <1>4
  <2> QED BY <1>1, <1>2, <2>1, <2>2 DEF TimeSound
<1> QED
  BY <1>3, <1>4

\* A machine's own step.
LEMMA StepTime ==
    ASSUME past \in Nat, past' \in Nat, past <= past', NEW vm, Sound(vm), TimeSound(vm, past),
           NEW r, GoodReads(r), NEW v \in vm_step(vm, r)
    PROVE  TimeSound(v, past')
<1>1. /\ vm.state \in States /\ vm.wait \in Waits /\ r.check \in CounterReads /\ r.set \in CounterReads
      /\ r.set.now <= past' + r.set.t /\ vm.wait.delay_end \in Nat /\ r.check.t \in Nat
      /\ past + r.check.t <= r.check.now \/ past + r.check.t < r.check.now + r.check.torn
  BY SoundParts DEF GoodReads, CounterReads, Waits, Uptimes
<1>2. TimeSound(vm, past')
  BY <1>1, LaterTime
<1>3. CASE v = vm \/ v = VM("CRASHED", vm.stack, vm.io, vm.wait)
  BY <1>2, <1>3 DEF VM, TimeSound
<1>4. CASE v = KeyWaited(vm, r.check)
  <2> DEFINE pressed == IF vm.state = "WAITKEY" THEN HidKeyDown(vm) ELSE PhysKeyDown(vm)
  <2>1. CASE ~(pressed \/ Expired(vm, r.check.t))
    BY <1>2, <1>4, <2>1 DEF KeyWaited
  <2>2. CASE pressed
    <3>1. v.wait = NoWait(vm.wait, OnTime)
      BY <1>4, <2>2 DEF KeyWaited, VM
    <3>2. v.wait.early.by = 0 /\ v.wait.until = 0 /\ v.wait.delay_end = 0
      BY <3>1 DEF NoWait, OnTime
    <3> QED BY <3>2 DEF TimeSound
  <2>3. CASE ~pressed /\ Expired(vm, r.check.t)
    <3>1. v.wait = NoWait(vm.wait, RanOut(vm.wait, r.check))
      BY <1>4, <2>3 DEF KeyWaited, VM
    <3>2. vm.wait.delay_end < r.check.t
      BY <1>1, <2>3 DEF Expired
    <3>3. vm.wait.wrapped \/ vm.wait.until <= past + vm.wait.delay_end
      BY DEF TimeSound
    <3> QED BY <1>1, <3>1, <3>2, <3>3, OverTime
  <2> QED BY <2>1, <2>2, <2>3
<1>5. CASE ~(r.check.t <= vm.wait.delay_end)
           /\ v \in Execute(VM("RUNNING", vm.stack, vm.io, Over(vm, r)), r.set)
  <2> DEFINE u == VM("RUNNING", vm.stack, vm.io, Over(vm, r))
  <2>1. u.wait = NoWait(vm.wait, RanOut(vm.wait, r.check)) /\ v \in Execute(u, r.set)
    BY <1>5 DEF VM, Over
  <2> HIDE DEF u
  <2>2. vm.wait.delay_end < r.check.t
    BY <1>1, <1>5
  <2>3. vm.wait.wrapped \/ vm.wait.until <= past + vm.wait.delay_end
    BY DEF TimeSound
  <2>4. TimeSound(u, past')
    BY <1>1, <2>1, <2>2, <2>3, OverTime
  <2> QED BY <1>1, <2>1, <2>4, ExecuteEffect, OutcomeTime
<1>6. CASE v \in Execute(vm, r.set)
  BY <1>1, <1>2, <1>6, ExecuteEffect, OutcomeTime
<1> QED
  BY <1>1, <1>3, <1>4, <1>5, <1>6, StepCases

\* For every number of machines, every delay and every counter, wherever the
\* interrupt of a pass falls: a delay or a timeout that runs out before its time had a
\* deadline behind the counter's wrap, or an interrupt fell into the read of
\* uptimems that ended it, and then it misses less than the torn bytes count.
THEOREM DelaysElapse == Spec => []DelayElapses
<1>1. Init => TimeInv
  <2> SUFFICES ASSUME Init PROVE TimeInv
    OBVIOUS
  <2>1. \A i \in Programs : vms[i].wait.early.by = 0 /\ vms[i].wait.until = 0 /\ vms[i].wait.delay_end = 0
    BY DEF Init, InitVM, VM, OnTime
  <2> QED BY <2>1 DEF Init, TimeInv, TimeSound
<1>2. MachinesInv /\ TimeInv /\ [Next]_vars => TimeInv'
  <2> SUFFICES ASSUME MachinesInv, TimeInv, [Next]_vars, NEW i \in Programs
               PROVE  TimeSound(vms'[i], past')
    BY DEF TimeInv, TimeSound
  <2>1. Sound(vms[i]) /\ MachineChange(i) /\ TimeSound(vms[i], past) /\ vms[i].wait \in Waits
    BY MachinesType, MachineChanges, SoundParts DEF MachinesInv, TimeInv
  <2>2. past \in Nat /\ past' \in Nat /\ past <= past'
    BY UptimeType DEF MachinesInv
  <2>3. TimeSound(vms[i], past')
    BY <2>1, <2>2, LaterTime
  <2>4. CASE \E r : GoodReads(r) /\ vms'[i] \in vm_step(vms[i], r)
    BY <2>1, <2>2, <2>4, StepTime
  <2>5. ASSUME vms'[i].wait = vms[i].wait PROVE TimeSound(vms'[i], past')
    BY <2>3, <2>5 DEF TimeSound
  <2>6. CASE \E b \in BaseReports : vms'[i] = KeyboardReported(i, AppendedReport(b), b)
    BY <2>5, <2>6 DEF KeyboardReported, VM
  <2>7. CASE vms'[i] = vms[i] \/ vms'[i] = MouseReported(vms[i])
    BY <2>5, <2>7 DEF MouseReported, VM
  <2>8. ASSUME NEW l \in LKeys,
               vms'[i] = VM("RUNNING", MainFrame, vms[i].io, [vms[i].wait EXCEPT !.trigger = l])
        PROVE  TimeSound(vms'[i], past')
    <3>1. vms'[i].wait = [vms[i].wait EXCEPT !.trigger = l]
      BY <2>8 DEF VM
    <3>2. /\ vms'[i].wait.early = vms[i].wait.early /\ vms'[i].wait.until = vms[i].wait.until
          /\ vms'[i].wait.delay_end = vms[i].wait.delay_end /\ vms'[i].wait.wrapped = vms[i].wait.wrapped
      BY <2>1, <3>1 DEF Waits
    <3> QED BY <2>3, <3>2 DEF TimeSound
  <2> QED BY <2>1, <2>4, <2>6, <2>7, <2>8 DEF MachineChange
<1>3. TimeInv => DelayElapses
  BY DEF TimeInv, TimeSound, DelayElapses
<1> QED
  BY <1>1, <1>2, <1>3, MachinesAlways, PTL DEF Spec

--------------------------------------------------------------------------------
(***************************************************************************)
(* Keyboard reports.                                                       *)
(***************************************************************************)
\* The report r with the keys of machine n.
Merged(n, r) == IF Active(vms[n]) THEN ExtraKeyboardReport_append(vms[n].io.extra, r) ELSE r

\* The report with the keys of all machines is merged machine by machine.
LEMMA AppendedLoop ==
    ASSUME \A i \in Programs : vms[i].io.extra \in ExtraReports, NEW b \in PackedReports
    PROVE  \E g : /\ AppendedReport(b) = g[PROGRAM_COUNT]
                  /\ g[0] = b
                  /\ \A i \in Programs : g[i] = Merged(i, g[i - 1])
<1> DEFINE n == PROGRAM_COUNT
           step == [i \in 0..(n - 1) |-> [r \in PackedReports |-> Merged(i + 1, r)]]
           Body(f) == [i \in 0..n |-> IF i = 0 THEN b ELSE Merged(i, f[i - 1])]
<1>1. n \in Nat /\ Programs = 1..n
  BY InterpreterAssumption DEF Programs
<1>2. step \in [0..(n - 1) -> [PackedReports -> PackedReports]]
  <2>1. \A i \in 0..(n - 1) : i + 1 \in Programs
    BY <1>1
  <2>2. \A i \in 0..(n - 1) : \A r \in PackedReports : Merged(i + 1, r) \in PackedReports
    BY <2>1, AppendEffect DEF Merged
  <2> QED BY <2>2
<1>3. PICK f : IsRun(n, PackedReports, b, step, f)
  <2>1. IsLoop(n, PackedReports, b, step)
    BY <1>1, <1>2 DEF IsLoop
  <2> HIDE DEF step, n
  <2> QED BY <2>1, LoopExists
<1>4. \A i \in 1..n : f[i] = Merged(i, f[i - 1])
  <2> SUFFICES ASSUME NEW i \in 1..n PROVE f[i] = Merged(i, f[i - 1])
    OBVIOUS
  <2>1. i - 1 \in 0..(n - 1) /\ i - 1 \in 0..n /\ (i - 1) + 1 = i
    BY <1>1
  <2>2. f[i - 1] \in PackedReports /\ f[i] = step[i - 1][f[i - 1]]
    BY <2>1, <1>3 DEF IsRun
  <2>3. step[i - 1][f[i - 1]] = Merged((i - 1) + 1, f[i - 1])
    BY <2>1, <2>2
  <2> QED BY <2>1, <2>2, <2>3
<1>5. f = Body(f)
  <2> HIDE DEF n
  <2>1. \A i \in 0..n : i # 0 => i \in 1..n
    BY <1>1
  <2> QED BY <1>3, <1>4, <2>1 DEF IsRun
<1> DEFINE g == CHOOSE h : h = Body(h)
<1>6. AppendedReport(b) = g[n]
  BY DEF AppendedReport, Merged
<1>7. g = Body(g)
  <2> HIDE DEF Body, n
  <2> QED BY <1>5
<1> HIDE DEF g
<1>8. g[0] = b /\ \A i \in 1..n : g[i] = Merged(i, g[i - 1])
  BY <1>1, <1>7
<1> QED
  BY <1>1, <1>6, <1>8

\* It has no key that neither the base nor a machine holds, and every key of
\* an active machine unless it is full.
LEMMA AppendedEffect ==
    ASSUME \A i \in Programs : vms[i].io.extra \in ExtraReports, NEW b \in PackedReports
    PROVE  LET r == AppendedReport(b)
           IN  /\ r \in PackedReports
               /\ \A k \in Content(r) : k \in Content(b) \/ \E i \in Programs : k \in Held(vms[i].io.extra)
               /\ \A i \in Programs : Active(vms[i]) =>
                    \A k \in Held(vms[i].io.extra) :
                       k \in Content(r) \/ (k \in Keys /\ Len(r.keys) = KEYBOARDREPORT_KEY_COUNT)
<1> DEFINE n == PROGRAM_COUNT
           Full(r) == Len(r.keys) = KEYBOARDREPORT_KEY_COUNT
           Extra(i) == vms[i].io.extra
<1>1. PICK g : /\ AppendedReport(b) = g[n] /\ g[0] = b
               /\ \A i \in Programs : g[i] = Merged(i, g[i - 1])
  BY AppendedLoop
<1>2. n \in Nat /\ Programs = 1..n /\ KEYBOARDREPORT_KEY_COUNT \in Nat
  BY InterpreterAssumption, ReportAssumption DEF Programs
<1>3. \A r \in PackedReports : Len(r.keys) \in Nat /\ Len(r.keys) <= KEYBOARDREPORT_KEY_COUNT
  BY DEF PackedReports, Packed
<1> DEFINE Good(p) ==
             /\ g[p] \in PackedReports
             /\ \A k \in Content(g[p]) : k \in Content(b) \/ \E i \in Programs : k \in Held(Extra(i))
             /\ \A i \in 1..p : Active(vms[i]) =>
                  \A k \in Held(Extra(i)) : k \in Content(g[p]) \/ (k \in Keys /\ Full(g[p]))
           T == {p \in 0..n : Good(p)}
<1>4. 0 \in T
  <2>1. Good(0)
    BY <1>1
  <2> QED BY <1>2, <2>1
<1>5. ASSUME NEW p \in 0..(n - 1), p \in T PROVE p + 1 \in T
  <2>1. p + 1 \in 0..n /\ p + 1 \in Programs /\ (p + 1) - 1 = p /\ Good(p)
    BY <1>2, <1>5
  <2> DEFINE old == g[p]
             new == g[p + 1]
  <2>2. new = Merged(p + 1, old)
    BY <1>1, <2>1
  <2>3. old \in PackedReports
        /\ \A k \in Content(old) : k \in Content(b) \/ \E i \in Programs : k \in Held(Extra(i))
    BY <2>1
  <2>4. \A i \in 1..p : Active(vms[i]) =>
          \A k \in Held(Extra(i)) : k \in Content(old) \/ (k \in Keys /\ Full(old))
    BY <2>1
  <2> HIDE DEF old, new
  <2>5. Extra(p + 1) \in ExtraReports
    BY <2>1
  <2>6. /\ new \in PackedReports /\ Len(old.keys) <= Len(new.keys) /\ Content(old) \subseteq Content(new)
        /\ Content(new) \subseteq Content(old) \cup Held(Extra(p + 1))
        /\ Active(vms[p + 1]) => \A k \in Held(Extra(p + 1)) : k \in Content(new) \/ (k \in Keys /\ Full(new))
    <3>1. CASE Active(vms[p + 1])
      <4>1. new = ExtraKeyboardReport_append(Extra(p + 1), old)
        BY <2>2, <3>1 DEF Merged
      <4> HIDE DEF Extra
      <4> QED BY <2>3, <2>5, <4>1, AppendEffect
    <3>2. CASE ~Active(vms[p + 1])
      <4>1. new = old
        BY <2>2, <3>2 DEF Merged
      <4>2. Len(old.keys) <= Len(old.keys)
        BY <1>3, <2>3
      <4> QED BY <2>3, <3>2, <4>1, <4>2
    <3> QED BY <3>1, <3>2
  <2>7. Full(old) => Full(new)
    BY <1>2, <1>3, <2>3, <2>6
  <2>8. ASSUME NEW i \in 1..(p + 1), Active(vms[i]), NEW k \in Held(Extra(i))
        PROVE  k \in Content(new) \/ (k \in Keys /\ Full(new))
    <3>1. CASE i = p + 1
      BY <2>6, <2>8, <3>1
    <3>2. CASE i # p + 1
      <4>1. i \in 1..p
        BY <1>2, <3>2
      <4> QED BY <2>4, <2>6, <2>7, <2>8, <4>1
    <3> QED BY <3>1, <3>2
  <2>9. \A k \in Content(new) : k \in Content(b) \/ \E i \in Programs : k \in Held(Extra(i))
    BY <2>1, <2>3, <2>6
  <2>10. Good(p + 1)
    BY <2>6, <2>8, <2>9 DEF new
  <2> QED BY <2>1, <2>10
<1>6. Good(n)
  <2>1. \A p \in 0..(n - 1) : p \in T => p + 1 \in T
    <3> HIDE DEF T
    <3> QED BY <1>5
  <2>2. n \in T
    <3> HIDE DEF T
    <3>1. \A p \in 0..n : p \in T
      BY <1>2, <1>4, <2>1, IntervalInduction
    <3> QED BY <1>2, <3>1
  <2> QED BY <2>2
<1> QED
  BY <1>1, <1>2, <1>6

\* The base reports are packed.
LEMMA BasePacked ==
    ASSUME setup \in Setups, NEW b \in BaseReports
    PROVE  b \in PackedReports
<1>1. KEYBOARDREPORT_KEY_COUNT \in Nat \ {0}
  BY ReportAssumption
<1>2. <<>> \in Packed
  BY <1>1 DEF Packed
<1>3. ASSUME NEW k \in Keys PROVE <<k>> \in Packed
  BY <1>1 DEF Packed
<1> QED
  BY <1>2, <1>3 DEF BaseReports, EmptyReport, PackedReports

--------------------------------------------------------------------------------
(***************************************************************************)
(* Key presses and releases reach the host.                                *)
(***************************************************************************)
\* A change that is pending is the machine's last, and its extra report has it.
ChangeSoundly(vm) ==
    /\ NoRepeat(vm.io.extra)
    /\ vm.io.pending.key # NO_KEY => /\ vm.state = "WAITREPORT"
                                     /\ vm.io.pending.pressed => vm.io.pending.key \in Held(vm.io.extra)
                                     /\ ~vm.io.pending.pressed => vm.io.pending.key \notin Held(vm.io.extra)

ReportInv == \A i \in Programs : ChangeSoundly(vms[i])

\* An instruction that starts without a pending change keeps that.
LEMMA ExecuteChanges ==
    ASSUME setup \in Setups, NEW vm, Sound(vm), ChangeSoundly(vm), vm.io.pending.key = NO_KEY,
           NEW t, NEW v \in Execute(vm, t)
    PROVE  ChangeSoundly(v)
<1>1. Outcome(vm, v, t)
  BY ExecuteEffect
<1>2. vm.io.extra \in ExtraReports /\ NoRepeat(vm.io.extra) /\ Codes \subseteq Keys \cup Modifiers
  BY SoundParts, InterpreterAssumption DEF Outputs, ChangeSoundly, Codes
<1>3. CASE v.io = vm.io
  BY <1>3 DEF ChangeSoundly
<1>4. ASSUME v.state = "WAITREPORT", NEW k \in Codes, v.io = Pressed(vm.io, k) PROVE ChangeSoundly(v)
  <2> DEFINE extra == ExtraKeyboardReport_add(vm.io.extra, k)
  <2>1. NoRepeat(extra)
    BY <1>2, AddEffect
  <2> HIDE DEF extra
  <2>2. /\ v.io.extra = extra /\ v.io.pending.pressed = TRUE
        /\ v.io.pending.key = IF k \in Held(extra) THEN k ELSE NO_KEY
    BY <1>4 DEF Pressed, SetKeys, extra
  <2> QED BY <1>4, <2>1, <2>2 DEF ChangeSoundly
<1>5. ASSUME v.state = "WAITREPORT", NEW k \in Codes \cup SpecialKeys, v.io = Released(vm.io, k)
      PROVE  ChangeSoundly(v)
  <2> DEFINE extra == ExtraKeyboardReport_remove(vm.io.extra, k)
  <2>1. NoRepeat(extra) /\ (k \in Codes => k \notin Held(extra))
    BY <1>2, RemoveEffect
  <2> HIDE DEF extra
  <2>2. /\ v.io.extra = extra /\ v.io.pending.pressed = FALSE
        /\ v.io.pending.key = IF k \in Codes THEN k ELSE NO_KEY
    BY <1>5 DEF Released, SetKeys, extra
  <2> QED BY <1>5, <2>1, <2>2 DEF ChangeSoundly
<1>6. ASSUME NEW b, NEW x, v.io = SetMouse(vm.io, b, x) PROVE ChangeSoundly(v)
  <2>1. v.io.extra = vm.io.extra /\ v.io.pending.key = NO_KEY
    BY <1>6 DEF SetMouse
  <2> QED BY <1>2, <2>1 DEF ChangeSoundly
<1> QED
  BY <1>1, <1>3, <1>4, <1>5, <1>6 DEF Outcome

\* A machine's own step keeps it: the stack check cannot stop a machine that
\* waits for a report.
LEMMA StepChanges ==
    ASSUME setup \in Setups, NEW vm, Sound(vm), ChangeSoundly(vm), MoveSound(vm), NEW r, GoodReads(r),
           NEW v \in vm_step(vm, r)
    PROVE  ChangeSoundly(v)
<1>1. vm.state \in States /\ StackOK(vm.stack) /\ vm.io \in Outputs
  BY SoundParts
<1>2. CASE StackFull(vm) /\ v = VM("CRASHED", vm.stack, vm.io, vm.wait)
  <2>1. vm.io.pending.key = NO_KEY
    BY <1>2 DEF MoveSound, ReportWaits, ChangeSoundly
  <2> QED BY <1>2, <2>1 DEF ChangeSoundly, VM
<1>3. CASE vm.state \in KeyWaits /\ v = KeyWaited(vm, r.check)
  <2>1. vm.io.pending.key = NO_KEY
    BY <1>3 DEF ChangeSoundly, KeyWaits
  <2>2. v.io = vm.io
    BY <1>3 DEF KeyWaited, VM
  <2> QED BY <2>1, <2>2 DEF ChangeSoundly
<1>4. CASE vm.state = "DELAY"
           /\ v \in Execute(VM("RUNNING", vm.stack, vm.io, Over(vm, r)), r.set)
  <2> DEFINE w == Over(vm, r)
             u == VM("RUNNING", vm.stack, vm.io, w)
  <2>2. w \in Waits
    BY WaitSound DEF Over, GoodReads
  <2>3. v \in Execute(u, r.set)
    BY <1>4
  <2> HIDE DEF w
  <2>4. Sound(u)
    BY <1>1, <2>2, SoundVM DEF States
  <2>5. u.io = vm.io /\ vm.io.pending.key = NO_KEY
    BY <1>4 DEF VM, ChangeSoundly
  <2> HIDE DEF u
  <2>6. ChangeSoundly(u) /\ u.io.pending.key = NO_KEY
    BY <2>5 DEF ChangeSoundly
  <2> QED BY <2>3, <2>4, <2>6, ExecuteChanges
<1>5. CASE vm.state = "RUNNING" /\ v \in Execute(vm, r.set)
  <2>1. vm.io.pending.key = NO_KEY
    BY <1>5 DEF ChangeSoundly
  <2> QED BY <1>5, <2>1, ExecuteChanges
<1> QED
  BY <1>1, <1>2, <1>3, <1>4, <1>5, StepCases

\* A report that is fetched while a machine waits shows its change.
LEMMA ReportShows ==
    ASSUME MachinesInv, ReportInv, NEW i \in Programs, NEW b \in BaseReports,
           vms[i].state = "WAITREPORT", vms[i].io.pending.key # NO_KEY
    PROVE  Shows(i, AppendedReport(b), b)
<1> DEFINE r == AppendedReport(b)
           p == vms[i].io.pending
<1>1. b \in PackedReports
  BY BasePacked DEF MachinesInv
<1>2. \A j \in Programs : vms[j].io.extra \in ExtraReports
  BY SoundParts DEF MachinesInv, Outputs
<1>3. /\ \A k \in Content(r) : k \in Content(b) \/ \E j \in Programs : k \in Held(vms[j].io.extra)
      /\ \A j \in Programs : Active(vms[j]) =>
            \A k \in Held(vms[j].io.extra) :
               k \in Content(r) \/ (k \in Keys /\ Len(r.keys) = KEYBOARDREPORT_KEY_COUNT)
  BY <1>1, <1>2, AppendedEffect
<1>4. Active(vms[i])
  BY DEF Active, Halted
<1>5. p.pressed => p.key \in Held(vms[i].io.extra)
  BY DEF ReportInv, ChangeSoundly
<1>6. ~p.pressed => p.key \notin Held(vms[i].io.extra)
  BY DEF ReportInv, ChangeSoundly
<1>7. Shows(i, r, b) <=>
        IF p.pressed
        THEN p.key \in Content(r) \/ (p.key \in Keys /\ Len(r.keys) = KEYBOARDREPORT_KEY_COUNT)
        ELSE p.key \notin Content(r) \/ p.key \in Content(b)
             \/ \E j \in Programs \ {i} : p.key \in Held(vms[j].io.extra)
  BY DEF Shows
<1> HIDE DEF r, p
<1>8. ASSUME p.pressed PROVE Shows(i, r, b)
  BY <1>3, <1>4, <1>5, <1>7, <1>8
<1>9. ASSUME ~p.pressed PROVE Shows(i, r, b)
  <2>1. \A j \in Programs : p.key \in Held(vms[j].io.extra) => j \in Programs \ {i}
    BY <1>6, <1>9
  <2> QED BY <1>3, <1>7, <1>9, <2>1
<1> QED
  BY <1>8, <1>9 DEF r

\* A program goes on after PRESSKEY or RELEASEKEY only when a report has shown
\* the change to the host, for any number of machines that press and release
\* the same keys, any keys that are held and any size of the reports, except
\* for what Shows excepts: a full report, or a key that something else holds.
THEOREM HostSeesChanges == Spec => []ChangesReachHost
<1>1. Init => ReportInv
  <2> SUFFICES ASSUME Init PROVE ReportInv
    OBVIOUS
  <2>1. ASSUME NEW i \in Programs PROVE ChangeSoundly(vms[i])
    <3>1. vms[i].io.extra = ExtraKeyboardReport_clear /\ vms[i].io.pending = NothingPending
      BY DEF Init, InitVM, VM
    <3>2. NoRepeat(ExtraKeyboardReport_clear)
      BY DEF NoRepeat, ExtraKeyboardReport_clear
    <3> QED BY <3>1, <3>2 DEF ChangeSoundly, NothingPending
  <2> QED BY <2>1 DEF ReportInv
<1>2. MachinesInv /\ MoveInv /\ ReportInv /\ [Next]_vars => ReportInv'
  <2> SUFFICES ASSUME MachinesInv, MoveInv, ReportInv, [Next]_vars, NEW i \in Programs
               PROVE  ChangeSoundly(vms'[i])
    BY DEF ReportInv, ChangeSoundly, NoRepeat
  <2>1. /\ setup \in Setups /\ Sound(vms[i]) /\ MachineChange(i) /\ MoveSound(vms[i])
        /\ ChangeSoundly(vms[i]) /\ vms[i].io \in Outputs
    BY MachinesType, MachineChanges, SoundParts DEF MachinesInv, MoveInv, ReportInv
  <2>3. CASE \E r : GoodReads(r) /\ vms'[i] \in vm_step(vms[i], r)
    BY <2>1, <2>3, StepChanges
  <2>4. CASE /\ vms[i].state \in {"STOPPED", "CRASHED"}
             /\ \E l \in LKeys : vms'[i] = VM("RUNNING", MainFrame, vms[i].io, [vms[i].wait EXCEPT !.trigger = l])
    <3>1. vms'[i].io = vms[i].io /\ vms[i].io.pending.key = NO_KEY
      BY <2>1, <2>4 DEF VM, ChangeSoundly
    <3> QED BY <2>1, <3>1 DEF ChangeSoundly
  <2>5. ASSUME NEW b \in BaseReports, vms'[i] = KeyboardReported(i, AppendedReport(b), b)
        PROVE  ChangeSoundly(vms'[i])
    <3> DEFINE shown == Shows(i, AppendedReport(b), b)
    <3>1. CASE ~Active(vms[i])
      BY <2>1, <2>5, <3>1 DEF KeyboardReported
    <3>2. CASE Active(vms[i])
      <4>1. /\ vms'[i].state = IF vms[i].state = "WAITREPORT" THEN "RUNNING" ELSE vms[i].state
            /\ vms'[i].io = [vms[i].io EXCEPT !.pending = IF shown THEN NothingPending ELSE @]
        BY <2>5, <3>2 DEF KeyboardReported, VM
      <4>2. vms'[i].io.extra = vms[i].io.extra
            /\ vms'[i].io.pending = IF shown THEN NothingPending ELSE vms[i].io.pending
        BY <2>1, <4>1 DEF Outputs
      <4>3. vms'[i].io.pending.key = NO_KEY
        <5>1. CASE vms[i].io.pending.key = NO_KEY
          BY <4>2, <5>1 DEF NothingPending
        <5>2. CASE vms[i].io.pending.key # NO_KEY
          <6>1. shown
            BY <2>1, <5>2, ReportShows DEF ChangeSoundly
          <6> QED BY <4>2, <6>1 DEF NothingPending
        <5> QED BY <5>1, <5>2
      <4> QED BY <2>1, <4>2, <4>3 DEF ChangeSoundly
    <3> QED BY <3>1, <3>2
  <2>6. CASE \E b \in BaseReports : vms'[i] = KeyboardReported(i, AppendedReport(b), b)
    BY <2>5, <2>6
  <2>7. CASE vms'[i] = MouseReported(vms[i])
    <3>1. vms'[i].io.extra = vms[i].io.extra /\ vms'[i].io.pending = vms[i].io.pending
      BY <2>7 DEF MouseReported, VM, SetMouse
    <3>2. vms[i].state = "WAITREPORT" => vms'[i].state = "WAITREPORT"
      BY <2>7 DEF MouseReported, VM
    <3> QED BY <2>1, <3>1, <3>2 DEF ChangeSoundly
  <2>8. CASE vms'[i] = vms[i]
    BY <2>1, <2>8
  <2> QED BY <2>1, <2>3, <2>4, <2>6, <2>7, <2>8 DEF MachineChange
<1>3. ReportInv => ChangesReachHost
  BY DEF ReportInv, ChangeSoundly, ChangesReachHost
<1> QED
  BY <1>1, <1>2, <1>3, MachinesAlways, MovesAlways, PTL DEF Spec

--------------------------------------------------------------------------------
(***************************************************************************)
(* The types of everything.                                                *)
(***************************************************************************)
\* The saturating sum of two movements is a byte.
LEMMA SumType ==
    ASSUME NEW x \in Bytes, NEW y \in Bytes
    PROVE  addT(x, y) \in Bytes
<1>1. MouseMax \in Nat
  BY InterpreterAssumption
<1> QED
  BY <1>1 DEF addT, Bytes

\* The movement m with that of machine n.
Moved(n, m) == IF Active(vms[n]) THEN addT(m, vms[n].io.x) ELSE m

\* The movement in a mouse report is a byte, whatever the machines add.
LEMMA MouseType ==
    ASSUME \A i \in Programs : vms[i].io.x \in Bytes, NEW m \in Bytes, Fill_MouseReport(m)
    PROVE  mouse' \in Bytes
<1> DEFINE n == PROGRAM_COUNT
           step == [i \in 0..(n - 1) |-> [x \in Bytes |-> Moved(i + 1, x)]]
           Body(f) == [i \in 0..n |-> IF i = 0 THEN m ELSE Moved(i, f[i - 1])]
<1>1. n \in Nat /\ Programs = 1..n
  BY InterpreterAssumption DEF Programs
<1>2. step \in [0..(n - 1) -> [Bytes -> Bytes]]
  <2>1. \A i \in 0..(n - 1) : i + 1 \in Programs
    BY <1>1
  <2>2. \A i \in 0..(n - 1) : \A x \in Bytes : Moved(i + 1, x) \in Bytes
    BY <2>1, SumType DEF Moved
  <2> QED BY <2>2
<1>3. PICK f : IsRun(n, Bytes, m, step, f)
  <2>1. IsLoop(n, Bytes, m, step)
    BY <1>1, <1>2 DEF IsLoop
  <2> HIDE DEF step, n
  <2> QED BY <2>1, LoopExists
<1>4. \A i \in 1..n : f[i] = Moved(i, f[i - 1])
  <2> SUFFICES ASSUME NEW i \in 1..n PROVE f[i] = Moved(i, f[i - 1])
    OBVIOUS
  <2>1. i - 1 \in 0..(n - 1) /\ i - 1 \in 0..n /\ (i - 1) + 1 = i
    BY <1>1
  <2>2. f[i - 1] \in Bytes /\ f[i] = step[i - 1][f[i - 1]]
    BY <2>1, <1>3 DEF IsRun
  <2>3. step[i - 1][f[i - 1]] = Moved((i - 1) + 1, f[i - 1])
    BY <2>1, <2>2
  <2> QED BY <2>1, <2>2, <2>3
<1>5. f = Body(f)
  <2> HIDE DEF n
  <2>1. \A i \in 0..n : i # 0 => i \in 1..n
    BY <1>1
  <2> QED BY <1>3, <1>4, <2>1 DEF IsRun
<1> DEFINE g == CHOOSE h : h = Body(h)
<1>6. mouse' = g[n]
  BY DEF Fill_MouseReport, Moved
<1>7. g = Body(g)
  <2> HIDE DEF Body, n
  <2> QED BY <1>5
<1> HIDE DEF g
<1>8. g[0] = m /\ \A i \in 1..n : g[i] = Moved(i, g[i - 1])
  BY <1>1, <1>7
<1> DEFINE T == {i \in 0..n : g[i] \in Bytes}
<1>9. 0 \in T
  BY <1>1, <1>8
<1>10. \A i \in 0..(n - 1) : i \in T => i + 1 \in T
  <2> SUFFICES ASSUME NEW i \in 0..(n - 1), g[i] \in Bytes PROVE g[i + 1] \in Bytes
    BY <1>1
  <2>1. i + 1 \in 1..n /\ (i + 1) - 1 = i /\ vms[i + 1].io.x \in Bytes
    BY <1>1
  <2>2. g[i + 1] = Moved(i + 1, g[i])
    BY <1>8, <2>1
  <2> QED BY <2>1, <2>2, SumType DEF Moved
<1>11. n \in T
  <2> HIDE DEF T
  <2>1. \A i \in 0..n : i \in T
    BY <1>1, <1>9, <1>10, IntervalInduction
  <2> QED BY <1>1, <2>1
<1> QED
  BY <1>6, <1>11

\* The rest of the type invariant.
RestInv == current_state \in {"NORMAL", "OTHER"} /\ down \subseteq LKeys /\ mouse \in Bytes

\* Types are kept: the machines' fields, the stacks, the counter, the keys, the
\* mouse report, whose movement saturates at the limits of a byte, and every
\* keyboard report that the machines' keys can be merged into, which never has
\* more keys than places.
THEOREM TypeCorrect == Spec => []TypeOK
<1>1. Init => RestInv
  BY InterpreterAssumption DEF Init, RestInv, Bytes
<1>2. MachinesInv /\ RestInv /\ [Next]_vars => RestInv'
  <2> SUFFICES ASSUME MachinesInv, RestInv, [Next]_vars PROVE RestInv'
    OBVIOUS
  <2>1. BaseMoves \subseteq Bytes /\ setup.lkeys \subseteq LKeys
    BY InterpreterAssumption DEF BaseMoves, MachinesInv
  <2>2. \A i \in Programs : vms[i].io.x \in Bytes
    BY SoundParts DEF MachinesInv, Outputs
  <2>3. CASE UNCHANGED <<current_state, down, mouse>>
    BY <2>3 DEF RestInv
  <2>4. ASSUME vm_step_all \/ Update_Millis PROVE RestInv'
    BY <2>3, <2>4 DEF vm_step_all, Update_Millis
  <2>5. ASSUME ChangeState PROVE RestInv'
    BY <2>5 DEF ChangeState, RestInv
  <2>6. ASSUME NEW m \in BaseMoves, Fill_MouseReport(m) PROVE RestInv'
    <3>1. m \in Bytes
      BY <2>1
    <3>2. mouse' \in Bytes
      BY <2>2, <2>6, <3>1, MouseType
    <3> QED BY <2>6, <3>2 DEF Fill_MouseReport, RestInv
  <2>7. ASSUME NEW m \in BaseMoves, FillElsewhere(m) PROVE RestInv'
    BY <2>1, <2>7 DEF FillElsewhere, RestInv
  <2>8. ASSUME NEW b \in BaseReports, Fill_KeyboardReport(b) PROVE RestInv'
    BY <2>3, <2>8 DEF Fill_KeyboardReport
  <2>9. ASSUME NEW l \in setup.lkeys, ChangeKey(l) PROVE RestInv'
    BY <2>1, <2>9 DEF ChangeKey, RestInv
  <2>10. ASSUME NEW l \in setup.lkeys, NEW i \in Programs, vm_start(i, l) PROVE RestInv'
    BY <2>3, <2>10 DEF vm_start
  <2>11. CASE UNCHANGED vars
    BY <2>3, <2>11 DEF vars
  <2> QED BY <2>4, <2>5, <2>6, <2>7, <2>8, <2>9, <2>10, <2>11 DEF Next
<1>3. MachinesInv /\ RestInv => TypeOK
  <2> SUFFICES ASSUME MachinesInv, RestInv PROVE TypeOK
    OBVIOUS
  <2>1. \A i \in Programs : vms[i].io.extra \in ExtraReports
    BY SoundParts DEF MachinesInv, Outputs
  <2>2. \A b \in BaseReports : AppendedReport(b) \in PackedReports
    BY <2>1, BasePacked, AppendedEffect DEF MachinesInv
  <2>3. ASSUME NEW q \in Packed
        PROVE  q \in UNION {[1..n -> Keys] : n \in 0..KEYBOARDREPORT_KEY_COUNT}
    <3>1. q \in [1..Len(q) -> Keys] /\ Len(q) \in 0..KEYBOARDREPORT_KEY_COUNT
      BY ReportAssumption DEF Packed
    <3> QED BY <3>1
  <2>4. PackedReports \subseteq KeyboardReports
    BY <2>3 DEF PackedReports, KeyboardReports
  <2> QED BY <2>2, <2>4, MachinesType DEF TypeOK, MachinesInv, RestInv
<1> QED
  BY <1>1, <1>2, <1>3, MachinesAlways, PTL DEF Spec

================================================================================
