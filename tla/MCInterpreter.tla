----------------------------- MODULE MCInterpreter -----------------------------
(***************************************************************************)
(* Small programs for the interpreter, and the keyboards that run them.    *)
(***************************************************************************)
EXTENDS Interpreter

CONSTANTS a, b, k1, k2

TwoHidCodes == [l \in LKeys |-> IF l = k1 THEN a ELSE b]

\* A method without arguments and one with two arguments and three locals.
SmallMethods == {[nargs |-> 0, nlocals |-> 0], [nargs |-> 2, nlocals |-> 3]}

\* Main's locals leave each program only the few bytes of stack it needs.
Reports ==
    [present |-> {1, 2}, instructions |-> {"COMPUTE", "PRESSKEY", "RELEASEKEY"}, codes |-> {a, b},
     nglobals |-> 0, nlocals |-> 23, lkeys |-> {k1}, moves |-> {0}, horizon |-> 0]

Inputs ==
    [present |-> {2}, codes |-> {a}, lkeys |-> {k1}, moves |-> {0, 1}, horizon |-> 0,
     instructions |-> {"COMPUTE", "CHECK", "BUZZ", "PRESSKEY", "RELEASEKEY", "MOUSEBUTTONS", "MOVEMOUSE"},
     nglobals |-> 0, nlocals |-> 22]

Calls ==
    [present |-> {1}, instructions |-> {"COMPUTE", "CALL"}, codes |-> {},
     nglobals |-> 1, nlocals |-> 7, lkeys |-> {k1}, moves |-> {0}, horizon |-> 0]

Times ==
    [present |-> {1}, instructions |-> {"COMPUTE", "DELAY", "WAIT"}, codes |-> {a},
     nglobals |-> 0, nlocals |-> 21, lkeys |-> {k1, k2}, moves |-> {0}, horizon |-> 4]

\* The counter wraps.
Wraps ==
    [present |-> {1}, instructions |-> {"COMPUTE", "DELAY"}, codes |-> {},
     nglobals |-> 0, nlocals |-> 22, lkeys |-> {k1}, moves |-> {0}, horizon |-> 11]

AllSetups == {Reports, Inputs, Calls, Times, Wraps}
================================================================================
