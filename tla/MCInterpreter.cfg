CONSTANTS
    a = a
    b = b
    k1 = k1
    k2 = k2
    Keys = {a, b}
    Modifiers = {}
    NO_KEY = none
    EXTRA_REPORT_KEY_COUNT = 2
    KEYBOARDREPORT_KEY_COUNT = 2
    PROGRAM_COUNT = 2
    Setups <- AllSetups
    SpecialKeys = {mouse1}
    LKeys = {k1, k2}
    HidOf <- TwoHidCodes
    STACK_SIZE = 32
    Methods <- SmallMethods
    Delays = {0, 2}
    MouseMax = 1
    Wrap = 8
    Splits = {2, 4}
SPECIFICATION FairSpec
INVARIANTS
    ChangesReachHost
    MovesOnce
    FramesNest
    OverrunBounded
    DelayElapses
PROPERTIES
    ReportWaitsEnd
    TimedWaitsEnd
