CONSTANTS
    Keys = {a, b, c}
    Modifiers = {shift}
    NO_KEY = none
    EXTRA_REPORT_KEY_COUNT = 2
    KEYBOARDREPORT_KEY_COUNT = 3
    MaxEvents = 4
    Macros <- AllMacros
    BaseReports <- HeldKeys
SPECIFICATION PlaySpec
PROPERTIES
    ReportShowsMacro
