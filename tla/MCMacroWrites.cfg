CONSTANTS
    MACRO_INDEX_COUNT = 3
    MACROS_SIZE = 8
    STORAGE_SIZE = 8
    MACRO_DATA_HEADER_LEN = 1
    Triggers = {1, 2, 3, 4}
    NO_TRIGGER = 255
    ProgramTriggers = {4}
    Events = {4}
    macro_def_infos <- FactoryTable
    MaxMacroLen = 1
SPECIFICATION StepSpec
INVARIANTS
    SortedBetween
    PackedBetween
    KeepsOtherMacros
PROPERTIES
    ImplementsMacros
    ImplementsStoreBetween
CHECK_DEADLOCK FALSE
