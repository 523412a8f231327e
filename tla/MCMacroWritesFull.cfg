CONSTANTS
    MACRO_INDEX_COUNT = 3
    MACROS_SIZE = 8
    STORAGE_SIZE = 10
    MACRO_DATA_HEADER_LEN = 1
    Triggers = {1, 2, 3}
    NO_TRIGGER = 255
    ProgramTriggers = {}
    Events = {4}
    macro_def_infos <- FactoryTable
    MaxMacroLen = 2
SPECIFICATION StepSpec
INVARIANT RecordingInArea
CHECK_DEADLOCK FALSE
