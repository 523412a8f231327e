CONSTANTS
    Boards <- AllBoards
    MACRO_INDEX_COUNT = 2
    MAX_DEBOUNCE_LEN = 3
    MAX_DIV = 3
    FactorySettings <- Factory
    NoKeyAlias = 2
    MaxEvents = 2
    MessageLen = 2
SPECIFICATION FairSpec
INVARIANTS
    OneMacroAtATime
    OneSettingEdited
    SteeringKeysFixed
PROPERTIES
    HeldTriggerPlaysOnce
    ComesBack
