CONSTANTS
    KEYSTATE_COUNT = 2
    MAX_DEBOUNCE_LEN = 3
    KEYPAD_LAYER_SIZE = 3
    logical_to_hid_map_default <- ShiftBoard
    RemapTargets = {0, 2, 8}
    DebounceLens = {2, 3}
SPECIFICATION Spec
INVARIANTS
    TypeOK
    SpecialKeysFixed
    CountExact
    GetKeysFillsCount
