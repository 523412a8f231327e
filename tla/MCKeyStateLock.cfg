CONSTANTS
    KEYSTATE_COUNT = 3
    MAX_DEBOUNCE_LEN = 2
    KEYPAD_LAYER_SIZE = 4
    logical_to_hid_map_default <- LockBoard
    RemapTargets = {}
    DebounceLens = {2}
SPECIFICATION Spec
INVARIANTS
    SlotsConsistent
    HookBalanced
    LayerJustified
PROPERTIES
    NoKeyLostWithinCapacity
    HiddenUntilReleased
