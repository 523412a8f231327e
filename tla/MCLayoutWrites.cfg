CONSTANTS
    NUM_KEY_MAPPING_INDICES = 3
    SAVED_MAPPING_COUNT = 5
    NUM_LOGICAL_KEYS = 2
    logical_to_hid_map_default <- FactoryLayout
    HidValues = {4, 5}
SPECIFICATION StepSpec
INVARIANTS
    PackedBetween
    KeepsEarlier
    NeverHalfSaved
PROPERTIES
    ImplementsSavedLayouts
    ImplementsStoreBetween
CHECK_DEADLOCK FALSE
