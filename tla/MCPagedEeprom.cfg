SPECIFICATION EepromSpec
CONSTANTS
    Chips <- BothChips
    Size = 6
    HostAddresses = {3}
    MaxOperations = 2
INVARIANT ContentsAsAsked
PROPERTY CallsReturn
