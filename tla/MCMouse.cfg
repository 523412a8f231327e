SPECIFICATION MouseSpec
CONSTANTS
    b1 = b1
    Buttons <- MCButtons
    MoveAxes = {"X"}
    WheelAxes = {"V"}
    Int8 = 2
    Divs = {1, 2, 3}
PROPERTIES ButtonsReported ButtonsFollowKeys Stops
