CONSTANTS
    Kinds = {"read"}
    Last = 2
    CallCap = 1
    Modes = {TRUE, FALSE}
SPECIFICATION ResponsiveSpec
PROPERTY
    EndsByDeadline
CHECK_DEADLOCK FALSE
