SPECIFICATION RateSpec
CONSTANTS
    Limiters = {"redis"}
    RequestLimit = 1
    PrimaryWindow = 2
    SecondaryWindow = 3
    MaxStoreFaults = 2
PROPERTY
    RetriesAreServed
CHECK_DEADLOCK FALSE
