CONSTANTS
    Lines <- MCLines
    Threads = {1, 2}
    BOOT = 1
    MaxDepth = 2
SPECIFICATION FairSpec
INVARIANTS
    ControllersConsistent
    BootOrderSafe
    OnlyReschedIsInterrupted
PROPERTY RaisedIsTaken
