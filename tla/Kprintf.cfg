CONSTANTS
    Threads = {1, 2}
    Garbled = Garbled
    Chars <- MCChars
    Calls <- MCCalls
    LevelText <- MCLevel
    Spaces <- MCSpaces
    Junk <- MCJunk
    CONTAINER = 11
SPECIFICATION FairSpec
INVARIANTS
    ArgumentStaysInBuffer
    PrintsTheFormat
    BytesArrive
PROPERTY SomeCallReturns
