CONSTANTS
    Last = 3
    MaxDepth = 2
SPECIFICATION FairSpec
INVARIANTS
    StacksConsistent
    OnOwnStack
    FreedStackIsLeft
PROPERTY InterruptsComeBack
