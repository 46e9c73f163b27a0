CONSTANTS
    t1 = t1
    t2 = t2
    Writers <- MCWriters
    VGA_WIDTH = 2
    VGA_HEIGHT = 2
    WORD = 16
    BYTE = 4
    Strings <- MCStrings
    kbdus <- MCKeys
    Released <- MCReleased
    Newline <- MCNewline
    Blank = " "
    MaxChars = 4
SYMMETRY MCSymmetry
SPECIFICATION Spec
INVARIANTS
    StaysInBuffer
    ScreenShowsText
    CursorFollows
