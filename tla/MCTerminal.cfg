SPECIFICATION Spec
CONSTANTS
    VGA_WIDTH = 3
    VGA_HEIGHT = 2
    ROWS = 5
    Letters <- MCLetters
    Strings <- MCStrings
    Numbers <- MCNumbers
    Bytes <- MCBytes
INVARIANTS
    TypeOK
    OnScreen
    Tidy
    LastMessageWhole
    UintRight
PROPERTIES
    PrintsAsPage
