SPECIFICATION Spec
CONSTANTS
    WordSpace = 256
    Chars = {a, b}
    BLANK = BLANK
    Width = 3
    Height = 2
    Tab = 2
    Words = {0, 1, 9, 10, 15, 16, 99, 100, 127, 128, 129, 156, 200, 255}
    MaxLines = 4
INVARIANTS
    CursorOnScreen
    ScreenShowsTail
    PrintfCorrect
