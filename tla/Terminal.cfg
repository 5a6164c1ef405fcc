\* A shell at a keyboard with one letter in either case and the four control
\* keys, a command buffer of two, lines of up to four keys and a screen of two
\* rows, the second of which is the page break.
SPECIFICATION Spec
VIEW View
CONSTANTS
    WIDTH = 2
    HEIGHT = 2
    PAGE_BREAK_ROW = 1
    INFO_LENGTH = 1
    Letters = {"a"}
    Symbols = {}
    MAX_COMMAND_LENGTH = 2
    LINE_SIZE = 5
    MaxTyped = 4
    MaxCursor = 5
    Starts = {1}
INVARIANTS
    TypeOK
    KeysInOrder
    LineIsWhatWasTyped
    ScreenFollowsLine
    PutStaysOnScreen
