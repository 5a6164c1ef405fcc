\* Every line of up to seven characters: two characters of names, which are also
\* digits, dots, slashes, spaces, quotes and a minus, which no name may have.
\* UINT32 and UINT64 are smaller than the code's, and larger than the numbers that fit a line.
SPECIFICATION Spec
CONSTANTS
    Letters = {"1", "9"}
    DIR_NAME_LENGTH = 2
    DIR_EXT_LENGTH = 1
    UINT32 = 2097152
    UINT64 = 16777216
    MAX_LINE = 7
INVARIANTS
    PathIsParsed
    WordsAreArguments
    KillsTheNumberTyped
    PlaysTheToneTyped
CHECK_DEADLOCK FALSE
