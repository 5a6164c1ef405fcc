\* One read that begins shortly before a carry, in which a pass may be as slow as
\* it likes: up to four ticks between two comparisons, and seven in all.
SPECIFICATION Spec
CONSTANTS
    Starts <- MCStarts
    Modes <- MCModes
    DAYS = 30
    MAX_TICKS = 4
    HORIZON = 6
INVARIANTS
    ReadIsOfOneMoment
    LocalTimeIsTrue
CHECK_DEADLOCK FALSE
