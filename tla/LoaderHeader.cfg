CONSTANTS
    Numeral <- MCNumeral
    Multiline = {"two lines"}
    Sources <- MCSources
    Written <- MCWritten
    Indeterminate = {0, 144}
    MaxRounds = 2
SPECIFICATION Spec
INVARIANT GeneratedLoads
