SPECIFICATION TransfersSpec
CONSTANTS
    Positions = {1, 2}
    Setlist = "setlist"
    Captures = "captures"
    Braced = {1, 3}
    Setlists = {"setlist"}
    NoKey = "no key"
    MaxCalls = 3
    MaxEvents = 2
INVARIANTS
    WholeBackup
    OnlyBracesSpoil
    FreshWhenQuiet
    LibraryIsTrue
CHECK_DEADLOCK FALSE
