SPECIFICATION Spec
CONSTANTS
    Seg = {s1, s2}
    None = None
    Rows = 1
    MaxRounds = 3
    Profiles <- DirectOrDeferring
    Disturbs = {}
    Faults = {"stage", "commit", "flush", "draft"}
    MaxFaults = 2
SYMMETRY Users
INVARIANTS
    ReadersFindCommitted
    RoundCanRun
    EarlyDraftsHold
PROPERTY
    ReplayIsFenced
