SPECIFICATION Spec
CONSTANTS
    Seg = {s1, s2}
    None = None
    Rows = 1
    MaxRounds = 2
    Profiles <- AllOn
    Disturbs = {"pages", "prefill"}
    Faults = {"prestage"}
    MaxFaults = 1
SYMMETRY Users
INVARIANTS
    StagedIsCurrent
