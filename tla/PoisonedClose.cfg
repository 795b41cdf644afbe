SPECIFICATION FairSpec
CONSTANTS
    Token = {t, e}
    Eos = {e}
    NoToken = none
    Prompt = 3
    MaxNew = 5
    Widths = {1, 2, 4}
    Captured = {1, 2}
    BlockRows = 4
    MaxDrafts = 3
    MaxStale = 1
PROPERTIES
    EveryRequestReleased
