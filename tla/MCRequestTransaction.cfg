SPECIFICATION FairSpec
CONSTANTS
    Token = {t, u, e}
    Eos = {e}
    NoToken = none
    Prompt = 3
    MaxNew = 5
    Widths = {1, 2, 3}
    Captured = {1, 2}
    BlockRows = 3
    MaxDrafts = 2
    MaxStale = 1
INVARIANTS
    TypeOK
    FrontiersAgree
    StateMatchesStream
    PublishedBeforeExposed
PROPERTIES
    DeadStaysDead
    FreshTickets
    ImplementsGreedyDecode
    EventuallyReleased
