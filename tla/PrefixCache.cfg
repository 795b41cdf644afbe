SPECIFICATION Spec
CONSTANTS
    Workloads <- Loads
    None = None
INVARIANTS
    ResumeIsExact
    RowsAccepted
    GrantedStayStored
    StoredHaveKv
