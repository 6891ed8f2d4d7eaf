\* A walk through a short stream that changes, with small limits.
CONSTANTS
    MaxSeq = 3
    f1 = f1
    f2 = f2
    Filters = {f1, f2}
    Matching <- SomeMatch
    Limits = {1, 2}
    ScanLimit <- SomeScanLimit
    Removable = {1}
    Rejectable = {2}
    Ranges <- SomeRanges
    SavedViews <- SomeSavedViews
    Estimates = {2}
    MaxPages = 2
    None = None
SPECIFICATION Spec
PROPERTIES
    PreviousReturns
INVARIANTS
    TypeOK
    NothingSkipped
    ShownOnce
