CONSTANTS
    s1 = s1
    s2 = s2
    c1 = c1
    None = None
    Streams = {s1, s2}
    Consumers = {c1}
    Home <- MCHome
    Literals <- MCLiterals
    Patterns <- MCPatterns
    SubjectSets <- MCSubjectSets
    FilterLists <- MCFilterLists
    MaxTokens = 3
    MaxChanges = 4
SPECIFICATION Spec
INVARIANTS
    TypeOK
    ProbeFindsReceivers
    AnalysisFollowsDelivery
