\* A connection and the one that replaces it, watched by one health run and one
\* metrics run that fire again and again, and by a live tail.
CONSTANTS
    Ids = {c1, c2}
    Timeout = 1
    Runs = {r1}
    Tails = {t1}
    NStreams = 1
    DbFails = TRUE
    None = None
SPECIFICATION Spec
INVARIANTS
    TypeOK
    DownIsDeserved
    
PROPERTIES
    OnlyClientsKeepConnections
SYMMETRY Symmetry
