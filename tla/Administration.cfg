\* Three requests of any kind on a stream, its consumer, a bucket and an object store.
CONSTANTS
    Requests = {p1, p2, p3}
    Streams = {s1}
    Consumers = {c1}
    Buckets = {b1}
    ObjectStores = {o1}
    Fields = {f1, g1}
    Values = {u1, v1}
    Default = u1
    Absent = Absent
    s1 = s1
    c1 = c1
    b1 = b1
    o1 = o1
    f1 = f1
    g1 = g1
    u1 = u1
    v1 = v1
    Existing = {s1, c1, b1, o1}
    Parent <- OnStream
    Operations <- SomeOperations
SYMMETRY Symmetry
SPECIFICATION Spec
INVARIANTS
    TypeOK
    BatchIsPrefix
    MessageDeletedOnce
PROPERTIES
    AuditTellsAnswered
    OthersKeepTheirFields
    OnlyCreatesMake
\* Requests are finitely many: the system may stop.
CHECK_DEADLOCK FALSE
