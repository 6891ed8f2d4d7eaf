---- MODULE MCMessagePaging ----
EXTENDS MessagePaging

CONSTANTS f1, f2

\* One filter lets most messages through, the other few.
SomeMatch == [f \in Filters |-> IF f = f1 THEN Seqs ELSE {3}]

\* The scan of either page size ends before the end of the stream.
SomeScanLimit == [n \in Limits |-> 2]

\* A range to go to.
SomeRanges == {<<2, None>>}

\* A saved view of the live mode.
SomeSavedViews == {[filter |-> f2, limit |-> 2, live |-> TRUE, start |-> None, end |-> None]}
====
