---------------------------- MODULE MessagePaging ----------------------------
(***************************************************************************)
(* MessageReaderService.getMessages and the message browser that pages     *)
(* through a stream with it, forwards from a sequence or backwards from    *)
(* the latest message.                                                     *)
(*                                                                         *)
(* A request reads the stream's state once and then fetches sequence after *)
(* sequence, while messages are appended and removed; a fetch that rejects *)
(* is taken for a message that is not there.  The browser keeps a cursor   *)
(* and the history of cursors.  Until the answer for a new view arrives it *)
(* shows the last page (keepPreviousData), and its next_seq is what the    *)
(* Next button uses.  The stream is external.                              *)
(***************************************************************************)
EXTENDS Naturals, Sequences, FiniteSets

CONSTANTS
    MaxSeq,     \* bound on the sequences of the stream
    Filters,    \* the filters the browser can apply
    Matching,   \* Matching[f]: the sequences whose message passes filter f
    Limits,     \* the limits of a page the user can choose
    ScanLimit,  \* ScanLimit[n]: scan_limit for limit n, after it was clamped
    Removable,  \* the sequences that can be removed
    Rejectable, \* the sequences whose fetch can be rejected
    Ranges,     \* the ranges of sequences the user goes to
    SavedViews, \* the views that were saved
    Estimates,  \* the sequences a jump to a page can be estimated to go to
    MaxPages,   \* bound on the length of the cursor history
    None

Seqs == 1 .. MaxSeq

ASSUME BoundsAreNat == MaxSeq \in Nat /\ MaxPages \in Nat
ASSUME LimitsArePositive == Limits \subseteq Nat \ {0} /\ ScanLimit \in [Limits -> Nat \ {0}]
ASSUME FiltersSelect == Matching \in [Filters -> SUBSET Seqs]
ASSUME NoneIsNoNumber == None \notin Nat
ASSUME RangesAreOfCursors == Ranges \subseteq (Seqs \cup {None}) \X (Seqs \cup {None})
ASSUME EstimatesAreSeqs == Estimates \subseteq Seqs
ASSUME SavedViewsAreViews ==
    SavedViews \subseteq [filter : Filters, limit : Limits, live : BOOLEAN,
                        start : Seqs \cup {None}, end : Seqs \cup {None}]

VARIABLES
    stored,    \* the sequences the stream holds
    last,      \* state.last_seq
    filter,    \* filterSubject, headerKey, payloadContains ...
    limit,
    live,      \* liveMode
    latest,    \* latestMode
    seqStart,
    seqEnd,
    history,   \* cursorHistory
    data,      \* messagesData: the answer shown, or None
    pc,        \* of the request for the view: none, before its info, scanning
    scan,      \* the variables of getMessages
    trail      \* ghost: the pages Next left since the walk began, for the end of history

stream  == <<stored, last>>
mode    == <<filter, limit, live, latest>>
range   == <<seqStart, seqEnd>>
request == <<pc, scan>>
walk    == <<history, trail>>

vars == <<stream, mode, range, request, data, walk>>

Cursors == Seqs \cup {None}

FromLatest == live \/ latest

\* The query key: what an answer is the answer to.
View == [filter |-> filter, limit |-> limit, start |-> seqStart, end |-> seqEnd,
         back |-> FromLatest]

Views == [filter : Filters, limit : Limits, start : Cursors, end : Cursors, back : BOOLEAN]

\* view and lost, the sequences whose fetch was rejected, are ghosts, and so is
\* lastSeq in the answer for an empty stream.
Pages == [view : Views, messages : SUBSET Seqs, lost : SUBSET Seqs,
          next : Cursors, start : Nat, end : Nat, lastSeq : Nat]

Scans == [start : Nat, end : Nat, lastSeq : Nat, cursor : Nat, scanned : Nat,
          messages : SUBSET Seqs, lost : SUBSET Seqs]

NoScan == [start |-> 0, end |-> 0, lastSeq |-> 0, cursor |-> 0, scanned |-> 0,
           messages |-> {}, lost |-> {}]

\* messagesData is placeholder data: the page of another view.
Placeholder == data # None /\ data.view # View

TypeOK ==
    /\ last \in 0 .. MaxSeq /\ stored \subseteq 1 .. last
    /\ filter \in Filters /\ limit \in Limits /\ live \in BOOLEAN /\ latest \in BOOLEAN
    /\ seqStart \in Cursors /\ seqEnd \in Cursors
    /\ history \in Seq(Cursors)
    /\ data \in Pages \cup {None}
    /\ pc \in {"idle", "info", "scan"}
    /\ scan \in Scans
    /\ trail \in Seq(Pages)

\* The browser opens a stream, some of whose messages were removed before.
Init ==
    /\ last \in 0 .. MaxSeq
    /\ stored \in SUBSET (1 .. last) /\ (1 .. last) \ stored \subseteq Removable
    /\ filter \in Filters /\ limit \in Limits
    /\ live = FALSE /\ latest = FALSE
    /\ seqStart = None /\ seqEnd = None
    /\ data = None
    /\ pc = "info" /\ scan = NoScan
    /\ history = <<>> /\ trail = <<>>

-----------------------------------------------------------------------------
(* The stream, external.                                                   *)

\* state.first_seq of a stream that is not empty.
IsFirstSeq(s) == s \in stored /\ \A t \in stored : s <= t

\* A message is appended.
Store ==
    /\ last < MaxSeq
    /\ last' = last + 1
    /\ stored' = stored \cup {last + 1}
    /\ UNCHANGED <<mode, range, request, data, walk>>

\* A message is deleted, purged or expires.
Remove(s) ==
    /\ s \in stored \cap Removable
    /\ stored' = stored \ {s}
    /\ UNCHANGED <<last, mode, range, request, data, walk>>

-----------------------------------------------------------------------------
(* getMessages.                                                            *)

\* The answer arrives and is shown.
Show(next, s) ==
    /\ data' = [view |-> View, messages |-> s.messages, lost |-> s.lost, next |-> next,
                start |-> s.start, end |-> s.end, lastSeq |-> s.lastSeq]
    /\ pc' = "idle"
    /\ scan' = NoScan

\* streams.info finds no message: the request is answered.
InfoEmpty ==
    /\ pc = "info"
    /\ stored = {}
    /\ Show(None, [NoScan EXCEPT !.start = 1, !.lastSeq = last])
    /\ UNCHANGED <<stream, mode, range, walk>>

\* streams.info: the range is clipped to what the stream holds now.
Info(first) ==
    /\ pc = "info"
    /\ IsFirstSeq(first)
    /\ LET start == IF seqStart # None /\ seqStart > first THEN seqStart ELSE first
           end   == IF seqEnd # None /\ seqEnd < last THEN seqEnd ELSE last
       IN scan' = [NoScan EXCEPT !.start = start, !.end = end, !.lastSeq = last,
                                 !.cursor = IF FromLatest THEN end ELSE start]
    /\ pc' = "scan"
    /\ UNCHANGED <<stream, mode, range, data, walk>>

InRange(s) == scan.start <= s /\ s <= scan.end

\* The condition of the loop.
More ==
    /\ InRange(scan.cursor)
    /\ Cardinality(scan.messages) < limit
    /\ scan.scanned < ScanLimit[limit]

\* One iteration; found and lost are what it adds to the page and to the losses.
Iterate(found, lost) ==
    /\ pc = "scan" /\ More
    /\ scan' = [scan EXCEPT !.messages = @ \cup found, !.lost = @ \cup lost,
                            !.scanned = @ + 1,
                            !.cursor = IF FromLatest THEN @ - 1 ELSE @ + 1]
    /\ UNCHANGED <<stream, mode, range, data, pc, walk>>

\* fetchAndFilterMessage: the message at the cursor, if there is one that passes.
FetchAndFilter == Iterate({scan.cursor} \cap stored \cap Matching[filter], {})

\* streams.getMessage rejects: the sequence is passed over.
FetchRejected == scan.cursor \in Rejectable /\ Iterate({}, {scan.cursor})

\* Mutant: next_seq is the cursor, also behind the end of the range.
AnswerOpen ==
    /\ pc = "scan" /\ ~More
    /\ Show(scan.cursor, scan)
    /\ UNCHANGED <<stream, mode, range, walk>>

\* Mutant: next_seq is the last sequence that was visited.
AnswerRepeats ==
    /\ pc = "scan" /\ ~More
    /\ LET visited == IF FromLatest THEN scan.cursor + 1 ELSE scan.cursor - 1
       IN Show(IF InRange(scan.cursor) THEN visited ELSE None, scan)
    /\ UNCHANGED <<stream, mode, range, walk>>

\* Mutant: next_seq is beyond the cursor.
AnswerSkips ==
    /\ pc = "scan" /\ ~More
    /\ LET beyond == IF FromLatest THEN scan.cursor - 1 ELSE scan.cursor + 1
       IN Show(IF InRange(beyond) THEN beyond ELSE None, scan)
    /\ UNCHANGED <<stream, mode, range, walk>>

\* The loop is over: next_seq is the cursor if it is still within the range.
Answer ==
    /\ pc = "scan" /\ ~More
    /\ Show(IF InRange(scan.cursor) THEN scan.cursor ELSE None, scan)
    /\ UNCHANGED <<stream, mode, range, walk>>

\* The connection is gone or streams.info rejects: the view has no data, unless an
\* earlier answer to it is shown.
RequestFails ==
    /\ pc # "idle"
    /\ pc' = "idle" /\ scan' = NoScan
    /\ data' = IF Placeholder THEN None ELSE data
    /\ UNCHANGED <<stream, mode, range, walk>>

-----------------------------------------------------------------------------
(* The message browser.                                                    *)

Restart == pc' = "info" /\ scan' = NoScan

\* useMessages: a new query key starts a request; that of the old key is left.
Query == IF View' = View THEN UNCHANGED request ELSE Restart

\* The refresh button, the key r, the live interval, a refetch after a publish.
Refetch ==
    /\ pc # "info"
    /\ Restart
    /\ UNCHANGED <<stream, mode, range, data, walk>>

\* setCursorHistory([])
ForgetHistory == history' = <<>> /\ trail' = <<>>

\* resetMessageCursor
ResetMessageCursor == seqStart' = None /\ seqEnd' = None /\ ForgetHistory

\* A filter is changed, or all are cleared.
ChangeFilter(f) ==
    /\ f # filter
    /\ filter' = f
    /\ ResetMessageCursor
    /\ UNCHANGED <<stream, limit, live, latest, data>>
    /\ Query

\* clearMessageFilter: one filter is cleared; the cursor and its history stay.
ClearMessageFilter(f) ==
    /\ f # filter
    /\ filter' = f
    /\ trail' = <<>>
    /\ UNCHANGED <<stream, limit, live, latest, range, data, history>>
    /\ Query

\* Go to a sequence, or to a range of sequences.
GoTo(start, end) ==
    /\ live' = FALSE /\ latest' = FALSE
    /\ seqStart' = start /\ seqEnd' = end
    /\ ForgetHistory
    /\ UNCHANGED <<stream, filter, limit, data>>
    /\ Query

\* applySavedView, and the parameters of the address the page is opened with.
ApplySavedView(q) ==
    /\ filter' = q.filter /\ limit' = q.limit /\ live' = q.live
    /\ seqStart' = q.start /\ seqEnd' = q.end
    /\ ForgetHistory
    /\ UNCHANGED <<stream, latest, data>>
    /\ Query

\* The live switch, or the key l: the cursor and its history stay.
ToggleLive ==
    /\ live' = ~live
    /\ UNCHANGED <<stream, filter, limit, latest, range, data, history>>
    /\ trail' = IF FromLatest' = FromLatest THEN trail ELSE <<>>
    /\ Query

\* handleLatestMessages
HandleLatestMessages ==
    /\ latest' = ~latest
    /\ live' = FALSE
    /\ ResetMessageCursor
    /\ UNCHANGED <<stream, filter, limit, data>>
    /\ IF live /\ ~latest /\ seqStart = None /\ seqEnd = None THEN Restart ELSE Query

\* The state the Next and Previous buttons move.
Cursor == IF FromLatest THEN seqEnd ELSE seqStart

SetCursor(c) ==
    IF FromLatest THEN seqEnd' = c /\ UNCHANGED seqStart
                  ELSE seqStart' = c /\ UNCHANGED seqEnd

\* handleNextPage
HandleNextPage ==
    /\ data # None /\ data.next # None
    /\ Len(history) < MaxPages
    /\ history' = Append(history, Cursor)
    /\ SetCursor(data.next)
    /\ trail' = IF Placeholder THEN <<>> ELSE Append(trail, data)
    /\ UNCHANGED <<stream, mode, data>>
    /\ Query

Front(seq) == SubSeq(seq, 1, Len(seq) - 1)

\* Mutant: Previous goes to the cursor of the first page of the walk.
HandlePreviousFirst ==
    /\ data # None /\ history # <<>>
    /\ SetCursor(history[1])
    /\ history' = Front(history)
    /\ trail' = IF trail = <<>> THEN <<>> ELSE Front(trail)
    /\ UNCHANGED <<stream, mode, data>>
    /\ Query

\* handlePreviousPage
HandlePreviousPage ==
    /\ data # None /\ history # <<>>
    /\ SetCursor(history[Len(history)])
    /\ history' = Front(history)
    /\ trail' = IF trail = <<>> THEN <<>> ELSE Front(trail)
    /\ UNCHANGED <<stream, mode, data>>
    /\ Query

\* handleFirstPage, which handleGoToPage calls for page 1; clearing the filter of
\* sequences does the same.
HandleFirstPage ==
    /\ ResetMessageCursor
    /\ UNCHANGED <<stream, mode, data>>
    /\ Query

\* handleGoToPage for a later page, when the answer has a first_seq and a last_seq: the
\* cursor and those of the pages before are estimated.
HandleGoToPage(page) ==
    /\ data # None /\ data.end # 0
    /\ \E estimate \in [2 .. page -> Estimates] :
          /\ \A i \in 2 .. page : estimate[i] <= data.lastSeq
          /\ history' = [i \in 1 .. page - 1 |-> IF i = 1 THEN None ELSE estimate[i]]
          /\ IF latest THEN seqStart' = None /\ seqEnd' = estimate[page]
                       ELSE seqStart' = estimate[page] /\ seqEnd' = None
    /\ trail' = <<>>
    /\ UNCHANGED <<stream, mode, data>>
    /\ Query

\* The page size of the pager: handleLimitChange, then a change to page 1, which with
\* one page behind is handlePreviousPage, of the history it was rendered with.
HandleLimitChange(n) ==
    /\ data # None /\ n # limit
    /\ limit' = n
    /\ ForgetHistory
    /\ LET back == IF Len(history) = 1 THEN history[1] ELSE None
       IN IF FromLatest THEN seqStart' = None /\ seqEnd' = back
                        ELSE seqStart' = back /\ seqEnd' = None
    /\ UNCHANGED <<stream, filter, live, latest, data>>
    /\ Query

-----------------------------------------------------------------------------
Next ==
    \/ Store
    \/ \E s \in Seqs : Remove(s) \/ Info(s)
    \/ InfoEmpty \/ FetchAndFilter \/ FetchRejected \/ Answer \/ RequestFails
    \/ Refetch \/ ToggleLive \/ HandleLatestMessages
    \/ HandleNextPage \/ HandlePreviousPage \/ HandleFirstPage
    \/ \E page \in 2 .. MaxPages + 1 : HandleGoToPage(page)
    \/ \E n \in Limits : HandleLimitChange(n)
    \/ \E f \in Filters : ChangeFilter(f) \/ ClearMessageFilter(f)
    \/ \E r \in Ranges : GoTo(r[1], r[2])
    \/ \E q \in SavedViews : ApplySavedView(q)

Spec == Init /\ [][Next]_vars

-----------------------------------------------------------------------------
(* Safety.  A walk is what Next and Previous do from a page on: it begins  *)
(* anew when the filter, the limit or the direction changes, when a page   *)
(* is jumped to, and when Next is clicked on a page of another view.       *)

\* The cursor of page i of the trail, and the one that follows it.
Left(i) == history[Len(history) - Len(trail) + i]
After(i) == IF i = Len(trail) THEN Cursor ELSE Left(i + 1)

\* Along a walk every cursor lies beyond the one before, so Next always gets on and no
\* page is there twice, also when the filters let nothing through or the stream changes.
CursorsAdvance ==
    /\ Len(trail) <= Len(history)
    /\ \A i \in 1 .. Len(trail) :
          /\ After(i) # None
          /\ Left(i) # None => IF FromLatest THEN After(i) < Left(i) ELSE After(i) > Left(i)

\* Previous goes back to the view of the page that Next left, whatever was clicked, answered
\* or appended since and however far the walk went on.
PreviousReturns ==
    [][HandlePreviousPage /\ trail # <<>> => View' = trail[Len(trail)].view]_vars

\* The pages from the first one to the one shown, when that is the view's own.
Path == Append(trail, data)
PageIsShown == data # None /\ ~Placeholder

\* The sequences the pages from first to page went over.
Covered(first, page) ==
    IF page.view.back
    THEN {s \in Seqs : s <= first.end
                       /\ IF page.next = None THEN page.start <= s ELSE page.next < s}
    ELSE {s \in Seqs : first.start <= s
                       /\ IF page.next = None THEN s <= page.end ELSE s < page.next}

\* Walking on with Next passes over no message that is still stored and passes the
\* filter, whatever was appended and removed between the pages and within their
\* scans, unless its fetch was rejected.
NothingSkipped ==
    PageIsShown =>
        \A s \in stored \cap Matching[filter] \cap Covered(Path[1], data) :
            \E i \in 1 .. Len(Path) : s \in Path[i].messages \cup Path[i].lost

\* Walking on with Next shows no message twice.
ShownOnce ==
    PageIsShown => \A i \in 1 .. Len(trail) : trail[i].messages \cap data.messages = {}
=============================================================================
