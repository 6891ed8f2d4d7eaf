------------------------- MODULE MessagePagingProofs -------------------------
(***************************************************************************)
(* Walking through a stream with Next and Previous passes over nothing and *)
(* shows nothing twice, for every stream, filter, limit and history.       *)
(*                                                                         *)
(* The invariant says of the scan, of the page shown and of the pages in   *)
(* the trail what they know of the stream (ScanOK, PageOK), links the      *)
(* pages of the trail by their cursors (TrailOK), and states both results  *)
(* for every prefix of the trail (TrailCovers, Apart), which is what       *)
(* remains when Previous shortens it.                                      *)
(***************************************************************************)
EXTENDS MessagePaging, FiniteSetTheorems, TLAPS

-----------------------------------------------------------------------------
(* The inductive invariant.                                                *)

\* The sequences a page went over.
Span(p) == Covered(p, p)

\* What a page says of a stream that holds st, up to the last sequence ls.
Sound(p, st, ls) ==
    /\ p.end <= p.lastSeq /\ p.lastSeq <= ls
    /\ p.next # None => p.next <= p.lastSeq
    /\ p.messages \cup p.lost \subseteq Span(p)
    /\ st \cap Matching[p.view.filter] \cap Span(p) \subseteq p.messages \cup p.lost
    /\ p.view.back /\ p.view.end # None =>
          /\ p.next # None => p.next < p.view.end
          /\ \A s \in p.messages : s <= p.view.end
          /\ p.view.end <= p.lastSeq => \A s \in st : s <= p.view.end => s <= p.end
    /\ ~p.view.back =>
          p.start <= ls + 1 \/ (p.view.start # None /\ p.start = p.view.start)
    /\ ~p.view.back /\ p.view.start # None =>
          /\ p.next # None => p.next > p.view.start
          /\ \A s \in p.messages : s >= p.view.start
          /\ \A s \in st : s >= p.view.start => s >= p.start

\* What an answer says of the stream, and goes on saying while it changes.
PageOK(p) == Sound(p, stored, last)

\* The sequences the scan went over.
Scanned == IF FromLatest THEN {s \in Seqs : scan.cursor < s /\ s <= scan.end}
                         ELSE {s \in Seqs : scan.start <= s /\ s < scan.cursor}

ScanOK ==
    pc = "scan" =>
        /\ scan.start \in Seqs /\ scan.end \in Seqs
        /\ scan.end <= scan.lastSeq /\ scan.lastSeq <= last
        /\ IF FromLatest THEN scan.cursor + scan.scanned = scan.end
                         ELSE scan.cursor = scan.start + scan.scanned
        /\ scan.scanned = 0 => scan.messages = {}
        /\ scan.scanned > 0 => scan.cursor <= scan.end + 1
        /\ scan.messages \cup scan.lost \subseteq {s \in Scanned : InRange(s)}
        /\ stored \cap Matching[filter] \cap Scanned \subseteq scan.messages \cup scan.lost
        /\ scan.start <= last \/ scan.start = seqStart
        /\ seqStart # None =>
              /\ seqStart <= scan.start
              /\ \A s \in stored : s >= seqStart => s >= scan.start
        /\ seqEnd # None =>
              /\ scan.end <= seqEnd
              /\ seqEnd <= scan.lastSeq => scan.end = seqEnd

DataOK == data # None => PageOK(data)

\* Page i of the trail is the answer to the view Previous goes back to from After(i).
Linked(i) ==
    /\ PageOK(trail[i])
    /\ trail[i].view.filter = filter /\ trail[i].view.back = FromLatest
    /\ trail[i].view.limit = limit
    /\ IF FromLatest THEN trail[i].view.end = Left(i) /\ trail[i].view.start = seqStart
                     ELSE trail[i].view.start = Left(i) /\ trail[i].view.end = seqEnd
    /\ trail[i].next # None /\ trail[i].next = After(i)

\* The answer shown and the one to come are later than page i of the trail.
Earlier(i) ==
    /\ data # None => trail[i].lastSeq <= data.lastSeq
    /\ pc = "scan" => trail[i].lastSeq <= scan.lastSeq

TrailOK ==
    /\ Len(trail) <= Len(history)
    /\ \A i \in 1 .. Len(trail) : Linked(i) /\ Earlier(i)

TrailCovers ==
    \A k \in 1 .. Len(trail) :
        \A s \in stored \cap Matching[filter] \cap Covered(trail[1], trail[k]) :
            \E i \in 1 .. k : s \in trail[i].messages \cup trail[i].lost

Apart ==
    \A i, j \in 1 .. Len(trail) :
        i <= j => \A s \in trail[i].messages :
                      IF FromLatest THEN s > After(j) ELSE s < After(j)

WalkOK == TrailOK /\ TrailCovers /\ Apart

IInv == TypeOK /\ ScanOK /\ DataOK /\ WalkOK

\* The steps of the stream, and of the request but its answer.
StreamStep == Store \/ \E s \in Seqs : Remove(s)
Iterating == FetchAndFilter \/ FetchRejected
Answering == InfoEmpty \/ Answer

\* The steps that begin a walk anew.
Jumping ==
    \/ HandleLatestMessages \/ HandleFirstPage
    \/ \E page \in 2 .. MaxPages + 1 : HandleGoToPage(page)
    \/ \E n \in Limits : HandleLimitChange(n)
    \/ \E f \in Filters : ChangeFilter(f) \/ ClearMessageFilter(f)
    \/ \E r \in Ranges : GoTo(r[1], r[2])
    \/ \E q \in SavedViews : ApplySavedView(q)

\* The steps that leave a view for another one, or start its request again.
Turning ==
    \/ Refetch \/ ToggleLive \/ HandleNextPage \/ HandlePreviousPage
    \/ Jumping


LEMMA NextCases ==
    ASSUME Next
    PROVE  \/ StreamStep \/ Iterating \/ Answering \/ Turning \/ RequestFails
           \/ \E s \in Seqs : Info(s)
BY DEF Next, StreamStep, Iterating, Answering, Turning, Jumping

\* What the steps of the browser leave alone.
LEMMA TurnKeeps ==
    ASSUME Turning
    PROVE  /\ UNCHANGED <<stored, last, data>>
           /\ Restart \/ Query
<1>1. ASSUME Jumping PROVE UNCHANGED <<stored, last, data>> /\ (Restart \/ Query)
  BY <1>1 DEF Jumping, HandleLatestMessages, HandleFirstPage, HandleGoToPage,
              HandleLimitChange, ChangeFilter, ClearMessageFilter, GoTo, ApplySavedView, stream
<1> QED BY <1>1 DEF Turning, Refetch, ToggleLive, HandleNextPage, HandlePreviousPage, stream

LEMMA JumpForgets ==
    ASSUME Jumping
    PROVE  trail' = <<>>
BY DEF Jumping, HandleLatestMessages, HandleFirstPage, HandleGoToPage, HandleLimitChange,
       ChangeFilter, ClearMessageFilter, GoTo, ApplySavedView, ResetMessageCursor,
       ForgetHistory

-----------------------------------------------------------------------------
(* Types.                                                                  *)

LEMMA InitTypes == Init => TypeOK
<1> SUFFICES ASSUME Init PROVE TypeOK
  OBVIOUS
<1>1. NoScan \in Scans
  BY DEF NoScan, Scans
<1>2. history \in Seq(Cursors) /\ trail \in Seq(Pages)
  BY DEF Init
<1> QED BY <1>1, <1>2, BoundsAreNat DEF Init, TypeOK, Cursors

LEMMA StreamTypes ==
    ASSUME TypeOK, StreamStep
    PROVE  TypeOK'
<1>1. CASE Store
  <2>1. last' \in 0 .. MaxSeq /\ stored' \subseteq 1 .. last'
    BY <1>1, BoundsAreNat DEF Store, TypeOK
  <2> QED BY <1>1, <2>1 DEF Store, TypeOK, mode, range, request, walk
<1>2. ASSUME NEW s \in Seqs, Remove(s) PROVE TypeOK'
  BY <1>2 DEF Remove, TypeOK, mode, range, request, walk
<1> QED BY <1>1, <1>2 DEF StreamStep

\* A cursor within the range of the scan is a sequence.
LEMMA CursorType ==
    ASSUME TypeOK, ScanOK, pc = "scan", InRange(scan.cursor)
    PROVE  scan.cursor \in Seqs
BY BoundsAreNat DEF TypeOK, ScanOK, Scans, InRange, Seqs

LEMMA InfoTypes ==
    ASSUME TypeOK, NEW first \in Seqs, Info(first)
    PROVE  TypeOK'
<1> DEFINE start == IF seqStart # None /\ seqStart > first THEN seqStart ELSE first
           end == IF seqEnd # None /\ seqEnd < last THEN seqEnd ELSE last
<1>1. start \in Nat /\ end \in Nat /\ last \in Nat
  BY BoundsAreNat DEF TypeOK, Cursors, Seqs
<1>2. scan' = [NoScan EXCEPT !.start = start, !.end = end, !.lastSeq = last,
                             !.cursor = IF FromLatest THEN end ELSE start]
  BY DEF Info
<1> HIDE DEF start, end
<1>3. scan' \in Scans
  BY <1>1, <1>2 DEF NoScan, Scans
<1> QED BY <1>3 DEF Info, TypeOK, stream, mode, range, walk

LEMMA IterateTypes ==
    ASSUME TypeOK, ScanOK, Iterating
    PROVE  TypeOK'
<1>1. pc = "scan" /\ InRange(scan.cursor)
  BY DEF Iterating, FetchAndFilter, FetchRejected, Iterate, More
<1>2. scan.cursor \in Seqs
  BY <1>1, CursorType
<1>3. PICK found, lost \in SUBSET Seqs : Iterate(found, lost)
  BY <1>2 DEF Iterating, FetchAndFilter, FetchRejected
<1>4. scan.cursor - 1 \in Nat /\ scan.cursor + 1 \in Nat
  BY <1>2, BoundsAreNat DEF Seqs
<1> DEFINE cursor == IF FromLatest THEN scan.cursor - 1 ELSE scan.cursor + 1
<1>5. scan' = [scan EXCEPT !.messages = @ \cup found, !.lost = @ \cup lost,
                           !.scanned = @ + 1, !.cursor = cursor]
  BY <1>3 DEF Iterate
<1>6. cursor \in Nat
  BY <1>4
<1> HIDE DEF cursor
<1>7. scan \in Scans /\ scan.scanned + 1 \in Nat
  BY DEF TypeOK, Scans
<1>8. scan' \in Scans
  BY <1>5, <1>6, <1>7, Zenon DEF Scans
<1> QED BY <1>3, <1>8 DEF Iterate, TypeOK, stream, mode, range, walk

LEMMA ViewType ==
    ASSUME TypeOK
    PROVE  View \in Views
BY DEF TypeOK, View, Views, FromLatest

LEMMA ShowType ==
    ASSUME TypeOK, NEW next \in Cursors, NEW s \in Scans, Show(next, s)
    PROVE  data' \in Pages /\ pc' = "idle" /\ scan' \in Scans
<1>1. scan' \in Scans
  BY DEF Show, NoScan, Scans
<1>2. data' \in Pages
  BY ViewType DEF Show, Scans, Pages
<1> QED BY <1>1, <1>2 DEF Show

LEMMA AnswerType ==
    ASSUME TypeOK, ScanOK, Answering
    PROVE  data' \in Pages /\ pc' = "idle" /\ scan' \in Scans
<1>1. CASE InfoEmpty
  <2>1. last \in Nat
    BY BoundsAreNat DEF TypeOK
  <2>2. [NoScan EXCEPT !.start = 1, !.lastSeq = last] \in Scans
    BY <2>1, Zenon DEF NoScan, Scans
  <2> QED BY <1>1, <2>2, ShowType DEF InfoEmpty, Cursors
<1>2. CASE Answer
  BY <1>2, CursorType, ShowType DEF Answer, TypeOK, Cursors
<1> QED BY <1>1, <1>2 DEF Answering

LEMMA AnswerTypes ==
    ASSUME TypeOK, ScanOK, Answering
    PROVE  TypeOK'
<1>1. data' \in Pages /\ pc' = "idle" /\ scan' \in Scans
  BY AnswerType
<1> QED BY <1>1 DEF Answering, InfoEmpty, Answer, TypeOK, stream, mode, range, walk

LEMMA FailTypes ==
    ASSUME TypeOK, RequestFails
    PROVE  TypeOK'
<1>1. NoScan \in Scans
  BY DEF NoScan, Scans
<1> QED BY <1>1 DEF RequestFails, TypeOK, stream, mode, range, walk

LEMMA QueryTypes ==
    ASSUME TypeOK, Query \/ Restart
    PROVE  pc' \in {"idle", "info", "scan"} /\ scan' \in Scans
<1>1. NoScan \in Scans
  BY DEF NoScan, Scans
<1> QED BY <1>1 DEF Query, Restart, TypeOK, request

LEMMA FrontType ==
    ASSUME NEW S, NEW seq \in Seq(S), seq # <<>>
    PROVE  /\ Front(seq) \in Seq(S) /\ Len(Front(seq)) = Len(seq) - 1
           /\ Len(seq) \in Nat \ {0} /\ seq[Len(seq)] \in S
           /\ \A i \in 1 .. Len(seq) - 1 : Front(seq)[i] = seq[i]
<1>1. Len(seq) \in Nat /\ Len(seq) # 0
  OBVIOUS
<1>2. Len(seq) \in 1 .. Len(seq) /\ seq[Len(seq)] \in S
  BY <1>1
<1>3. \A i \in 1 .. Len(seq) - 1 : i \in 1 .. Len(seq)
  BY <1>1
<1>4. Front(seq) = [i \in 1 .. Len(seq) - 1 |-> seq[i]]
  BY <1>1 DEF Front
<1>5. Front(seq) \in Seq(S) /\ Len(Front(seq)) = Len(seq) - 1
  BY <1>1, <1>3, <1>4
<1> QED BY <1>1, <1>2, <1>4, <1>5

LEMMA GoToPageTypes ==
    ASSUME TypeOK, NEW page \in 2 .. MaxPages + 1, HandleGoToPage(page)
    PROVE  TypeOK'
<1>1. PICK estimate \in [2 .. page -> Estimates] :
          /\ history' = [i \in 1 .. page - 1 |-> IF i = 1 THEN None ELSE estimate[i]]
          /\ IF latest THEN seqStart' = None /\ seqEnd' = estimate[page]
                       ELSE seqStart' = estimate[page] /\ seqEnd' = None
  BY DEF HandleGoToPage
<1>2. page \in Nat /\ page - 1 \in Nat /\ page \in 2 .. page
  BY BoundsAreNat
<1>3. \A i \in 2 .. page : estimate[i] \in Cursors
  BY EstimatesAreSeqs DEF Cursors
<1>4. \A i \in 1 .. page - 1 : i # 1 => i \in 2 .. page
  BY <1>2
<1>5. None \in Cursors
  BY DEF Cursors
<1>6. \A i \in 1 .. page - 1 : (IF i = 1 THEN None ELSE estimate[i]) \in Cursors
  BY <1>3, <1>4, <1>5
<1>7. history' \in [1 .. page - 1 -> Cursors]
  BY <1>1, <1>6
<1>8. history' \in Seq(Cursors)
  BY <1>2, <1>7
<1>9. seqStart' \in Cursors /\ seqEnd' \in Cursors
  BY <1>1, <1>2, <1>3, <1>5
<1>10. trail' = <<>> /\ trail' \in Seq(Pages)
  BY DEF HandleGoToPage
<1> QED BY <1>8, <1>9, <1>10, QueryTypes DEF HandleGoToPage, TypeOK, stream, mode

LEMMA JumpTypes ==
    ASSUME TypeOK, Jumping
    PROVE  TypeOK'
<1>0. /\ <<>> \in Seq(Cursors) /\ <<>> \in Seq(Pages)
      /\ None \in Cursors
  BY DEF Cursors
<1>1. CASE HandleLatestMessages
  <2>1. latest' \in BOOLEAN
    BY <1>1 DEF HandleLatestMessages, TypeOK
  <2>2. Query \/ Restart
    BY <1>1 DEF HandleLatestMessages
  <2> QED BY <1>0, <1>1, <2>1, <2>2, QueryTypes
          DEF HandleLatestMessages, ResetMessageCursor, ForgetHistory, TypeOK, stream
<1>2. CASE HandleFirstPage
  BY <1>0, <1>2, QueryTypes
     DEF HandleFirstPage, ResetMessageCursor, ForgetHistory, TypeOK, stream, mode
<1>3. ASSUME NEW n \in Limits, HandleLimitChange(n) PROVE TypeOK'
  <2>1. Len(history) = 1 => history[1] \in Cursors
    <3>1. \A i \in 1 .. Len(history) : history[i] \in Cursors
      BY DEF TypeOK
    <3> QED BY <3>1
  <2>2. seqStart' \in Cursors /\ seqEnd' \in Cursors
    BY <1>0, <1>3, <2>1 DEF HandleLimitChange
  <2> QED BY <1>0, <1>3, <2>2, QueryTypes DEF HandleLimitChange, ForgetHistory, TypeOK, stream
<1>4. ASSUME NEW f \in Filters, ChangeFilter(f) PROVE TypeOK'
  BY <1>0, <1>4, QueryTypes
     DEF ChangeFilter, ResetMessageCursor, ForgetHistory, TypeOK, stream
<1>5. ASSUME NEW f \in Filters, ClearMessageFilter(f) PROVE TypeOK'
  BY <1>0, <1>5, QueryTypes DEF ClearMessageFilter, TypeOK, stream, range
<1>6. ASSUME NEW r \in Ranges, GoTo(r[1], r[2]) PROVE TypeOK'
  <2>1. r[1] \in Cursors /\ r[2] \in Cursors
    BY RangesAreOfCursors DEF Cursors
  <2> QED BY <1>0, <1>6, <2>1, QueryTypes DEF GoTo, ForgetHistory, TypeOK, stream
<1>7. ASSUME NEW q \in SavedViews, ApplySavedView(q) PROVE TypeOK'
  <2>1. /\ q.filter \in Filters /\ q.limit \in Limits /\ q.live \in BOOLEAN
        /\ q.start \in Cursors /\ q.end \in Cursors
    BY SavedViewsAreViews DEF Cursors
  <2> QED BY <1>0, <1>7, <2>1, QueryTypes DEF ApplySavedView, ForgetHistory, TypeOK, stream
<1> QED BY <1>1, <1>2, <1>3, <1>4, <1>5, <1>6, <1>7, GoToPageTypes DEF Jumping

LEMMA TurnTypes ==
    ASSUME TypeOK, Turning
    PROVE  TypeOK'
<1>0. <<>> \in Seq(Pages)
  OBVIOUS
<1>1. CASE Refetch
  BY <1>1, QueryTypes DEF Refetch, TypeOK, stream, mode, range, walk
<1>2. CASE ToggleLive
  <2>1. live' \in BOOLEAN /\ trail' \in Seq(Pages)
    BY <1>0, <1>2 DEF ToggleLive, TypeOK
  <2> QED BY <1>2, <2>1, QueryTypes DEF ToggleLive, TypeOK, stream, range
<1>3. CASE HandleNextPage
  <2>1. data \in Pages /\ data.next \in Cursors /\ Cursor \in Cursors
    BY <1>3 DEF HandleNextPage, TypeOK, Pages, Cursor
  <2>2. history' \in Seq(Cursors) /\ trail' \in Seq(Pages)
    BY <1>0, <1>3, <2>1 DEF HandleNextPage, TypeOK
  <2>3. seqStart' \in Cursors /\ seqEnd' \in Cursors
    BY <1>3, <2>1 DEF HandleNextPage, SetCursor, TypeOK
  <2> QED BY <1>3, <2>2, <2>3, QueryTypes DEF HandleNextPage, TypeOK, stream, mode
<1>4. CASE HandlePreviousPage
  <2>1. history[Len(history)] \in Cursors /\ history' \in Seq(Cursors)
    BY <1>4, FrontType DEF HandlePreviousPage, TypeOK
  <2>2. trail' \in Seq(Pages)
    BY <1>0, <1>4, FrontType DEF HandlePreviousPage, TypeOK
  <2>3. seqStart' \in Cursors /\ seqEnd' \in Cursors
    BY <1>4, <2>1 DEF HandlePreviousPage, SetCursor, TypeOK
  <2> QED BY <1>4, <2>1, <2>2, <2>3, QueryTypes DEF HandlePreviousPage, TypeOK, stream, mode
<1> QED BY <1>1, <1>2, <1>3, <1>4, JumpTypes DEF Turning

LEMMA TypesInductive ==
    ASSUME TypeOK, ScanOK, [Next]_vars
    PROVE  TypeOK'
<1>1. CASE Next
  BY <1>1, NextCases, StreamTypes, InfoTypes, IterateTypes, AnswerTypes, FailTypes, TurnTypes
<1>2. CASE UNCHANGED vars
  BY <1>2 DEF TypeOK, vars, stream, mode, range, request, walk
<1> QED BY <1>1, <1>2

-----------------------------------------------------------------------------
(* The scan.                                                               *)

LEMMA StreamScan ==
    ASSUME TypeOK, ScanOK, StreamStep
    PROVE  ScanOK'
<1> SUFFICES ASSUME pc = "scan" PROVE ScanOK'
  BY DEF StreamStep, Store, Remove, request, ScanOK
<1>1. UNCHANGED <<mode, range, request>>
  BY DEF StreamStep, Store, Remove
<1>2. Scanned' = Scanned /\ FromLatest' = FromLatest /\ \A s : InRange(s)' = InRange(s)
  BY <1>1 DEF Scanned, FromLatest, InRange, mode, request
<1>3. last \in Nat /\ last <= last' /\ last' \in Nat
  BY BoundsAreNat DEF StreamStep, Store, Remove, TypeOK
<1>4. \A s \in stored' : s \in stored \/ s = last + 1
  BY DEF StreamStep, Store, Remove
<1>5. last + 1 \notin Scanned
  BY <1>3, BoundsAreNat DEF ScanOK, Scanned, TypeOK, Scans, Seqs
<1>6. stored' \cap Matching[filter] \cap Scanned \subseteq scan.messages \cup scan.lost
  BY <1>4, <1>5 DEF ScanOK
<1>7. seqStart # None => \A s \in stored' : s >= seqStart => s >= scan.start
  <2>1. ASSUME seqStart # None
        PROVE  /\ seqStart \in Nat /\ scan.start \in Nat
               /\ scan.start <= last \/ scan.start = seqStart
               /\ \A s \in stored : s >= seqStart => s >= scan.start
    BY <2>1, BoundsAreNat DEF ScanOK, TypeOK, Scans, Cursors, Seqs
  <2>2. ASSUME seqStart # None, last + 1 >= seqStart PROVE last + 1 >= scan.start
    BY <1>3, <2>1, <2>2
  <2> QED BY <1>4, <2>1, <2>2
<1>8. scan.start <= last' \/ scan.start = seqStart
  BY <1>3 DEF ScanOK, TypeOK, Scans
<1>9. scan.lastSeq <= last'
  BY <1>3 DEF ScanOK, TypeOK, Scans
<1> QED BY <1>1, <1>2, <1>6, <1>7, <1>8, <1>9 DEF ScanOK, mode, range, request

LEMMA InfoScan ==
    ASSUME TypeOK, NEW first \in Seqs, Info(first)
    PROVE  ScanOK'
<1> DEFINE start == IF seqStart # None /\ seqStart > first THEN seqStart ELSE first
           end == IF seqEnd # None /\ seqEnd < last THEN seqEnd ELSE last
<1>1. scan' = [NoScan EXCEPT !.start = start, !.end = end, !.lastSeq = last,
                             !.cursor = IF FromLatest THEN end ELSE start]
  BY DEF Info
<1>2. /\ first \in Nat /\ first <= last /\ last \in Seqs /\ first \in stored
      /\ \A s \in stored : s \in Seqs /\ first <= s
      /\ seqStart # None => seqStart \in Seqs
      /\ seqEnd # None => seqEnd \in Seqs
  BY BoundsAreNat DEF TypeOK, Info, IsFirstSeq, Cursors, Seqs
<1>3. /\ start \in Seqs /\ end \in Seqs /\ end <= last
      /\ start <= last \/ start = seqStart
      /\ seqStart # None =>
            /\ seqStart <= start
            /\ \A s \in stored : s >= seqStart => s >= start
      /\ seqEnd # None => end <= seqEnd /\ (seqEnd <= last => end = seqEnd)
  BY <1>2, BoundsAreNat DEF Seqs
<1> HIDE DEF start, end
<1>4. /\ scan'.start = start /\ scan'.end = end /\ scan'.lastSeq = last
      /\ scan'.cursor = IF FromLatest THEN end ELSE start
      /\ scan'.scanned = 0 /\ scan'.messages = {} /\ scan'.lost = {}
  BY <1>1 DEF NoScan
<1>5. UNCHANGED <<stream, mode, range>>
  BY DEF Info
<1>6. FromLatest' = FromLatest
  BY <1>5 DEF FromLatest, mode
<1>7. Scanned' = {}
  BY <1>3, <1>4, <1>6, BoundsAreNat DEF Scanned, Seqs
<1>8. last <= last' /\ last = last' /\ stored' = stored
  BY <1>2, <1>5, BoundsAreNat DEF stream, Seqs
<1>9. IF FromLatest THEN end + 0 = end ELSE start = start + 0
  BY <1>3, BoundsAreNat DEF Seqs
<1> QED BY <1>3, <1>4, <1>5, <1>6, <1>7, <1>8, <1>9 DEF ScanOK, range

LEMMA IterateScan ==
    ASSUME TypeOK, ScanOK, Iterating
    PROVE  ScanOK'
<1>1. pc = "scan" /\ InRange(scan.cursor)
  BY DEF Iterating, FetchAndFilter, FetchRejected, Iterate, More
<1>2. scan.cursor \in Seqs /\ scan \in Scans
  BY <1>1, CursorType DEF TypeOK
<1>3. PICK found, lost \in SUBSET {scan.cursor} :
          /\ Iterate(found, lost)
          /\ {scan.cursor} \cap stored \cap Matching[filter] \subseteq found \cup lost
  BY DEF Iterating, FetchAndFilter, FetchRejected
<1>4. /\ scan'.start = scan.start /\ scan'.end = scan.end /\ scan'.lastSeq = scan.lastSeq
      /\ scan'.messages = scan.messages \cup found /\ scan'.lost = scan.lost \cup lost
      /\ scan'.scanned = scan.scanned + 1
      /\ scan'.cursor = IF FromLatest THEN scan.cursor - 1 ELSE scan.cursor + 1
  BY <1>2, <1>3 DEF Iterate, Scans
<1>5. UNCHANGED <<stream, mode, range, pc>>
  BY <1>3 DEF Iterate
<1>6. FromLatest' = FromLatest /\ \A s : InRange(s)' = InRange(s)
  BY <1>4, <1>5 DEF FromLatest, mode, InRange
<1>7. Scanned' = Scanned \cup {scan.cursor}
  BY <1>1, <1>2, <1>4, <1>6, BoundsAreNat DEF Scanned, Scans, Seqs, InRange
<1>8. /\ scan.messages \cup scan.lost \subseteq {s \in Scanned : InRange(s)}
      /\ stored \cap Matching[filter] \cap Scanned \subseteq scan.messages \cup scan.lost
  BY <1>1 DEF ScanOK
<1>9. /\ (scan.messages \cup scan.lost \subseteq {s \in Scanned : InRange(s)})'
      /\ (stored \cap Matching[filter] \cap Scanned \subseteq scan.messages \cup scan.lost)'
  BY <1>1, <1>3, <1>4, <1>5, <1>6, <1>7, <1>8 DEF stream, mode
<1>10. /\ IF FromLatest THEN scan'.cursor + scan'.scanned = scan'.end
                         ELSE scan'.cursor = scan'.start + scan'.scanned
       /\ scan'.scanned # 0 /\ scan'.cursor <= scan'.end + 1
  BY <1>1, <1>2, <1>4, BoundsAreNat DEF ScanOK, Scans, Seqs, InRange
<1> QED BY <1>1, <1>4, <1>5, <1>6, <1>9, <1>10 DEF ScanOK, stream, range

\* A turn leaves the request alone only when its view stays.
LEMMA TurnScan ==
    ASSUME TypeOK, ScanOK, Turning
    PROVE  ScanOK'
<1>1. stored' = stored /\ last' = last
  BY TurnKeeps
<1>2. Restart \/ Query
  BY TurnKeeps
<1>3. CASE Restart
  BY <1>3 DEF Restart, ScanOK
<1>4. CASE View' = View /\ UNCHANGED request
  <2>1. filter' = filter /\ seqStart' = seqStart /\ seqEnd' = seqEnd
        /\ FromLatest' = FromLatest
    BY <1>4 DEF View
  <2>2. Scanned' = Scanned /\ \A s : InRange(s)' = InRange(s)
    BY <1>4, <2>1 DEF Scanned, InRange, request
  <2> QED BY <1>1, <1>4, <2>1, <2>2 DEF ScanOK, request
<1> QED BY <1>2, <1>3, <1>4 DEF Query

LEMMA ScanInductive ==
    ASSUME TypeOK, ScanOK, [Next]_vars
    PROVE  ScanOK'
<1>1. ASSUME NEW s \in Seqs, Info(s) PROVE ScanOK'
  BY <1>1, InfoScan
<1>2. CASE Answering
  BY <1>2 DEF Answering, InfoEmpty, Answer, Show, ScanOK
<1>3. CASE RequestFails
  BY <1>3 DEF RequestFails, ScanOK
<1>4. CASE UNCHANGED vars
  BY <1>4 DEF vars, stream, mode, range, request, ScanOK, Scanned, InRange, FromLatest
<1>5. CASE Next
  BY <1>1, <1>2, <1>3, <1>5, NextCases, StreamScan, IterateScan, TurnScan
<1> QED BY <1>4, <1>5

\* Types: every variable stays well typed, for every stream, limit and filter.
THEOREM TypeCorrect == Spec => []TypeOK
<1>1. Init => TypeOK /\ ScanOK
  BY InitTypes DEF Init, ScanOK
<1>2. TypeOK /\ ScanOK /\ [Next]_vars => (TypeOK /\ ScanOK)'
  BY TypesInductive, ScanInductive
<1> QED BY <1>1, <1>2, PTL DEF Spec

-----------------------------------------------------------------------------
(* Pages.                                                                  *)

LEMMA PageTypes ==
    ASSUME NEW p \in Pages
    PROVE  /\ p.view \in Views /\ p.view.filter \in Filters /\ p.view.back \in BOOLEAN
           /\ p.view.start \in Cursors /\ p.view.end \in Cursors /\ p.next \in Cursors
           /\ p.messages \subseteq Seqs /\ p.lost \subseteq Seqs
           /\ p.start \in Nat /\ p.end \in Nat /\ p.lastSeq \in Nat
BY DEF Pages, Views

(* Appending and removing messages leaves a page sound.                       *)
LEMMA SoundStays ==
    ASSUME NEW p \in Pages, NEW ls \in Nat, NEW st \in SUBSET (1 .. ls), Sound(p, st, ls),
           NEW ls2 \in Nat, NEW st2,
           \/ st2 \subseteq st /\ ls2 = ls
           \/ st2 = st \cup {ls + 1} /\ ls2 = ls + 1
    PROVE  Sound(p, st2, ls2)
<1>1. ls <= ls2 /\ \A s \in st2 : s \in st \/ s = ls + 1
  OBVIOUS
<1>2. \A s \in Span(p) : s <= ls
  BY PageTypes, BoundsAreNat DEF Sound, Span, Covered, Cursors, Seqs
<1>3. st2 \cap Matching[p.view.filter] \cap Span(p) \subseteq p.messages \cup p.lost
  BY <1>1, <1>2 DEF Sound
<1>4. p.lastSeq <= ls2
  BY <1>1, PageTypes DEF Sound
<1>5. ASSUME p.view.back, p.view.end # None, p.view.end <= p.lastSeq
      PROVE  \A s \in st2 : s <= p.view.end => s <= p.end
  <2>1. p.view.end \in Nat /\ p.view.end <= ls
    BY <1>5, PageTypes, BoundsAreNat DEF Sound, Cursors, Seqs
  <2>2. \A s \in st : s <= p.view.end => s <= p.end
    BY <1>5 DEF Sound
  <2>3. ~(ls + 1 <= p.view.end)
    BY <2>1
  <2> QED BY <1>1, <2>2, <2>3
<1>6. ASSUME ~p.view.back, p.view.start # None
      PROVE  \A s \in st2 : s >= p.view.start => s >= p.start
  BY <1>1, <1>6, PageTypes, BoundsAreNat DEF Sound, Cursors, Seqs
<1>7. ~p.view.back => p.start <= ls2 + 1 \/ (p.view.start # None /\ p.start = p.view.start)
  BY <1>1, PageTypes DEF Sound
<1> QED BY <1>3, <1>4, <1>5, <1>6, <1>7 DEF Sound

(* A scan that has a next_seq has visited a sequence.                         *)
LEMMA ScanVisits ==
    ASSUME TypeOK, ScanOK, pc = "scan", ~More, InRange(scan.cursor)
    PROVE  scan.scanned # 0
<1> SUFFICES ASSUME scan.scanned = 0 PROVE FALSE
  OBVIOUS
<1>1. scan.messages = {}
  BY DEF ScanOK
<1>2. Cardinality(scan.messages) = 0
  BY <1>1, FS_EmptySet
<1>3. 0 < limit /\ 0 < ScanLimit[limit]
  BY LimitsArePositive DEF TypeOK
<1> QED BY <1>2, <1>3 DEF More

LEMMA AnswerSound ==
    ASSUME TypeOK, ScanOK, Answering
    PROVE  /\ PageOK(data') /\ data' \in Pages
           /\ data'.view = View
           /\ data'.lastSeq = IF pc = "scan" THEN scan.lastSeq ELSE last
<1>0. data' \in Pages
  BY AnswerType
<1>1. CASE InfoEmpty
  <2>1. /\ data'.view = View /\ data'.messages = {} /\ data'.lost = {}
        /\ data'.next = None /\ data'.start = 1 /\ data'.end = 0 /\ data'.lastSeq = last
    BY <1>1 DEF InfoEmpty, Show, NoScan
  <2>2. stored = {} /\ last \in Nat
    BY <1>1, BoundsAreNat DEF InfoEmpty, TypeOK
  <2>3. PageOK(data')
    BY <2>1, <2>2 DEF PageOK, Sound
  <2> QED BY <1>0, <1>1, <2>1, <2>3 DEF InfoEmpty
<1>2. CASE Answer
  <2> DEFINE next == IF InRange(scan.cursor) THEN scan.cursor ELSE None
  <2>1. /\ data'.view = View /\ data'.messages = scan.messages /\ data'.lost = scan.lost
        /\ data'.next = next /\ data'.start = scan.start /\ data'.end = scan.end
        /\ data'.lastSeq = scan.lastSeq
    BY <1>2 DEF Answer, Show
  <2>2. /\ View.filter = filter /\ View.start = seqStart /\ View.end = seqEnd
        /\ View.back = FromLatest
    BY DEF View
  <2>3. pc = "scan" /\ ~More
    BY <1>2 DEF Answer
  <2>4. /\ scan.start \in Nat /\ scan.end \in Nat /\ scan.cursor \in Nat
        /\ scan.scanned \in Nat /\ scan.lastSeq \in Nat
        /\ scan.messages \subseteq Seqs /\ last \in Nat /\ stored \subseteq Seqs
        /\ (\A s \in Seqs : s \in Nat) /\ seqStart \in Nat \cup {None} /\ seqEnd \in Nat \cup {None}
    BY BoundsAreNat DEF TypeOK, Scans, Cursors, Seqs
  <2>5. InRange(scan.cursor) => scan.scanned # 0
    BY <2>3, ScanVisits
  <2>6. Span(data') \subseteq Scanned /\ {s \in Scanned : InRange(s)} \subseteq Span(data')
    <3>0. /\ next = None => scan.cursor < scan.start \/ scan.end < scan.cursor
          /\ next # None => next = scan.cursor /\ scan.start <= next /\ next <= scan.end
      BY <2>4, NoneIsNoNumber DEF InRange
    <3>1. data'.view.back = FromLatest /\ data'.next = next
          /\ data'.start = scan.start /\ data'.end = scan.end
      BY <2>1, <2>2
    <3> HIDE DEF next
    <3>2. CASE FromLatest
      <4>1. /\ Scanned = {s \in Seqs : scan.cursor < s /\ s <= scan.end}
            /\ scan.cursor + scan.scanned = scan.end
        BY <2>3, <3>2 DEF Scanned, ScanOK
      <4>2. Span(data') = {s \in Seqs : s <= scan.end /\ IF next = None THEN scan.start <= s
                                                                      ELSE next < s}
        BY <3>1, <3>2 DEF Span, Covered
      <4>3. ASSUME NEW s \in Seqs
            PROVE  /\ s \in Span(data') => s \in Scanned
                   /\ s \in Scanned /\ InRange(s) => s \in Span(data')
        BY <2>4, <3>0, <4>1, <4>2 DEF InRange
      <4> QED BY <4>1, <4>2, <4>3
    <3>3. CASE ~FromLatest
      <4>1. /\ Scanned = {s \in Seqs : scan.start <= s /\ s < scan.cursor}
            /\ scan.cursor = scan.start + scan.scanned
        BY <2>3, <3>3 DEF Scanned, ScanOK
      <4>2. Span(data') = {s \in Seqs : scan.start <= s /\ IF next = None THEN s <= scan.end
                                                                        ELSE s < next}
        BY <3>1, <3>3 DEF Span, Covered
      <4>3. ASSUME NEW s \in Seqs
            PROVE  /\ s \in Span(data') => s \in Scanned
                   /\ s \in Scanned /\ InRange(s) => s \in Span(data')
        BY <2>4, <3>0, <4>1, <4>2 DEF InRange
      <4> QED BY <4>1, <4>2, <4>3
    <3> QED BY <3>2, <3>3
  <2>7. /\ scan.messages \cup scan.lost \subseteq Span(data')
        /\ stored \cap Matching[filter] \cap Span(data') \subseteq scan.messages \cup scan.lost
    BY <2>3, <2>6 DEF ScanOK
  <2>8. next # None => /\ next <= scan.lastSeq
                       /\ FromLatest => next < scan.end
                       /\ ~FromLatest => next > scan.start
    BY <2>3, <2>4, <2>5 DEF ScanOK, InRange
  <2>9. \A s \in scan.messages : scan.start <= s /\ s <= scan.end
    BY <2>3 DEF ScanOK, InRange
  <2> HIDE DEF next
  <2>10. ASSUME FromLatest, seqEnd # None
         PROVE  /\ next # None => next < seqEnd
                /\ \A s \in scan.messages : s <= seqEnd
                /\ seqEnd <= scan.lastSeq => \A s \in stored : s <= seqEnd => s <= scan.end
    <3>1. scan.end <= seqEnd /\ seqEnd \in Nat /\ (seqEnd <= scan.lastSeq => scan.end = seqEnd)
      BY <2>3, <2>4, <2>10 DEF ScanOK
    <3>2. next # None => next \in Nat
      BY <2>4 DEF next
    <3> QED BY <2>4, <2>8, <2>9, <2>10, <3>1, <3>2
  <2>11. ASSUME ~FromLatest, seqStart # None
         PROVE  /\ next # None => next > seqStart
                /\ \A s \in scan.messages : s >= seqStart
                /\ \A s \in stored : s >= seqStart => s >= scan.start
    <3>1. seqStart <= scan.start /\ seqStart \in Nat
          /\ \A s \in stored : s >= seqStart => s >= scan.start
      BY <2>3, <2>4, <2>11 DEF ScanOK
    <3>2. next # None => next > seqStart
      BY <2>4, <2>8, <2>11, <3>1 DEF next
    <3>3. \A s \in scan.messages : s \in Nat /\ s >= scan.start
      BY <2>4, <2>9
    <3>4. \A s \in scan.messages : s >= seqStart
      BY <2>4, <3>1, <3>3
    <3> QED BY <3>1, <3>2, <3>4
  <2>12. scan.start <= last + 1 \/ (seqStart # None /\ scan.start = seqStart)
    BY <2>3, <2>4, NoneIsNoNumber DEF ScanOK
  <2>13. scan.end <= scan.lastSeq /\ scan.lastSeq <= last
    BY <2>3 DEF ScanOK
  <2>14. PageOK(data')
    BY <2>1, <2>2, <2>7, <2>8, <2>10, <2>11, <2>12, <2>13 DEF PageOK, Sound
  <2> QED BY <1>0, <2>1, <2>3, <2>14
<1> QED BY <1>1, <1>2 DEF Answering

LEMMA PagesStay ==
    ASSUME TypeOK, [Next]_vars
    PROVE  \A p \in Pages : PageOK(p) => Sound(p, stored', last')
<1> SUFFICES ASSUME NEW p \in Pages, Sound(p, stored, last) PROVE Sound(p, stored', last')
  BY DEF PageOK
<1>1. CASE UNCHANGED stream
  BY <1>1 DEF stream
<1>2. CASE StreamStep
  <2>1. /\ last \in Nat /\ last' \in Nat /\ stored \in SUBSET (1 .. last)
        /\ \/ stored' \subseteq stored /\ last' = last
           \/ stored' = stored \cup {last + 1} /\ last' = last + 1
    BY <1>2, BoundsAreNat DEF TypeOK, StreamStep, Store, Remove
  <2> QED BY <2>1, SoundStays
<1>3. CASE UNCHANGED vars
  BY <1>1, <1>3 DEF vars
<1> QED
  BY <1>1, <1>2, <1>3, NextCases, TurnKeeps
     DEF stream, Iterating, FetchAndFilter, FetchRejected, Iterate, Answering, InfoEmpty, Answer,
         RequestFails, Info

LEMMA DataInductive ==
    ASSUME TypeOK, ScanOK, DataOK, [Next]_vars
    PROVE  DataOK'
<1>1. CASE data' = data
  BY <1>1, PagesStay DEF DataOK, PageOK, TypeOK
<1>2. CASE data' = None
  BY <1>2 DEF DataOK
<1>3. CASE Answering
  <2>1. UNCHANGED stream
    BY <1>3 DEF Answering, InfoEmpty, Answer
  <2> QED BY <1>3, <2>1, AnswerSound DEF DataOK, PageOK, stream
<1>4. CASE UNCHANGED vars
  BY <1>1, <1>4 DEF vars
<1> QED
  BY <1>1, <1>2, <1>3, <1>4, NextCases, TurnKeeps
     DEF StreamStep, Store, Remove, Iterating, FetchAndFilter, FetchRejected, Iterate,
         RequestFails, Info

-----------------------------------------------------------------------------
(* The walk.                                                               *)

\* The sequences that the first k pages went over are not beyond the last one.
LEMMA CoveredBelow ==
    ASSUME NEW first \in Pages, NEW page \in Pages, PageOK(first), PageOK(page), TypeOK
    PROVE  \A s \in Covered(first, page) : s \in Seqs /\ s <= last
<1>1. last \in Nat /\ \A s \in Seqs : s \in Nat
  BY BoundsAreNat DEF TypeOK, Seqs
<1>2. /\ first.end \in Nat /\ first.lastSeq \in Nat /\ page.end \in Nat
      /\ page.lastSeq \in Nat /\ page.next \in Nat \cup {None}
  BY <1>1, PageTypes DEF Cursors
<1>3. /\ first.end <= first.lastSeq /\ first.lastSeq <= last
      /\ page.end <= page.lastSeq /\ page.lastSeq <= last
      /\ page.next # None => page.next <= page.lastSeq
  BY DEF PageOK, Sound
<1> QED BY <1>1, <1>2, <1>3 DEF Covered

(* What does not touch the walk leaves it in order.                        *)
LEMMA WalkStays ==
    ASSUME TypeOK, WalkOK, UNCHANGED walk, View' = View,
           \A p \in Pages : PageOK(p) => Sound(p, stored', last'),
           \A s \in stored' : s \in stored \/ s = last + 1,
           \A i \in 1 .. Len(trail) : Earlier(i)'
    PROVE  WalkOK'
<1>1. /\ filter' = filter /\ limit' = limit /\ seqStart' = seqStart /\ seqEnd' = seqEnd
      /\ FromLatest' = FromLatest
  BY DEF View
<1>2. history' = history /\ trail' = trail
  BY DEF walk
<1>3. \A i : After(i)' = After(i) /\ Left(i)' = Left(i)
  BY <1>1, <1>2 DEF After, Left, Cursor
<1>4. /\ Len(trail) \in Nat /\ \A i \in 1 .. Len(trail) : trail[i] \in Pages
      /\ Len(trail) <= Len(history)
      /\ \A i \in 1 .. Len(trail) : Linked(i)
  BY DEF TypeOK, WalkOK, TrailOK
<1>5. TrailOK'
  BY <1>1, <1>2, <1>3, <1>4 DEF TrailOK, Linked, PageOK
<1>6. TrailCovers'
  <2>1. ASSUME NEW k \in 1 .. Len(trail), NEW s \in Covered(trail[1], trail[k]), s \in stored'
        PROVE  s \in stored
    <3>1. trail[1] \in Pages /\ PageOK(trail[1]) /\ trail[k] \in Pages /\ PageOK(trail[k])
      BY <1>4 DEF Linked
    <3>2. s <= last /\ last \in Nat
      BY <3>1, CoveredBelow, BoundsAreNat DEF TypeOK
    <3> QED BY <2>1, <3>2
  <2> QED BY <1>1, <1>2, <2>1 DEF WalkOK, TrailCovers
<1>7. Apart'
  BY <1>1, <1>2, <1>3 DEF WalkOK, Apart
<1> QED BY <1>5, <1>6, <1>7 DEF WalkOK

(* A walk without pages is in order.                                       *)
LEMMA WalkStarts ==
    ASSUME TypeOK, trail = <<>>
    PROVE  WalkOK
<1>1. Len(trail) = 0 /\ Len(history) \in Nat
  BY DEF TypeOK
<1> QED BY <1>1 DEF WalkOK, TrailOK, TrailCovers, Apart

LEMMA RequestWalk ==
    ASSUME TypeOK, ScanOK, DataOK, WalkOK, [Next]_vars,
           \/ StreamStep \/ Iterating \/ Answering \/ RequestFails \/ Refetch
           \/ UNCHANGED vars \/ \E s \in Seqs : Info(s)
    PROVE  WalkOK'
<1>1. UNCHANGED <<mode, range, walk>>
  BY DEF StreamStep, Store, Remove, Iterating, FetchAndFilter, FetchRejected, Iterate,
         Answering, InfoEmpty, Answer, RequestFails, Refetch, Info, vars
<1>2. View' = View
  BY <1>1 DEF View, FromLatest, mode, range
<1>3. \A s \in stored' : s \in stored \/ s = last + 1
  <2>1. CASE StreamStep
    BY <2>1 DEF StreamStep, Store, Remove
  <2>2. CASE UNCHANGED stream
    BY <2>2 DEF stream
  <2> QED BY <2>1, <2>2
          DEF Iterating, FetchAndFilter, FetchRejected, Iterate, Answering, InfoEmpty,
              Answer, RequestFails, Refetch, Info, vars
<1>4. ASSUME NEW i \in 1 .. Len(trail) PROVE Earlier(i)'
  <2>1. Earlier(i) /\ trail[i].lastSeq <= last /\ trail[i].lastSeq \in Nat
    BY <1>4, PageTypes DEF WalkOK, TrailOK, Linked, PageOK, Sound, TypeOK
  <2>2. trail' = trail
    BY <1>1 DEF walk
  <2>3. data' # None => trail[i].lastSeq <= data'.lastSeq
    <3>1. CASE Answering
      BY <2>1, <3>1, AnswerSound DEF Earlier
    <3>2. CASE data' = data \/ data' = None
      BY <2>1, <3>2 DEF Earlier
    <3> QED BY <3>1, <3>2
            DEF StreamStep, Store, Remove, Iterating, FetchAndFilter, FetchRejected, Iterate,
                RequestFails, Refetch, Info, vars
  <2>4. pc' = "scan" => trail[i].lastSeq <= scan'.lastSeq
    <3>1. ASSUME NEW s \in Seqs, Info(s) PROVE trail[i].lastSeq <= scan'.lastSeq
      <4>1. scan'.lastSeq = last
        BY <3>1 DEF Info, NoScan
      <4> QED BY <2>1, <4>1
    <3>2. CASE Iterating
      <4>1. scan'.lastSeq = scan.lastSeq /\ pc = "scan"
        BY <3>2 DEF Iterating, FetchAndFilter, FetchRejected, Iterate, TypeOK, Scans
      <4> QED BY <2>1, <4>1 DEF Earlier
    <3>3. CASE pc' # "scan" \/ UNCHANGED request
      BY <2>1, <3>3 DEF Earlier, request
    <3> QED BY <3>1, <3>2, <3>3
            DEF StreamStep, Store, Remove, Answering, InfoEmpty, Answer, Show,
                RequestFails, Refetch, Restart, vars
  <2> QED BY <2>2, <2>3, <2>4 DEF Earlier
<1> QED BY <1>1, <1>2, <1>3, <1>4, PagesStay, WalkStays

LEMMA ToggleWalk ==
    ASSUME TypeOK, TypeOK', WalkOK, [Next]_vars, ToggleLive
    PROVE  WalkOK'
<1>1. CASE trail' = <<>>
  <2>1. Len(trail') = 0 /\ Len(history') \in Nat
    BY <1>1 DEF TypeOK
  <2> QED BY <2>1 DEF WalkOK, TrailOK, TrailCovers, Apart
<1>2. CASE FromLatest' = FromLatest
  <2>1. /\ UNCHANGED walk /\ View' = View
        /\ UNCHANGED <<stored, data, request>>
    BY <1>2 DEF ToggleLive, walk, View, range, Query, TypeOK, stream
  <2>2. \A i \in 1 .. Len(trail) : Earlier(i)'
    BY <2>1 DEF WalkOK, TrailOK, Earlier, walk, request
  <2> QED BY <2>1, <2>2, PagesStay, WalkStays
<1> QED BY <1>1, <1>2 DEF ToggleLive

LEMMA PreviousWalk ==
    ASSUME TypeOK, TypeOK', WalkOK, HandlePreviousPage
    PROVE  WalkOK'
<1>a. CASE trail = <<>>
  <2>1. Len(trail') = 0 /\ Len(history') \in Nat
    BY <1>a DEF HandlePreviousPage, TypeOK
  <2> QED BY <2>1 DEF WalkOK, TrailOK, TrailCovers, Apart
<1> SUFFICES ASSUME trail # <<>> PROVE WalkOK'
  BY <1>a
<1> PICK n \in Nat : n = Len(trail)
  BY DEF TypeOK
<1> PICK h \in Nat : h = Len(history)
  BY DEF TypeOK
<1>1. /\ history # <<>> /\ n # 0 /\ h # 0 /\ n <= h
      /\ \A i \in 1 .. n : Linked(i) /\ Earlier(i)
  BY DEF HandlePreviousPage, WalkOK, TrailOK, TypeOK
<1>2. /\ Len(trail') = n - 1 /\ Len(history') = h - 1
      /\ \A i \in 1 .. n - 1 : trail'[i] = trail[i]
      /\ \A i \in 1 .. h - 1 : history'[i] = history[i]
  BY <1>1, FrontType DEF HandlePreviousPage, TypeOK
<1>3. /\ filter' = filter /\ limit' = limit /\ FromLatest' = FromLatest
      /\ data' = data /\ stored' = stored /\ last' = last
      /\ IF FromLatest THEN seqEnd' = history[h] /\ seqStart' = seqStart
                       ELSE seqStart' = history[h] /\ seqEnd' = seqEnd
  BY <1>1 DEF HandlePreviousPage, SetCursor, FromLatest, mode, stream
<1>4. Cursor' = history[h]
  BY <1>3 DEF Cursor
<1>5. \A i \in 1 .. n - 1 : i \in 1 .. n /\ Left(i)' = Left(i) /\ After(i)' = After(i)
  <2>1. ASSUME NEW i \in 1 .. n - 1 PROVE Left(i)' = Left(i)
    <3>1. Left(i)' = history'[h - 1 - (n - 1) + i] /\ Left(i) = history[h - n + i]
      BY <1>2 DEF Left
    <3>2. h - 1 - (n - 1) + i = h - n + i /\ h - n + i \in 1 .. h - 1
      BY <1>1
    <3> QED BY <1>2, <3>1, <3>2
  <2>2. ASSUME NEW i \in 1 .. n - 1 PROVE After(i)' = After(i)
    <3>1. CASE i = n - 1
      <4>1. After(i)' = history[h]
        BY <1>2, <1>4, <3>1 DEF After
      <4>2. After(i) = history[h - n + (i + 1)]
        BY <1>1, <3>1 DEF After, Left
      <4>3. h - n + (i + 1) = h
        BY <3>1
      <4> QED BY <4>1, <4>2, <4>3
    <3>2. CASE i # n - 1
      <4>1. i + 1 \in 1 .. n - 1
        BY <3>2
      <4> QED BY <1>2, <2>1, <3>2, <4>1 DEF After
    <3> QED BY <3>1, <3>2
  <2> QED BY <2>1, <2>2
<1>6. \A i \in 1 .. n - 1 : Linked(i)'
  BY <1>1, <1>2, <1>3, <1>5 DEF Linked, PageOK
<1>7. \A i \in 1 .. n - 1 : Earlier(i)'
  <2>1. pc' = "scan" => UNCHANGED request
    BY DEF HandlePreviousPage, Query, Restart
  <2> QED BY <1>1, <1>2, <1>3, <1>5, <2>1 DEF Earlier, request
<1>8. TrailOK'
  <2>1. n - 1 <= h - 1
    BY <1>1
  <2> QED BY <1>2, <1>6, <1>7, <2>1 DEF TrailOK
<1>9. TrailCovers'
  <2>1. \A k \in 1 .. n - 1 : 1 \in 1 .. n - 1 /\ \A i \in 1 .. k : i \in 1 .. n - 1
    BY <1>2
  <2> SUFFICES ASSUME NEW k \in 1 .. n - 1,
                      NEW s \in stored \cap Matching[filter] \cap Covered(trail[1], trail[k])
               PROVE  \E i \in 1 .. k : s \in trail'[i].messages \cup trail'[i].lost
    BY <1>2, <1>3, <2>1 DEF TrailCovers
  <2>2. PICK i \in 1 .. k : s \in trail[i].messages \cup trail[i].lost
    BY <1>5 DEF WalkOK, TrailCovers
  <2> QED BY <1>2, <2>1, <2>2
<1>10. Apart'
  BY <1>2, <1>3, <1>5 DEF WalkOK, Apart
<1> QED BY <1>8, <1>9, <1>10 DEF WalkOK

-----------------------------------------------------------------------------
(* The page shown continues the walk.                                      *)

\* What the page shown says, and how it is linked to the last page of the trail.
LEMMA ShownPage ==
    ASSUME TypeOK, DataOK, WalkOK, PageIsShown
    PROVE  /\ data \in Pages /\ PageOK(data) /\ data.view = View
           /\ data.view.filter = filter /\ data.view.back = FromLatest
           /\ data.view.limit = limit
           /\ data.view.start = seqStart /\ data.view.end = seqEnd
           /\ Len(trail) \in Nat /\ Len(history) \in Nat /\ Len(trail) <= Len(history)
           /\ \A i \in 1 .. Len(trail) : trail[i] \in Pages /\ Linked(i) /\ Earlier(i)
           /\ Len(trail) # 0 => /\ Cursor # None /\ Cursor = trail[Len(trail)].next
                                /\ Cursor = IF FromLatest THEN data.view.end
                                                          ELSE data.view.start
<1>1. /\ data \in Pages /\ PageOK(data) /\ data.view = View
      /\ data.view.filter = filter /\ data.view.back = FromLatest
      /\ data.view.limit = limit /\ data.view.start = seqStart /\ data.view.end = seqEnd
  BY DEF PageIsShown, Placeholder, DataOK, TypeOK, View
<1>2. /\ Len(trail) \in Nat /\ Len(history) \in Nat /\ Len(trail) <= Len(history)
      /\ \A i \in 1 .. Len(trail) : trail[i] \in Pages /\ Linked(i) /\ Earlier(i)
  BY DEF PageIsShown, WalkOK, TrailOK, TypeOK
<1>3. Len(trail) # 0 => Cursor # None /\ Cursor = trail[Len(trail)].next
  <2> SUFFICES ASSUME Len(trail) # 0
               PROVE  Cursor # None /\ Cursor = trail[Len(trail)].next
    OBVIOUS
  <2>1. Linked(Len(trail))
    BY <1>2
  <2> QED BY <2>1 DEF Linked, After
<1> QED BY <1>1, <1>2, <1>3 DEF Cursor

\* Over the boundary between two pages nothing that is still stored is passed.
LEMMA Continues ==
    ASSUME TypeOK, DataOK, WalkOK, PageIsShown, Len(trail) # 0,
           NEW s \in stored, s \in Covered(trail[1], data)
    PROVE  s \in Covered(trail[1], trail[Len(trail)]) \/ s \in Span(data)
<1> DEFINE n == Len(trail)
<1>1. /\ n \in 1 .. n /\ 1 \in 1 .. n
      /\ trail[1] \in Pages /\ trail[n] \in Pages /\ Linked(n) /\ Earlier(n)
      /\ data # None
  BY ShownPage DEF PageIsShown
<1>2. /\ Cursor # None /\ Cursor = trail[n].next
      /\ Cursor = IF FromLatest THEN data.view.end ELSE data.view.start
      /\ data.view.back = FromLatest /\ trail[n].view.back = FromLatest
  BY <1>1, ShownPage DEF Linked
<1>3. /\ data.start \in Nat /\ data.end \in Nat /\ data.lastSeq \in Nat
      /\ trail[1].start \in Nat /\ trail[1].end \in Nat /\ trail[n].lastSeq \in Nat
      /\ Cursor \in Nat /\ s \in Nat /\ s \in Seqs
  BY <1>1, <1>2, ShownPage, PageTypes, BoundsAreNat DEF TypeOK, Cursors, Seqs, Covered
<1> HIDE DEF n
<1>4. CASE FromLatest
  <2>1. CASE Cursor < s
    BY <1>2, <1>4, <2>1 DEF Covered, n
  <2>2. CASE s <= Cursor
    <3>1. Cursor <= trail[n].lastSeq /\ trail[n].lastSeq <= data.lastSeq
      BY <1>1, <1>2 DEF Linked, Earlier, PageOK, Sound
    <3>2. Cursor <= data.lastSeq
      BY <1>3, <3>1
    <3>3. s <= data.end
      BY <1>2, <1>4, <2>2, <3>2, ShownPage DEF PageOK, Sound
    <3> QED BY <1>2, <1>4, <3>3 DEF Covered, Span
  <2> QED BY <1>3, <2>1, <2>2
<1>5. CASE ~FromLatest
  <2>1. CASE s < Cursor
    BY <1>2, <1>5, <2>1 DEF Covered, n
  <2>2. CASE s >= Cursor
    <3>1. s >= data.start
      BY <1>2, <1>5, <2>2, ShownPage DEF PageOK, Sound
    <3> QED BY <1>2, <1>3, <1>5, <3>1 DEF Covered, Span
  <2> QED BY <1>3, <2>1, <2>2
<1> QED BY <1>4, <1>5

LEMMA PathCovers ==
    ASSUME TypeOK, DataOK, WalkOK, PageIsShown,
           NEW s \in stored \cap Matching[filter], s \in Covered(Path[1], data)
    PROVE  \E i \in 1 .. Len(trail) + 1 : s \in Path[i].messages \cup Path[i].lost
<1> DEFINE n == Len(trail)
<1>1. /\ n \in Nat /\ trail \in Seq(Pages) /\ data \in Pages
      /\ PageOK(data) /\ data.view.filter = filter
  BY ShownPage DEF TypeOK
<1>2. /\ Path[n + 1] = data
      /\ \A i \in 1 .. n : Path[i] = trail[i] /\ i \in 1 .. n + 1
      /\ n + 1 \in 1 .. n + 1
  BY <1>1 DEF Path
<1>3. ASSUME s \in Span(data) PROVE s \in Path[n + 1].messages \cup Path[n + 1].lost
  BY <1>1, <1>2, <1>3 DEF PageOK, Sound
<1>4. CASE n = 0
  <2>1. Path[1] = data
    BY <1>2, <1>4
  <2> QED BY <1>2, <1>3, <2>1 DEF Span
<1>5. CASE n # 0
  <2>1. n \in 1 .. n /\ Path[1] = trail[1]
    BY <1>1, <1>2, <1>5
  <2>2. s \in Covered(trail[1], trail[n]) \/ s \in Span(data)
    BY <1>5, <2>1, Continues
  <2>3. ASSUME s \in Covered(trail[1], trail[n])
        PROVE  \E i \in 1 .. n : s \in trail[i].messages \cup trail[i].lost
    BY <2>1, <2>3 DEF WalkOK, TrailCovers, PageIsShown
  <2> QED BY <1>2, <1>3, <2>2, <2>3
<1> QED BY <1>4, <1>5

LEMMA PathApart ==
    ASSUME TypeOK, DataOK, WalkOK, PageIsShown,
           NEW i \in 1 .. Len(trail), NEW s \in trail[i].messages
    PROVE  /\ IF FromLatest THEN s > Cursor ELSE s < Cursor
           /\ \A t \in data.messages : IF FromLatest THEN t <= Cursor ELSE t >= Cursor
<1>1. /\ Len(trail) \in Nat /\ Len(trail) # 0 /\ Len(trail) \in 1 .. Len(trail)
      /\ i <= Len(trail)
  BY ShownPage
<1>2. After(Len(trail)) = Cursor
  BY DEF After
<1>3. IF FromLatest THEN s > Cursor ELSE s < Cursor
  BY <1>1, <1>2 DEF WalkOK, Apart, PageIsShown
<1>4. \A t \in data.messages : IF FromLatest THEN t <= Cursor ELSE t >= Cursor
  BY <1>1, ShownPage DEF PageOK, Sound
<1> QED BY <1>3, <1>4

LEMMA NextWalk ==
    ASSUME TypeOK, TypeOK', DataOK, WalkOK, HandleNextPage
    PROVE  WalkOK'
<1>a. CASE Placeholder
  <2>1. Len(trail') = 0 /\ Len(history') \in Nat
    BY <1>a DEF HandleNextPage, TypeOK
  <2> QED BY <2>1 DEF WalkOK, TrailOK, TrailCovers, Apart
<1> SUFFICES ASSUME ~Placeholder PROVE WalkOK'
  BY <1>a
<1>0. PageIsShown /\ data.next # None
  BY DEF HandleNextPage, PageIsShown
<1> PICK n \in Nat : n = Len(trail)
  BY DEF TypeOK
<1> PICK h \in Nat : h = Len(history)
  BY DEF TypeOK
<1>1. /\ n \in Nat /\ n <= h /\ data \in Pages /\ PageOK(data)
      /\ data.view.filter = filter /\ data.view.back = FromLatest /\ data.view.limit = limit
      /\ data.view.start = seqStart /\ data.view.end = seqEnd
      /\ \A i \in 1 .. n : trail[i] \in Pages /\ Linked(i) /\ Earlier(i)
  BY <1>0, ShownPage
<1>2. /\ Len(trail') = n + 1 /\ Len(history') = h + 1 /\ trail' = Path
      /\ trail'[n + 1] = data /\ history'[h + 1] = Cursor
      /\ \A i \in 1 .. n : trail'[i] = trail[i]
      /\ \A i \in 1 .. h : history'[i] = history[i]
  BY <1>1 DEF HandleNextPage, TypeOK, Path
<1>3. /\ filter' = filter /\ limit' = limit /\ FromLatest' = FromLatest
      /\ data' = data /\ stored' = stored /\ last' = last
      /\ IF FromLatest THEN seqEnd' = data.next /\ seqStart' = seqStart
                       ELSE seqStart' = data.next /\ seqEnd' = seqEnd
      /\ Cursor' = data.next
  BY DEF HandleNextPage, SetCursor, FromLatest, mode, stream, Cursor
<1>b. /\ \A i \in 1 .. n : Left(i)' = Left(i)
      /\ Left(n + 1)' = Cursor
  <2>1. ASSUME NEW i \in 1 .. n PROVE Left(i)' = Left(i)
    <3>1. Left(i)' = history'[h + 1 - (n + 1) + i] /\ Left(i) = history[h - n + i]
      BY <1>2 DEF Left
    <3>2. h + 1 - (n + 1) + i = h - n + i /\ h - n + i \in 1 .. h
      BY <1>1
    <3> QED BY <1>2, <3>1, <3>2
  <2>2. Left(n + 1)' = Cursor
    <3>1. Left(n + 1)' = history'[h + 1 - (n + 1) + (n + 1)]
      BY <1>2 DEF Left
    <3>2. h + 1 - (n + 1) + (n + 1) = h + 1
      OBVIOUS
    <3> QED BY <1>2, <3>1, <3>2
  <2> QED BY <2>1, <2>2
<1>4. /\ \A i \in 1 .. n : After(i)' = After(i)
      /\ After(n + 1)' = data.next
  <2>1. \A i \in 1 .. n : After(i)' = Left(i + 1)'
    BY <1>2 DEF After
  <2>2. \A i \in 1 .. n : i # n => i + 1 \in 1 .. n
    OBVIOUS
  <2>3. \A i \in 1 .. n : After(i) = IF i = n THEN Cursor ELSE Left(i + 1)
    BY DEF After
  <2> QED BY <1>2, <1>3, <1>b, <2>1, <2>2, <2>3 DEF After
<1>5. \A i \in 1 .. n + 1 : i \in 1 .. n \/ i = n + 1
  BY <1>1
<1>6. \A i \in 1 .. n + 1 : Linked(i)'
  <2>1. ASSUME NEW i \in 1 .. n PROVE Linked(i)'
    BY <1>1, <1>2, <1>3, <1>4, <1>b DEF Linked, PageOK
  <2>2. Linked(n + 1)'
    <3>1. IF FromLatest THEN data.view.end = Cursor ELSE data.view.start = Cursor
      BY <1>1 DEF Cursor
    <3> QED BY <1>0, <1>1, <1>2, <1>3, <1>4, <1>b, <3>1 DEF Linked, PageOK
  <2> QED BY <1>5, <2>1, <2>2
<1>7. data.next # Cursor
  <2>1. Cursor # None => IF FromLatest THEN data.next < Cursor ELSE data.next > Cursor
    BY <1>0, <1>1 DEF Cursor, PageOK, Sound
  <2>2. data.next \in Nat
    BY <1>0, <1>1, PageTypes, BoundsAreNat DEF Cursors, Seqs
  <2> QED BY <1>0, <2>1, <2>2
<1>8. pc' = "info"
  <2>1. View' # View
    <3>1. View'.start # View.start \/ View'.end # View.end
      BY <1>3, <1>7 DEF View, Cursor
    <3> QED BY <3>1
  <2> QED BY <2>1 DEF HandleNextPage, Query, Restart
<1>9. \A i \in 1 .. n + 1 : Earlier(i)'
  <2>1. data.lastSeq \in Nat /\ data # None
    BY <1>0, <1>1, PageTypes DEF PageIsShown
  <2> QED BY <1>1, <1>2, <1>3, <1>5, <1>8, <2>1 DEF Earlier
<1>10. TrailOK'
  <2>1. n + 1 <= h + 1
    BY <1>1
  <2> QED BY <1>2, <1>6, <1>9, <2>1 DEF TrailOK
<1>11. TrailCovers'
  <2> SUFFICES ASSUME NEW k \in 1 .. n + 1,
                      NEW s \in stored \cap Matching[filter] \cap Covered(trail'[1], trail'[k])
               PROVE  \E i \in 1 .. k : s \in trail'[i].messages \cup trail'[i].lost
    BY <1>2, <1>3 DEF TrailCovers
  <2>1. CASE k \in 1 .. n
    <3>1. 1 \in 1 .. n /\ \A i \in 1 .. k : i \in 1 .. n
      BY <1>1, <2>1
    <3>2. PICK i \in 1 .. k : s \in trail[i].messages \cup trail[i].lost
      BY <1>0, <1>2, <2>1, <3>1 DEF WalkOK, TrailCovers
    <3> QED BY <1>2, <3>1, <3>2
  <2>2. CASE k = n + 1
    <3>1. s \in Covered(Path[1], data)
      BY <1>2, <2>2
    <3> QED BY <1>0, <1>2, <2>2, <3>1, PathCovers
  <2> QED BY <1>5, <2>1, <2>2
<1>12. Apart'
  <2> SUFFICES ASSUME NEW i \in 1 .. n + 1, NEW j \in 1 .. n + 1, i <= j,
                      NEW s \in trail'[i].messages
               PROVE  IF FromLatest THEN s > After(j)' ELSE s < After(j)'
    BY <1>2, <1>3 DEF Apart
  <2>1. CASE j \in 1 .. n
    <3>1. i \in 1 .. n
      BY <1>1, <2>1
    <3> QED BY <1>0, <1>2, <1>4, <2>1, <3>1 DEF WalkOK, Apart
  <2>2. CASE j = n + 1 /\ i = n + 1
    <3>1. s \in Span(data)
      BY <1>1, <1>2, <2>2 DEF PageOK, Sound
    <3>2. IF FromLatest THEN data.next < s ELSE s < data.next
      BY <1>0, <1>1, <3>1 DEF Span, Covered
    <3>3. s \in Nat /\ data.next \in Nat
      BY <1>0, <1>1, <3>1, PageTypes, BoundsAreNat DEF Span, Covered, Cursors, Seqs
    <3> QED BY <1>4, <2>2, <3>2, <3>3
  <2>3. CASE j = n + 1 /\ i \in 1 .. n
    <3>1. s \in trail[i].messages
      BY <1>2, <2>3
    <3>2. IF FromLatest THEN s > Cursor ELSE s < Cursor
      BY <1>0, <2>3, <3>1, PathApart
    <3>3. IF FromLatest THEN data.next < Cursor ELSE data.next > Cursor
      <4>1. Cursor # None
        BY <1>0, <1>1, <2>3, ShownPage
      <4> QED BY <1>0, <1>1, <4>1 DEF Cursor, PageOK, Sound
    <3>4. s \in Nat
      <4>1. trail[i] \in Pages
        BY <1>1, <2>3
      <4> QED BY <3>1, <4>1, PageTypes, BoundsAreNat DEF Seqs
    <3>5. data.next \in Nat
      BY <1>0, <1>1, PageTypes, BoundsAreNat DEF Cursors, Seqs
    <3>6. Cursor \in Nat
      <4>1. Cursor # None
        BY <1>0, <1>1, <2>3, ShownPage
      <4> QED BY <4>1, BoundsAreNat DEF Cursors, Seqs, Cursor, TypeOK
    <3> QED BY <1>4, <2>3, <3>2, <3>3, <3>4, <3>5, <3>6
  <2> QED BY <1>5, <2>1, <2>2, <2>3
<1> QED BY <1>10, <1>11, <1>12 DEF WalkOK

LEMMA WalkInductive ==
    ASSUME TypeOK, TypeOK', ScanOK, DataOK, WalkOK, [Next]_vars
    PROVE  WalkOK'
<1>1. CASE Jumping
  <2>1. Len(trail') = 0 /\ Len(history') \in Nat
    BY <1>1, JumpForgets DEF TypeOK
  <2> QED BY <2>1 DEF WalkOK, TrailOK, TrailCovers, Apart
<1>2. CASE UNCHANGED vars \/ Refetch
  BY <1>2, RequestWalk
<1>3. CASE Next
  BY <1>1, <1>2, <1>3, NextCases, RequestWalk, ToggleWalk, NextWalk, PreviousWalk DEF Turning
<1> QED BY <1>2, <1>3

-----------------------------------------------------------------------------
(* Results.                                                                *)

LEMMA Invariant == Spec => []IInv
<1>1. Init => IInv
  BY InitTypes, WalkStarts DEF Init, IInv, ScanOK, DataOK
<1>2. IInv /\ [Next]_vars => IInv'
  BY TypesInductive, ScanInductive, DataInductive, WalkInductive DEF IInv
<1> QED BY <1>1, <1>2, PTL DEF Spec

\* Safety: whatever the stream does and wherever the filters let nothing through,
\* the cursors of a walk advance.
THEOREM Advance == Spec => []CursorsAdvance
<1>1. IInv => CursorsAdvance
  <2> SUFFICES ASSUME IInv, NEW i \in 1 .. Len(trail)
               PROVE  /\ Len(trail) <= Len(history)
                      /\ After(i) # None
                      /\ Left(i) # None => IF FromLatest THEN After(i) < Left(i)
                                                         ELSE After(i) > Left(i)
    BY DEF CursorsAdvance, IInv, WalkOK, TrailOK
  <2>1. Len(trail) <= Len(history) /\ Linked(i)
    BY DEF IInv, WalkOK, TrailOK
  <2>2. /\ trail[i].next = After(i) /\ trail[i].next # None
        /\ PageOK(trail[i]) /\ trail[i].view.back = FromLatest
        /\ IF FromLatest THEN trail[i].view.end = Left(i) ELSE trail[i].view.start = Left(i)
    BY <2>1 DEF Linked
  <2> QED BY <2>1, <2>2 DEF PageOK, Sound
<1> QED BY <1>1, Invariant, PTL

\* Safety: handlePreviousPage leads back to the view of the page that handleNextPage left,
\* since the history holds its cursor and the rest of the view is as it was.
THEOREM HistoryReturns == Spec => PreviousReturns
<1>1. IInv /\ [Next]_vars => [HandlePreviousPage /\ trail # <<>>
                               => View' = trail[Len(trail)].view]_vars
  <2> SUFFICES ASSUME IInv, HandlePreviousPage, trail # <<>>
               PROVE  View' = trail[Len(trail)].view
    OBVIOUS
  <2> PICK n \in Nat : n = Len(trail)
    BY DEF IInv, TypeOK
  <2> PICK h \in Nat : h = Len(history)
    BY DEF IInv, TypeOK
  <2>1. n # 0 /\ n \in 1 .. n
    BY DEF IInv, TypeOK
  <2>2. Linked(n) /\ trail[n].view \in Views
    BY <2>1, PageTypes DEF IInv, TypeOK, WalkOK, TrailOK
  <2>3. Left(n) = history[h]
    <3>1. h - n + n = h
      OBVIOUS
    <3> QED BY <3>1 DEF Left
  <2>4. /\ filter' = filter /\ limit' = limit /\ FromLatest' = FromLatest
        /\ IF FromLatest THEN seqEnd' = history[h] /\ seqStart' = seqStart
                         ELSE seqStart' = history[h] /\ seqEnd' = seqEnd
    BY DEF HandlePreviousPage, SetCursor, FromLatest, mode
  <2>5. View' = [filter |-> filter, limit |-> limit, start |-> seqStart', end |-> seqEnd',
                 back |-> FromLatest]
    BY <2>4 DEF View
  <2> QED BY <2>2, <2>3, <2>4, <2>5 DEF Linked, Views
<1> QED BY <1>1, Invariant, PTL DEF Spec, PreviousReturns

\* Safety: a walk passes over no message that is still stored and passes the filter,
\* unless its fetch was rejected (getMessages takes that for a missing message).
THEOREM PassesOverNothing == Spec => []NothingSkipped
<1>1. IInv => NothingSkipped
  <2>1. ASSUME IInv, PageIsShown PROVE Len(Path) = Len(trail) + 1
    BY DEF IInv, TypeOK, Path
  <2> QED BY <2>1, PathCovers DEF IInv, NothingSkipped
<1> QED BY <1>1, Invariant, PTL

\* Safety: a walk shows no message on two pages: next_seq is past all that was visited.
THEOREM ShowsOnce == Spec => []ShownOnce
<1>1. IInv => ShownOnce
  <2> SUFFICES ASSUME IInv, PageIsShown, NEW i \in 1 .. Len(trail),
                      NEW s \in trail[i].messages, s \in data.messages
               PROVE  FALSE
    BY DEF ShownOnce
  <2>1. /\ IF FromLatest THEN s > Cursor ELSE s < Cursor
        /\ IF FromLatest THEN s <= Cursor ELSE s >= Cursor
    BY PathApart DEF IInv
  <2>2. s \in Nat /\ Cursor \in Nat
    BY ShownPage, PageTypes, BoundsAreNat DEF IInv, TypeOK, Cursors, Seqs, Cursor
  <2> QED BY <2>1, <2>2
<1> QED BY <1>1, Invariant, PTL
=============================================================================
