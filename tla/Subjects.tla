------------------------------ MODULE Subjects ------------------------------
(* Which messages reach which consumer, as the dashboard works it out        *)
(* (frontend lib/subject-analysis.ts, used by the subject explorer, the      *)
(* topology, the message list and the remediation panel), over the lists of  *)
(* streams and consumers it refetches one by one while other clients change  *)
(* the server, and the filter of a history read at the backend               *)
(* (common/nats/subject.ts).                                                 *)
(*                                                                           *)
(* A pattern is a sequence of tokens: a literal, "*" (any one token) or, as  *)
(* the last one, ">". A subject is a sequence of literals. tokens(), which   *)
(* splits and trims, is the step from the text to the sequence.              *)
EXTENDS Integers, Sequences, FiniteSets

CONSTANTS
    Literals,      \* the tokens of a subject
    MaxTokens,     \* bound: the tokens of a subject
    Patterns,      \* the patterns the streams and the consumers are configured with
    SubjectSets,   \* the lists of subjects a stream is configured with
    FilterLists,   \* the filter_subjects of a consumer, {} when it has none
    Streams,
    Consumers,
    Home,          \* the stream of a consumer
    None,          \* no such stream, consumer or filter
    MaxChanges     \* bound: changes other clients make at the server

Subjects == UNION {[1 .. n -> Literals] : n \in 1 .. MaxTokens}

\* Subjects get longer than any pattern, so that a ">" may take two tokens.
IsPattern(p) ==
    /\ p \in Seq(Literals \cup {"*", ">"})
    /\ Len(p) \in 1 .. MaxTokens - 1
    /\ \A k \in 1 .. Len(p) : p[k] = ">" => k = Len(p)

ASSUME LiteralsAssumption ==
    {"*", ">"} \cap Literals = {} /\ \E a, b \in Literals : a # b
ASSUME TokensAssumption == MaxTokens \in Nat \ {0, 1}
ASSUME PatternsAssumption ==
    /\ \A p \in Patterns : IsPattern(p)
    /\ SubjectSets \subseteq SUBSET Patterns
    /\ FilterLists \subseteq SUBSET Patterns
ASSUME ServerAssumption ==
    /\ Home \in [Consumers -> Streams]
    /\ None \notin SubjectSets
    /\ None \notin Patterns
    /\ MaxChanges \in Nat

VARIABLES
    config,    \* of each stream at the server: its subjects, None when there is none
    filters,   \* of each consumer at the server: its filter_subject and filter_subjects
    streams,   \* the page: the streams of the last answer of useStreams
    consumers, \* the page: for each stream the last answer of useAllConsumers
    changes

vars == <<config, filters, streams, consumers, changes>>

Configs == [filter_subject : Patterns \cup {None}, filter_subjects : FilterLists]

-----------------------------------------------------------------------------
(* What the server does with a pattern, a stream and a consumer.             *)

\* "*" stands for one token and ">" for one or more trailing tokens.
Matches(p, s) ==
    /\ \A k \in 1 .. Len(p) : k <= Len(s) /\ (p[k] \in {"*", ">"} \/ p[k] = s[k])
    /\ Len(s) > Len(p) => p[Len(p)] = ">"

Meet(p, q) == \E s \in Subjects : Matches(p, s) /\ Matches(q, s)

\* A stream without subjects is a mirror or has sources: it may store any subject.
Stores(subjects, s) == subjects = {} \/ \E p \in subjects : Matches(p, s)

\* A filter is either one subject or a list; none means every message.
Wanted(c) == c.filter_subjects \cup ({c.filter_subject} \ {None})
Receives(c, s) == Wanted(c) = {} \/ \E f \in Wanted(c) : Matches(f, s)

\* The server refuses subjects that overlap those of another stream or each other.
Allowed(name, subjects) ==
    /\ \A p, q \in subjects : p # q => ~Meet(p, q)
    /\ \A other \in Streams \ {name} :
           config[other] # None => \A p \in subjects, q \in config[other] : ~Meet(p, q)

\* It refuses both kinds of filter at once.
OneKind(c) == c.filter_subject = None \/ c.filter_subjects = {}

-----------------------------------------------------------------------------
(* The functions of subject-analysis.ts.                                     *)

\* The loop of subjectMatches: ">" ends it with true as soon as it is reached.
subjectMatches(pattern, subject) ==
    LET Token(k) == k <= Len(subject) /\ (pattern[k] = "*" \/ pattern[k] = subject[k])
    IN  \/ \E i \in 1 .. Len(pattern) :
               pattern[i] = ">" /\ \A k \in 1 .. i - 1 : Token(k)
        \/ Len(pattern) = Len(subject) /\ \A k \in 1 .. Len(pattern) : Token(k)

\* Mutant: only the filter_subject of a consumer is looked at.
SingularFilter(source) == {source.filter_subject} \ {None}

consumerFilterSubjects(source) ==
    IF source.filter_subjects # {} THEN source.filter_subjects
    ELSE {source.filter_subject} \ {None}

consumerSubjectMatches(source, subject) ==
    \/ consumerFilterSubjects(source) = {}
    \/ \E f \in consumerFilterSubjects(source) : subjectMatches(f, subject)

\* Mutant: two patterns overlap only when the wildcard is on the left.
OverlapOneWay(left, right) ==
    /\ Len(left) = Len(right)
    /\ \A k \in 1 .. Len(left) : left[k] \in {"*", ">"} \/ left[k] = right[k]

\* visit(i, i): tokens are compared in pairs until one of them is ">".
subjectPatternsOverlap(left, right) ==
    LET Pair(k) == /\ k <= Len(left) /\ k <= Len(right)
                   /\ left[k] = "*" \/ right[k] = "*" \/ left[k] = right[k]
        Open(k) == \/ k <= Len(left) /\ left[k] = ">"
                   \/ k <= Len(right) /\ right[k] = ">"
    IN  \/ \E i \in 1 .. Len(left) + Len(right) :
               Open(i) /\ \A k \in 1 .. i - 1 : Pair(k)
        \/ Len(left) = Len(right) /\ \A k \in 1 .. Len(left) : Pair(k)

consumerFilterOverlapsSubject(source, subject) ==
    \/ consumerFilterSubjects(source) = {}
    \/ \E f \in consumerFilterSubjects(source) : subjectPatternsOverlap(subject, f)

subjectPatternCovers(cover, covered) ==
    LET Token(k) == /\ k <= Len(covered) /\ covered[k] # ">"
                    /\ cover[k] = "*" \/ cover[k] = covered[k]
    IN  \/ \E i \in 1 .. Len(cover) : cover[i] = ">" /\ \A k \in 1 .. i - 1 : Token(k)
        \/ Len(cover) = Len(covered) /\ \A k \in 1 .. Len(cover) : Token(k)

\* subjectRelationship(streamSubject, consumerFilter): which side is the broader one.
\* streamSubjectRelationship, whose labels are not modelled, asks in the other order.
relationship(left, right) ==
    IF left = right THEN "exact"
    ELSE IF subjectPatternCovers(right, left) THEN "right"
    ELSE IF subjectPatternCovers(left, right) THEN "left"
    ELSE "overlap"

\* useAllConsumers: the consumers of the streams that are listed now.
allConsumers == {c \in Consumers : streams[Home[c]] # None /\ consumers[Home[c]][c] # None}
Source(c) == consumers[Home[c]][c]

\* analyzeSubjects: a row for each subject of each stream.
streamSubjects ==
    UNION {{[stream |-> name, subject |-> p] :
                p \in IF streams[name] = {} THEN {<<">">>} ELSE streams[name]} :
           name \in {n \in Streams : streams[n] # None}}

\* The matches of a row; a consumer without a filter matches it by its own subject.
RowMatches(row) ==
    LET own == {c \in allConsumers : Home[c] = row.stream}
        Effective(c) == IF consumerFilterSubjects(Source(c)) = {} THEN {row.subject}
                        ELSE consumerFilterSubjects(Source(c))
    IN  UNION {{[consumer |-> c, filter |-> f, relationship |-> relationship(row.subject, f)] :
                    f \in {e \in Effective(c) : subjectPatternsOverlap(row.subject, e)}} :
               c \in own}

orphanStreamSubjects == {row \in streamSubjects : RowMatches(row) = {}}

unmatchedConsumerFilters ==
    {m \in allConsumers \X Patterns :
        /\ m[2] \in consumerFilterSubjects(Source(m[1]))
        /\ ~\E p \in streams[Home[m[1]]] : subjectPatternsOverlap(p, m[2])}

\* A pair is listed once, in the order of the streams; here both ways round.
overlappingStreamSubjects ==
    {o \in streamSubjects \X streamSubjects :
        /\ o[1].stream # o[2].stream
        /\ o[1].subject \in streams[o[1].stream] /\ o[2].subject \in streams[o[2].stream]
        /\ subjectPatternsOverlap(o[1].subject, o[2].subject)}

\* The graph of the topology page: the consumers next to a subject of a stream, and
\* the subjects next to a consumer.
matchingConsumerIds(name, p) ==
    {c \in allConsumers : Home[c] = name /\ consumerFilterOverlapsSubject(Source(c), p)}
matchingSubjects(c) ==
    {p \in streams[Home[c]] : consumerFilterOverlapsSubject(Source(c), p)}

\* probeMatches of the subject explorer.
probeStreams(s) ==
    {n \in Streams : streams[n] # None /\ \E p \in streams[n] : subjectMatches(p, s)}
probeConsumers(s) ==
    {c \in allConsumers : Home[c] \in probeStreams(s) /\ consumerSubjectMatches(Source(c), s)}

\* natsSubjectToRegex: each token of the pattern takes the tokens of the subject from
\* its cut to the next one, exactly one unless it is ">".
natsSubjectToRegex(pattern, subject) ==
    \E cut \in [1 .. Len(pattern) + 1 -> 1 .. Len(subject) + 1] :
        /\ cut[1] = 1 /\ cut[Len(pattern) + 1] = Len(subject) + 1
        /\ \A k \in 1 .. Len(pattern) :
               IF pattern[k] = ">" THEN cut[k + 1] > cut[k]
               ELSE /\ cut[k + 1] = cut[k] + 1
                    /\ pattern[k] = "*" \/ pattern[k] = subject[cut[k]]

-----------------------------------------------------------------------------
Init ==
    /\ config = [n \in Streams |-> None]
    /\ filters = [c \in Consumers |-> None]
    /\ streams = [n \in Streams |-> None]
    /\ consumers = [n \in Streams |-> [c \in Consumers |-> None]]
    /\ changes = 0

Change == changes < MaxChanges /\ changes' = changes + 1

SaveStream(name, subjects) ==
    /\ Change
    /\ config[name] # subjects
    /\ Allowed(name, subjects)
    /\ config' = [config EXCEPT ![name] = subjects]
    /\ UNCHANGED <<filters, streams, consumers>>

\* Its consumers go with it.
DeleteStream(name) ==
    /\ Change
    /\ config[name] # None
    /\ config' = [config EXCEPT ![name] = None]
    /\ filters' = [c \in Consumers |-> IF Home[c] = name THEN None ELSE filters[c]]
    /\ UNCHANGED <<streams, consumers>>

SaveConsumer(c, source) ==
    /\ Change
    /\ config[Home[c]] # None
    /\ filters[c] # source
    /\ OneKind(source)
    /\ filters' = [filters EXCEPT ![c] = source]
    /\ UNCHANGED <<config, streams, consumers>>

\* useStreams: one answer lists every stream.
RefetchStreams ==
    /\ streams' = config
    /\ UNCHANGED <<config, filters, consumers, changes>>

\* Mutant: the answer for one stream holds the consumers of all.
RefetchAll(name) ==
    /\ streams[name] # None
    /\ config[name] # None
    /\ consumers' = [consumers EXCEPT ![name] = filters]
    /\ UNCHANGED <<config, filters, streams, changes>>

\* useAllConsumers: one query for each listed stream; an error leaves what it had.
RefetchConsumers(name) ==
    /\ streams[name] # None
    /\ config[name] # None
    /\ consumers' = [consumers EXCEPT ![name] =
                        [c \in Consumers |-> IF Home[c] = name THEN filters[c] ELSE None]]
    /\ UNCHANGED <<config, filters, streams, changes>>

Next ==
    \/ \E name \in Streams, subjects \in SubjectSets : SaveStream(name, subjects)
    \/ \E name \in Streams : DeleteStream(name)
    \/ \E c \in Consumers, source \in Configs : SaveConsumer(c, source)
    \/ RefetchStreams
    \/ \E name \in Streams : RefetchConsumers(name)

Spec == Init /\ [][Next]_vars

-----------------------------------------------------------------------------
(* The page knows a stream or consumer only as a configuration the server    *)
(* accepts (useStreams, useAllConsumers).                                    *)
TypeOK ==
    /\ config \in [Streams -> SubjectSets \cup {None}]
    /\ filters \in [Consumers -> Configs \cup {None}]
    /\ streams \in [Streams -> SubjectSets \cup {None}]
    /\ consumers \in [Streams -> [Consumers -> Configs \cup {None}]]
    /\ \A c \in Consumers : filters[c] # None => config[Home[c]] # None
    /\ \A n \in Streams, c \in Consumers : consumers[n][c] # None => Home[c] = n
    /\ changes \in 0 .. MaxChanges

\* A pattern whose ">" would have to stand for no token at all.
EmptyTail(p, s) == p[Len(p)] = ">" /\ Len(s) = Len(p) - 1

(* The probe of a subject misses no consumer the server would deliver that   *)
(* subject to, as far as its stream has subjects of its own, and one it adds *)
(* is added for a ">" that would have to match nothing: subjectMatches ends  *)
(* at the ">" before it asks for a token.                                    *)
ProbeFindsAll ==
    \A s \in Subjects, c \in allConsumers :
        LET subjects == streams[Home[c]]
            delivered == Stores(subjects, s) /\ Receives(Source(c), s)
        IN  /\ delivered /\ subjects # {} => c \in probeConsumers(s)
            /\ c \in probeConsumers(s) /\ ~delivered =>
                   \E p \in subjects \cup Wanted(Source(c)) : EmptyTail(p, s)

\* The filter of a history read lets through what the server's matching does.
HistoryFilterAgrees ==
    \A s \in Subjects, p \in Patterns : natsSubjectToRegex(p, s) = Matches(p, s)

(* Both answers to "who gets this subject": the probe of the dashboard and   *)
(* the filter of the backend.                                                *)
ProbeFindsReceivers == ProbeFindsAll /\ HistoryFilterAgrees

\* Every subject the one pattern matches, as the dashboard matches, the other does.
Broader(p, q) == \A s \in Subjects : subjectMatches(q, s) => subjectMatches(p, s)
\* The same as the server matches.
Covers(p, q) == \A s \in Subjects : Matches(q, s) => Matches(p, s)

(* The warnings of the subject explorer: a subject is an orphan only when    *)
(* no consumer of its stream receives a message on it, and one that is none  *)
(* has a consumer that, by the dashboard's matching, receives one.           *)
OrphansStarve ==
    \A row \in streamSubjects :
        LET own == {c \in allConsumers : Home[c] = row.stream}
        IN  /\ row \in orphanStreamSubjects => \A c \in own, s \in Subjects :
                   ~(Matches(row.subject, s) /\ Receives(Source(c), s))
            /\ row \notin orphanStreamSubjects => \E c \in own, s \in Subjects :
                   subjectMatches(row.subject, s) /\ consumerSubjectMatches(Source(c), s)

(* A filter is reported as unmatched only when nothing its stream is         *)
(* configured to store passes it, and one that is not has a message that, by *)
(* the dashboard's matching, does. A stream without subjects (a mirror) is   *)
(* the exception: it stores messages, and every filter is reported.          *)
UnmatchedStarve ==
    \A c \in allConsumers : \A f \in Wanted(Source(c)) :
        LET subjects == streams[Home[c]]
        IN  /\ <<c, f>> \in unmatchedConsumerFilters =>
                   \A p \in subjects : ~Meet(p, f)
            /\ <<c, f>> \notin unmatchedConsumerFilters => \E p \in subjects, s \in Subjects :
                   subjectMatches(p, s) /\ subjectMatches(f, s)

(* The badge of a match names the broader side, and "overlap" stands only    *)
(* where neither side takes all of what the other does at the server.        *)
BadgesTell ==
    \A row \in streamSubjects : \A match \in RowMatches(row) :
        CASE match.relationship = "exact" -> match.filter = row.subject
          [] match.relationship = "right" -> Broader(match.filter, row.subject)
          [] match.relationship = "left" -> Broader(row.subject, match.filter)
          [] OTHER -> ~Covers(match.filter, row.subject) /\ ~Covers(row.subject, match.filter)

(* Subjects of two streams are reported as an overlap exactly when they have *)
(* a common subject by the dashboard's matching. The server never lets two   *)
(* streams share one, so every overlap that is reported rests on a ">" that  *)
(* would have to match nothing.                                              *)
OverlapsShare ==
    \A left, right \in streamSubjects :
        left.stream # right.stream /\ streams[left.stream] # {} /\ streams[right.stream] # {} =>
            /\ <<left, right>> \in overlappingStreamSubjects <=>
                  \E s \in Subjects : subjectMatches(left.subject, s)
                                          /\ subjectMatches(right.subject, s)
            /\ ~Meet(left.subject, right.subject)

(* The topology, which works out the matches by itself, draws the lines that *)
(* the subject explorer lists, from either end.                              *)
TopologyAgrees ==
    \A row \in streamSubjects : streams[row.stream] # {} =>
        /\ matchingConsumerIds(row.stream, row.subject) =
               {match.consumer : match \in RowMatches(row)}
        /\ \A c \in allConsumers : Home[c] = row.stream =>
               (row.subject \in matchingSubjects(c)
                   <=> \E match \in RowMatches(row) : match.consumer = c)

(* What analyzeSubjects reports follows from what is delivered: its orphans, *)
(* its unmatched filters, its badges and its overlaps, for every pair of     *)
(* lists the page can hold, also of different ages; and the topology draws   *)
(* the same.                                                                 *)
AnalysisFollowsDelivery ==
    OrphansStarve /\ UnmatchedStarve /\ BadgesTell /\ OverlapsShare /\ TopologyAgrees
=============================================================================
