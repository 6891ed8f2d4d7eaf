--------------------------- MODULE SubjectsProofs ---------------------------
(* Proofs about Subjects, for all literals, patterns, streams and consumers. *)
(* The four functions of subject-analysis.ts are first related to what they  *)
(* are about, subjects; the analysis of the lists then follows.              *)
EXTENDS Subjects, WellFoundedInduction, TLAPS

USE LiteralsAssumption, TokensAssumption

LEMMA SubjectFacts ==
    ASSUME NEW s \in Subjects
    PROVE  /\ s \in Seq(Literals) /\ Len(s) \in 1 .. MaxTokens
           /\ \A k \in 1 .. Len(s) : s[k] \in Literals /\ s[k] # "*" /\ s[k] # ">"
<1>1. PICK n \in 1 .. MaxTokens : s \in [1 .. n -> Literals]
  BY DEF Subjects
<1> QED BY <1>1

LEMMA SubjectMade ==
    ASSUME NEW n \in 1 .. MaxTokens, NEW s \in [1 .. n -> Literals]
    PROVE  s \in Subjects /\ Len(s) = n /\ s \in Seq(Literals)
<1>1. s \in Subjects
  BY DEF Subjects
<1> QED BY <1>1

LEMMA PatternFacts ==
    ASSUME NEW p, IsPattern(p)
    PROVE  /\ Len(p) \in Nat /\ Len(p) >= 1 /\ Len(p) < MaxTokens
           /\ \A k \in 1 .. Len(p) : p[k] \in Literals \cup {"*", ">"}
           /\ \A k \in 1 .. Len(p) - 1 : p[k] # ">"
BY DEF IsPattern

-----------------------------------------------------------------------------
(* What the server matches, the dashboard matches.                           *)
LEMMA MatchImplies ==
    ASSUME NEW p, IsPattern(p), NEW s \in Subjects, Matches(p, s)
    PROVE  subjectMatches(p, s)
<1>1. CASE p[Len(p)] = ">"
  <2>1. \A k \in 1 .. Len(p) - 1 : k <= Len(s) /\ (p[k] = "*" \/ p[k] = s[k])
    BY PatternFacts DEF Matches
  <2> QED BY <1>1, <2>1, PatternFacts DEF subjectMatches
<1>2. CASE p[Len(p)] # ">"
  <2>1. \A k \in 1 .. Len(p) : p[k] # ">"
    BY <1>2, PatternFacts
  <2>2. Len(p) = Len(s)
    BY <1>2, PatternFacts, SubjectFacts DEF Matches
  <2> QED BY <2>1, <2>2, PatternFacts, SubjectFacts DEF Matches, subjectMatches
<1> QED BY <1>1, <1>2

(* Where the dashboard alone matches, a ">" would have to match nothing.     *)
LEMMA MatchOnlyTail ==
    ASSUME NEW p, IsPattern(p), NEW s \in Subjects, subjectMatches(p, s), ~Matches(p, s)
    PROVE  EmptyTail(p, s)
<1>1. CASE p[Len(p)] = ">"
  <2>1. \A k \in 1 .. Len(p) - 1 : k <= Len(s) /\ (p[k] = "*" \/ p[k] = s[k])
    <3>1. CASE \E i \in 1 .. Len(p) :
                 /\ p[i] = ">"
                 /\ \A k \in 1 .. i - 1 : k <= Len(s) /\ (p[k] = "*" \/ p[k] = s[k])
      BY <3>1, PatternFacts
    <3>2. CASE Len(p) = Len(s) /\ \A k \in 1 .. Len(p) : p[k] = "*" \/ p[k] = s[k]
      BY <3>2, PatternFacts
    <3> QED BY <3>1, <3>2 DEF subjectMatches
  <2>2. Len(s) >= Len(p) => Matches(p, s)
    BY <1>1, <2>1, PatternFacts, SubjectFacts DEF Matches
  <2>3. Len(p) - 1 <= Len(s)
    BY <2>1, PatternFacts, SubjectFacts
  <2> QED BY <1>1, <2>2, <2>3, PatternFacts, SubjectFacts DEF EmptyTail
<1>2. CASE p[Len(p)] # ">"
  <2>1. \A k \in 1 .. Len(p) : p[k] # ">"
    BY <1>2, PatternFacts
  <2>2. Len(p) = Len(s) /\ \A k \in 1 .. Len(p) : p[k] = "*" \/ p[k] = s[k]
    BY <2>1 DEF subjectMatches
  <2> QED BY <2>2, PatternFacts, SubjectFacts DEF Matches
<1> QED BY <1>1, <1>2

\* subjectMatches as one of two cases, by the last token.
LEMMA MatchCases ==
    ASSUME NEW p, IsPattern(p), NEW s \in Subjects
    PROVE  subjectMatches(p, s) <=>
              IF p[Len(p)] = ">"
              THEN \A k \in 1 .. Len(p) - 1 : k <= Len(s) /\ (p[k] = "*" \/ p[k] = s[k])
              ELSE Len(p) = Len(s) /\ \A k \in 1 .. Len(p) : p[k] = "*" \/ p[k] = s[k]
<1>1. CASE p[Len(p)] = ">"
  <2>1. ASSUME Len(p) = Len(s), \A k \in 1 .. Len(p) : p[k] = "*" \/ p[k] = s[k]
        PROVE  FALSE
    BY <1>1, <2>1, PatternFacts, SubjectFacts
  <2> QED BY <1>1, <2>1, PatternFacts, SubjectFacts DEF subjectMatches
<1>2. CASE p[Len(p)] # ">"
  <2>1. \A k \in 1 .. Len(p) : p[k] # ">"
    BY <1>2, PatternFacts
  <2> QED BY <1>2, <2>1, PatternFacts, SubjectFacts DEF subjectMatches
<1> QED BY <1>1, <1>2
-----------------------------------------------------------------------------
(* The comparison of two patterns.                                           *)

\* subjectPatternsOverlap(l, r), up to the first ">".
Pair(l, r, k) == k <= Len(l) /\ k <= Len(r) /\ (l[k] = "*" \/ r[k] = "*" \/ l[k] = r[k])

LEMMA OverlapOpen ==
    ASSUME NEW p, IsPattern(p), NEW q, IsPattern(q), NEW i \in Nat, i >= 1,
           (i <= Len(p) /\ p[i] = ">") \/ (i <= Len(q) /\ q[i] = ">"),
           \A k \in 1 .. i - 1 : Pair(p, q, k)
    PROVE  subjectPatternsOverlap(p, q)
<1>1. i \in 1 .. Len(p) + Len(q)
  BY PatternFacts
<1> QED BY <1>1, Zenon DEF subjectPatternsOverlap, Pair

LEMMA OverlapSound ==
    ASSUME NEW p, IsPattern(p), NEW q, IsPattern(q),
           NEW s \in Subjects, subjectMatches(p, s), subjectMatches(q, s)
    PROVE  subjectPatternsOverlap(p, q)
<1>1. /\ p[Len(p)] = ">" =>
              \A k \in 1 .. Len(p) - 1 : k <= Len(s) /\ (p[k] = "*" \/ p[k] = s[k])
      /\ p[Len(p)] # ">" => Len(p) = Len(s) /\ \A k \in 1 .. Len(p) : p[k] = "*" \/ p[k] = s[k]
  BY MatchCases
<1>2. /\ q[Len(q)] = ">" =>
              \A k \in 1 .. Len(q) - 1 : k <= Len(s) /\ (q[k] = "*" \/ q[k] = s[k])
      /\ q[Len(q)] # ">" => Len(q) = Len(s) /\ \A k \in 1 .. Len(q) : q[k] = "*" \/ q[k] = s[k]
  BY MatchCases
<1>3. /\ Len(p) \in Nat /\ Len(q) \in Nat /\ Len(p) >= 1 /\ Len(q) >= 1
      /\ Len(s) \in Nat
  BY PatternFacts, SubjectFacts
<1>4. CASE p[Len(p)] = ">" /\ (q[Len(q)] = ">" => Len(p) <= Len(q))
  <2>1. \A k \in 1 .. Len(p) - 1 : Pair(p, q, k)
    BY <1>1, <1>2, <1>3, <1>4 DEF Pair
  <2> QED BY <1>3, <1>4, <2>1, OverlapOpen
<1>5. CASE q[Len(q)] = ">" /\ (p[Len(p)] = ">" => Len(q) <= Len(p))
  <2>1. \A k \in 1 .. Len(q) - 1 : Pair(p, q, k)
    BY <1>1, <1>2, <1>3, <1>5 DEF Pair
  <2> QED BY <1>3, <1>5, <2>1, OverlapOpen
<1>6. CASE p[Len(p)] # ">" /\ q[Len(q)] # ">"
  <2>1. Len(p) = Len(q) /\ \A k \in 1 .. Len(p) : Pair(p, q, k)
    BY <1>1, <1>2, <1>3, <1>6 DEF Pair
  <2> QED BY <2>1, Zenon DEF subjectPatternsOverlap, Pair
<1> QED BY <1>3, <1>4, <1>5, <1>6

\* What subjectPatternsOverlap says of the tokens, by the last ones.
LEMMA OverlapCases ==
    ASSUME NEW p, IsPattern(p), NEW q, IsPattern(q), subjectPatternsOverlap(p, q)
    PROVE  \/ /\ p[Len(p)] = ">" /\ \A k \in 1 .. Len(p) - 1 : Pair(p, q, k)
           \/ /\ q[Len(q)] = ">" /\ \A k \in 1 .. Len(q) - 1 : Pair(p, q, k)
           \/ /\ Len(p) = Len(q) /\ \A k \in 1 .. Len(p) : Pair(p, q, k)
              /\ p[Len(p)] # ">" /\ q[Len(q)] # ">"
<1>1. CASE \E i \in 1 .. Len(p) + Len(q) :
              /\ (i <= Len(p) /\ p[i] = ">") \/ (i <= Len(q) /\ q[i] = ">")
              /\ \A k \in 1 .. i - 1 : Pair(p, q, k)
  BY <1>1, PatternFacts
<1>2. CASE Len(p) = Len(q) /\ \A k \in 1 .. Len(p) : Pair(p, q, k)
  BY <1>2, PatternFacts
<1> QED BY <1>1, <1>2 DEF subjectPatternsOverlap, Pair

(* Two patterns that overlap have a subject that the dashboard matches with  *)
(* both: take the literal of either where there is one.                      *)
LEMMA OverlapWitness ==
    ASSUME NEW p, IsPattern(p), NEW q, IsPattern(q), subjectPatternsOverlap(p, q)
    PROVE  \E s \in Subjects : subjectMatches(p, s) /\ subjectMatches(q, s)
<1>1. PICK x : x \in Literals
  OBVIOUS
<1> DEFINE n == IF p[Len(p)] # ">" THEN Len(p) ELSE IF q[Len(q)] # ">" THEN Len(q)
                ELSE IF Len(p) <= Len(q) THEN Len(q) ELSE Len(p)
           s == [k \in 1 .. n |->
                   IF k <= Len(p) /\ p[k] \in Literals THEN p[k]
                   ELSE IF k <= Len(q) /\ q[k] \in Literals THEN q[k] ELSE x]
<1>2. n \in 1 .. MaxTokens
  BY PatternFacts
<1>3. s \in [1 .. n -> Literals]
  BY <1>1
<1>4. s \in Subjects /\ Len(s) = n
  BY <1>2, <1>3, SubjectMade
<1>5. \A k \in 1 .. n : k <= Len(p) /\ p[k] # ">" /\ (k <= Len(q) => Pair(p, q, k) \/ q[k] = ">")
                            => p[k] = "*" \/ p[k] = s[k]
  BY PatternFacts DEF Pair
<1>6. \A k \in 1 .. n : k <= Len(q) /\ q[k] # ">" /\ (k <= Len(p) => Pair(p, q, k) \/ p[k] = ">")
                            => q[k] = "*" \/ q[k] = s[k]
  BY PatternFacts DEF Pair
<1>7. \/ p[Len(p)] = ">" /\ \A k \in 1 .. Len(p) - 1 : Pair(p, q, k)
      \/ q[Len(q)] = ">" /\ \A k \in 1 .. Len(q) - 1 : Pair(p, q, k)
      \/ /\ Len(p) = Len(q) /\ \A k \in 1 .. Len(p) : Pair(p, q, k)
         /\ p[Len(p)] # ">" /\ q[Len(q)] # ">"
  BY OverlapCases
<1>8. /\ Len(p) \in Nat /\ Len(p) >= 1 /\ \A k \in 1 .. Len(p) - 1 : p[k] # ">"
      /\ Len(q) \in Nat /\ Len(q) >= 1 /\ \A k \in 1 .. Len(q) - 1 : q[k] # ">"
  BY PatternFacts
<1>9. ASSUME NEW k \in 1 .. Len(p), p[k] # ">"
      PROVE  k <= n /\ (k <= Len(q) => Pair(p, q, k) \/ q[k] = ">")
  <2>1. CASE p[Len(p)] = ">" /\ \A i \in 1 .. Len(p) - 1 : Pair(p, q, i)
    <3>1. k <= Len(q) => Pair(p, q, k) \/ q[k] = ">"
      BY <2>1, <1>8, <1>9
    <3>2. k <= n
      BY <2>1, <1>8, <1>9 DEF Pair
    <3> QED BY <3>1, <3>2
  <2>2. CASE q[Len(q)] = ">" /\ \A i \in 1 .. Len(q) - 1 : Pair(p, q, i)
    <3>1. k <= Len(q) => Pair(p, q, k) \/ q[k] = ">"
      BY <2>2, <1>8, <1>9
    <3>2. k <= n
      BY <2>2, <1>8, <1>9 DEF Pair
    <3> QED BY <3>1, <3>2
  <2>3. CASE /\ Len(p) = Len(q) /\ \A i \in 1 .. Len(p) : Pair(p, q, i)
             /\ p[Len(p)] # ">" /\ q[Len(q)] # ">"
    BY <2>3, <1>8, <1>9
  <2> QED BY <1>7, <2>1, <2>2, <2>3
<1>10. ASSUME NEW k \in 1 .. Len(q), q[k] # ">"
      PROVE  k <= n /\ (k <= Len(p) => Pair(p, q, k) \/ p[k] = ">")
  <2>1. CASE p[Len(p)] = ">" /\ \A i \in 1 .. Len(p) - 1 : Pair(p, q, i)
    <3>1. k <= Len(p) => Pair(p, q, k) \/ p[k] = ">"
      BY <2>1, <1>8, <1>10
    <3>2. k <= n
      BY <2>1, <1>8, <1>10 DEF Pair
    <3> QED BY <3>1, <3>2
  <2>2. CASE q[Len(q)] = ">" /\ \A i \in 1 .. Len(q) - 1 : Pair(p, q, i)
    <3>1. k <= Len(p) => Pair(p, q, k) \/ p[k] = ">"
      BY <2>2, <1>8, <1>10
    <3>2. k <= n
      BY <2>2, <1>8, <1>10 DEF Pair
    <3> QED BY <3>1, <3>2
  <2>3. CASE /\ Len(p) = Len(q) /\ \A i \in 1 .. Len(p) : Pair(p, q, i)
             /\ p[Len(p)] # ">" /\ q[Len(q)] # ">"
    BY <2>3, <1>8, <1>10
  <2> QED BY <1>7, <2>1, <2>2, <2>3
<1>11. /\ p[Len(p)] # ">" => Len(p) = n
       /\ q[Len(q)] # ">" => Len(q) = n
  BY <1>7, <1>8 DEF Pair
<1>12. n \in Nat
  BY <1>8
<1> HIDE DEF s, n
<1>13. ASSUME NEW k \in 1 .. Len(p), p[k] # ">"
       PROVE  k <= Len(s) /\ (p[k] = "*" \/ p[k] = s[k])
  <2>1. k \in 1 .. n /\ k <= Len(p)
    BY <1>8, <1>9, <1>12, <1>13
  <2>2. k <= Len(q) => Pair(p, q, k) \/ q[k] = ">"
    BY <1>9, <1>13
  <2>3. p[k] = "*" \/ p[k] = s[k]
    BY <2>1, <2>2, <1>5, <1>13
  <2> QED BY <2>1, <2>3, <1>4, <1>12
<1>14. ASSUME NEW k \in 1 .. Len(q), q[k] # ">"
       PROVE  k <= Len(s) /\ (q[k] = "*" \/ q[k] = s[k])
  <2>1. k \in 1 .. n /\ k <= Len(q)
    BY <1>8, <1>10, <1>12, <1>14
  <2>2. k <= Len(p) => Pair(p, q, k) \/ p[k] = ">"
    BY <1>10, <1>14
  <2>3. q[k] = "*" \/ q[k] = s[k]
    BY <2>1, <2>2, <1>6, <1>14
  <2> QED BY <2>1, <2>3, <1>4, <1>12
<1>15. subjectMatches(p, s)
  <2>1. CASE p[Len(p)] = ">"
    BY <2>1, <1>4, <1>8, <1>13, MatchCases
  <2>2. CASE p[Len(p)] # ">"
    <3>1. \A k \in 1 .. Len(p) : p[k] # ">"
      BY <2>2, <1>8
    <3> QED BY <2>2, <3>1, <1>4, <1>11, <1>13, MatchCases
  <2> QED BY <2>1, <2>2
<1>16. subjectMatches(q, s)
  <2>1. CASE q[Len(q)] = ">"
    BY <2>1, <1>4, <1>8, <1>14, MatchCases
  <2>2. CASE q[Len(q)] # ">"
    <3>1. \A k \in 1 .. Len(q) : q[k] # ">"
      BY <2>2, <1>8
    <3> QED BY <2>2, <3>1, <1>4, <1>11, <1>14, MatchCases
  <2> QED BY <2>1, <2>2
<1> QED BY <1>4, <1>15, <1>16
\* subjectPatternCovers, by the last token of the cover.
Under(c, d, k) == k <= Len(d) /\ d[k] # ">" /\ (c[k] = "*" \/ c[k] = d[k])

LEMMA CoverCases ==
    ASSUME NEW c, IsPattern(c), NEW d, IsPattern(d)
    PROVE  subjectPatternCovers(c, d) <=>
              IF c[Len(c)] = ">" THEN \A k \in 1 .. Len(c) - 1 : Under(c, d, k)
              ELSE Len(c) = Len(d) /\ \A k \in 1 .. Len(c) : Under(c, d, k)
<1>1. subjectPatternCovers(c, d) <=>
          \/ \E i \in 1 .. Len(c) : c[i] = ">" /\ \A k \in 1 .. i - 1 : Under(c, d, k)
          \/ Len(c) = Len(d) /\ \A k \in 1 .. Len(c) : Under(c, d, k)
  BY Zenon DEF subjectPatternCovers, Under
<1>2. CASE c[Len(c)] = ">"
  <2>1. ~Under(c, d, Len(c))
    BY <1>2, PatternFacts DEF Under
  <2> QED BY <1>1, <1>2, <2>1, PatternFacts
<1>3. CASE c[Len(c)] # ">"
  <2>1. \A k \in 1 .. Len(c) : c[k] # ">"
    BY <1>3, PatternFacts
  <2> QED BY <1>1, <1>3, <2>1
<1> QED BY <1>2, <1>3

(* A pattern that covers another matches all that the other matches.         *)
LEMMA CoverSound ==
    ASSUME NEW c, IsPattern(c), NEW d, IsPattern(d), subjectPatternCovers(c, d)
    PROVE  Broader(c, d)
<1> SUFFICES ASSUME NEW s \in Subjects, subjectMatches(d, s) PROVE subjectMatches(c, s)
  BY DEF Broader
<1>1. \A k \in 1 .. Len(c) : Under(c, d, k) => k <= Len(s) /\ (c[k] = "*" \/ c[k] = s[k])
  <2> SUFFICES ASSUME NEW k \in 1 .. Len(c), Under(c, d, k)
               PROVE  k <= Len(s) /\ (c[k] = "*" \/ c[k] = s[k])
    OBVIOUS
  <2>1. CASE d[Len(d)] = ">"
    <3>1. k \in 1 .. Len(d) - 1
      BY <2>1, PatternFacts DEF Under
    <3>2. k <= Len(s) /\ (d[k] = "*" \/ d[k] = s[k])
      BY <2>1, <3>1, MatchCases
    <3> QED BY <3>1, <3>2, PatternFacts, SubjectFacts DEF Under
  <2>2. CASE d[Len(d)] # ">"
    <3>1. k \in 1 .. Len(d)
      BY PatternFacts DEF Under
    <3>2. Len(d) = Len(s) /\ (d[k] = "*" \/ d[k] = s[k])
      BY <2>2, <3>1, MatchCases
    <3> QED BY <3>1, <3>2, PatternFacts, SubjectFacts DEF Under
  <2> QED BY <2>1, <2>2
<1>2. CASE c[Len(c)] = ">"
  <2>1. \A k \in 1 .. Len(c) - 1 : Under(c, d, k)
    BY <1>2, CoverCases
  <2>2. \A k \in 1 .. Len(c) - 1 : k \in 1 .. Len(c)
    BY PatternFacts
  <2>3. \A k \in 1 .. Len(c) - 1 : k <= Len(s) /\ (c[k] = "*" \/ c[k] = s[k])
    BY <1>1, <2>1, <2>2, Zenon
  <2> QED BY <1>2, <2>3, MatchCases
<1>3. CASE c[Len(c)] # ">"
  <2>1. Len(c) = Len(d) /\ \A k \in 1 .. Len(c) : Under(c, d, k)
    BY <1>3, CoverCases
  <2>2. d[Len(d)] # ">"
    BY <2>1, PatternFacts DEF Under
  <2>3. Len(d) = Len(s)
    BY <2>2, MatchCases
  <2> QED BY <1>1, <1>3, <2>1, <2>3, MatchCases
<1> QED BY <1>2, <1>3

(* A pattern that takes all of another, as the server matches, covers it: a  *)
(* subject with the other's literals, and one the cover does not name        *)
(* wherever the other has a wildcard, would slip past a cover that is not.   *)
LEMMA CoverComplete ==
    ASSUME NEW c, IsPattern(c), NEW d, IsPattern(d), Covers(c, d)
    PROVE  subjectPatternCovers(c, d)
<1> DEFINE avoid(k) == CHOOSE x \in Literals : x # c[k]
           made(n) == [k \in 1 .. n |->
                          IF k <= Len(d) /\ d[k] \in Literals THEN d[k] ELSE avoid(k)]
<1>1. \A k : avoid(k) \in Literals /\ avoid(k) # c[k]
  <2> TAKE k
  <2>1. \E x \in Literals : x # c[k]
    OBVIOUS
  <2> QED BY <2>1
<1> HIDE DEF avoid
<1>2. /\ Len(c) \in Nat /\ Len(c) >= 1 /\ Len(c) < MaxTokens
      /\ Len(d) \in Nat /\ Len(d) >= 1 /\ Len(d) < MaxTokens
      /\ \A k \in 1 .. Len(d) : d[k] \in Literals \cup {"*", ">"}
      /\ \A k \in 1 .. Len(d) - 1 : d[k] # ">"
      /\ \A k \in 1 .. Len(c) : c[k] \in Literals \cup {"*", ">"}
      /\ \A k \in 1 .. Len(c) - 1 : c[k] # ">"
  BY PatternFacts
\* What a made subject tells of the cover.
<1>3. ASSUME NEW n \in 1 .. MaxTokens, n >= Len(d), n > Len(d) => d[Len(d)] = ">"
      PROVE  /\ Len(c) <= n
             /\ n > Len(c) => c[Len(c)] = ">"
             /\ \A k \in 1 .. Len(c) : c[k] # ">" =>
                   c[k] = "*" \/ (k <= Len(d) /\ d[k] = c[k])
  <2>1. made(n) \in [1 .. n -> Literals]
    BY <1>1
  <2>2. made(n) \in Subjects /\ Len(made(n)) = n
    BY <2>1, SubjectMade
  <2>3. \A k \in 1 .. Len(d) : k <= n /\ (d[k] \in {"*", ">"} \/ d[k] = made(n)[k])
    BY <1>2, <1>3
  <2>4. Matches(d, made(n))
    BY <2>2, <2>3, <1>3, Zenon DEF Matches
  <2>5. Matches(c, made(n))
    BY <2>2, <2>4 DEF Covers
  <2>6. /\ \A k \in 1 .. Len(c) : k <= n /\ (c[k] \in {"*", ">"} \/ c[k] = made(n)[k])
        /\ n > Len(c) => c[Len(c)] = ">"
    BY <2>2, <2>5, Zenon DEF Matches
  <2> HIDE DEF made
  <2>7. Len(c) <= n
    <3>1. Len(c) \in 1 .. Len(c)
      BY <1>2
    <3> QED BY <2>6, <3>1
  <2>8. ASSUME NEW k \in 1 .. Len(c), c[k] # ">", c[k] # "*"
        PROVE  k <= Len(d) /\ d[k] = c[k]
    <3>1. k \in 1 .. n /\ c[k] = made(n)[k]
      <4>1. k <= n /\ c[k] = made(n)[k]
        BY <2>6, <2>8
      <4> QED BY <4>1, <1>2
    <3>2. made(n)[k] # avoid(k)
      BY <3>1, <1>1
    <3> QED BY <3>1, <3>2 DEF made
  <2> QED BY <2>6, <2>7, <2>8
<1>4. Len(d) \in 1 .. MaxTokens /\ Len(d) + 1 \in 1 .. MaxTokens
  BY <1>2
<1>5. /\ Len(c) <= Len(d)
      /\ Len(d) > Len(c) => c[Len(c)] = ">"
      /\ \A k \in 1 .. Len(c) : c[k] # ">" => c[k] = "*" \/ (k <= Len(d) /\ d[k] = c[k])
  BY <1>2, <1>3, <1>4
<1>6. CASE c[Len(c)] = ">"
  <2>1. ASSUME NEW k \in 1 .. Len(c) - 1
        PROVE  Under(c, d, k)
    <3>1. k \in 1 .. Len(c) /\ k \in 1 .. Len(d) - 1 /\ k <= Len(d)
      BY <1>2, <1>5
    <3>2. c[k] # ">" /\ d[k] # ">"
      BY <1>2, <3>1
    <3> QED BY <1>5, <3>1, <3>2 DEF Under
  <2> QED BY <1>6, <2>1, CoverCases
<1>7. CASE c[Len(c)] # ">"
  <2>1. Len(c) = Len(d)
    BY <1>2, <1>5, <1>7
  <2>2. ASSUME d[Len(d)] = ">" PROVE FALSE
    BY <1>2, <1>3, <1>4, <1>7, <2>1, <2>2
  <2>3. \A k \in 1 .. Len(c) : Under(c, d, k)
    BY <1>2, <1>5, <1>7, <2>1, <2>2 DEF Under
  <2> QED BY <1>7, <2>1, <2>3, CoverCases
<1> QED BY <1>6, <1>7

-----------------------------------------------------------------------------
(* The lists.                                                                *)

THEOREM TypeCorrect == Spec => []TypeOK
<1>1. Init => TypeOK
  BY ServerAssumption DEF Init, TypeOK
<1>2. TypeOK /\ [Next]_vars => TypeOK'
  <2> SUFFICES ASSUME TypeOK, [Next]_vars PROVE TypeOK'
    OBVIOUS
  <2>1. ASSUME NEW name \in Streams, NEW subjects \in SubjectSets, SaveStream(name, subjects)
        PROVE  TypeOK'
    BY <2>1, ServerAssumption DEF SaveStream, Change, TypeOK
  <2>2. ASSUME NEW name \in Streams, DeleteStream(name)
        PROVE  TypeOK'
    BY <2>2, ServerAssumption DEF DeleteStream, Change, TypeOK
  <2>3. ASSUME NEW c \in Consumers, NEW source \in Configs, SaveConsumer(c, source)
        PROVE  TypeOK'
    BY <2>3, ServerAssumption DEF SaveConsumer, Change, TypeOK
  <2>4. CASE RefetchStreams
    BY <2>4 DEF RefetchStreams, TypeOK
  <2>5. ASSUME NEW name \in Streams, RefetchConsumers(name)
        PROVE  TypeOK'
    BY <2>5, ServerAssumption DEF RefetchConsumers, TypeOK
  <2>6. CASE UNCHANGED vars
    BY <2>6 DEF vars, TypeOK
  <2> QED BY <2>1, <2>2, <2>3, <2>4, <2>5, <2>6 DEF Next
<1> QED BY <1>1, <1>2, PTL DEF Spec

\* Subjects of different streams share none, at the server and in its answer.
Apart(lists) ==
    \A n, m \in Streams : n # m /\ lists[n] # None /\ lists[m] # None =>
        \A p \in lists[n], q \in lists[m] : ~Meet(p, q)

\* A consumer, as the server and the page know it, has one kind of filter.
Kinds ==
    /\ \A c \in Consumers : filters[c] # None => OneKind(filters[c])
    /\ \A n \in Streams, c \in Consumers : consumers[n][c] # None => OneKind(consumers[n][c])

IInv == TypeOK /\ Apart(config) /\ Apart(streams) /\ Kinds

LEMMA Inductive == Spec => []IInv
<1>1. Init => Apart(config) /\ Apart(streams) /\ Kinds
  BY ServerAssumption DEF Init, Apart, Kinds
<1>2. TypeOK /\ Apart(config) /\ Apart(streams) /\ Kinds /\ [Next]_vars
         => Apart(config)' /\ Apart(streams)' /\ Kinds'
  <2> SUFFICES ASSUME TypeOK, Apart(config), Apart(streams), Kinds, [Next]_vars
               PROVE  Apart(config') /\ Apart(streams') /\ Kinds'
    BY DEF Apart
  <2>1. ASSUME NEW name \in Streams, NEW subjects \in SubjectSets, SaveStream(name, subjects)
        PROVE  Apart(config') /\ Apart(streams') /\ Kinds'
    <3>1. \A p, q \in Patterns : Meet(p, q) <=> Meet(q, p)
      BY DEF Meet
    <3>2. subjects \subseteq Patterns
      BY PatternsAssumption
    <3>3. \A n \in Streams : config[n] # None => config[n] \subseteq Patterns
      BY PatternsAssumption DEF TypeOK
    <3>4. Apart(config')
      BY <2>1, <3>1, <3>2, <3>3 DEF SaveStream, Allowed, Apart, TypeOK
    <3> QED BY <2>1, <3>4 DEF SaveStream, Kinds
  <2>2. ASSUME NEW name \in Streams, DeleteStream(name)
        PROVE  Apart(config') /\ Apart(streams') /\ Kinds'
    BY <2>2 DEF DeleteStream, Apart, Kinds, TypeOK
  <2>3. ASSUME NEW c \in Consumers, NEW source \in Configs, SaveConsumer(c, source)
        PROVE  Apart(config') /\ Apart(streams') /\ Kinds'
    BY <2>3 DEF SaveConsumer, Kinds, TypeOK
  <2>4. CASE RefetchStreams
    BY <2>4 DEF RefetchStreams, Kinds
  <2>5. ASSUME NEW name \in Streams, RefetchConsumers(name)
        PROVE  Apart(config') /\ Apart(streams') /\ Kinds'
    BY <2>5 DEF RefetchConsumers, Kinds, TypeOK
  <2>6. CASE UNCHANGED vars
    BY <2>6 DEF vars, Kinds
  <2> QED BY <2>1, <2>2, <2>3, <2>4, <2>5, <2>6 DEF Next
<1> QED BY <1>1, <1>2, TypeCorrect, PTL DEF Spec, IInv

\* What the page knows of a consumer it lists, and of a subject it shows.
LEMMA Listed ==
    ASSUME IInv, NEW c \in allConsumers
    PROVE  /\ c \in Consumers /\ Home[c] \in Streams /\ streams[Home[c]] # None
           /\ streams[Home[c]] \subseteq Patterns
           /\ Wanted(Source(c)) \subseteq Patterns
           /\ consumerFilterSubjects(Source(c)) = Wanted(Source(c))
<1>1. c \in Consumers /\ Home[c] \in Streams /\ streams[Home[c]] # None /\ Source(c) # None
  BY ServerAssumption DEF allConsumers, Source
<1>2. Source(c) \in Configs /\ OneKind(Source(c))
  BY <1>1 DEF IInv, TypeOK, Kinds, Source
<1>3. streams[Home[c]] \subseteq Patterns
  BY <1>1, PatternsAssumption DEF IInv, TypeOK
<1> QED BY <1>1, <1>2, <1>3, PatternsAssumption, ServerAssumption
        DEF Configs, OneKind, Wanted, consumerFilterSubjects

LEMMA Shown ==
    ASSUME IInv, NEW row \in streamSubjects
    PROVE  /\ row.stream \in Streams /\ streams[row.stream] # None
           /\ row.subject \in Patterns \cup {<<">">>} /\ IsPattern(row.subject)
           /\ streams[row.stream] # {} => row.subject \in streams[row.stream]
           /\ streams[row.stream] = {} => row.subject = <<">">>
           /\ row = [stream |-> row.stream, subject |-> row.subject]
<1>1. PICK name \in Streams : /\ streams[name] # None
                              /\ \E p \in IF streams[name] = {} THEN {<<">">>} ELSE streams[name] :
                                     row = [stream |-> name, subject |-> p]
  BY DEF streamSubjects
<1>2. streams[name] \subseteq Patterns
  BY <1>1, PatternsAssumption DEF IInv, TypeOK
<1>3. IsPattern(<<">">>)
  BY DEF IsPattern
<1> QED BY <1>1, <1>2, <1>3, PatternsAssumption

\* The filter by which a consumer can match a row.
Filter(row, c, f) ==
    /\ f \in Patterns \cup {<<">">>} /\ IsPattern(f)
    /\ f \in Wanted(Source(c)) \/ (Wanted(Source(c)) = {} /\ f = row.subject)
    /\ subjectPatternsOverlap(row.subject, f)

LEMMA RowMatched ==
    ASSUME IInv, NEW row \in streamSubjects, NEW match \in RowMatches(row)
    PROVE  /\ match.consumer \in allConsumers /\ Home[match.consumer] = row.stream
           /\ Filter(row, match.consumer, match.filter)
           /\ match.relationship = relationship(row.subject, match.filter)
<1>1. PICK c \in allConsumers :
          \E f \in IF consumerFilterSubjects(Source(c)) = {} THEN {row.subject}
                   ELSE consumerFilterSubjects(Source(c)) :
              /\ match = [consumer |-> c, filter |-> f,
                          relationship |-> relationship(row.subject, f)]
              /\ Home[c] = row.stream
              /\ subjectPatternsOverlap(row.subject, f)
  BY DEF RowMatches
<1>2. PICK f \in IF consumerFilterSubjects(Source(c)) = {} THEN {row.subject}
                 ELSE consumerFilterSubjects(Source(c)) :
          /\ match = [consumer |-> c, filter |-> f,
                      relationship |-> relationship(row.subject, f)]
          /\ Home[c] = row.stream
          /\ subjectPatternsOverlap(row.subject, f)
  BY <1>1
<1>3. consumerFilterSubjects(Source(c)) = Wanted(Source(c)) /\ Wanted(Source(c)) \subseteq Patterns
  BY Listed
<1>4. IsPattern(row.subject) /\ row.subject \in Patterns \cup {<<">">>}
  BY Shown
<1>5. f \in Patterns \cup {<<">">>} /\ IsPattern(f)
  BY <1>2, <1>3, <1>4, PatternsAssumption
<1> QED BY <1>2, <1>3, <1>5 DEF Filter

LEMMA RowMatching ==
    ASSUME IInv, NEW row \in streamSubjects, NEW c \in allConsumers, Home[c] = row.stream,
           NEW f, Filter(row, c, f)
    PROVE  RowMatches(row) # {} /\ \E match \in RowMatches(row) : match.consumer = c
<1>1. consumerFilterSubjects(Source(c)) = Wanted(Source(c))
  BY Listed
<1>2. f \in IF consumerFilterSubjects(Source(c)) = {} THEN {row.subject}
            ELSE consumerFilterSubjects(Source(c))
  BY <1>1 DEF Filter
<1>3. [consumer |-> c, filter |-> f, relationship |-> relationship(row.subject, f)]
          \in RowMatches(row)
  BY <1>2 DEF RowMatches, Filter
<1> QED BY <1>3

(* An orphan starves, and a subject that is none has a receiver.             *)
LEMMA Orphans == ASSUME IInv PROVE OrphansStarve
<1> SUFFICES ASSUME NEW row \in streamSubjects
    PROVE LET own == {c \in allConsumers : Home[c] = row.stream}
          IN  /\ row \in orphanStreamSubjects => \A c \in own, s \in Subjects :
                     ~(Matches(row.subject, s) /\ Receives(Source(c), s))
              /\ row \notin orphanStreamSubjects => \E c \in own, s \in Subjects :
                     subjectMatches(row.subject, s) /\ consumerSubjectMatches(Source(c), s)
  BY DEF OrphansStarve
<1>1. IsPattern(row.subject) /\ row.subject \in Patterns \cup {<<">">>}
  BY Shown
<1>2. ASSUME NEW c \in allConsumers, Home[c] = row.stream, NEW s \in Subjects,
             Matches(row.subject, s), Receives(Source(c), s)
      PROVE  RowMatches(row) # {}
  <2>1. subjectMatches(row.subject, s)
    BY <1>1, <1>2, MatchImplies
  <2>2. CASE Wanted(Source(c)) = {}
    <3>1. Filter(row, c, row.subject)
      BY <2>1, <2>2, <1>1, OverlapSound DEF Filter
    <3> QED BY <3>1, <1>2, RowMatching
  <2>3. CASE Wanted(Source(c)) # {}
    <3>1. PICK f \in Wanted(Source(c)) : Matches(f, s)
      BY <2>3, <1>2 DEF Receives
    <3>2. f \in Patterns /\ IsPattern(f)
      BY Listed, PatternsAssumption
    <3>3. subjectMatches(f, s)
      BY <3>1, <3>2, MatchImplies
    <3>4. Filter(row, c, f)
      BY <2>1, <3>2, <3>3, <1>1, OverlapSound DEF Filter
    <3> QED BY <3>4, <1>2, RowMatching
  <2> QED BY <2>2, <2>3
<1>3. ASSUME NEW match \in RowMatches(row)
      PROVE  \E c \in allConsumers, s \in Subjects :
                 /\ Home[c] = row.stream
                 /\ subjectMatches(row.subject, s) /\ consumerSubjectMatches(Source(c), s)
  <2> DEFINE c == match.consumer
             f == match.filter
  <2>1. c \in allConsumers /\ Home[c] = row.stream /\ Filter(row, c, f)
    BY RowMatched
  <2>2. PICK s \in Subjects : subjectMatches(row.subject, s) /\ subjectMatches(f, s)
    BY <2>1, <1>1, OverlapWitness DEF Filter
  <2>3. consumerFilterSubjects(Source(c)) = Wanted(Source(c))
    BY <2>1, Listed
  <2>4. consumerSubjectMatches(Source(c), s)
    BY <2>1, <2>2, <2>3 DEF consumerSubjectMatches, Filter
  <2> QED BY <2>1, <2>2, <2>4
<1> QED BY <1>2, <1>3 DEF orphanStreamSubjects

(* A filter that is reported as unmatched starves, one that is not does not. *)
LEMMA Unmatched == ASSUME IInv PROVE UnmatchedStarve
<1> SUFFICES ASSUME NEW c \in allConsumers, NEW f \in Wanted(Source(c))
    PROVE /\ <<c, f>> \in unmatchedConsumerFilters => \A p \in streams[Home[c]] : ~Meet(p, f)
          /\ <<c, f>> \notin unmatchedConsumerFilters =>
                \E p \in streams[Home[c]], s \in Subjects :
                    subjectMatches(p, s) /\ subjectMatches(f, s)
  BY DEF UnmatchedStarve
<1>1. /\ f \in Patterns /\ IsPattern(f) /\ f \in consumerFilterSubjects(Source(c))
      /\ \A p \in streams[Home[c]] : IsPattern(p)
  BY Listed, PatternsAssumption
<1>2. <<c, f>> \in unmatchedConsumerFilters <=>
          ~\E p \in streams[Home[c]] : subjectPatternsOverlap(p, f)
  BY <1>1 DEF unmatchedConsumerFilters
<1>3. ASSUME NEW p \in streams[Home[c]], Meet(p, f)
      PROVE  subjectPatternsOverlap(p, f)
  <2>1. PICK s \in Subjects : Matches(p, s) /\ Matches(f, s)
    BY <1>3 DEF Meet
  <2>2. subjectMatches(p, s) /\ subjectMatches(f, s)
    BY <2>1, <1>1, MatchImplies
  <2> QED BY <2>2, <1>1, OverlapSound
<1>4. ASSUME NEW p \in streams[Home[c]], subjectPatternsOverlap(p, f)
      PROVE  \E s \in Subjects : subjectMatches(p, s) /\ subjectMatches(f, s)
  BY <1>1, <1>4, OverlapWitness
<1> QED BY <1>2, <1>3, <1>4

(* The badge names the broader side.                                         *)
LEMMA Badges == ASSUME IInv PROVE BadgesTell
<1> SUFFICES ASSUME NEW row \in streamSubjects, NEW match \in RowMatches(row)
    PROVE CASE match.relationship = "exact" -> match.filter = row.subject
            [] match.relationship = "right" -> Broader(match.filter, row.subject)
            [] match.relationship = "left" -> Broader(row.subject, match.filter)
            [] OTHER -> ~Covers(match.filter, row.subject) /\ ~Covers(row.subject, match.filter)
  BY DEF BadgesTell
<1>1. IsPattern(row.subject) /\ IsPattern(match.filter)
         /\ match.relationship = relationship(row.subject, match.filter)
  BY Shown, RowMatched DEF Filter
<1> DEFINE r == match.relationship
           p == row.subject
           f == match.filter
<1>2. r \in {"exact", "right", "left", "overlap"}
  BY <1>1 DEF relationship
<1>3. r = "exact" => f = p
  BY <1>1 DEF relationship
<1>4. r = "right" => Broader(f, p)
  <2>1. r = "right" => subjectPatternCovers(f, p)
    BY <1>1 DEF relationship
  <2> QED BY <2>1, <1>1, CoverSound
<1>5. r = "left" => Broader(p, f)
  <2>1. r = "left" => subjectPatternCovers(p, f)
    BY <1>1 DEF relationship
  <2> QED BY <2>1, <1>1, CoverSound
<1>6. r = "overlap" => ~Covers(f, p) /\ ~Covers(p, f)
  <2>1. r = "overlap" => ~subjectPatternCovers(f, p) /\ ~subjectPatternCovers(p, f)
    BY <1>1 DEF relationship
  <2> QED BY <2>1, <1>1, CoverComplete
<1> QED BY <1>2, <1>3, <1>4, <1>5, <1>6, Zenon

(* Overlaps between streams, and what they cannot be.                        *)
LEMMA Overlaps == ASSUME IInv PROVE OverlapsShare
<1> SUFFICES ASSUME NEW left \in streamSubjects, NEW right \in streamSubjects,
                    left.stream # right.stream,
                    streams[left.stream] # {}, streams[right.stream] # {}
    PROVE /\ <<left, right>> \in overlappingStreamSubjects <=>
                \E s \in Subjects : subjectMatches(left.subject, s)
                                        /\ subjectMatches(right.subject, s)
          /\ ~Meet(left.subject, right.subject)
  BY DEF OverlapsShare
<1>1. /\ left.stream \in Streams /\ right.stream \in Streams
      /\ streams[left.stream] # None /\ streams[right.stream] # None
      /\ left.subject \in streams[left.stream] /\ right.subject \in streams[right.stream]
      /\ IsPattern(left.subject) /\ IsPattern(right.subject)
  BY Shown
<1>2. <<left, right>> \in overlappingStreamSubjects <=>
          subjectPatternsOverlap(left.subject, right.subject)
  BY <1>1 DEF overlappingStreamSubjects
<1>3. ~Meet(left.subject, right.subject)
  BY <1>1 DEF IInv, Apart
<1> QED BY <1>1, <1>2, <1>3, OverlapSound, OverlapWitness

(* The topology draws the matches of the subject explorer.                   *)
LEMMA Topology == ASSUME IInv PROVE TopologyAgrees
<1>1. ASSUME NEW row \in streamSubjects, streams[row.stream] # {},
             NEW c \in allConsumers, Home[c] = row.stream
      PROVE  consumerFilterOverlapsSubject(Source(c), row.subject)
                <=> \E match \in RowMatches(row) : match.consumer = c
  <2>1. /\ consumerFilterSubjects(Source(c)) = Wanted(Source(c))
        /\ Wanted(Source(c)) \subseteq Patterns
        /\ IsPattern(row.subject) /\ row.subject \in Patterns \cup {<<">">>}
    BY Listed, Shown
  <2>2. ASSUME consumerFilterOverlapsSubject(Source(c), row.subject)
        PROVE  \E match \in RowMatches(row) : match.consumer = c
    <3>1. CASE Wanted(Source(c)) = {}
      <4>1. \A k \in 1 .. Len(row.subject) : k <= Len(row.subject)
        BY <2>1, PatternFacts
      <4>2. subjectPatternsOverlap(row.subject, row.subject)
        BY <4>1, Zenon DEF subjectPatternsOverlap
      <4>3. Filter(row, c, row.subject)
        BY <4>2, <3>1, <2>1 DEF Filter
      <4> QED BY <4>3, <1>1, RowMatching
    <3>2. CASE Wanted(Source(c)) # {}
      <4>1. PICK f \in Wanted(Source(c)) : subjectPatternsOverlap(row.subject, f)
        BY <3>2, <2>1, <2>2 DEF consumerFilterOverlapsSubject
      <4>2. Filter(row, c, f)
        BY <4>1, <2>1, PatternsAssumption DEF Filter
      <4> QED BY <4>2, <1>1, RowMatching
    <3> QED BY <3>1, <3>2
  <2>3. ASSUME NEW match \in RowMatches(row), match.consumer = c
        PROVE  consumerFilterOverlapsSubject(Source(c), row.subject)
    <3>1. Filter(row, c, match.filter)
      BY <1>1, <2>3, RowMatched
    <3> QED BY <3>1, <2>1 DEF consumerFilterOverlapsSubject, Filter
  <2> QED BY <2>2, <2>3
<1>2. ASSUME NEW row \in streamSubjects, streams[row.stream] # {}
      PROVE  matchingConsumerIds(row.stream, row.subject) =
                 {match.consumer : match \in RowMatches(row)}
  <2>1. \A match \in RowMatches(row) :
            match.consumer \in allConsumers /\ Home[match.consumer] = row.stream
    BY <1>2, RowMatched
  <2>2. \A c \in allConsumers : Home[c] = row.stream =>
            (consumerFilterOverlapsSubject(Source(c), row.subject)
                <=> \E match \in RowMatches(row) : match.consumer = c)
    BY <1>1, <1>2
  <2> QED BY <2>1, <2>2 DEF matchingConsumerIds
<1>3. ASSUME NEW row \in streamSubjects, streams[row.stream] # {},
             NEW c \in allConsumers, Home[c] = row.stream
      PROVE  row.subject \in matchingSubjects(c)
                <=> \E match \in RowMatches(row) : match.consumer = c
  <2>1. row.subject \in streams[Home[c]]
    BY <1>3, Shown
  <2> QED BY <2>1, <1>1, <1>3 DEF matchingSubjects
<1> QED BY <1>2, <1>3, Zenon DEF TopologyAgrees

(* What the subject explorer reports follows from what is delivered, for all *)
(* patterns, and for any two answers it may hold together.                   *)
THEOREM AnalysisFollows == Spec => []AnalysisFollowsDelivery
<1>1. IInv => AnalysisFollowsDelivery
  BY Orphans, Unmatched, Badges, Overlaps, Topology DEF AnalysisFollowsDelivery
<1> QED BY <1>1, Inductive, PTL

(* The probe misses no receiver, and what it adds rests on an empty ">".     *)
THEOREM ProbeFinds == Spec => []ProbeFindsAll
<1>1. IInv => ProbeFindsAll
  <2> SUFFICES ASSUME IInv, NEW s \in Subjects, NEW c \in allConsumers
      PROVE LET subjects == streams[Home[c]]
                delivered == Stores(subjects, s) /\ Receives(Source(c), s)
            IN  /\ delivered /\ subjects # {} => c \in probeConsumers(s)
                /\ c \in probeConsumers(s) /\ ~delivered =>
                       \E p \in subjects \cup Wanted(Source(c)) : EmptyTail(p, s)
    BY DEF ProbeFindsAll
  <2> DEFINE subjects == streams[Home[c]]
  <2>1. /\ Home[c] \in Streams /\ subjects # None
        /\ consumerFilterSubjects(Source(c)) = Wanted(Source(c))
        /\ \A p \in subjects \cup Wanted(Source(c)) : IsPattern(p)
    BY Listed, PatternsAssumption
  <2>2. c \in probeConsumers(s) <=>
            /\ \E p \in subjects : subjectMatches(p, s)
            /\ Wanted(Source(c)) = {} \/ \E f \in Wanted(Source(c)) : subjectMatches(f, s)
    BY <2>1 DEF probeConsumers, probeStreams, consumerSubjectMatches
  <2>3. \A p \in subjects \cup Wanted(Source(c)) : Matches(p, s) => subjectMatches(p, s)
    BY <2>1, MatchImplies
  <2>4. \A p \in subjects \cup Wanted(Source(c)) :
            subjectMatches(p, s) => Matches(p, s) \/ EmptyTail(p, s)
    BY <2>1, MatchOnlyTail
  <2>5. Stores(subjects, s) /\ Receives(Source(c), s) /\ subjects # {} => c \in probeConsumers(s)
    BY <2>2, <2>3 DEF Stores, Receives
  <2>6. c \in probeConsumers(s) /\ ~(Stores(subjects, s) /\ Receives(Source(c), s)) =>
            \E p \in subjects \cup Wanted(Source(c)) : EmptyTail(p, s)
    BY <2>2, <2>4 DEF Stores, Receives
  <2> QED BY <2>5, <2>6
<1> QED BY <1>1, Inductive, PTL

-----------------------------------------------------------------------------
(* The filter of a history read.                                             *)

(* A set of numbers that is not empty has a least one: the induction on the  *)
(* tokens of a pattern below is about the first token that breaks the rule.  *)
LEMMA LeastElement ==
    ASSUME NEW T \in SUBSET Nat, T # {}
    PROVE  \E x \in T : \A y \in T : x <= y
<1>1. PICK R : R = {ss \in Nat \X Nat : ss[1] < ss[2]}
  OBVIOUS
<1>2. IsWellFoundedOn(R, Nat)
  BY <1>1, NatLessThanWellFounded DEF OpToRel
<1>3. PICK x \in T : \A y \in T : ~(<<y, x>> \in R)
  BY <1>2, WFMin
<1>4. ASSUME NEW y \in T PROVE x <= y
  <2>1. <<y, x>> \in Nat \X Nat /\ <<y, x>>[1] = y /\ <<y, x>>[2] = x
    OBVIOUS
  <2>2. ~(y < x)
    BY <1>1, <1>3, <2>1, Zenon
  <2> QED BY <2>2
<1> QED BY <1>4

(* Cuts that start at the first token and take one token each.               *)
LEMMA UnitCuts ==
    ASSUME NEW m \in Nat, NEW cut, cut[1] = 1,
           \A k \in 1 .. m : cut[k + 1] = cut[k] + 1
    PROVE  \A k \in 1 .. m + 1 : cut[k] = k
<1>1. PICK T : T = {k \in 1 .. m + 1 : cut[k] # k}
  OBVIOUS
<1>2. ASSUME T # {} PROVE FALSE
  <2>1. T \in SUBSET Nat
    BY <1>1
  <2>2. PICK x \in T : \A y \in T : x <= y
    BY <1>2, <2>1, LeastElement
  <2>3. x \in 1 .. m + 1 /\ cut[x] # x
    BY <1>1, <2>2
  <2>4. x - 1 \in 1 .. m /\ (x - 1) + 1 = x
    BY <2>3
  <2>5. x - 1 \notin T
    BY <2>2, <2>4
  <2>6. cut[x - 1] = x - 1
    BY <1>1, <2>4, <2>5
  <2>7. cut[(x - 1) + 1] = cut[x - 1] + 1
    BY <2>4
  <2> QED BY <2>3, <2>4, <2>6, <2>7
<1> QED BY <1>1, <1>2

(* What the server matches, the filter of a history read lets through.       *)
LEMMA RegexComplete ==
    ASSUME NEW p, IsPattern(p), NEW s \in Subjects, Matches(p, s)
    PROVE  natsSubjectToRegex(p, s)
<1>1. /\ Len(p) \in Nat /\ Len(p) >= 1 /\ Len(s) \in Nat /\ Len(s) >= 1
      /\ \A k \in 1 .. Len(p) - 1 : p[k] # ">"
      /\ \A k \in 1 .. Len(s) : s[k] # ">"
  BY PatternFacts, SubjectFacts
<1>2. /\ \A k \in 1 .. Len(p) : k <= Len(s) /\ (p[k] \in {"*", ">"} \/ p[k] = s[k])
      /\ Len(s) > Len(p) => p[Len(p)] = ">"
  BY DEF Matches
<1>3. Len(p) <= Len(s)
  BY <1>1, <1>2
<1>4. PICK cut : cut = [k \in 1 .. Len(p) + 1 |-> IF k <= Len(p) THEN k ELSE Len(s) + 1]
  OBVIOUS
<1>5. cut \in [1 .. Len(p) + 1 -> 1 .. Len(s) + 1]
  BY <1>1, <1>3, <1>4
<1>6. cut[1] = 1 /\ cut[Len(p) + 1] = Len(s) + 1
  BY <1>1, <1>4
<1>7. ASSUME NEW k \in 1 .. Len(p)
      PROVE  IF p[k] = ">" THEN cut[k + 1] > cut[k]
             ELSE /\ cut[k + 1] = cut[k] + 1
                  /\ p[k] = "*" \/ p[k] = s[cut[k]]
  <2>1. cut[k] = k
    BY <1>1, <1>4
  <2>2. CASE k < Len(p)
    <3>1. cut[k + 1] = k + 1
      BY <1>1, <1>4, <2>2
    <3> QED BY <1>1, <1>2, <2>1, <2>2, <3>1
  <2>3. CASE k = Len(p)
    <3>1. cut[k + 1] = Len(s) + 1
      BY <1>6, <2>3
    <3> QED BY <1>1, <1>2, <1>3, <2>1, <2>3, <3>1
  <2> QED BY <1>1, <2>2, <2>3
<1> QED BY <1>5, <1>6, <1>7, Zenon DEF natsSubjectToRegex

(* And nothing else.                                                         *)
LEMMA RegexSound ==
    ASSUME NEW p, IsPattern(p), NEW s \in Subjects, natsSubjectToRegex(p, s)
    PROVE  Matches(p, s)
<1>1. /\ Len(p) \in Nat /\ Len(p) >= 1 /\ Len(s) \in Nat
      /\ \A k \in 1 .. Len(p) - 1 : p[k] # ">"
  BY PatternFacts, SubjectFacts
<1>2. PICK cut \in [1 .. Len(p) + 1 -> 1 .. Len(s) + 1] :
        /\ cut[1] = 1 /\ cut[Len(p) + 1] = Len(s) + 1
        /\ \A k \in 1 .. Len(p) :
               IF p[k] = ">" THEN cut[k + 1] > cut[k]
               ELSE /\ cut[k + 1] = cut[k] + 1
                    /\ p[k] = "*" \/ p[k] = s[cut[k]]
  BY Zenon DEF natsSubjectToRegex
<1>3. \A k \in 1 .. (Len(p) - 1) + 1 : cut[k] = k
  <2>1. Len(p) - 1 \in Nat /\ \A k \in 1 .. Len(p) - 1 : cut[k + 1] = cut[k] + 1
    BY <1>1, <1>2
  <2> QED BY <1>2, <2>1, UnitCuts
<1>4. \A k \in 1 .. Len(p) : cut[k] = k /\ cut[k + 1] \in 1 .. Len(s) + 1
  BY <1>1, <1>2, <1>3
<1>5. \A k \in 1 .. Len(p) : k <= Len(s) /\ (p[k] \in {"*", ">"} \/ p[k] = s[k])
  BY <1>1, <1>2, <1>4
<1>6. p[Len(p)] # ">" => Len(s) = Len(p)
  BY <1>1, <1>2, <1>4
<1> QED BY <1>1, <1>5, <1>6 DEF Matches

(* The history filter and the server agree on every pattern and subject.     *)
LEMMA FilterAgrees == HistoryFilterAgrees
<1>1. ASSUME NEW s \in Subjects, NEW p \in Patterns
      PROVE  natsSubjectToRegex(p, s) = Matches(p, s)
  <2>1. IsPattern(p)
    BY PatternsAssumption
  <2>2. natsSubjectToRegex(p, s) <=> Matches(p, s)
    BY <2>1, RegexComplete, RegexSound
  <2> QED BY <2>2 DEF natsSubjectToRegex, Matches
<1> QED BY <1>1 DEF HistoryFilterAgrees

(* Both answers to "who gets this subject" hold for all patterns: the probe  *)
(* of the dashboard misses nobody, the filter of the backend is exact.       *)
THEOREM ReceiversFound == Spec => []ProbeFindsReceivers
<1>1. ProbeFindsAll => ProbeFindsReceivers
  BY FilterAgrees DEF ProbeFindsReceivers
<1> QED BY <1>1, ProbeFinds, PTL
=============================================================================
