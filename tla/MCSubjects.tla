----------------------------- MODULE MCSubjects -----------------------------
(* Two streams, a consumer of the first, and the patterns of one or two tokens    *)
(* in which literals, "*" and ">" meet, over two literals.                   *)
EXTENDS Subjects, TLC

CONSTANTS s1, s2, c1

MCLiterals == {"a", "b"}
MCPatterns ==
    {<<"a">>, <<"*">>, <<">">>, <<"a", "b">>, <<"a", "*">>, <<"*", "b">>, <<"a", ">">>}

\* A mirror, one subject, or two.
MCSubjectSets == {{}} \cup {{p} : p \in MCPatterns} \cup {{<<"a">>, <<"a", "b">>}}

MCFilterLists == {{}, {<<"a", "*">>}, {<<"a">>, <<"a", "b">>}}

MCHome == c1 :> s1
=============================================================================
