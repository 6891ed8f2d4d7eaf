--------------------------- MODULE MCAdministration ---------------------------
(* Instances of Administration for TLC: one resource of each kind.          *)
EXTENDS Administration, TLC

CONSTANTS s1, c1, b1, o1, f1, g1, u1, v1

OnStream == [x \in Consumers |-> s1]

Op(kind, on, set, n) == [kind |-> kind, on |-> on, set |-> set, n |-> n]

\* Updates and writes of two fields, batches of two, the first message.
SomeOperations ==
    {Op(k, n, f1 :> v1 @@ g1 :> u1, 0) : k \in {"create"}, n \in Resources}
    \cup {Op("delete", n, <<>>, 0) : n \in Resources}
    \cup {Op("update", n, x :> v1, 0) : n \in {s1}, x \in Fields}
    \cup {Op("update", c1, f1 :> v1, 0)}
    \cup {Op("put", n, f1 :> v1, 0) : n \in Views} \cup {Op("clear", n, f1 :> u1, 0) : n \in Views}
    \cup {Op("read", o1, <<>>, 0)}
    \cup {Op("purge", s1, <<>>, 0), Op("publish", s1, <<>>, 0), Op("publish", s1, <<>>, 2), Op("replay", s1, <<>>, 1),
          Op("deleteMessage", s1, <<>>, 1)}

Symmetry == Permutations(Requests)
=============================================================================
