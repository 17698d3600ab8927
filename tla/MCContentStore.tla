--------------------------- MODULE MCContentStore ---------------------------
(* Instances of ContentStore for TLC.                                      *)
EXTENDS ContentStore

P(name, freshness) == [name |-> name, freshness |-> freshness, noCache |-> FALSE]

\* A tree of names, with two packets of one name, packets that turn stale at
\* once, later or never, and one that may not be cached.
Order == <<P(<<"a">>, -1), P(<<"a">>, 0), P(<<"a", "b">>, 1), P(<<"a", "b", "x">>, -1),
           P(<<"a", "c">>, 0), [P(<<"b">>, -1) EXCEPT !.noCache = TRUE]>>
Packets == ToSet(Order)
Queries == {[name |-> <<>>, fresh |-> FALSE], [name |-> <<"a">>, fresh |-> TRUE]}

=============================================================================
