---------------------------- MODULE MCFuzzyMatch ----------------------------
(* A small instance of FuzzyMatch for TLC. *)
EXTENDS FuzzyMatch

Letters    == {"a", "b", "A"}
Separators == {"-", "_"}
ToLower    == [c \in Letters \cup Separators |-> IF c = "A" THEN "a" ELSE c]

Words == SeqOf({"a", "b"}, 3)

\* Names that say the same in other letters, and names that say nothing.
Dressed ==
  {<<"A", "b">>, <<"-", "a", "-", "-", "b", "_">>, <<"a", "_", "b">>, <<"-">>, <<"b", "a", "b", "a">>}

\* One column; two, of which the second must not see the first one's best.
Columns == {<<name>> : name \in Words \cup Dressed} \cup {<<<<"a">>, <<"b", "b">>>>}

\* No field, one or two of any names, and one without an id.
Fields ==
  {<<>>}
    \cup {<<[id |-> i, name |-> name]>> : i \in 0 .. 1, name \in Dressed}
    \cup {<<[id |-> 1, name |-> s], [id |-> 2, name |-> t]>> : 
       s \in Words \cup Dressed, t \in Dressed \cup {<<>>, <<"a">>, <<"a", "a">>, <<"b", "a", "a">>}}

=============================================================================
