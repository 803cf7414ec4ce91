------------------------- MODULE MCSuggestMappings -------------------------
(* A small instance of SuggestMappings for TLC. *)
EXTENDS SuggestMappings

\* Two fields, and an id the schema lacks.
Fields  == {1, 2}
Missing == 9

\* Probabilities that agree, differ, exceed 1 or favour the missing id.
Odds ==
  {<<>>} \cup {[t \in {1, 2} |-> 1], [t \in {1, 2, Missing} |-> IF t = 2 THEN 0 ELSE 3],
               [t \in {Missing} |-> 1]}

Parts ==
  {[choice |-> c, probs |-> p, confidence |-> n] :
     c \in {None, 1, Missing}, p \in Odds, n \in {-1, 1}}

Mute == [choice |-> None, probs |-> <<>>, confidence |-> 0]

Silence ==
  [usable |-> TRUE, answer |-> Mute, probs |-> <<>>, choices |-> <<>>, nested |-> Mute,
   direct |-> Mute]

\* Replies with one part, and one with several that disagree.
SomeReplies ==
  {[Silence EXCEPT !.answer = p] : p \in Parts}
    \cup {[Silence EXCEPT !.probs = p] : p \in Odds}
    \cup {[Silence EXCEPT !.choices = p] : p \in Odds}
    \cup {[Silence EXCEPT !.nested = p] : p \in Parts}
    \cup {[Silence EXCEPT !.direct = p] : p \in Parts}
    \cup {[Silence EXCEPT !.usable = u, !.answer.choice = Missing, !.nested.choice = 2,
                          !.direct.choice = 1] : u \in BOOLEAN}

=============================================================================
