-------------------------- MODULE MCSchemaRegistry --------------------------
(* Small instances of SchemaRegistry for TLC. *)
EXTENDS SchemaRegistry, TLC

Field(id, name) == [id |-> id, name |-> name, type |-> "string"]

\* A list validateSchema accepts, and one that repeats an id.
FieldLists == {<<Field(1, "a"), Field(2, "b")>>, <<Field(1, "a"), Field(1, "b")>>}

\* Calls are interchangeable, and so are arrays.
Symmetry == Permutations(Calls) \cup Permutations(Arrays)

=============================================================================
