----------------------------- MODULE MCMapperApi -----------------------------
(* Small instances of MapperApi for TLC. *)
EXTENDS MapperApi

\* Tables, with the header first or second, and files without one.  Of three
\* rows only those that fill the error details, or stop.
Data ==
  UNION {[1 .. n -> RowKinds] : n \in 0 .. 2}
    \cup {<<"bad", "bad", "bad">>, <<"bad", "good", "bad">>, <<"good", "bad", "broken">>}
Tables == {<<"good">> \o data : data \in Data} \cup {<<"blank", "bad", "good", "blank">>}
NoTables == {<<>>, <<"blank">>, <<"broken">>}

Contents ==
  {<<sheet>> : sheet \in Tables \cup NoTables}
    \cup {<<empty, <<"blank", "good", "bad">> >> : empty \in NoTables}
    \cup {<< <<"good", "bad">>, <<"good", second>> >> : second \in {"good", "broken"}}

\* A complete deployment with every file and option, its processor with both
\* hooks or none; with one row, any hooks and any one or two missing parts.
MCSettings ==
  {setting \in
     [format : {"csv", "xlsx"}, seekable : BOOLEAN, missing : {{p, q} : p, q \in Parts} \cup {{}},
      content : Contents, blank : {"good", "bad"}, failFast : BOOLEAN,
      hooks : SUBSET {"begin", "end"}] :
     /\ setting.format = "csv" => Len(setting.content) = 1
     /\ setting.blank = "good" => setting.content = << <<"blank", "bad", "good", "blank">> >>
     /\ \/ setting.missing = {} /\ setting.hooks \in {{}, {"begin", "end"}}
        \/ /\ setting.content = << <<"good", "good">> >>
           /\ setting.missing /= {} => setting.seekable /\ setting.hooks = {} /\ ~setting.failFast}

=============================================================================
