---------------------------- MODULE MCCurriculum ----------------------------
(* A lesson and two skills that are not linked, which two imports of one    *)
(* book link in one order, and an import of another book in the other.      *)
EXTENDS Curriculum

MCImports == {1, 2, 3}
MCForms == {4}
MCSubjectOf == <<"maths", "maths", "maths">>
MCBookOf == <<1, 1, 2>>

Unit == <<0, 1>>
MCSeeded == {Row(Unit, "unit", Root("maths"), "sets", 1),
             Row(<<0, 2>>, "lesson", Unit, "union", 1),
             Row(<<0, 3>>, "skill", <<>>, "draw", 0),
             Row(<<0, 4>>, "skill", <<>>, "count", 0)}

Structure(entries) == [k \in DOMAIN entries |-> [kind |-> entries[k][1], name |-> entries[k][2]]]
Book1 == Structure(<<<<"unit", "sets">>, <<"lesson", "union">>, <<"skill", "draw">>,
                     <<"skill", "count">>, <<"lesson", "power">>, <<"skill", "list">>>>)
Book2 == Structure(<<<<"unit", "sets">>, <<"lesson", "union">>, <<"skill", "count">>,
                     <<"skill", "draw">>>>)
MCScript == <<Book1, Book1, Book2>>

MCNames == {"sets", "union", "power", "draw", "count", "list"}
MCLike == {<<n, n>> : n \in MCNames}

(* A book with a unit whose name has a wildcard, which matches the first.   *)
Percent == Structure(<<<<"unit", "50 of 100">>, <<"lesson", "union">>,
                       <<"unit", "50%">>, <<"lesson", "power">>>>)
MCPercent == <<Percent, Percent>>
MCTwoOf(x) == <<x, x>>
MCSubjectOf2 == MCTwoOf("maths")
MCBookOf2 == MCTwoOf(1)
MCWildcard ==
  {<<n, n>> : n \in MCNames \cup {"50%", "50 of 100"}} \cup {<<"50 of 100", "50%">>}
=============================================================================
