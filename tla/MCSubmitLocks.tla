--------------------------- MODULE MCSubmitLocks ---------------------------
(* Three attempts of one student, each submitted by a request of its own;  *)
(* any two of them share a question, so their transactions meet on the     *)
(* rows of its skill and of its mistake like philosophers on forks.        *)
EXTENDS AttemptEngine

MCOrder == [a \in Attempts |-> Questions \ {a}]
MCSkillsOf == [q \in Questions |-> {q}]
MCTaskOf == [a \in Attempts |-> NoTask]
MCTarget == [r \in Submitters |-> r]
MCPrior == [s \in Skills |-> 0]
=============================================================================
