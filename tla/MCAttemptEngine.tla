-------------------------- MODULE MCAttemptEngine --------------------------
(* One attempt of two questions, started from a daily task, that two       *)
(* requests submit while answers are being saved.                          *)
EXTENDS AttemptEngine

MCOrder == [a \in Attempts |-> Questions]
MCFrozen == [a \in Attempts |-> {1}]
MCSkillsOf == [q \in Questions |-> IF q = 1 THEN {1, 2} ELSE {2}]
MCTaskOf == [a \in Attempts |-> CHOOSE t \in Tasks : TRUE]
MCTarget == [r \in Submitters |-> CHOOSE a \in Attempts : TRUE]
MCPriorSeen == [s \in Skills |-> IF s = 1 THEN 9 ELSE 0]
MCPriorCorrect == [s \in Skills |-> IF s = 1 THEN 8 ELSE 0]
=============================================================================
