--------------------------- MODULE AttemptLedger ---------------------------
(***************************************************************************)
(* What the attempt engine promises about one student's record: an attempt *)
(* leaves in_progress once, either submitted together with its result or   *)
(* abandoned without one, and the counters of the student's skills and     *)
(* mistakes move with a submission and with nothing else, once, by what    *)
(* the result says.  How many requests, statements and failures it takes   *)
(* is not said.                                                            *)
(***************************************************************************)
EXTENDS Integers, FiniteSets

CONSTANTS Attempts, Questions, Skills, Order, SkillsOf, PriorSeen, PriorCorrect

VARIABLES status, results, mastery, mistakes

vars == <<status, results, mastery, mistakes>>

OnSkill(S, s) == {q \in S : s \in SkillsOf[q]}

Init ==
  /\ status = [a \in Attempts |-> "in_progress"]
  /\ results = [a \in Attempts |-> {}]
  /\ mastery = [s \in Skills |-> [seen |-> PriorSeen[s], correct |-> PriorCorrect[s]]]
  /\ mistakes = [q \in Questions |-> 0]

(* A submission: counted are the questions of the attempt that enter the   *)
(* result, right the correct ones among them, missed those that enter the  *)
(* mistake notebook.                                                       *)
Submit(a, right, counted, missed) ==
  /\ status[a] = "in_progress"
  /\ right \subseteq counted
  /\ status' = [status EXCEPT ![a] = "submitted"]
  /\ results' = [results EXCEPT ![a] = {[right |-> right, counted |-> counted]}]
  /\ mastery' = [s \in Skills |->
       [seen    |-> mastery[s].seen + Cardinality(OnSkill(counted, s)),
        correct |-> mastery[s].correct + Cardinality(OnSkill(right, s))]]
  /\ mistakes' = [q \in Questions |->
       IF q \in missed THEN mistakes[q] + 1 ELSE mistakes[q]]

Abandon(old) ==
  /\ \A a \in old : status[a] = "in_progress"
  /\ status' = [a \in Attempts |-> IF a \in old THEN "abandoned" ELSE status[a]]
  /\ UNCHANGED <<results, mastery, mistakes>>

Next ==
  \/ \E a \in Attempts :
       \E right, counted, missed \in SUBSET Order[a] :
         Submit(a, right, counted, missed)
  \/ \E old \in SUBSET Attempts : Abandon(old)

Spec == Init /\ [][Next]_vars
=============================================================================
