---------------------------- MODULE MCStudentApp ----------------------------
(* A plan of an explanation, a review and a test, two attempts at the test, *)
(* and two mistakes that are due.                                           *)
EXTENDS StudentApp, TLC

MCKinds == <<"explain", "review", "test">>
Symmetry == Permutations(Values) \cup Permutations(Mistakes)

(* Bound: of the test and the rest of the day's work, only one gets as far  *)
(* as an answer.  What they share is the plan and the page that is shown.   *)
OfTheTest(c) == c.op \in {"save", "submit"}
OfTheRest(c) == c.op \in {"complete", "review"} \/ (c.op = "start" /\ Kinds[c.arg] # "test")
TestOnly ==
  /\ srv.reviewed = {} /\ page # "review"
  /\ \A t \in Tasks : Kinds[t] # "test" => srv.tasks[t] \in {"absent", "pending"}
  /\ \A c \in calls : ~OfTheRest(c)
RestOnly ==
  /\ \A a \in Attempts : srv.attempts[a] # "absent" => a = 1 /\ srv.attempts[a] = "open"
  /\ srv.stored[1] = [q \in Questions |-> 0]
  /\ \A c \in calls : ~OfTheTest(c)

MCSpec == Init /\ [][Next /\ (TestOnly' \/ RestOnly')]_vars
=============================================================================
