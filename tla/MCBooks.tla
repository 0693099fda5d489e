------------------------------ MODULE MCBooks ------------------------------
(* The queue that analyses the books, and the imports of what the analyses *)
(* propose, which share no row: each moves while the other rests where it   *)
(* started.                                                                 *)
EXTENDS BookJobs, MCCurriculum

CurriculumRests == Init /\ UNCHANGED vars
JobsRest == JobsInit /\ UNCHANGED jobsVars

BooksNext ==
  \/ JobsNext /\ CurriculumRests
  \/ Next /\ JobsRest

BooksInit == JobsInit /\ Init
BooksSpec ==
  /\ BooksInit
  /\ [][BooksNext]_<<jobsVars, vars>>
  /\ JobsFairness
=============================================================================
