-------------------------- MODULE MistakeNotebook --------------------------
(***************************************************************************)
(* The mistake notebook of one student: mistakes recorded by submissions,  *)
(* and reviews of them that run at the same time.                          *)
(*                                                                         *)
(* RecordMistake runs inside the transaction of Submit and shows at its    *)
(* commit, so it is one step here.  ReviewOutcome is not in a transaction: *)
(* it reads the row, closes the open schedules, rewrites the row and       *)
(* schedules the next review, each statement a commit of its own.          *)
(***************************************************************************)
EXTENDS MasteryRules, FiniteSets

CONSTANTS
  Mistakes,     \* rows of student_mistakes that there may be
  Reviewers,    \* requests to Review
  MaxMisses,    \* bound on the wrong answers to one question
  MaxRights,    \* bound on the right reviews of one mistake
  MaxFailures   \* bound on statements that fail and requests that die

ASSUME BoundAssumption ==
  /\ IsFiniteSet(Reviewers)
  /\ MaxMisses \in Nat /\ MaxRights \in Nat /\ MaxFailures \in Nat

VARIABLES
  row,       \* student_mistakes: mistake_count, 0 without a row, and mastery_state
  open,      \* the delays, in hours, of the schedules that are not completed
  credit,    \* what the reviews earned: the streak of today, the achievement
  review,    \* progress of each request
  misses,    \* wrong answers so far (history)
  rights,    \* right reviews so far (history)
  rightRun,  \* right reviews written since the last miss (history)
  failures

history == <<misses, rights, rightRun>>
vars == <<row, open, credit, review, history, failures>>

Delays == {4, 12, 24, 72, 168}
Rows == [count : Nat, state : MistakeStates]
Credits == {"streak", "first_mistake_reviewed"}
ReviewSteps == {"read", "close", "count", "state", "schedule"}
At(pc) == [pc |-> pc]   \* a request that needs nothing it read any more
Idle == At("idle")
Reviews == [pc : {"idle"} \cup Credits] \cup
  [pc : ReviewSteps, m : Mistakes, correct : BOOLEAN,
   count : Nat, state : MistakeStates]

(* The state the request is going to write, from the row as it read it. *)
NewState(v) == IF review[v].correct THEN Promote(review[v].state) ELSE "reviewing_soon"

Init ==
  /\ row = [m \in Mistakes |-> [count |-> 0, state |-> "new"]]
  /\ open = [m \in Mistakes |-> {}]
  /\ credit = {}
  /\ review = [v \in Reviewers |-> Idle]
  /\ misses = [m \in Mistakes |-> 0]
  /\ rights = [m \in Mistakes |-> 0]
  /\ rightRun = [m \in Mistakes |-> 0]
  /\ failures = 0

(* A wrong answer of an attempt reaches the notebook when Submit commits. *)
RecordMistake(m) ==
  /\ misses[m] < MaxMisses
  /\ row' = [row EXCEPT ![m] =
       [count |-> @.count + 1,
        state |-> IF @.count = 0 THEN "new" ELSE "reviewing_soon"]]
  /\ open' = [open EXCEPT ![m] = @ \cup {ReviewDelay(row[m].count + 1)}]
  /\ misses' = [misses EXCEPT ![m] = @ + 1]
  /\ rightRun' = [rightRun EXCEPT ![m] = 0]
  /\ UNCHANGED <<credit, review, rights, failures>>

(* Review: the mistake is the student's, its question is published and the *)
(* answer is graded, right or wrong.  Otherwise nothing happens.           *)
Review(v, m, correct) ==
  /\ review[v] = Idle
  /\ row[m].count > 0
  /\ IF correct THEN rights[m] < MaxRights ELSE misses[m] < MaxMisses
  /\ review' = [review EXCEPT ![v] =
       [pc |-> "read", m |-> m, correct |-> correct, count |-> 0, state |-> "new"]]
  /\ misses' = [misses EXCEPT ![m] = IF correct THEN @ ELSE @ + 1]
  /\ rights' = [rights EXCEPT ![m] = IF correct THEN @ + 1 ELSE @]
  /\ UNCHANGED <<row, open, credit, rightRun, failures>>

(* ReviewOutcome: SELECT mistake_count, mastery_state. *)
ReadMistake(v) ==
  /\ review[v].pc = "read"
  /\ review' = [review EXCEPT ![v].pc = "close",
                              ![v].count = row[review[v].m].count,
                              ![v].state = row[review[v].m].state]
  /\ UNCHANGED <<row, open, credit, history, failures>>

AfterClose(v) ==
  review' = [review EXCEPT ![v].pc = IF review[v].correct THEN "state" ELSE "count"]

CloseSchedules(v) ==
  /\ review[v].pc = "close"
  /\ open' = [open EXCEPT ![review[v].m] = {}]
  /\ AfterClose(v)
  /\ UNCHANGED <<row, credit, history, failures>>

(* Mutant: the counter is written from the value read before. *)
IncrementCountRead(v) ==
  /\ review[v].pc = "count"
  /\ row' = [row EXCEPT ![review[v].m].count = review[v].count + 1]
  /\ review' = [review EXCEPT ![v].pc = "state"]
  /\ UNCHANGED <<open, credit, history, failures>>

(* A wrong review counts as a mistake: mistake_count + 1 in the database. *)
IncrementCount(v) ==
  /\ review[v].pc = "count"
  /\ row' = [row EXCEPT ![review[v].m].count = @ + 1]
  /\ review' = [review EXCEPT ![v].pc = "state"]
  /\ UNCHANGED <<open, credit, history, failures>>

(* The state is written; what was right adds to the run, a miss ends it. *)
WriteState(v, state) ==
  /\ review[v].pc = "state"
  /\ row' = [row EXCEPT ![review[v].m].state = state]
  /\ rightRun' = [rightRun EXCEPT ![review[v].m] =
                    IF review[v].correct THEN @ + 1 ELSE 0]
  /\ review' = [review EXCEPT ![v] =
                  IF NewState(v) = "mastered" THEN At("streak")
                  ELSE [@ EXCEPT !.pc = "schedule"]]
  /\ UNCHANGED <<open, credit, misses, rights, failures>>

(* Mutant: every promotion is worth two. *)
SetStateTwice(v) ==
  WriteState(v, IF review[v].correct THEN Promote(NewState(v)) ELSE NewState(v))

SetState(v) == WriteState(v, NewState(v))

ScheduleInto(v, schedules) ==
  /\ review[v].pc = "schedule"
  /\ open' = [open EXCEPT ![review[v].m] = schedules]
  /\ review' = [review EXCEPT ![v] = At("streak")]
  /\ UNCHANGED <<row, credit, history, failures>>

NextReview(v) == NextDelay(NewState(v), review[v].count)

(* Mutant: the open schedules are closed here, with the next one inserted. *)
ScheduleNextAlone(v) == ScheduleInto(v, {NextReview(v)})

ScheduleNext(v) == ScheduleInto(v, open[review[v].m] \cup {NextReview(v)})

(* TouchStreak, then the achievement: idempotent, their errors are ignored. *)
TouchStreak(v) ==
  /\ review[v].pc = "streak"
  /\ credit' = credit \cup {"streak"}
  /\ review' = [review EXCEPT ![v] = At("first_mistake_reviewed")]
  /\ UNCHANGED <<row, open, history, failures>>

AwardFirstReview(v) ==
  /\ review[v].pc = "first_mistake_reviewed"
  /\ credit' = credit \cup {"first_mistake_reviewed"}
  /\ review' = [review EXCEPT ![v] = Idle]
  /\ UNCHANGED <<row, open, history, failures>>

(* The errors of the close, the increment and the streak are ignored; that  *)
(* of the award, the last step, is the end of the request (ReviewFail).     *)
IgnoredError(v) ==
  /\ failures < MaxFailures
  /\ failures' = failures + 1
  /\ \/ review[v].pc = "close" /\ AfterClose(v)
     \/ /\ review[v].pc = "count"
        /\ review' = [review EXCEPT ![v].pc = "state"]
     \/ /\ review[v].pc = "streak"
        /\ review' = [review EXCEPT ![v] = At("first_mistake_reviewed")]
  /\ UNCHANGED <<row, open, credit, history>>

(* Any other error, or a crash, ends the request where it stands. *)
ReviewFail(v) ==
  /\ review[v] # Idle
  /\ failures < MaxFailures
  /\ failures' = failures + 1
  /\ review' = [review EXCEPT ![v] = Idle]
  /\ UNCHANGED <<row, open, credit, history>>

ReviewOutcome(v) ==
  \/ ReadMistake(v)
  \/ CloseSchedules(v)
  \/ IncrementCount(v)
  \/ SetState(v)
  \/ ScheduleNext(v)
  \/ TouchStreak(v)
  \/ AwardFirstReview(v)
  \/ IgnoredError(v)
  \/ ReviewFail(v)

Next ==
  \/ \E m \in Mistakes : RecordMistake(m)
  \/ \E v \in Reviewers, m \in Mistakes, correct \in BOOLEAN : Review(v, m, correct)
  \/ \E v \in Reviewers : ReviewOutcome(v)

Spec == Init /\ [][Next]_vars

-----------------------------------------------------------------------------
TypeOK ==
  /\ row \in [Mistakes -> Rows]
  /\ open \in [Mistakes -> SUBSET Delays]
  /\ credit \in SUBSET Credits
  /\ review \in [Reviewers -> Reviews]
  /\ misses \in [Mistakes -> Nat]
  /\ rights \in [Mistakes -> Nat] /\ rightRun \in [Mistakes -> Nat]
  /\ failures \in 0..MaxFailures

(* Wrong reviews that have not reached the counter yet. *)
Uncounted(m) ==
  {v \in Reviewers : /\ review[v].pc \in {"read", "close", "count"}
                     /\ review[v].m = m /\ ~review[v].correct}

(* The mistake counter, which decides how soon a mistake comes back, loses *)
(* no wrong answer to a concurrent review or submission, and counts none   *)
(* twice.                                                                  *)
CountsEveryMiss ==
  failures = 0 =>
    \A m \in Mistakes : row[m].count + Cardinality(Uncounted(m)) = misses[m]

(* A schedule that suits a mistake in this state. *)
Suits(delay, state) ==
  CASE state = "reviewing_later" -> delay = 72
    [] state = "stabilizing"     -> delay = 168
    [] OTHER                     -> delay <= 24

Reviewing(m) ==
  \E v \in Reviewers : review[v].pc \in ReviewSteps /\ review[v].m = m

(* However reviews and submissions interleave, when no review is under way *)
(* a mistake that is not mastered has an open schedule, and one that suits *)
(* its state: a review that closes the schedules writes a state later, so  *)
(* it never takes away the schedule that goes with the last state written. *)
StateHasItsSchedule ==
  failures = 0 =>
    \A m \in Mistakes :
      row[m].count > 0 /\ row[m].state # "mastered" /\ ~Reviewing(m) =>
        \E delay \in open[m] : Suits(delay, row[m].state)

(* "One right answer is not mastery": whatever dies, a mistake is mastered *)
(* only after three right reviews.                                         *)
MasteredAfterThree ==
  \A m \in Mistakes : row[m].state = "mastered" => rights[m] >= 3

(* The same rule read strictly: once a mistake is made again, one right     *)
(* review does not make it mastered.                                       *)
MissedIsNotMastered ==
  \A m \in Mistakes : row[m].state = "mastered" => rightRun[m] > 1
=============================================================================
