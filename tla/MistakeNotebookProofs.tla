----------------------- MODULE MistakeNotebookProofs -----------------------
(***************************************************************************)
(* For any number of mistakes and of concurrent reviews: the types, and    *)
(* the invariants that make the counter, the schedules and the promotions  *)
(* of the notebook right although a review is no transaction.  At the end: *)
(* the pure rules behind it, for all counters.                             *)
(***************************************************************************)
EXTENDS MistakeNotebook, FiniteSetTheorems, TLAPS

(* How many right reviews a state stands for. *)
Level(state) ==
  CASE state \in {"new", "reviewing_soon"} -> 0
    [] state = "reviewing_later"           -> 1
    [] state = "stabilizing"               -> 2
    [] OTHER                               -> 3

(* Right reviews of m that have not written their state yet. *)
Rising(m) ==
  {v \in Reviewers : /\ review[v].pc \in {"read", "close", "state"}
                     /\ review[v].m = m /\ review[v].correct}

(* The state of a mistake, and what each review under way has read of it,  *)
(* stand for right reviews that have ended: those under way come on top.   *)
RightsCover ==
  \A m \in Mistakes :
    /\ Level(row[m].state) + Cardinality(Rising(m)) <= rights[m]
    /\ \A v \in Rising(m) : review[v].pc \in {"close", "state"} =>
         Level(review[v].state) + Cardinality(Rising(m)) <= rights[m]

(* Reviews that closed the schedules and have not written the state; and   *)
(* those that wrote it and have not scheduled the next review.             *)
Closed(m) ==
  {v \in Reviewers : review[v].pc \in {"count", "state"} /\ review[v].m = m}
Scheduling(m) ==
  {v \in Reviewers : review[v].pc = "schedule" /\ review[v].m = m}

(* The schedule that goes with the state is there or about to be inserted. *)
ScheduleAhead ==
  failures = 0 =>
    \A m \in Mistakes :
      row[m].count > 0 /\ row[m].state # "mastered" /\ Closed(m) = {} =>
        \/ \E delay \in open[m] : Suits(delay, row[m].state)
        \/ \E v \in Scheduling(m) : NewState(v) = row[m].state

(* A right review never touches the counter. *)
CountersOfWrongs == \A v \in Reviewers : review[v].pc = "count" => ~review[v].correct

IInv == TypeOK /\ CountersOfWrongs /\ CountsEveryMiss /\ RightsCover /\ ScheduleAhead

-----------------------------------------------------------------------------
(* Types *)

(* The record of a request between its steps. *)
LEMMA ReviewFields ==
  ASSUME TypeOK, NEW v \in Reviewers, review[v].pc \in ReviewSteps
  PROVE  /\ review[v] \in [pc : ReviewSteps, m : Mistakes, correct : BOOLEAN,
                           count : Nat, state : MistakeStates]
         /\ NewState(v) \in MistakeStates
<1>1. review[v] \in Reviews
  BY DEF TypeOK
<1>2. review[v] \notin [pc : {"idle"} \cup Credits]
  BY DEF ReviewSteps, Credits
<1>3. QED
  BY <1>1, <1>2 DEF Reviews, NewState, Promote, MistakeStates

(* The records a request may change to. *)
LEMMA Resting == \A pc \in {"idle"} \cup Credits : At(pc) \in Reviews
BY DEF Reviews, At

(* A request that goes on keeps what it read. *)
LEMMA ReviewMoves ==
  ASSUME TypeOK, NEW v \in Reviewers, review[v].pc \in ReviewSteps,
         NEW pc \in ReviewSteps
  PROVE  [review[v] EXCEPT !.pc = pc] \in Reviews
BY ReviewFields DEF Reviews

(* Every step keeps the types. *)
LEMMA NextType == TypeOK /\ [Next]_vars => TypeOK'
<1> SUFFICES ASSUME TypeOK, [Next]_vars PROVE TypeOK'
  OBVIOUS
<1>1. ASSUME NEW m \in Mistakes, RecordMistake(m) PROVE TypeOK'
  BY <1>1 DEF TypeOK, RecordMistake, Rows, MistakeStates, ReviewDelay, Delays
<1>2. ASSUME NEW v \in Reviewers, NEW m \in Mistakes, NEW correct \in BOOLEAN,
             Review(v, m, correct)
      PROVE  TypeOK'
  BY <1>2 DEF TypeOK, Review, Reviews, ReviewSteps, MistakeStates
<1>3. ASSUME NEW v \in Reviewers, ReadMistake(v) PROVE TypeOK'
  <2> DEFINE m == review[v].m
             rec == [review[v] EXCEPT !.pc = "close", !.count = row[m].count,
                                      !.state = row[m].state]
  <2>1. review[v].pc \in ReviewSteps
    BY <1>3 DEF ReadMistake, ReviewSteps
  <2>2. rec \in Reviews
    BY <2>1, ReviewFields DEF TypeOK, Reviews, ReviewSteps, Rows
  <2>3. review' = [review EXCEPT ![v] = rec]
    BY <1>3 DEF ReadMistake, TypeOK
  <2>4. QED
    BY <1>3, <2>2, <2>3 DEF TypeOK, ReadMistake, history
<1>4. ASSUME NEW v \in Reviewers, CloseSchedules(v) PROVE TypeOK'
  <2>1. review[v].pc \in ReviewSteps
    BY <1>4 DEF CloseSchedules, ReviewSteps
  <2>2. review' \in [Reviewers -> Reviews]
    BY <1>4, <2>1, ReviewMoves, Resting DEF TypeOK, CloseSchedules, AfterClose, ReviewSteps
  <2>3. open' \in [Mistakes -> SUBSET Delays]
    BY <1>4 DEF TypeOK, CloseSchedules
  <2>4. QED
    BY <1>4, <2>2, <2>3 DEF TypeOK, CloseSchedules, history
<1>5. ASSUME NEW v \in Reviewers, IncrementCount(v) PROVE TypeOK'
  <2>1. review[v].pc \in ReviewSteps
    BY <1>5 DEF IncrementCount, ReviewSteps
  <2>2. review' \in [Reviewers -> Reviews]
    BY <1>5, <2>1, ReviewMoves, Resting DEF TypeOK, IncrementCount, ReviewSteps
  <2>3. row' \in [Mistakes -> Rows]
    BY <1>5, <2>1, ReviewFields DEF TypeOK, IncrementCount, Rows
  <2>4. QED
    BY <1>5, <2>2, <2>3 DEF TypeOK, IncrementCount, history
<1>6. ASSUME NEW v \in Reviewers, SetState(v) PROVE TypeOK'
  <2>1. review[v].pc \in ReviewSteps
    BY <1>6 DEF SetState, WriteState, ReviewSteps
  <2>2. review' \in [Reviewers -> Reviews]
    BY <1>6, <2>1, ReviewMoves, Resting DEF TypeOK, SetState, WriteState, ReviewSteps, Credits
  <2>3. row' \in [Mistakes -> Rows] /\ rightRun' \in [Mistakes -> Nat]
    BY <1>6, <2>1, ReviewFields DEF TypeOK, SetState, WriteState, Rows
  <2>4. QED
    BY <1>6, <2>2, <2>3 DEF TypeOK, SetState, WriteState
<1>7. ASSUME NEW v \in Reviewers, ScheduleNext(v) PROVE TypeOK'
  <2>1. review[v].pc \in ReviewSteps
    BY <1>7 DEF ScheduleNext, ScheduleInto, ReviewSteps
  <2>2. review' \in [Reviewers -> Reviews]
    BY <1>7, ReviewMoves, Resting DEF TypeOK, ScheduleNext, ScheduleInto, Credits
  <2>3. NextReview(v) \in Delays
    BY <2>1, ReviewFields DEF NextReview, NextDelay, ReviewDelay, Delays
  <2>4. open' \in [Mistakes -> SUBSET Delays]
    BY <1>7, <2>3 DEF TypeOK, ScheduleNext, ScheduleInto
  <2>5. QED
    BY <1>7, <2>2, <2>4 DEF TypeOK, ScheduleNext, ScheduleInto, history
<1>8. ASSUME NEW v \in Reviewers, TouchStreak(v) \/ AwardFirstReview(v) PROVE TypeOK'
  <2>1. review' \in [Reviewers -> Reviews]
    BY <1>8, ReviewMoves, Resting DEF TypeOK, TouchStreak, AwardFirstReview, Credits, Idle
  <2>2. credit' \in SUBSET Credits
    BY <1>8 DEF TypeOK, TouchStreak, AwardFirstReview, Credits
  <2>3. QED
    BY <1>8, <2>1, <2>2 DEF TypeOK, TouchStreak, AwardFirstReview, history
<1>9. ASSUME NEW v \in Reviewers, IgnoredError(v) \/ ReviewFail(v) PROVE TypeOK'
  <2>1. failures' \in 0..MaxFailures
    BY <1>9, BoundAssumption DEF TypeOK, IgnoredError, ReviewFail
  <2>2. review' \in [Reviewers -> Reviews]
    <3>1. CASE review[v].pc \in {"close", "count"} /\ IgnoredError(v)
      BY <3>1, ReviewMoves, Resting DEF TypeOK, IgnoredError, AfterClose, ReviewSteps
    <3>2. CASE review[v].pc = "streak" /\ IgnoredError(v)
      BY <3>2, ReviewMoves, Resting DEF TypeOK, IgnoredError, Credits
    <3>3. CASE ReviewFail(v)
      BY <3>3, ReviewMoves, Resting DEF TypeOK, ReviewFail, Idle
    <3>4. QED
      BY <1>9, <3>1, <3>2, <3>3 DEF IgnoredError
  <2>3. QED
    BY <1>9, <2>1, <2>2 DEF TypeOK, IgnoredError, ReviewFail, history
<1>10. CASE UNCHANGED vars
  BY <1>10 DEF TypeOK, vars, history
<1>11. QED
  BY <1>1, <1>2, <1>3, <1>4, <1>5, <1>6, <1>7, <1>8, <1>9, <1>10
  DEF Next, ReviewOutcome

-----------------------------------------------------------------------------
(* What a step does to the requests *)

(* Sets of requests are finite, and grow or shrink by one request. *)
LEMMA Requests ==
  ASSUME NEW S \in SUBSET Reviewers, NEW v \in Reviewers
  PROVE  /\ IsFiniteSet(S) /\ Cardinality(S) \in Nat
         /\ v \notin S => Cardinality(S \cup {v}) = Cardinality(S) + 1
         /\ v \in S => Cardinality(S \ {v}) = Cardinality(S) - 1
         /\ Cardinality(S \ {v}) <= Cardinality(S)
BY FS_Subset, FS_CardinalityType, FS_AddElement, FS_RemoveElement, BoundAssumption

(* The steps of a review that change neither row nor what is counted. *)
Advance(v) ==
  \/ ReadMistake(v) \/ CloseSchedules(v) \/ ScheduleNext(v)
  \/ TouchStreak(v) \/ AwardFirstReview(v)

(* They move one request, which stays on its side of every count. *)
LEMMA AdvanceKeeps ==
  ASSUME TypeOK, NEW v \in Reviewers, Advance(v), NEW m \in Mistakes
  PROVE  /\ Uncounted(m)' = Uncounted(m) /\ Rising(m)' = Rising(m)
         /\ UNCHANGED <<row, misses, rights, failures>>
<1>1. UNCHANGED <<row, misses, rights, failures>>
  BY DEF Advance, ReadMistake, CloseSchedules, ScheduleNext, ScheduleInto,
     TouchStreak, AwardFirstReview, history
<1>2. \A u \in Reviewers \ {v} : review'[u] = review[u]
  BY DEF TypeOK, Advance, ReadMistake, CloseSchedules, AfterClose, ScheduleNext,
     ScheduleInto, TouchStreak, AwardFirstReview
<1>3. /\ (v \in Uncounted(m))' <=> v \in Uncounted(m)
      /\ (v \in Rising(m))' <=> v \in Rising(m)
  <2>1. CASE ReadMistake(v)
    <3>1. review[v].pc \in ReviewSteps /\ review[v].pc = "read"
      BY <2>1 DEF ReadMistake, ReviewSteps
    <3>2. /\ review'[v].pc = "close" /\ review'[v].m = review[v].m
          /\ review'[v].correct = review[v].correct
      BY <2>1, <3>1, ReviewFields DEF TypeOK, ReadMistake
    <3>3. QED
      BY <3>1, <3>2 DEF Uncounted, Rising
  <2>2. CASE CloseSchedules(v)
    <3>1. review[v].pc \in ReviewSteps /\ review[v].pc = "close"
      BY <2>2 DEF CloseSchedules, ReviewSteps
    <3>2. /\ review'[v].pc = IF review[v].correct THEN "state" ELSE "count"
          /\ review'[v].m = review[v].m /\ review'[v].correct = review[v].correct
      BY <2>2, <3>1, ReviewFields DEF TypeOK, CloseSchedules, AfterClose
    <3>3. QED
      BY <3>1, <3>2 DEF Uncounted, Rising
  <2>3. CASE ScheduleNext(v) \/ TouchStreak(v) \/ AwardFirstReview(v)
    <3>1. /\ review[v].pc \notin {"read", "close", "count", "state"}
          /\ review'[v].pc \notin {"read", "close", "count", "state"}
      BY <2>3 DEF TypeOK, ScheduleNext, ScheduleInto, TouchStreak, AwardFirstReview,
         At, Idle
    <3>2. QED
      BY <3>1 DEF Uncounted, Rising
  <2>4. QED
    BY <2>1, <2>2, <2>3 DEF Advance
<1>4. \A u \in Reviewers : /\ (u \in Uncounted(m))' <=> u \in Uncounted(m)
                           /\ (u \in Rising(m))' <=> u \in Rising(m)
  BY <1>2, <1>3 DEF Uncounted, Rising
<1>5. QED
  BY <1>1, <1>4 DEF Uncounted, Rising

(* A step that fails moves one request, which does no more than before. *)
LEMMA ErrorKeeps ==
  ASSUME TypeOK, CountersOfWrongs, NEW v \in Reviewers,
         IgnoredError(v) \/ ReviewFail(v), NEW m \in Mistakes
  PROVE  /\ UNCHANGED <<row, open, misses, rights>> /\ failures' = failures + 1
         /\ failures' # 0
         /\ \A u \in Reviewers \ {v} : review'[u] = review[u]
         /\ Rising(m)' \subseteq Rising(m)
         /\ \A u \in Rising(m)' : review'[u].pc \in {"close", "state"} =>
              /\ review[u].pc \in {"close", "state"}
              /\ review'[u].state = review[u].state
<1>1. /\ UNCHANGED <<row, open, misses, rights>> /\ failures' = failures + 1
      /\ failures' # 0
  BY BoundAssumption DEF TypeOK, IgnoredError, ReviewFail, history
<1>2. \A u \in Reviewers \ {v} : review'[u] = review[u]
  BY DEF TypeOK, IgnoredError, AfterClose, ReviewFail
<1>3. (v \in Rising(m))' =>
        /\ v \in Rising(m) /\ review[v].pc \in {"close", "state"}
        /\ review'[v].state = review[v].state
  <2>1. CASE ReviewFail(v) \/ (IgnoredError(v) /\ review[v].pc = "streak")
    <3>1. review'[v].pc \notin {"read", "close", "state"}
      BY <2>1 DEF TypeOK, ReviewFail, IgnoredError, At, Idle
    <3>2. QED
      BY <3>1 DEF Rising
  <2>2. CASE IgnoredError(v) /\ review[v].pc = "close"
    <3>1. /\ review'[v].m = review[v].m /\ review'[v].correct = review[v].correct
          /\ review'[v].state = review[v].state
      BY <2>2, ReviewFields DEF TypeOK, IgnoredError, AfterClose, ReviewSteps
    <3>2. QED
      BY <2>2, <3>1 DEF Rising
  <2>3. CASE IgnoredError(v) /\ review[v].pc = "count"
    <3>1. ~review'[v].correct
      BY <2>3, ReviewFields DEF TypeOK, CountersOfWrongs, IgnoredError, ReviewSteps
    <3>2. QED
      BY <2>3, <3>1 DEF Rising
  <2>4. QED
    BY <2>1, <2>2, <2>3 DEF IgnoredError
<1>4. QED
  BY <1>1, <1>2, <1>3 DEF Rising

(* A request reaches the increment only with a wrong answer. *)
LEMMA NextWrongs ==
  ASSUME TypeOK, CountersOfWrongs, [Next]_vars PROVE CountersOfWrongs'
<1>1. ASSUME NEW v \in Reviewers, CloseSchedules(v) \/ IgnoredError(v)
      PROVE  CountersOfWrongs'
  <2>1. \A u \in Reviewers \ {v} : review'[u] = review[u]
    BY <1>1 DEF TypeOK, CloseSchedules, IgnoredError, AfterClose
  <2>2. review'[v].pc = "count" => ~review'[v].correct
    <3>1. CASE review[v].pc = "close"
      BY <1>1, <3>1, ReviewFields
      DEF TypeOK, CloseSchedules, IgnoredError, AfterClose, ReviewSteps
    <3>2. CASE review[v].pc # "close"
      BY <1>1, <3>2, ReviewFields
      DEF TypeOK, CloseSchedules, IgnoredError, At, ReviewSteps
    <3>3. QED
      BY <3>1, <3>2
  <2>3. QED
    BY <2>1, <2>2 DEF CountersOfWrongs
<1>2. ASSUME NEW v \in Reviewers,
             \A u \in Reviewers \ {v} : review'[u] = review[u],
             review'[v].pc # "count"
      PROVE  CountersOfWrongs'
  BY <1>2 DEF CountersOfWrongs
<1>3. ASSUME NEW v \in Reviewers, NEW m \in Mistakes, NEW correct \in BOOLEAN,
             Review(v, m, correct)
      PROVE  CountersOfWrongs'
  BY <1>2, <1>3 DEF TypeOK, Review
<1>4. ASSUME NEW v \in Reviewers, ReadMistake(v) \/ IncrementCount(v)
      PROVE  CountersOfWrongs'
  BY <1>2, <1>4, ReviewFields DEF TypeOK, ReadMistake, IncrementCount, ReviewSteps
<1>5. ASSUME NEW v \in Reviewers, SetState(v) PROVE CountersOfWrongs'
  BY <1>2, <1>5, ReviewFields DEF TypeOK, SetState, WriteState, ReviewSteps, At
<1>6. ASSUME NEW v \in Reviewers, \/ ScheduleNext(v) \/ TouchStreak(v)
                                  \/ AwardFirstReview(v) \/ ReviewFail(v)
      PROVE  CountersOfWrongs'
  BY <1>2, <1>6 DEF TypeOK, ScheduleNext, ScheduleInto, TouchStreak,
     AwardFirstReview, ReviewFail, At, Idle
<1>7. ASSUME UNCHANGED review PROVE CountersOfWrongs'
  BY <1>7 DEF CountersOfWrongs
<1>8. QED
  BY <1>1, <1>3, <1>4, <1>5, <1>6, <1>7 DEF Next, ReviewOutcome, RecordMistake, vars

(* The counter and the requests that still have to count make up the       *)
(* misses, whichever moves.                                                *)
LEMMA NextCounts ==
  ASSUME TypeOK, CountersOfWrongs, CountsEveryMiss, [Next]_vars, failures' = 0,
         NEW m \in Mistakes
  PROVE  row'[m].count + Cardinality(Uncounted(m)') = misses'[m]
<1>1. /\ \A n \in Mistakes : Uncounted(n) \in SUBSET Reviewers
      /\ \A n \in Mistakes : row[n].count \in Nat /\ misses[n] \in Nat
  BY DEF Uncounted, TypeOK, Rows
<1>2. failures = 0
  BY ErrorKeeps DEF Next, ReviewOutcome, RecordMistake, Review, ReadMistake,
     CloseSchedules, IncrementCount, SetState, WriteState, ScheduleNext, ScheduleInto,
     TouchStreak, AwardFirstReview, vars
<1>3. row[m].count + Cardinality(Uncounted(m)) = misses[m]
  BY <1>2 DEF CountsEveryMiss
<1>4. ASSUME NEW n \in Mistakes, RecordMistake(n)
      PROVE  row'[m].count + Cardinality(Uncounted(m)') = misses'[m]
  <2>1. Uncounted(m)' = Uncounted(m)
    BY <1>4 DEF RecordMistake, Uncounted
  <2>2. /\ row'[m].count = IF n = m THEN row[m].count + 1 ELSE row[m].count
        /\ misses'[m] = IF n = m THEN misses[m] + 1 ELSE misses[m]
    BY <1>4 DEF TypeOK, Rows, RecordMistake
  <2>3. Cardinality(Uncounted(m)) \in Nat
    BY <1>1, FS_Subset, FS_CardinalityType, BoundAssumption
  <2>4. QED
    BY <1>1, <1>3, <2>1, <2>2, <2>3
<1>5. ASSUME NEW v \in Reviewers, NEW n \in Mistakes, NEW correct \in BOOLEAN,
             Review(v, n, correct)
      PROVE  row'[m].count + Cardinality(Uncounted(m)') = misses'[m]
  <2>1. /\ v \notin Uncounted(m)
        /\ Uncounted(m)' = IF n = m /\ ~correct THEN Uncounted(m) \cup {v}
                           ELSE Uncounted(m)
    BY <1>5 DEF TypeOK, Review, Uncounted, Idle, At
  <2>2. row' = row /\ misses'[m] = IF n = m /\ ~correct THEN misses[m] + 1 ELSE misses[m]
    BY <1>5 DEF TypeOK, Review
  <2>3. QED
    BY <1>1, <1>3, <2>1, <2>2, Requests
<1>6. ASSUME NEW v \in Reviewers, Advance(v)
      PROVE  row'[m].count + Cardinality(Uncounted(m)') = misses'[m]
  BY <1>3, <1>6, AdvanceKeeps
<1>7. ASSUME NEW v \in Reviewers, IncrementCount(v)
      PROVE  row'[m].count + Cardinality(Uncounted(m)') = misses'[m]
  <2>1. review[v].pc = "count" /\ ~review[v].correct /\ review[v].m \in Mistakes
    BY <1>7, ReviewFields DEF IncrementCount, CountersOfWrongs, ReviewSteps
  <2>2. /\ misses' = misses
        /\ row'[m].count = IF m = review[v].m THEN row[m].count + 1 ELSE row[m].count
    BY <1>7, <2>1 DEF TypeOK, Rows, IncrementCount, history
  <2>3. /\ m = review[v].m => v \in Uncounted(m)
        /\ m # review[v].m => v \notin Uncounted(m)
        /\ Uncounted(m)' = Uncounted(m) \ {v}
    BY <1>7, <2>1 DEF TypeOK, IncrementCount, Uncounted
  <2>4. CASE m = review[v].m
    BY <1>1, <1>3, <2>2, <2>3, <2>4, Requests
  <2>5. CASE m # review[v].m
    <3>1. Uncounted(m)' = Uncounted(m)
      BY <2>3, <2>5
    <3>2. QED
      BY <1>3, <2>2, <2>5, <3>1
  <2>6. QED
    BY <2>4, <2>5
<1>8. ASSUME NEW v \in Reviewers, SetState(v)
      PROVE  row'[m].count + Cardinality(Uncounted(m)') = misses'[m]
  <2>1. row'[m].count = row[m].count /\ misses' = misses
    BY <1>8 DEF TypeOK, Rows, SetState, WriteState
  <2>2. Uncounted(m)' = Uncounted(m)
    <3>1. review'[v].pc \in {"streak", "schedule"} /\ review[v].pc = "state"
      BY <1>8, ReviewFields DEF TypeOK, SetState, WriteState, ReviewSteps, At
    <3>2. \A u \in Reviewers \ {v} : review'[u] = review[u]
      BY <1>8 DEF TypeOK, SetState, WriteState
    <3>3. QED
      BY <3>1, <3>2 DEF Uncounted
  <2>3. QED
    BY <1>3, <2>1, <2>2
<1>9. CASE UNCHANGED vars
  BY <1>3, <1>9 DEF vars, history, Uncounted
<1>10. QED
  BY <1>4, <1>5, <1>6, <1>7, <1>8, <1>9, ErrorKeeps DEF Next, ReviewOutcome, Advance

-----------------------------------------------------------------------------
(* Right reviews *)

(* A promotion is worth one right review. *)
LEMMA Levels ==
  ASSUME NEW state \in MistakeStates
  PROVE  /\ Level(state) \in 0..3
         /\ Level(Promote(state)) <= Level(state) + 1
         /\ Level(state) = 3 <=> state = "mastered"
BY DEF MistakeStates, Level, Promote

(* What RightsCover says of one mistake. *)
Covered(m) ==
  /\ Level(row[m].state) + Cardinality(Rising(m)) <= rights[m]
  /\ \A v \in Rising(m) : review[v].pc \in {"close", "state"} =>
       Level(review[v].state) + Cardinality(Rising(m)) <= rights[m]

(* Every step that moves one review, except the write of the state. *)
LEMMA NextCovers ==
  ASSUME TypeOK, TypeOK', CountersOfWrongs, [Next]_vars, NEW m \in Mistakes, Covered(m)
  PROVE  Covered(m)'
<1>1. /\ Rising(m) \in SUBSET Reviewers /\ Cardinality(Rising(m)) \in Nat
      /\ rights[m] \in Nat /\ Level(row[m].state) \in 0..3
      /\ \A v \in Rising(m) : Level(review[v].state) \in 0..3
  <2>1. Rising(m) \in SUBSET Reviewers
    BY DEF Rising
  <2>2. Cardinality(Rising(m)) \in Nat
    BY <2>1, FS_Subset, FS_CardinalityType, BoundAssumption
  <2>3. \A v \in Rising(m) : review[v].state \in MistakeStates
    BY ReviewFields DEF Rising, ReviewSteps
  <2>4. QED
    BY <2>1, <2>2, <2>3, Levels DEF TypeOK, Rows
<1>2. ASSUME NEW n \in Mistakes, RecordMistake(n) PROVE Covered(m)'
  <2>1. Rising(m)' = Rising(m) /\ rights' = rights /\ review' = review
    BY <1>2 DEF RecordMistake, Rising
  <2>2. row'[m].state = row[m].state \/ Level(row'[m].state) = 0
    BY <1>2 DEF TypeOK, RecordMistake, Level
  <2>3. QED
    BY <1>1, <2>1, <2>2 DEF Covered
<1>3. ASSUME NEW v \in Reviewers, NEW n \in Mistakes, NEW correct \in BOOLEAN,
             Review(v, n, correct)
      PROVE  Covered(m)'
  <2> DEFINE more == n = m /\ correct
  <2>1. /\ v \notin Rising(m)
        /\ Rising(m)' = IF more THEN Rising(m) \cup {v} ELSE Rising(m)
        /\ row' = row /\ rights'[m] = IF more THEN rights[m] + 1 ELSE rights[m]
        /\ \A u \in Reviewers \ {v} : review'[u] = review[u]
        /\ review'[v].pc = "read"
    BY <1>3 DEF TypeOK, Review, Rising, Idle, At
  <2>2. Cardinality(Rising(m)') =
          IF more THEN Cardinality(Rising(m)) + 1 ELSE Cardinality(Rising(m))
    BY <1>1, <2>1, Requests
  <2> HIDE DEF more
  <2>3. Level(row'[m].state) + Cardinality(Rising(m)') <= rights'[m]
    BY <1>1, <2>1, <2>2 DEF Covered
  <2>4. ASSUME NEW u \in Rising(m)', review'[u].pc \in {"close", "state"}
        PROVE  Level(review'[u].state) + Cardinality(Rising(m)') <= rights'[m]
    <3>1. u \in Rising(m) /\ review'[u] = review[u]
      BY <2>1, <2>4 DEF Rising
    <3>2. Level(review[u].state) + Cardinality(Rising(m)) <= rights[m]
      BY <2>4, <3>1 DEF Covered
    <3>3. Level(review[u].state) \in 0..3
      BY <1>1, <3>1
    <3>4. QED
      BY <1>1, <2>1, <2>2, <3>1, <3>2, <3>3
  <2>5. QED
    BY <2>3, <2>4 DEF Covered
<1>4. ASSUME NEW v \in Reviewers, Advance(v) PROVE Covered(m)'
  <2>1. Rising(m)' = Rising(m) /\ row' = row /\ rights' = rights
    BY <1>4, AdvanceKeeps
  <2>2. \A u \in Reviewers \ {v} : review'[u] = review[u]
    BY <1>4 DEF TypeOK, Advance, ReadMistake, CloseSchedules, AfterClose, ScheduleNext,
       ScheduleInto, TouchStreak, AwardFirstReview
  <2>3. v \in Rising(m)' =>
          \/ review'[v].state = row[m].state
          \/ review[v].pc = "close" /\ review'[v].state = review[v].state
    <3>1. CASE ReadMistake(v)
      <4>1. /\ review'[v].state = row[review[v].m].state
            /\ review'[v].m = review[v].m
        BY <3>1, ReviewFields DEF TypeOK, ReadMistake, ReviewSteps
      <4>2. QED
        BY <4>1 DEF Rising
    <3>2. CASE CloseSchedules(v)
      BY <3>2, ReviewFields DEF TypeOK, CloseSchedules, AfterClose, ReviewSteps
    <3>3. CASE ScheduleNext(v) \/ TouchStreak(v) \/ AwardFirstReview(v)
      BY <2>1, <3>3 DEF ScheduleNext, ScheduleInto, TouchStreak, AwardFirstReview, Rising
    <3>4. QED
      BY <1>4, <3>1, <3>2, <3>3 DEF Advance
  <2>4. QED
    BY <1>1, <2>1, <2>2, <2>3 DEF Covered
<1>5. ASSUME NEW v \in Reviewers, IncrementCount(v) PROVE Covered(m)'
  <2>1. review[v].pc = "count" /\ ~review[v].correct /\ review[v].m \in Mistakes
    BY <1>5, ReviewFields DEF IncrementCount, CountersOfWrongs, ReviewSteps
  <2>2. row'[m].state = row[m].state /\ rights' = rights
    BY <1>5, <2>1 DEF TypeOK, Rows, IncrementCount, history
  <2>3. ~review'[v].correct /\ \A u \in Reviewers \ {v} : review'[u] = review[u]
    BY <1>5, <2>1, ReviewFields DEF TypeOK, IncrementCount, ReviewSteps
  <2>4. Rising(m)' = Rising(m)
    BY <2>1, <2>3 DEF Rising
  <2>5. QED
    BY <2>2, <2>3, <2>4 DEF Covered, Rising
<1>6. ASSUME NEW v \in Reviewers, SetState(v) PROVE Covered(m)'
  <2>1. /\ review[v].pc = "state" /\ review[v].m \in Mistakes
        /\ review[v].state \in MistakeStates
    BY <1>6, ReviewFields DEF SetState, WriteState, ReviewSteps
  <2>2. /\ review'[v].pc \in {"streak", "schedule"}
        /\ \A u \in Reviewers \ {v} : review'[u] = review[u]
    BY <1>6, ReviewFields DEF TypeOK, SetState, WriteState, ReviewSteps, At
  <2>3. Rising(m)' = Rising(m) \ {v} /\ rights' = rights
    BY <1>6, <2>2 DEF Rising, SetState, WriteState
  <2>4. /\ Cardinality(Rising(m)') \in Nat
        /\ Cardinality(Rising(m)') <= Cardinality(Rising(m))
        /\ v \in Rising(m) => Cardinality(Rising(m)') = Cardinality(Rising(m)) - 1
    BY <1>1, <2>3, Requests, Rising(m) \ {v} \in SUBSET Reviewers
  <2>5. \A u \in Rising(m)' : u \in Rising(m) /\ review'[u] = review[u]
    BY <2>2, <2>3 DEF Rising
  <2>6. ASSUME NEW u \in Rising(m)', review'[u].pc \in {"close", "state"}
        PROVE  Level(review'[u].state) + Cardinality(Rising(m)') <= rights'[m]
    <3>1. Level(review[u].state) + Cardinality(Rising(m)) <= rights[m]
      BY <2>5, <2>6 DEF Covered
    <3>2. Level(review[u].state) \in 0..3
      BY <1>1, <2>5
    <3>3. QED
      BY <1>1, <2>3, <2>4, <2>5, <3>1, <3>2
  <2>7. Level(row[m].state) + Cardinality(Rising(m)) <= rights[m]
    BY DEF Covered
  <2>8. Level(row'[m].state) + Cardinality(Rising(m)') <= rights'[m]
    <3>1. CASE review[v].m # m
      <4>1. row'[m] = row[m]
        BY <1>6, <3>1 DEF TypeOK, SetState, WriteState
      <4>2. QED
        BY <1>1, <2>3, <2>4, <2>7, <4>1
    <3>2. CASE review[v].m = m /\ review[v].correct
      <4>1. row'[m].state = Promote(review[v].state)
        BY <1>6, <3>2 DEF TypeOK, SetState, WriteState, NewState
      <4>2. v \in Rising(m)
        BY <2>1, <3>2 DEF Rising
      <4>3. Level(row'[m].state) <= Level(review[v].state) + 1
        BY <2>1, <4>1, Levels
      <4>4. Level(row'[m].state) \in Nat /\ Level(review[v].state) \in Nat
        BY <2>1, <4>1 DEF Level
      <4>5. Level(review[v].state) + Cardinality(Rising(m)) <= rights[m]
        BY <2>1, <4>2 DEF Covered
      <4>6. QED
        BY <1>1, <2>3, <2>4, <4>2, <4>3, <4>4, <4>5
    <3>3. CASE review[v].m = m /\ ~review[v].correct
      <4>1. row'[m].state = "reviewing_soon"
        BY <1>6, <3>3 DEF TypeOK, SetState, WriteState, NewState
      <4>2. Level(row'[m].state) = 0
        BY <4>1 DEF Level
      <4>3. QED
        BY <1>1, <2>3, <2>4, <2>7, <4>2
    <3>4. QED
      BY <3>1, <3>2, <3>3
  <2>9. QED
    BY <2>6, <2>8 DEF Covered
<1>7. ASSUME NEW v \in Reviewers, IgnoredError(v) \/ ReviewFail(v) PROVE Covered(m)'
  <2>1. /\ UNCHANGED <<row, rights>> /\ Rising(m)' \subseteq Rising(m)
        /\ \A u \in Rising(m)' : review'[u].pc \in {"close", "state"} =>
             /\ review[u].pc \in {"close", "state"}
             /\ review'[u].state = review[u].state
    BY <1>7, ErrorKeeps
  <2>2. /\ Cardinality(Rising(m)') \in Nat
        /\ Cardinality(Rising(m)') <= Cardinality(Rising(m))
    BY <1>1, <2>1, FS_Subset, FS_CardinalityType, BoundAssumption
  <2>3. QED
    BY <1>1, <2>1, <2>2 DEF Covered
<1>8. CASE UNCHANGED vars
  BY <1>8 DEF vars, history, Covered, Rising
<1>9. QED
  BY <1>2, <1>3, <1>4, <1>5, <1>6, <1>7, <1>8 DEF Next, ReviewOutcome, Advance

-----------------------------------------------------------------------------
(* Schedules *)

(* What ScheduleAhead says of one mistake. *)
Ahead(m) ==
  row[m].count > 0 /\ row[m].state # "mastered" /\ Closed(m) = {} =>
    \/ \E delay \in open[m] : Suits(delay, row[m].state)
    \/ \E v \in Scheduling(m) : NewState(v) = row[m].state

(* A review that keeps off the row and the schedules of m, and on its side  *)
(* of the two sets, changes nothing for m.                                  *)
LEMMA AheadOfOthers ==
  ASSUME NEW m \in Mistakes, Ahead(m), NEW v \in Reviewers,
         \A u \in Reviewers \ {v} : review'[u] = review[u],
         row'[m] = row[m], open'[m] = open[m],
         v \notin Closed(m), v \notin Scheduling(m)
  PROVE  Ahead(m)'
<1>1. Closed(m) \subseteq Closed(m)' /\ Scheduling(m) \subseteq Scheduling(m)'
  BY DEF Closed, Scheduling
<1>2. \A u \in Scheduling(m) : NewState(u)' = NewState(u)
  BY DEF Scheduling, NewState
<1>3. QED
  BY <1>1, <1>2 DEF Ahead

(* The schedule a submission or a review inserts suits the state it wrote.  *)
LEMMA DelaysSuit ==
  /\ \A n \in Nat : /\ Suits(ReviewDelay(n), "new")
                    /\ Suits(ReviewDelay(n), "reviewing_soon")
  /\ \A state \in MistakeStates, n \in Nat :
       state # "mastered" => Suits(NextDelay(state, n), state)
BY DEF Suits, ReviewDelay, NextDelay, MistakeStates

(* Every step of a notebook without failures keeps the schedules ahead. *)
LEMMA NextAhead ==
  ASSUME TypeOK, [Next]_vars, failures' = 0, NEW m \in Mistakes, Ahead(m),
         CountersOfWrongs
  PROVE  Ahead(m)'
<1>1. ASSUME NEW n \in Mistakes, RecordMistake(n) PROVE Ahead(m)'
  <2>1. CASE n = m
    <3>1. /\ row'[m].state \in {"new", "reviewing_soon"}
          /\ ReviewDelay(row[m].count + 1) \in open'[m]
          /\ row[m].count + 1 \in Nat
      BY <1>1, <2>1 DEF TypeOK, Rows, RecordMistake
    <3>2. QED
      BY <3>1, DelaysSuit DEF Ahead
  <2>2. CASE n # m
    <3>1. row'[m] = row[m] /\ open'[m] = open[m] /\ review' = review
      BY <1>1, <2>2 DEF TypeOK, RecordMistake
    <3>2. QED
      BY <3>1 DEF Ahead, Closed, Scheduling, NewState
  <2>3. QED
    BY <2>1, <2>2
<1>2. ASSUME NEW v \in Reviewers, NEW n \in Mistakes, NEW correct \in BOOLEAN,
             Review(v, n, correct)
      PROVE  Ahead(m)'
  BY <1>2, AheadOfOthers DEF TypeOK, Review, Closed, Scheduling, Idle, At
<1>3. ASSUME NEW v \in Reviewers, ReadMistake(v) \/ TouchStreak(v) \/ AwardFirstReview(v)
      PROVE  Ahead(m)'
  BY <1>3, AheadOfOthers DEF TypeOK, ReadMistake, TouchStreak, AwardFirstReview,
     Closed, Scheduling
<1>4. ASSUME NEW v \in Reviewers, CloseSchedules(v) PROVE Ahead(m)'
  <2>1. /\ review[v].pc = "close" /\ review[v].m \in Mistakes
        /\ review'[v].pc \in {"count", "state"} /\ review'[v].m = review[v].m
        /\ \A u \in Reviewers \ {v} : review'[u] = review[u]
    BY <1>4, ReviewFields DEF TypeOK, CloseSchedules, AfterClose, ReviewSteps
  <2>2. CASE review[v].m = m
    BY <2>1, <2>2 DEF Ahead, Closed
  <2>3. CASE review[v].m # m
    <3>1. row'[m] = row[m] /\ open'[m] = open[m]
      BY <1>4, <2>3 DEF TypeOK, CloseSchedules
    <3>2. QED
      BY <2>1, <3>1, AheadOfOthers DEF Closed, Scheduling
  <2>4. QED
    BY <2>2, <2>3
<1>5. ASSUME NEW v \in Reviewers, IncrementCount(v) PROVE Ahead(m)'
  <2>1. /\ review[v].pc = "count" /\ review[v].m \in Mistakes
        /\ review'[v].pc = "state" /\ review'[v].m = review[v].m
        /\ \A u \in Reviewers \ {v} : review'[u] = review[u]
    BY <1>5, ReviewFields DEF TypeOK, IncrementCount, ReviewSteps
  <2>2. CASE review[v].m = m
    BY <2>1, <2>2 DEF Ahead, Closed
  <2>3. CASE review[v].m # m
    <3>1. row'[m] = row[m] /\ open'[m] = open[m]
      BY <1>5, <2>3 DEF TypeOK, IncrementCount
    <3>2. QED
      BY <2>1, <2>3, <3>1, AheadOfOthers DEF Closed, Scheduling
  <2>4. QED
    BY <2>2, <2>3
<1>6. ASSUME NEW v \in Reviewers, SetState(v) PROVE Ahead(m)'
  <2>1. /\ review[v].pc = "state" /\ review[v].m \in Mistakes
        /\ \A u \in Reviewers \ {v} : review'[u] = review[u]
        /\ open' = open
    BY <1>6, ReviewFields DEF TypeOK, SetState, WriteState, ReviewSteps
  <2>2. CASE review[v].m = m /\ NewState(v) = "mastered"
    <3>1. row'[m].state = "mastered"
      BY <1>6, <2>2 DEF TypeOK, SetState, WriteState
    <3>2. QED
      BY <3>1 DEF Ahead
  <2>3. CASE review[v].m = m /\ NewState(v) # "mastered"
    <3>1. row'[m].state = NewState(v)
      BY <1>6, <2>3 DEF TypeOK, SetState, WriteState
    <3>2. /\ review'[v].pc = "schedule" /\ review'[v].m = m
          /\ review'[v].correct = review[v].correct
          /\ review'[v].state = review[v].state
      BY <1>6, <2>1, <2>3, ReviewFields DEF TypeOK, SetState, WriteState, ReviewSteps
    <3>3. v \in Scheduling(m)' /\ NewState(v)' = NewState(v)
      BY <3>2 DEF Scheduling, NewState
    <3>4. QED
      BY <3>1, <3>3 DEF Ahead
  <2>4. CASE review[v].m # m
    <3>1. row'[m] = row[m]
      BY <1>6, <2>4 DEF TypeOK, SetState, WriteState
    <3>2. QED
      BY <2>1, <2>4, <3>1, AheadOfOthers DEF Closed, Scheduling
  <2>5. QED
    BY <2>2, <2>3, <2>4
<1>7. ASSUME NEW v \in Reviewers, ScheduleNext(v) PROVE Ahead(m)'
  <2>1. /\ review[v].pc = "schedule" /\ review[v].m \in Mistakes
        /\ NewState(v) \in MistakeStates /\ review[v].count \in Nat
        /\ \A u \in Reviewers \ {v} : review'[u] = review[u]
        /\ row' = row
    BY <1>7, ReviewFields DEF TypeOK, ScheduleNext, ScheduleInto, ReviewSteps
  <2>2. CASE review[v].m = m
    <3>1. open'[m] = open[m] \cup {NextReview(v)}
      BY <1>7, <2>2 DEF TypeOK, ScheduleNext, ScheduleInto
    <3>2. NewState(v) # "mastered" => Suits(NextReview(v), NewState(v))
      BY <2>1, DelaysSuit DEF NextReview
    <3>3. \A u \in Scheduling(m) \ {v} : u \in Scheduling(m)' /\ NewState(u)' = NewState(u)
      BY <2>1 DEF Scheduling, NewState
    <3>4. Closed(m) \subseteq Closed(m)'
      BY <2>1 DEF Closed
    <3>5. QED
      BY <2>1, <3>1, <3>2, <3>3, <3>4 DEF Ahead
  <2>3. CASE review[v].m # m
    <3>1. open'[m] = open[m]
      BY <1>7, <2>3 DEF TypeOK, ScheduleNext, ScheduleInto
    <3>2. QED
      BY <2>1, <2>3, <3>1, AheadOfOthers DEF Closed, Scheduling
  <2>4. QED
    BY <2>2, <2>3
<1>8. CASE UNCHANGED vars
  BY <1>8 DEF vars, Ahead, Closed, Scheduling, NewState
<1>9. QED
  BY <1>1, <1>2, <1>3, <1>4, <1>5, <1>6, <1>7, <1>8, ErrorKeeps
  DEF Next, ReviewOutcome

-----------------------------------------------------------------------------
(* Nothing is recorded yet: every part holds. *)
LEMMA InitInv == Init => IInv
<1> SUFFICES ASSUME Init PROVE IInv
  OBVIOUS
<1>1. TypeOK
  BY Resting, BoundAssumption DEF Init, TypeOK, Rows, MistakeStates, Idle
<1>2. \A v \in Reviewers : review[v].pc = "idle"
  BY DEF Init, Idle, At
<1>3. \A m \in Mistakes : Uncounted(m) = {} /\ Rising(m) = {}
  BY <1>2 DEF Uncounted, Rising
<1>4. CountsEveryMiss
  <2>1. \A m \in Mistakes : Cardinality(Uncounted(m)) = 0
    BY <1>3, FS_EmptySet
  <2>2. \A m \in Mistakes : row[m].count = 0 /\ misses[m] = 0
    BY DEF Init
  <2>3. QED
    BY <2>1, <2>2 DEF CountsEveryMiss
<1>5. RightsCover
  <2> SUFFICES ASSUME NEW m \in Mistakes
               PROVE  /\ Level(row[m].state) + Cardinality(Rising(m)) <= rights[m]
                      /\ Rising(m) = {}
    BY DEF RightsCover
  <2>1. Rising(m) = {} /\ Cardinality(Rising(m)) = 0
    BY <1>3, FS_EmptySet
  <2>2. rights[m] = 0 /\ row[m].state = "new"
    BY DEF Init
  <2>3. Level(row[m].state) = 0
    BY <2>2 DEF Level
  <2>4. QED
    BY <2>1, <2>2, <2>3
<1>6. ScheduleAhead
  BY DEF Init, ScheduleAhead
<1>7. QED
  BY <1>1, <1>2, <1>4, <1>5, <1>6 DEF IInv, CountersOfWrongs

(* Every step keeps the invariant. *)
LEMMA NextInv == IInv /\ [Next]_vars => IInv'
<1> SUFFICES ASSUME IInv, [Next]_vars PROVE IInv'
  OBVIOUS
<1>1. TypeOK /\ TypeOK' /\ CountersOfWrongs /\ CountersOfWrongs'
  BY NextType, NextWrongs DEF IInv
<1>2. CountsEveryMiss'
  BY <1>1, NextCounts DEF IInv, CountsEveryMiss
<1>3. RightsCover'
  BY <1>1, NextCovers DEF IInv, RightsCover, Covered
<1>4. failures' = 0 => failures = 0
  <2>1. failures \in Nat
    BY <1>1, BoundAssumption DEF TypeOK
  <2>2. ASSUME NEW v \in Reviewers, IgnoredError(v) \/ ReviewFail(v)
        PROVE  failures' # 0
    <3>1. failures' = failures + 1
      BY <2>2 DEF IgnoredError, ReviewFail
    <3>2. QED
      BY <2>1, <3>1
  <2>3. QED
    BY <2>2 DEF Next, ReviewOutcome, RecordMistake, Review, ReadMistake,
       CloseSchedules, IncrementCount, SetState, WriteState, ScheduleNext, ScheduleInto,
       TouchStreak, AwardFirstReview, vars
<1>5. ScheduleAhead'
  BY <1>1, <1>4, NextAhead DEF IInv, ScheduleAhead, Ahead
<1>6. QED
  BY <1>1, <1>2, <1>3, <1>5 DEF IInv

(* The inductive invariant holds in every reachable state. *)
THEOREM Invariant == Spec => []IInv
BY InitInv, NextInv, PTL DEF Spec

(* Counters, states and schedules keep their types: a schedule is one of    *)
(* the five delays of the learning model.                                   *)
THEOREM TypeCorrect == Spec => []TypeOK
<1>1. IInv => TypeOK
  BY DEF IInv
<1>2. QED
  BY <1>1, Invariant, PTL

(* However many reviews and submissions run at once, the counter of a       *)
(* mistake misses no wrong answer and counts none twice.                    *)
THEOREM EveryMissCounted == Spec => []CountsEveryMiss
<1>1. IInv => CountsEveryMiss
  BY DEF IInv
<1>2. QED
  BY <1>1, Invariant, PTL

(* A mistake that is not mastered comes back when its state says, however   *)
(* its reviews interleaved.                                                 *)
THEOREM EveryStateScheduled == Spec => []StateHasItsSchedule
<1>1. IInv => StateHasItsSchedule
  <2>1. \A m \in Mistakes : ~Reviewing(m) => Closed(m) = {} /\ Scheduling(m) = {}
    BY DEF Reviewing, Closed, Scheduling, ReviewSteps
  <2>2. QED
    BY <2>1 DEF IInv, ScheduleAhead, StateHasItsSchedule
<1>2. QED
  BY <1>1, Invariant, PTL

(* No interleaving and no failure makes a mistake mastered before the third *)
(* right review.                                                            *)
THEOREM ThreeRightsToMaster == Spec => []MasteredAfterThree
<1>1. IInv => MasteredAfterThree
  <2> SUFFICES ASSUME IInv, NEW m \in Mistakes, row[m].state = "mastered"
               PROVE  rights[m] >= 3
    BY DEF MasteredAfterThree
  <2>1. Cardinality(Rising(m)) \in Nat
    <3>1. Rising(m) \in SUBSET Reviewers
      BY DEF Rising
    <3>2. QED
      BY <3>1, FS_Subset, FS_CardinalityType, BoundAssumption
  <2>2. 3 + Cardinality(Rising(m)) <= rights[m] /\ rights[m] \in Nat
    BY DEF IInv, TypeOK, RightsCover, Level
  <2>3. QED
    BY <2>1, <2>2
<1>2. QED
  BY <1>1, Invariant, PTL

----------------------------------------------------------------------------
(* The rules of MasteryRules that the notebook and the attempts are built  *)
(* from move the right way, for all counters.                              *)

(* Classify, without the order in which classifyMastery asks. *)
LEMMA ClassifyByAccuracy ==
  ASSUME NEW seen \in Nat, NEW correct \in 0..seen, seen >= 3
  PROVE  LabelRank(Classify(seen, correct)) =
           IF 100 * correct >= 90 * seen /\ seen >= 5 THEN 4
           ELSE IF 100 * correct >= 70 * seen THEN 3
           ELSE IF 100 * correct >= 40 * seen THEN 2
           ELSE 1
<1>1. CASE 100 * correct >= 90 * seen /\ seen >= 5
  BY <1>1 DEF Classify, LabelRank, AccuracyAtLeast
<1>2. CASE ~(100 * correct >= 90 * seen /\ seen >= 5) /\ 100 * correct >= 70 * seen
  BY <1>2 DEF Classify, LabelRank, AccuracyAtLeast
<1>3. CASE ~(100 * correct >= 70 * seen) /\ 100 * correct >= 40 * seen
  BY <1>3 DEF Classify, LabelRank, AccuracyAtLeast
<1>4. CASE ~(100 * correct >= 40 * seen)
  BY <1>4 DEF Classify, LabelRank, AccuracyAtLeast
<1>5. QED
  BY <1>1, <1>2, <1>3, <1>4

(* Once a skill is assessed, a wrong answer never improves its label: the  *)
(* steps in accuracy and in the number of answers that classifyMastery     *)
(* combines do not work against each other.                                *)
THEOREM WrongNeverPromotes ==
  ASSUME NEW seen \in Nat, NEW correct \in 0..seen, seen >= 3
  PROVE  LabelRank(Classify(seen + 1, correct)) <= LabelRank(Classify(seen, correct))
<1>1. seen + 1 \in Nat /\ correct \in 0..(seen + 1) /\ seen + 1 >= 3
  OBVIOUS
<1>2. (100 * correct >= 90 * (seen + 1) /\ seen + 1 >= 5)
        => 100 * correct >= 90 * seen /\ seen >= 5
  OBVIOUS
<1>3. QED
  BY <1>1, <1>2, ClassifyByAccuracy

(* A right answer never worsens the label of an assessed skill. *)
THEOREM RightNeverDemotes ==
  ASSUME NEW seen \in Nat, NEW correct \in 0..seen, seen >= 3
  PROVE  LabelRank(Classify(seen + 1, correct + 1)) >= LabelRank(Classify(seen, correct))
<1>1. /\ seen + 1 \in Nat /\ correct + 1 \in 0..(seen + 1) /\ seen + 1 >= 3
      /\ correct <= seen
  OBVIOUS
<1>2. /\ 100 * correct >= 90 * seen => 100 * (correct + 1) >= 90 * (seen + 1)
      /\ 100 * correct >= 70 * seen => 100 * (correct + 1) >= 70 * (seen + 1)
      /\ 100 * correct >= 40 * seen => 100 * (correct + 1) >= 40 * (seen + 1)
  BY <1>1
<1>3. QED
  BY <1>1, <1>2, ClassifyByAccuracy

(* One answer moves the label of an assessed skill by one place at most:    *)
(* the bounds of the accuracy and the five answers that mastery takes lie   *)
(* so far apart that no student sees a skill fall or rise by two at once.   *)
THEOREM OneAnswerOneStep ==
  ASSUME NEW seen \in Nat, NEW correct \in 0..seen, seen >= 3
  PROVE  /\ LabelRank(Classify(seen + 1, correct + 1)) <= LabelRank(Classify(seen, correct)) + 1
         /\ LabelRank(Classify(seen + 1, correct)) >= LabelRank(Classify(seen, correct)) - 1
<1>1. /\ seen + 1 \in Nat /\ correct \in 0..(seen + 1) /\ correct + 1 \in 0..(seen + 1)
      /\ seen + 1 >= 3
  OBVIOUS
<1>2. /\ 100 * (correct + 1) >= 90 * (seen + 1) => 100 * correct >= 70 * seen
      /\ 100 * (correct + 1) >= 70 * (seen + 1) => 100 * correct >= 40 * seen
  OBVIOUS
<1>3. /\ 100 * correct >= 90 * seen /\ seen >= 5 => 100 * correct >= 70 * (seen + 1)
      /\ 100 * correct >= 70 * seen => 100 * correct >= 40 * (seen + 1)
  OBVIOUS
<1>4. QED
  BY <1>1, <1>2, <1>3, ClassifyByAccuracy

(* The more often a mistake is made, the sooner it comes back; a review    *)
(* that went wrong brings it back no later than one that went right.       *)
THEOREM RepeatedComesSooner ==
  ASSUME NEW m \in Nat, NEW n \in Nat, m <= n
  PROVE  /\ ReviewDelay(n) <= ReviewDelay(m)
         /\ NextDelay("reviewing_soon", n) < NextDelay("reviewing_later", m)
         /\ NextDelay("reviewing_later", n) < NextDelay("stabilizing", m)
BY DEF ReviewDelay, NextDelay
=============================================================================
