--------------------------- MODULE AttemptEngine ---------------------------
(***************************************************************************)
(* One student's attempts: saving answers, submitting, expiring.           *)
(*                                                                         *)
(* The variables are tables of the PostgreSQL database, as committed.      *)
(* SaveAnswer is a status check followed, later, by an upsert in its own   *)
(* transaction.  Submit is one READ COMMITTED transaction, a statement per *)
(* action: it sees the committed tables and its own writes, which the      *)
(* record sub[r] keeps until the commit, and it holds the locks of the     *)
(* rows it wrote.  After the commit come autocommitted side effects.       *)
(* Questions, and skills, are numbered by the order the code walks them.   *)
(***************************************************************************)
EXTENDS MasteryRules, FiniteSets

CONSTANTS
  Attempts,      \* attempts of the student, all started
  Questions,     \* question numbers
  Skills,        \* skill numbers
  Tasks,         \* daily tasks
  NoTask,        \* an attempt that no daily task started
  Submitters,    \* requests to Submit
  Order,         \* the questions of an attempt (attempts.question_order)
  Frozen,        \* those of them createAttempt froze a version of
  Edited,        \* questions taken out of publication, and back, meanwhile
  SkillsOf,      \* the skills of a question (question_skills)
  TaskOf,        \* the task an attempt was started from
  Target,        \* the attempt a request submits
  PriorSeen,     \* answers per skill before these attempts
  PriorCorrect,  \* the correct ones among them
  MaxInFlight,   \* bound on SaveAnswer calls in progress
  MaxFailures    \* bound on requests that die

ASSUME DataAssumption ==
  /\ Questions \subseteq Nat /\ IsFiniteSet(Questions)
  /\ Skills \subseteq Nat /\ IsFiniteSet(Skills)
  /\ Order \in [Attempts -> SUBSET Questions]
  /\ Frozen \in [Attempts -> SUBSET Questions]
  /\ \A a \in Attempts : Frozen[a] \subseteq Order[a]
  /\ Edited \subseteq Questions
  /\ SkillsOf \in [Questions -> SUBSET Skills]

ASSUME RequestAssumption ==
  /\ NoTask \notin Tasks
  /\ TaskOf \in [Attempts -> Tasks \cup {NoTask}]
  /\ Target \in [Submitters -> Attempts]
  /\ MaxInFlight \in Nat /\ MaxFailures \in Nat

ASSUME PriorAssumption ==
  /\ PriorSeen \in [Skills -> Nat]
  /\ PriorCorrect \in [Skills -> Nat]
  /\ \A s \in Skills : PriorCorrect[s] <= PriorSeen[s]

VARIABLES
  status,       \* attempts.status
  published,    \* questions whose status is published
  answers,      \* attempt_answers: the grade of each row, "none" without a row
  results,      \* attempt_results: the rows of each attempt
  mastery,      \* student_skill_mastery: the counters of each skill
  mistakes,     \* student_mistakes.mistake_count, 0 without a row
  completed,    \* daily_tasks with status completed
  completions,  \* task_completions
  activeToday,  \* student_streaks.last_activity_date is today
  awards,       \* student_achievements
  inFlight,     \* SaveAnswer calls past the status check, before the upsert
  sub,          \* progress of each Submit request
  reply,        \* the result the last run of each Submit request returned
  failures      \* requests that died so far

learning == <<mastery, mistakes>>
effects == <<completed, completions, activeToday, awards>>
vars == <<status, published, answers, results, learning, effects,
          inFlight, sub, reply, failures>>

Grades == {"right", "wrong"}
Answers == Grades \cup {"none", "blank"}   \* blank: saved by Submit, wrong
Rows == {row \in [seen : Nat, correct : Nat] : row.correct <= row.seen}
Results == [right : SUBSET Questions, counted : SUBSET Questions]
Calls == [a : Attempts, q : Questions, grade : Grades]

First(S) == CHOOSE x \in S : \A y \in S : x <= y

(* Questions of S that exercise skill s, as the skill aggregation counts   *)
(* them.                                                                   *)
Count(S, s) == Cardinality({q \in S : s \in SkillsOf[q]})

(* loadFrozenQuestions: the frozen version, or else the published one. *)
Loadable(a) == Order[a] \cap (Frozen[a] \cup published)

-----------------------------------------------------------------------------
(* The transaction of a Submit request *)

TxStates == {"load", "answered", "fill", "skills", "mistakes"}
AfterCommit == {"task", "completion", "streak", "award"}
SubStates == {"idle", "finished"} \cup TxStates \cup AfterCommit

Fresh == [pc      |-> "idle",
          todo    |-> {},   \* what is left of the current loop
          blanks  |-> {},   \* answer rows this transaction upserted
          right   |-> {},   \* LoadAnswers: rows with is_correct
          counted |-> {},   \* LoadAnswers: all rows
          held    |-> {},   \* mastery rows this transaction wrote
          rows    |-> [s \in Skills |-> [seen |-> 0, correct |-> 0]],
          missed  |-> {},   \* mistake rows this transaction wrote
          counts  |-> [q \in Questions |-> 0]]

Transactions ==
  [pc : SubStates, todo : SUBSET (Questions \cup Skills),
   blanks : SUBSET Questions, right : SUBSET Questions, counted : SUBSET Questions,
   held : SUBSET Skills, rows : [Skills -> Rows],
   missed : SUBSET Questions, counts : [Questions -> Nat]]

InTx(r) == sub[r].pc \in TxStates

AttemptLocked(a) == \E r \in Submitters : InTx(r) /\ Target[r] = a
AnswerLocked(a, q) ==
  \E r \in Submitters : InTx(r) /\ Target[r] = a /\ q \in sub[r].blanks
SkillLockedBy(t, s) == InTx(t) /\ s \in sub[t].held
MistakeLockedBy(t, q) == InTx(t) /\ q \in sub[t].missed

(* What r reads of an answer row: its own write, or else the committed row. *)
Visible(r, q) ==
  IF q \in sub[r].blanks THEN "blank" ELSE answers[Target[r]][q]

OutcomeOf(r) == [right |-> sub[r].right, counted |-> sub[r].counted]

-----------------------------------------------------------------------------
Init ==
  /\ status = [a \in Attempts |-> "in_progress"]
  /\ published = Questions
  /\ answers = [a \in Attempts |-> [q \in Questions |-> "none"]]
  /\ results = [a \in Attempts |-> {}]
  /\ mastery = [s \in Skills |-> [seen |-> PriorSeen[s], correct |-> PriorCorrect[s]]]
  /\ mistakes = [q \in Questions |-> 0]
  /\ completed = {} /\ completions = {}
  /\ activeToday = FALSE
  /\ awards = {}
  /\ inFlight = {}
  /\ sub = [r \in Submitters |-> Fresh]
  /\ reply = [r \in Submitters |-> {}]
  /\ failures = 0

(* SaveAnswer up to Grade: the attempt is in progress, the question belongs *)
(* to it and can be loaded.  Everything is read outside a transaction.      *)
SaveAnswerCheck(c) ==
  /\ Cardinality(inFlight) < MaxInFlight
  /\ status[c.a] = "in_progress"
  /\ c.q \in Loadable(c.a)
  /\ inFlight' = inFlight \cup {c}
  /\ UNCHANGED <<status, published, answers, results, learning, effects,
                 sub, reply, failures>>

(* The upsert of AttemptRepository.SaveAnswer: it does not look at the      *)
(* attempt again.  It waits for a transaction that wrote the row.           *)
SaveAnswerWrite(c) ==
  /\ c \in inFlight
  /\ ~AnswerLocked(c.a, c.q)
  /\ answers' = [answers EXCEPT ![c.a][c.q] = c.grade]
  /\ inFlight' = inFlight \ {c}
  /\ UNCHANGED <<status, published, results, learning, effects, sub, reply,
                 failures>>

SaveAnswerFail(c) ==
  /\ c \in inFlight
  /\ failures < MaxFailures
  /\ inFlight' = inFlight \ {c}
  /\ failures' = failures + 1
  /\ UNCHANGED <<status, published, answers, results, learning, effects, sub,
                 reply>>

-----------------------------------------------------------------------------
(* Submit.  A step rewrites sub[r]; the database changes at the commit. *)

Step(r, rec) ==
  /\ sub' = [sub EXCEPT ![r] = rec]
  /\ UNCHANGED <<status, published, answers, results, learning, effects,
                 inFlight, reply, failures>>

(* Mutant: the status update is not part of the transaction. *)
MarkSubmittedAutocommit(r) ==
  /\ sub[r].pc = "idle"
  /\ status[Target[r]] = "in_progress"
  /\ status' = [status EXCEPT ![Target[r]] = "submitted"]
  /\ sub' = [sub EXCEPT ![r].pc = "load"]
  /\ UNCHANGED <<published, answers, results, learning, effects, inFlight,
                 reply, failures>>

(* Mutant: neither the status nor the row lock stops a second submission. *)
MarkSubmittedUnguarded(r) ==
  sub[r].pc = "idle" /\ Step(r, [Fresh EXCEPT !.pc = "load"])

(* MarkSubmitted: waits for the lock of the attempt row, then looks at the  *)
(* committed status.                                                        *)
MarkSubmitted(r) ==
  /\ sub[r].pc = "idle"
  /\ ~AttemptLocked(Target[r])
  /\ IF status[Target[r]] = "in_progress"
     THEN Step(r, [Fresh EXCEPT !.pc = "load"])
     ELSE Step(r, [Fresh EXCEPT !.pc = "finished"])

(* ErrAttemptFinished: GetResult, outside the transaction. *)
GetResult(r) ==
  /\ sub[r].pc = "finished"
  /\ reply' = [reply EXCEPT ![r] = results[Target[r]]]
  /\ sub' = [sub EXCEPT ![r] = Fresh]
  /\ UNCHANGED <<status, published, answers, results, learning, effects,
                 inFlight, failures>>

(* loadFrozenQuestions, on a connection of the pool. *)
LoadQuestions(r) ==
  /\ sub[r].pc = "load"
  /\ Step(r, [sub[r] EXCEPT !.pc = "answered", !.todo = Loadable(Target[r])])

(* AnsweredQuestionIDs: what is left unanswered. *)
ReadAnswered(r) ==
  /\ sub[r].pc = "answered"
  /\ LET open == {q \in sub[r].todo : answers[Target[r]][q] = "none"}
     IN  Step(r, [sub[r] EXCEPT !.pc = "fill", !.todo = open])

(* SaveAnswer(null, false) for the next question of the order that was read *)
(* as unanswered; an upsert, whatever the row holds by now.                 *)
FillBlank(r) ==
  /\ sub[r].pc = "fill" /\ sub[r].todo # {}
  /\ LET q == First(sub[r].todo)
     IN  Step(r, [sub[r] EXCEPT !.todo = @ \ {q}, !.blanks = @ \cup {q}])

(* LoadAnswers: the rows the score and the skill counts are computed from. *)
LoadAnswers(r) ==
  /\ sub[r].pc = "fill" /\ sub[r].todo = {}
  /\ LET counted == {q \in Questions : Visible(r, q) # "none"}
         right == {q \in Questions : Visible(r, q) = "right"}
     IN  Step(r, [sub[r] EXCEPT !.pc = "skills", !.counted = counted,
                                !.right = right,
                                !.todo = UNION {SkillsOf[q] : q \in counted}])

(* Mutant: the counters are read, and written later, without a row lock. *)
RecordSkillOutcomeUnlocked(r) ==
  /\ sub[r].pc = "skills" /\ sub[r].todo # {}
  /\ LET s == First(sub[r].todo)
         row == [seen    |-> mastery[s].seen + Count(sub[r].counted, s),
                 correct |-> mastery[s].correct + Count(sub[r].right, s)]
     IN  Step(r, [sub[r] EXCEPT !.todo = @ \ {s}, !.held = @ \cup {s},
                                !.rows[s] = row])

(* Mutant: the skills are taken in the order of a Go map, which is random. *)
RecordSkillOutcomeUnsorted(r) ==
  /\ sub[r].pc = "skills"
  /\ \E s \in sub[r].todo :
       /\ \A t \in Submitters \ {r} : ~SkillLockedBy(t, s)
       /\ Step(r, [sub[r] EXCEPT !.todo = @ \ {s}, !.held = @ \cup {s}])

(* RecordSkillOutcome for the next skill, in ascending order. *)
RecordSkillOutcome(r) ==
  /\ sub[r].pc = "skills" /\ sub[r].todo # {}
  /\ LET s == First(sub[r].todo)
         row == [seen    |-> mastery[s].seen + Count(sub[r].counted, s),
                 correct |-> mastery[s].correct + Count(sub[r].right, s)]
     IN  /\ \A t \in Submitters \ {r} : ~SkillLockedBy(t, s)
         /\ Step(r, [sub[r] EXCEPT !.todo = @ \ {s}, !.held = @ \cup {s},
                                   !.rows[s] = row])

(* recordMistakes reads the wrong answers again, one row per question that  *)
(* has a skill.                                                             *)
ReadWrong(r) ==
  /\ sub[r].pc = "skills" /\ sub[r].todo = {}
  /\ LET wrong == {q \in Questions : /\ Visible(r, q) \in {"wrong", "blank"}
                                     /\ SkillsOf[q] # {}}
     IN  Step(r, [sub[r] EXCEPT !.pc = "mistakes", !.todo = wrong])

(* RecordMistake, in the order the database returned the rows in. *)
RecordMistake(r, q) ==
  /\ sub[r].pc = "mistakes" /\ q \in sub[r].todo
  /\ \A t \in Submitters \ {r} : ~MistakeLockedBy(t, q)
  /\ Step(r, [sub[r] EXCEPT !.todo = @ \ {q}, !.missed = @ \cup {q},
                            !.counts[q] = mistakes[q] + 1])

(* SaveResult (ON CONFLICT DO NOTHING) and the commit that publishes every  *)
(* write of the transaction.                                                *)
Commit(r) ==
  LET a == Target[r] IN
  /\ sub[r].pc = "mistakes" /\ sub[r].todo = {}
  /\ status' = [status EXCEPT ![a] = "submitted"]
  /\ answers' = [answers EXCEPT
       ![a] = [q \in Questions |-> Visible(r, q)]]
  /\ mastery' = [s \in Skills |->
       IF s \in sub[r].held THEN sub[r].rows[s] ELSE mastery[s]]
  /\ mistakes' = [q \in Questions |->
       IF q \in sub[r].missed THEN sub[r].counts[q] ELSE mistakes[q]]
  /\ results' = [results EXCEPT ![a] = IF @ = {} THEN {OutcomeOf(r)} ELSE @]
  /\ sub' = [sub EXCEPT ![r].pc = IF TaskOf[a] = NoTask THEN "streak" ELSE "task"]
  /\ UNCHANGED <<published, effects, inFlight, reply, failures>>

-----------------------------------------------------------------------------
(* After the commit: idempotent side effects, each in its own transaction. *)

SideEffect(r, next) ==
  /\ sub' = [sub EXCEPT ![r].pc = next]
  /\ UNCHANGED <<status, published, answers, results, learning, inFlight,
                 reply, failures>>

(* Mutant: the completion row is forgotten. *)
CompleteTaskOnly(r) ==
  /\ sub[r].pc = "task"
  /\ completed' = completed \cup {TaskOf[Target[r]]}
  /\ SideEffect(r, "streak")
  /\ UNCHANGED <<completions, activeToday, awards>>

CompleteTask(r) ==
  /\ sub[r].pc = "task"
  /\ completed' = completed \cup {TaskOf[Target[r]]}
  /\ SideEffect(r, "completion")
  /\ UNCHANGED <<completions, activeToday, awards>>

InsertCompletion(r) ==
  /\ sub[r].pc = "completion"
  /\ completions' = completions \cup {TaskOf[Target[r]]}
  /\ SideEffect(r, "streak")
  /\ UNCHANGED <<completed, activeToday, awards>>

(* An error of completeLinkedDailyTask, or of TouchStreak, is dropped and   *)
(* Submit goes on.                                                          *)
EffectError(r) ==
  /\ sub[r].pc \in {"task", "completion", "streak"}
  /\ failures < MaxFailures
  /\ failures' = failures + 1
  /\ sub' = [sub EXCEPT ![r].pc = IF @ = "streak" THEN "award" ELSE "streak"]
  /\ UNCHANGED <<status, published, answers, results, learning, effects,
                 inFlight, reply>>

TouchStreak(r) ==
  /\ sub[r].pc = "streak"
  /\ activeToday' = TRUE
  /\ SideEffect(r, "award")
  /\ UNCHANGED <<completed, completions, awards>>

MasteredNow(r) ==
  \E s \in sub[r].held :
    Classify(sub[r].rows[s].seen, sub[r].rows[s].correct) = "mastered"

Earned(r) == {"first_quiz"} \cup IF MasteredNow(r) THEN {"first_skill_mastered"} ELSE {}

AwardAndReply(r) ==
  /\ sub[r].pc = "award"
  /\ awards' = awards \cup Earned(r)
  /\ reply' = [reply EXCEPT ![r] = {OutcomeOf(r)}]
  /\ sub' = [sub EXCEPT ![r] = Fresh]
  /\ UNCHANGED <<status, published, answers, results, learning, completed,
                 completions, activeToday, inFlight, failures>>

(* An error of Award is dropped too: the student gets the result. *)
ReplyUnawarded(r) ==
  /\ sub[r].pc = "award"
  /\ failures < MaxFailures
  /\ failures' = failures + 1
  /\ \E granted \in SUBSET Earned(r) : awards' = awards \cup granted
  /\ reply' = [reply EXCEPT ![r] = {OutcomeOf(r)}]
  /\ sub' = [sub EXCEPT ![r] = Fresh]
  /\ UNCHANGED <<status, published, answers, results, learning, completed,
                 completions, activeToday, inFlight>>

(* Mutant: the counters are written outside the transaction and survive. *)
SubmitFailKeepsCounters(r) ==
  /\ sub[r].pc = "mistakes" /\ failures < MaxFailures
  /\ failures' = failures + 1
  /\ mastery' = [s \in Skills |->
       IF s \in sub[r].held THEN sub[r].rows[s] ELSE mastery[s]]
  /\ sub' = [sub EXCEPT ![r] = Fresh]
  /\ UNCHANGED <<status, published, answers, results, mistakes, effects,
                 inFlight, reply>>

(* The request dies: a failed statement, a lost connection, a crash of the  *)
(* API.  An open transaction is rolled back and its locks released.         *)
SubmitFail(r) ==
  /\ sub[r].pc # "idle"
  /\ failures < MaxFailures
  /\ failures' = failures + 1
  /\ sub' = [sub EXCEPT ![r] = Fresh]
  /\ UNCHANGED <<status, published, answers, results, learning, effects,
                 inFlight, reply>>

-----------------------------------------------------------------------------
(* The worker: ExpireAbandonedAttempts abandons the attempts that are older *)
(* than a day, in one statement that waits for locked rows.                 *)
ExpireAbandonedAttempts ==
  /\ \E old \in SUBSET Attempts :
       /\ old # {}
       /\ \A a \in old : status[a] = "in_progress" /\ ~AttemptLocked(a)
       /\ status' = [a \in Attempts |->
                       IF a \in old THEN "abandoned" ELSE status[a]]
  /\ UNCHANGED <<published, answers, results, learning, effects, inFlight,
                 sub, reply, failures>>

(* An administrator takes a question out of publication, or back. *)
ChangePublication(q) ==
  /\ published' = IF q \in published THEN published \ {q} ELSE published \cup {q}
  /\ UNCHANGED <<status, answers, results, learning, effects, inFlight, sub,
                 reply, failures>>

-----------------------------------------------------------------------------
SubmitStep(r) ==
  \/ GetResult(r)
  \/ LoadQuestions(r)
  \/ ReadAnswered(r)
  \/ FillBlank(r)
  \/ LoadAnswers(r)
  \/ RecordSkillOutcome(r)
  \/ ReadWrong(r)
  \/ \E q \in Questions : RecordMistake(r, q)
  \/ Commit(r)
  \/ CompleteTask(r)
  \/ InsertCompletion(r)
  \/ TouchStreak(r)
  \/ AwardAndReply(r)

Submit(r) ==
  \/ MarkSubmitted(r)
  \/ SubmitStep(r)
  \/ EffectError(r)
  \/ ReplyUnawarded(r)
  \/ SubmitFail(r)

SaveAnswer(c) ==
  \/ SaveAnswerCheck(c)
  \/ SaveAnswerWrite(c)
  \/ SaveAnswerFail(c)

Next ==
  \/ \E r \in Submitters : Submit(r)
  \/ \E c \in Calls : SaveAnswer(c)
  \/ ExpireAbandonedAttempts
  \/ \E q \in Edited : ChangePublication(q)

Spec == Init /\ [][Next]_vars

(* A request that the server accepted keeps running unless it dies. *)
FairSpec ==
  /\ Spec
  /\ \A r \in Submitters : WF_vars(SubmitStep(r))
  /\ \A c \in Calls : WF_vars(SaveAnswerWrite(c))

-----------------------------------------------------------------------------
(* Every table and every request record has its type, and no skill counts  *)
(* more correct answers than answers.                                      *)
TypeOK ==
  /\ status \in [Attempts -> {"in_progress", "submitted", "abandoned"}]
  /\ published \in SUBSET Questions
  /\ answers \in [Attempts -> [Questions -> Answers]]
  /\ results \in [Attempts -> SUBSET Results]
  /\ mastery \in [Skills -> Rows]
  /\ mistakes \in [Questions -> Nat]
  /\ completed \in SUBSET Tasks /\ completions \in SUBSET Tasks
  /\ activeToday \in BOOLEAN
  /\ awards \in SUBSET {"first_quiz", "first_skill_mastered"}
  /\ inFlight \in SUBSET Calls
  /\ sub \in [Submitters -> Transactions]
  /\ reply \in [Submitters -> SUBSET Results]
  /\ failures \in 0..MaxFailures

(* "Either submitted with its result or not submitted": whatever dies, and *)
(* wherever, no attempt is left submitted without the result its student   *)
(* can read, and no other attempt has one.                                 *)
ResultIffSubmitted ==
  \A a \in Attempts :
    Cardinality(results[a]) = IF status[a] = "submitted" THEN 1 ELSE 0

(* A duplicate, concurrent or repeated Submit answers with the result that *)
(* the first one stored, never with one of its own.                        *)
ReplyIsStored == \A r \in Submitters : reply[r] \subseteq results[Target[r]]

(* Unless a request died, a submitted attempt that no request is still     *)
(* working on has completed its daily task, with the completion row, and   *)
(* counted for the streak and the first_quiz achievement.                  *)
SideEffectsFollow ==
  failures = 0 =>
    \A a \in Attempts : status[a] = "submitted" =>
      \/ \E r \in Submitters : Target[r] = a /\ sub[r].pc \in AfterCommit
      \/ /\ activeToday
         /\ "first_quiz" \in awards
         /\ TaskOf[a] # NoTask => TaskOf[a] \in completed \cap completions

(* r cannot take its next step until t's transaction ends. *)
WaitsFor(r, t) ==
  /\ r # t
  /\ \/ sub[r].pc = "idle" /\ InTx(t) /\ Target[r] = Target[t]
     \/ /\ sub[r].pc = "skills" /\ sub[r].todo # {}
        /\ SkillLockedBy(t, First(sub[r].todo))
     \/ /\ sub[r].pc = "mistakes" /\ sub[r].todo # {}
        /\ \A q \in sub[r].todo : MistakeLockedBy(t, q)

(* Submissions of one student's attempts never wait for each other in a    *)
(* circle: the rows of the skills are locked in ascending order, and two   *)
(* transactions that would meet on a mistake share a skill first.          *)
NoDeadlock ==
  \A S \in SUBSET Submitters : S # {} =>
    \E r \in S : \A t \in S : ~WaitsFor(r, t)

(* What is promised to the student, without the requests and statements.   *)
Ledger == INSTANCE AttemptLedger WITH
  status <- status, results <- results, mastery <- mastery, mistakes <- mistakes
LedgerSpec == Ledger!Spec

(* A Submit request that began returns, or dies. *)
SubmitReturns == \A r \in Submitters : sub[r].pc # "idle" ~> sub[r].pc = "idle"

(* docs/security-requirements.md and the comment of MarkSubmitted: after an *)
(* attempt ends no answer is accepted any more.                             *)
AnswersFinal ==
  [][\A a \in Attempts : status[a] # "in_progress" => answers'[a] = answers[a]]_vars

(* The comment in Submit: the questions recorded as wrong without an answer *)
(* are those the student has not answered at all.                           *)
BlankOnlyUnanswered ==
  [][\A a \in Attempts, q \in Questions :
       answers'[a][q] = "blank" => answers[a][q] \in {"none", "blank"}]_vars
=============================================================================
