------------------------ MODULE AttemptEngineProofs ------------------------
(***************************************************************************)
(* For every set of attempts, questions, skills and requests: the types,   *)
(* the inductive invariant behind the transaction of Submit, and what      *)
(* follows from it.                                                        *)
(***************************************************************************)
EXTENDS AttemptEngine, FiniteSetTheorems, WellFoundedInduction, TLAPS

(* The row lock of the attempt: one open transaction per attempt, and the  *)
(* attempt it submits is still in progress for everyone else.              *)
OneTxPerAttempt ==
  \A r \in Submitters : InTx(r) =>
    /\ status[Target[r]] = "in_progress"
    /\ \A t \in Submitters : InTx(t) /\ Target[t] = Target[r] => t = r

(* Result rows, and the requests that know one. *)
ResultRows ==
  /\ \A a \in Attempts :
       IF status[a] = "submitted" THEN \E res \in Results : results[a] = {res}
       ELSE results[a] = {}
  /\ \A r \in Submitters :
       sub[r].pc \in AfterCommit => results[Target[r]] = {OutcomeOf(r)}

(* What a request record holds belongs to the attempt a. *)
OwnOf(rec, a) ==
  /\ rec.blanks \subseteq Order[a]
  /\ rec.pc \in {"answered", "fill"} => rec.todo \subseteq Order[a]
  /\ rec.pc = "mistakes" => rec.todo \subseteq Order[a]
  /\ rec.right \subseteq rec.counted
  /\ rec.counted \subseteq Order[a]
  /\ rec.missed \subseteq Order[a]

(* Answers are given to the questions of the attempt only. *)
OwnQuestions ==
  /\ \A a \in Attempts, q \in Questions : answers[a][q] # "none" => q \in Order[a]
  /\ \A c \in inFlight : c.q \in Order[c.a]
  /\ \A r \in Submitters : OwnOf(sub[r], Target[r])

(* The row versions a transaction wrote are made from what is committed    *)
(* still, and the skills it wrote or has to write are those of its answers. *)
VersionsOf(rec) ==
  /\ \A s \in rec.held :
       rec.rows[s] = [seen    |-> mastery[s].seen + Count(rec.counted, s),
                      correct |-> mastery[s].correct + Count(rec.right, s)]
  /\ \A q \in rec.missed : rec.counts[q] = mistakes[q] + 1
  /\ rec.pc \in {"load", "answered", "fill"} => rec.held = {}
  /\ rec.pc = "skills" =>
       rec.held \cup rec.todo = UNION {SkillsOf[q] : q \in rec.counted}
  /\ rec.pc = "mistakes" => rec.held = UNION {SkillsOf[q] : q \in rec.counted}
  /\ rec.pc # "mistakes" => rec.missed = {}

RowVersions == \A r \in Submitters : InTx(r) => VersionsOf(sub[r])

(* A row lock has one owner. *)
ExclusiveLocks ==
  \A r, t \in Submitters : InTx(r) /\ InTx(t) /\ r # t =>
    sub[r].held \cap sub[t].held = {} /\ sub[r].missed \cap sub[t].missed = {}

(* Only the attempts of a daily task have a task to complete. *)
TaskSteps ==
  \A r \in Submitters :
    sub[r].pc \in {"task", "completion"} => TaskOf[Target[r]] # NoTask

IInv == /\ TypeOK /\ OneTxPerAttempt /\ ResultRows /\ OwnQuestions
        /\ RowVersions /\ ExclusiveLocks /\ TaskSteps /\ ReplyIsStored

-----------------------------------------------------------------------------
(* First picks the least element of a non-empty set of numbers. *)
LEMMA FirstIsLeast ==
  ASSUME NEW S \in SUBSET Nat, S # {}
  PROVE  First(S) \in S /\ \A y \in S : First(S) <= y
<1>1. PICK x \in S : \A y \in S : ~(<<y, x>> \in OpToRel(<, Nat))
  BY NatLessThanWellFounded, WFMin
<1>2. \A y \in S : ~(y < x)
  BY <1>1, Zenon DEF OpToRel
<1>3. \A y \in S : x <= y
  BY <1>2
<1>4. QED
  BY <1>3 DEF First

(* The counts of a set of questions are numbers and grow with the set. *)
LEMMA CountMonotone ==
  ASSUME NEW S \in SUBSET Questions, NEW T \in SUBSET S, NEW s
  PROVE  /\ Count(S, s) \in Nat /\ Count(T, s) \in Nat
         /\ Count(T, s) <= Count(S, s)
<1> DEFINE A == {q \in S : s \in SkillsOf[q]}
           B == {q \in T : s \in SkillsOf[q]}
<1>1. IsFiniteSet(A)
  BY FS_Subset, DataAssumption, A \in SUBSET Questions
<1>2. IsFiniteSet(B) /\ Cardinality(B) <= Cardinality(A)
  BY <1>1, FS_Subset, B \in SUBSET A
<1>3. QED
  BY <1>1, <1>2, FS_CardinalityType DEF Count

(* No question, no count. *)
LEMMA CountOfNone ==
  ASSUME NEW S, NEW s, \A q \in S : s \notin SkillsOf[q]
  PROVE  Count(S, s) = 0
<1>1. {q \in S : s \in SkillsOf[q]} = {}
  OBVIOUS
<1>2. QED
  BY <1>1, FS_EmptySet DEF Count

-----------------------------------------------------------------------------
(* Types *)

(* The record of a request that has not begun has its type. *)
LEMMA FreshType == Fresh \in Transactions
BY DEF Fresh, Transactions, SubStates, Rows

(* The initial tables are well typed: the prior counters are. *)
LEMMA InitType == Init => TypeOK
<1> SUFFICES ASSUME Init PROVE TypeOK
  OBVIOUS
<1>1. mastery \in [Skills -> Rows]
  BY PriorAssumption DEF Init, Rows
<1>2. answers \in [Attempts -> [Questions -> Answers]]
  BY DEF Init, Answers
<1>3. sub \in [Submitters -> Transactions]
  BY FreshType DEF Init
<1>4. failures \in 0..MaxFailures
  BY RequestAssumption DEF Init
<1>5. QED
  BY <1>1, <1>2, <1>3, <1>4 DEF Init, TypeOK

(* A step inside a request keeps the types if the new record has its type. *)
LEMMA StepType ==
  ASSUME TypeOK, NEW r \in Submitters, NEW rec \in Transactions, Step(r, rec)
  PROVE  TypeOK'
BY DEF TypeOK, Step, learning, effects

(* A transaction reads an answer, whether its own or a committed one. *)
LEMMA VisibleType ==
  ASSUME TypeOK, NEW r \in Submitters, NEW q \in Questions
  PROVE  Visible(r, q) \in Answers
BY RequestAssumption DEF TypeOK, Visible, Answers

(* The transaction of Submit begins, or turns out not to be needed. *)
LEMMA MarkSubmittedType ==
  ASSUME TypeOK, NEW r \in Submitters, MarkSubmitted(r) PROVE TypeOK'
<1>1. [Fresh EXCEPT !.pc = "load"] \in Transactions
  BY FreshType DEF Transactions, SubStates, TxStates
<1>2. [Fresh EXCEPT !.pc = "finished"] \in Transactions
  BY FreshType DEF Transactions, SubStates
<1>3. QED
  BY <1>1, <1>2, StepType DEF MarkSubmitted

(* The questions that can be loaded are questions. *)
LEMMA LoadQuestionsType ==
  ASSUME TypeOK, NEW r \in Submitters, LoadQuestions(r) PROVE TypeOK'
<1>1. Loadable(Target[r]) \subseteq Questions
  BY RequestAssumption, DataAssumption DEF Loadable
<1>2. sub[r] \in Transactions
  BY DEF TypeOK
<1>3. [sub[r] EXCEPT !.pc = "answered", !.todo = Loadable(Target[r])] \in Transactions
  BY <1>1, <1>2 DEF Transactions, SubStates, TxStates
<1>4. QED
  BY <1>3, StepType DEF LoadQuestions

(* So are the unanswered ones. *)
LEMMA ReadAnsweredType ==
  ASSUME TypeOK, NEW r \in Submitters, ReadAnswered(r),
         sub[r].todo \subseteq Questions
  PROVE  TypeOK'
<1> DEFINE open == {q \in sub[r].todo : answers[Target[r]][q] = "none"}
<1>1. open \subseteq Questions
  OBVIOUS
<1>2. sub[r] \in Transactions
  BY DEF TypeOK
<1> HIDE DEF open
<1>3. [sub[r] EXCEPT !.pc = "fill", !.todo = open] \in Transactions
  BY <1>1, <1>2 DEF Transactions, SubStates, TxStates
<1>4. QED
  BY <1>3, StepType DEF ReadAnswered, open

(* The next question to fill is one of those left. *)
LEMMA FillBlankType ==
  ASSUME TypeOK, NEW r \in Submitters, FillBlank(r),
         sub[r].todo \subseteq Questions
  PROVE  TypeOK'
<1> DEFINE q == First(sub[r].todo)
           rec == [sub[r] EXCEPT !.todo = @ \ {q}, !.blanks = @ \cup {q}]
<1>1. q \in sub[r].todo
  BY FirstIsLeast, DataAssumption DEF FillBlank
<1>2. sub[r] \in Transactions
  BY DEF TypeOK
<1>3. rec \in Transactions
  BY <1>1, <1>2 DEF Transactions
<1>4. QED
  BY <1>3, StepType DEF FillBlank

(* The rows that are read are questions, their skills are skills. *)
LEMMA LoadAnswersType ==
  ASSUME TypeOK, NEW r \in Submitters, LoadAnswers(r) PROVE TypeOK'
<1> DEFINE counted == {q \in Questions : Visible(r, q) # "none"}
           right == {q \in Questions : Visible(r, q) = "right"}
           todo == UNION {SkillsOf[q] : q \in counted}
           rec == [sub[r] EXCEPT !.pc = "skills", !.counted = counted,
                                 !.right = right, !.todo = todo]
<1>1. todo \subseteq Skills
  BY DataAssumption
<1> HIDE DEF todo
<1>2. sub[r] \in Transactions
  BY DEF TypeOK
<1>3. rec \in Transactions
  BY <1>1, <1>2 DEF Transactions, SubStates, TxStates
<1>4. QED
  BY <1>3, StepType DEF LoadAnswers, todo

(* New counters: right answers stay at most as many as answers. *)
LEMMA RecordSkillOutcomeType ==
  ASSUME TypeOK, NEW r \in Submitters, RecordSkillOutcome(r),
         sub[r].todo \subseteq Skills, sub[r].right \subseteq sub[r].counted
  PROVE  TypeOK'
<1> DEFINE s == First(sub[r].todo)
           row == [seen    |-> mastery[s].seen + Count(sub[r].counted, s),
                   correct |-> mastery[s].correct + Count(sub[r].right, s)]
           rec == [sub[r] EXCEPT !.todo = @ \ {s}, !.held = @ \cup {s},
                                 !.rows[s] = row]
<1>1. s \in sub[r].todo
  BY FirstIsLeast, DataAssumption DEF RecordSkillOutcome
<1>2. /\ Count(sub[r].counted, s) \in Nat /\ Count(sub[r].right, s) \in Nat
      /\ Count(sub[r].right, s) <= Count(sub[r].counted, s)
  BY CountMonotone DEF TypeOK, Transactions
<1> HIDE DEF s
<1>3. row \in Rows
  BY <1>1, <1>2 DEF TypeOK, Rows
<1> HIDE DEF row
<1>4. sub[r] \in Transactions
  BY DEF TypeOK
<1>5. rec \in Transactions
  BY <1>1, <1>3, <1>4 DEF Transactions
<1>6. QED
  BY <1>5, StepType DEF RecordSkillOutcome, s, row

(* The wrong answers are answers. *)
LEMMA ReadWrongType ==
  ASSUME TypeOK, NEW r \in Submitters, ReadWrong(r) PROVE TypeOK'
<1> DEFINE wrong == {q \in Questions : /\ Visible(r, q) \in {"wrong", "blank"}
                                       /\ SkillsOf[q] # {}}
<1>1. wrong \subseteq Questions
  OBVIOUS
<1> HIDE DEF wrong
<1>2. sub[r] \in Transactions
  BY DEF TypeOK
<1>3. [sub[r] EXCEPT !.pc = "mistakes", !.todo = wrong] \in Transactions
  BY <1>1, <1>2 DEF Transactions, SubStates, TxStates
<1>4. QED
  BY <1>3, StepType DEF ReadWrong, wrong

(* A mistake is counted once more. *)
LEMMA RecordMistakeType ==
  ASSUME TypeOK, NEW r \in Submitters, NEW q \in Questions, RecordMistake(r, q)
  PROVE  TypeOK'
<1> DEFINE n == mistakes[q] + 1
           rec == [sub[r] EXCEPT !.todo = @ \ {q}, !.missed = @ \cup {q},
                                 !.counts[q] = n]
<1>1. n \in Nat /\ sub[r] \in Transactions
  BY DEF TypeOK
<1> HIDE DEF n
<1>2. rec \in Transactions
  BY <1>1 DEF Transactions
<1>3. QED
  BY <1>2, StepType DEF RecordMistake, n

(* The commit publishes what the record of the request holds. *)
LEMMA CommitType ==
  ASSUME TypeOK, NEW r \in Submitters, Commit(r) PROVE TypeOK'
<1> DEFINE a == Target[r]
<1>1. a \in Attempts /\ sub[r] \in Transactions
  BY RequestAssumption DEF TypeOK
<1>2. status' \in [Attempts -> {"in_progress", "submitted", "abandoned"}]
  BY <1>1 DEF TypeOK, Commit
<1>3. answers' \in [Attempts -> [Questions -> Answers]]
  BY <1>1, VisibleType DEF TypeOK, Commit
<1>4. mastery' \in [Skills -> Rows] /\ mistakes' \in [Questions -> Nat]
  BY <1>1 DEF TypeOK, Commit, Transactions
<1>5. results' \in [Attempts -> SUBSET Results]
  BY <1>1 DEF TypeOK, Commit, Transactions, OutcomeOf, Results
<1>6. sub' \in [Submitters -> Transactions]
  BY <1>1 DEF TypeOK, Commit, Transactions, SubStates, AfterCommit
<1>7. QED
  BY <1>2, <1>3, <1>4, <1>5, <1>6 DEF TypeOK, Commit, effects

(* The steps after the commit, and the end of a request. *)
LEMMA PcType ==
  ASSUME TypeOK, NEW r \in Submitters, NEW next \in SubStates,
         sub' = [sub EXCEPT ![r].pc = next]
  PROVE  sub' \in [Submitters -> Transactions]
<1>1. sub[r] \in Transactions
  BY DEF TypeOK
<1>2. [sub[r] EXCEPT !.pc = next] \in Transactions
  BY <1>1 DEF Transactions
<1>3. QED
  BY <1>2 DEF TypeOK

(* The side effects after the commit. *)
LEMMA SideEffectType ==
  ASSUME TypeOK, NEW r \in Submitters,
         CompleteTask(r) \/ InsertCompletion(r) \/ TouchStreak(r) \/ EffectError(r),
         sub[r].pc \in {"task", "completion"} => TaskOf[Target[r]] # NoTask
  PROVE  TypeOK'
<1>1. TaskOf[Target[r]] # NoTask => TaskOf[Target[r]] \in Tasks
  BY RequestAssumption
<1>2. {"completion", "streak", "award"} \subseteq SubStates
  BY DEF SubStates, AfterCommit
<1>3. CASE CompleteTask(r)
  BY <1>1, <1>2, <1>3, PcType DEF TypeOK, CompleteTask, SideEffect, learning
<1>4. CASE InsertCompletion(r)
  BY <1>1, <1>2, <1>4, PcType DEF TypeOK, InsertCompletion, SideEffect, learning
<1>5. CASE TouchStreak(r)
  BY <1>2, <1>5, PcType DEF TypeOK, TouchStreak, SideEffect, learning
<1>6. CASE EffectError(r)
  <2>1. failures' \in 0..MaxFailures
    BY <1>6, RequestAssumption DEF TypeOK, EffectError
  <2>2. QED
    BY <1>2, <1>6, <2>1, PcType DEF TypeOK, EffectError, learning, effects
<1>7. QED
  BY <1>3, <1>4, <1>5, <1>6

(* The steps that end a request. *)
LEMMA EndType ==
  ASSUME TypeOK, NEW r \in Submitters,
         GetResult(r) \/ AwardAndReply(r) \/ ReplyUnawarded(r) \/ SubmitFail(r)
  PROVE  TypeOK'
<1>1. Target[r] \in Attempts /\ sub[r] \in Transactions
  BY RequestAssumption DEF TypeOK
<1>2. sub' = [sub EXCEPT ![r] = Fresh] => sub' \in [Submitters -> Transactions]
  BY FreshType DEF TypeOK
<1>3. {OutcomeOf(r)} \in SUBSET Results
  BY <1>1 DEF OutcomeOf, Results, Transactions
<1>4. CASE GetResult(r)
  BY <1>1, <1>2, <1>4 DEF TypeOK, GetResult, learning, effects
<1>5. CASE AwardAndReply(r)
  BY <1>1, <1>2, <1>3, <1>5 DEF TypeOK, AwardAndReply, Earned, learning
<1>6. CASE ReplyUnawarded(r)
  <2>1. awards' \in SUBSET {"first_quiz", "first_skill_mastered"}
    BY <1>6 DEF TypeOK, ReplyUnawarded, Earned
  <2>2. failures' \in 0..MaxFailures
    BY <1>6, RequestAssumption DEF TypeOK, ReplyUnawarded
  <2>3. QED
    BY <1>1, <1>2, <1>3, <1>6, <2>1, <2>2 DEF TypeOK, ReplyUnawarded, learning
<1>7. CASE SubmitFail(r)
  BY <1>2, <1>7, RequestAssumption DEF TypeOK, SubmitFail, learning, effects
<1>8. QED
  BY <1>4, <1>5, <1>6, <1>7

(* The steps that are not part of a Submit request. *)
LEMMA OthersType ==
  ASSUME TypeOK,
         \/ \E c \in Calls : SaveAnswer(c)
         \/ ExpireAbandonedAttempts
         \/ \E q \in Edited : ChangePublication(q)
  PROVE  TypeOK'
<1>1. ASSUME NEW c \in Calls, SaveAnswerCheck(c) PROVE TypeOK'
  BY <1>1 DEF TypeOK, SaveAnswerCheck, learning, effects
<1>2. ASSUME NEW c \in Calls, SaveAnswerWrite(c) PROVE TypeOK'
  <2>1. c.a \in Attempts /\ c.q \in Questions /\ c.grade \in Answers
    BY <1>2 DEF Calls, Grades, Answers
  <2>2. answers' \in [Attempts -> [Questions -> Answers]]
    BY <1>2, <2>1 DEF TypeOK, SaveAnswerWrite
  <2>3. QED
    BY <1>2, <2>2 DEF TypeOK, SaveAnswerWrite, learning, effects
<1>3. ASSUME NEW c \in Calls, SaveAnswerFail(c) PROVE TypeOK'
  BY <1>3, RequestAssumption DEF TypeOK, SaveAnswerFail, learning, effects
<1>4. CASE ExpireAbandonedAttempts
  BY <1>4 DEF TypeOK, ExpireAbandonedAttempts, learning, effects
<1>5. ASSUME NEW q \in Edited, ChangePublication(q) PROVE TypeOK'
  BY <1>5, DataAssumption DEF TypeOK, ChangePublication, learning, effects
<1>6. QED
  BY <1>1, <1>2, <1>3, <1>4, <1>5 DEF SaveAnswer

(* The types are kept by every step, given the rest of the invariant. *)
LEMMA NextType == IInv /\ [Next]_vars => TypeOK'
<1> SUFFICES ASSUME IInv, [Next]_vars PROVE TypeOK'
  OBVIOUS
<1>1. TypeOK /\ OwnQuestions /\ RowVersions /\ TaskSteps
  BY DEF IInv
<1>2. ASSUME NEW r \in Submitters, Submit(r) PROVE TypeOK'
  <2>1. CASE ReadAnswered(r) \/ FillBlank(r)
    <3>1. sub[r].todo \subseteq Questions
      BY <1>1, <2>1, DataAssumption, RequestAssumption
      DEF OwnQuestions, OwnOf, ReadAnswered, FillBlank
    <3>2. QED
      BY <1>1, <2>1, <3>1, ReadAnsweredType, FillBlankType
  <2>2. CASE RecordSkillOutcome(r)
    <3>1. sub[r].counted \subseteq Questions
      BY <1>1 DEF TypeOK, Transactions
    <3>2. sub[r].todo \subseteq Skills
      BY <1>1, <2>2, <3>1, DataAssumption
      DEF RowVersions, VersionsOf, RecordSkillOutcome, InTx, TxStates
    <3>3. QED
      BY <1>1, <2>2, <3>2, RecordSkillOutcomeType DEF OwnQuestions, OwnOf
  <2>3. ASSUME NEW q \in Questions, RecordMistake(r, q) PROVE TypeOK'
    BY <1>1, <2>3, RecordMistakeType
  <2>4. CASE CompleteTask(r) \/ InsertCompletion(r) \/ TouchStreak(r) \/ EffectError(r)
    BY <1>1, <2>4, SideEffectType DEF TaskSteps
  <2>5. QED
    BY <1>1, <1>2, <2>1, <2>2, <2>3, <2>4, MarkSubmittedType, LoadQuestionsType,
       LoadAnswersType, ReadWrongType, CommitType, EndType
    DEF Submit, SubmitStep
<1>3. CASE UNCHANGED vars
  BY <1>1, <1>3 DEF TypeOK, vars, learning, effects
<1>4. QED
  BY <1>1, <1>2, <1>3, OthersType DEF Next

-----------------------------------------------------------------------------
(* The invariant *)

(* Nothing has begun: every part of the invariant holds trivially. *)
LEMMA InitInv == Init => IInv
<1> SUFFICES ASSUME Init PROVE IInv
  OBVIOUS
<1>1. \A r \in Submitters : sub[r] = Fresh /\ sub[r].pc = "idle" /\ ~InTx(r)
  BY DEF Init, InTx, TxStates, Fresh
<1>2. \A a : OwnOf(Fresh, a)
  BY DEF OwnOf, Fresh
<1>3. OwnQuestions
  BY <1>1, <1>2 DEF Init, OwnQuestions
<1>4. ResultRows
  BY <1>1, RequestAssumption DEF Init, ResultRows, AfterCommit
<1>5. OneTxPerAttempt /\ RowVersions /\ ExclusiveLocks /\ TaskSteps
  BY <1>1 DEF OneTxPerAttempt, RowVersions, ExclusiveLocks, TaskSteps
<1>6. ReplyIsStored
  BY DEF Init, ReplyIsStored
<1>7. QED
  BY <1>3, <1>4, <1>5, <1>6, InitType DEF IInv

(* A step inside an open transaction keeps the invariant if the new record *)
(* is right by itself and locks no row of another transaction.             *)
LEMMA TxStepInv ==
  ASSUME IInv, TypeOK', NEW r \in Submitters, InTx(r),
         NEW rec \in Transactions, rec.pc \in TxStates, Step(r, rec),
         OwnOf(rec, Target[r]), VersionsOf(rec),
         \A t \in Submitters \ {r} : InTx(t) =>
           rec.held \cap sub[t].held = {} /\ rec.missed \cap sub[t].missed = {}
  PROVE  IInv'
<1>1. /\ sub'[r] = rec
      /\ \A t \in Submitters \ {r} : sub'[t] = sub[t]
      /\ UNCHANGED <<status, answers, results, mastery, mistakes, inFlight, reply>>
  BY DEF IInv, TypeOK, Step, learning
<1>2. /\ rec.pc \notin AfterCommit /\ rec.pc \notin {"task", "completion"}
      /\ InTx(r)' /\ \A t \in Submitters : InTx(t)' <=> InTx(t)
  BY <1>1 DEF TxStates, AfterCommit, InTx
<1>3. OneTxPerAttempt'
  BY <1>1, <1>2 DEF IInv, OneTxPerAttempt
<1>4. ResultRows'
  BY <1>1, <1>2 DEF IInv, ResultRows, OutcomeOf
<1>5. OwnQuestions'
  <2>1. \A t \in Submitters : OwnOf(sub[t], Target[t])'
    BY <1>1 DEF IInv, OwnQuestions, OwnOf
  <2>2. QED
    BY <1>1, <2>1 DEF IInv, OwnQuestions
<1>6. RowVersions'
  <2>1. VersionsOf(sub[r])'
    BY <1>1 DEF VersionsOf
  <2>2. ASSUME NEW t \in Submitters \ {r}, InTx(t) PROVE VersionsOf(sub[t])'
    <3>1. VersionsOf(sub[t])
      BY <2>2 DEF IInv, RowVersions
    <3>2. QED
      BY <1>1, <3>1 DEF VersionsOf
  <2>3. QED
    BY <1>2, <2>1, <2>2 DEF RowVersions
<1>7. ExclusiveLocks'
  BY <1>1, <1>2 DEF IInv, ExclusiveLocks
<1>8. TaskSteps'
  BY <1>1, <1>2 DEF IInv, TaskSteps
<1>9. ReplyIsStored'
  BY <1>1 DEF IInv, ReplyIsStored
<1>10. QED
  BY <1>3, <1>4, <1>5, <1>6, <1>7, <1>8, <1>9 DEF IInv

(* The lock of the attempt row keeps a second transaction out. *)
LEMMA MarkSubmittedInv ==
  ASSUME IInv, TypeOK', NEW r \in Submitters, MarkSubmitted(r) PROVE IInv'
<1>a. PICK p \in {"load", "finished"} :
        /\ Step(r, [Fresh EXCEPT !.pc = p])
        /\ p = "load" => status[Target[r]] = "in_progress"
  BY DEF MarkSubmitted
<1>1. /\ sub' = [sub EXCEPT ![r] = [Fresh EXCEPT !.pc = p]]
      /\ sub'[r] = [Fresh EXCEPT !.pc = p]
      /\ UNCHANGED <<status, answers, results, mastery, mistakes, inFlight, reply>>
      /\ ~AttemptLocked(Target[r])
      /\ sub'[r].pc = p
      /\ InTx(r)' => status[Target[r]] = "in_progress"
  BY <1>a DEF IInv, TypeOK, MarkSubmitted, Step, learning, InTx, TxStates, Fresh
<1>2. /\ \A t \in Submitters \ {r} : sub'[t] = sub[t] /\ (InTx(t)' <=> InTx(t))
      /\ sub'[r].held = {} /\ sub'[r].missed = {}
      /\ sub'[r].pc \notin AfterCommit
      /\ sub'[r].pc \notin {"answered", "fill", "skills", "mistakes", "task", "completion"}
  BY <1>1 DEF IInv, TypeOK, InTx, Fresh, AfterCommit
<1>3. OneTxPerAttempt'
  BY <1>1, <1>2 DEF IInv, OneTxPerAttempt, AttemptLocked
<1>4. ResultRows'
  BY <1>1, <1>2 DEF IInv, ResultRows, OutcomeOf
<1>5. OwnQuestions'
  <2>1. OwnOf(sub[r], Target[r])'
    BY <1>1, <1>2 DEF OwnOf, Fresh
  <2>2. \A t \in Submitters \ {r} : OwnOf(sub[t], Target[t])'
    BY <1>2 DEF IInv, OwnQuestions, OwnOf
  <2>3. QED
    BY <1>1, <2>1, <2>2 DEF IInv, OwnQuestions
<1>6. RowVersions'
  <2>1. VersionsOf(sub[r])'
    BY <1>2 DEF VersionsOf
  <2>2. ASSUME NEW t \in Submitters \ {r}, InTx(t)' PROVE VersionsOf(sub[t])'
    <3>1. VersionsOf(sub[t])
      BY <1>2, <2>2 DEF IInv, RowVersions
    <3>2. QED
      BY <1>1, <1>2, <3>1 DEF VersionsOf
  <2>3. QED
    BY <2>1, <2>2 DEF RowVersions
<1>7. ExclusiveLocks'
  BY <1>2 DEF IInv, ExclusiveLocks
<1>8. TaskSteps'
  BY <1>2 DEF IInv, TaskSteps
<1>9. ReplyIsStored'
  BY <1>1 DEF IInv, ReplyIsStored
<1>10. QED
  BY <1>3, <1>4, <1>5, <1>6, <1>7, <1>8, <1>9 DEF IInv

(* Only questions of the attempt are loaded. *)
LEMMA LoadQuestionsInv ==
  ASSUME IInv, TypeOK', NEW r \in Submitters, LoadQuestions(r) PROVE IInv'
<1> DEFINE rec == [sub[r] EXCEPT !.pc = "answered", !.todo = Loadable(Target[r])]
<1>1. sub[r] \in Transactions /\ sub[r].pc = "load" /\ InTx(r)
  BY DEF IInv, TypeOK, LoadQuestions, InTx, TxStates
<1>2. Loadable(Target[r]) \subseteq Order[Target[r]] /\ Loadable(Target[r]) \subseteq Questions
  BY RequestAssumption, DataAssumption DEF Loadable
<1>3. rec \in Transactions /\ rec.pc \in TxStates
  BY <1>1, <1>2 DEF Transactions, SubStates, TxStates
<1>4. OwnOf(rec, Target[r])
  BY <1>1, <1>2 DEF IInv, OwnQuestions, OwnOf, Transactions
<1>5. VersionsOf(rec)
  BY <1>1 DEF IInv, RowVersions, VersionsOf, Transactions
<1>6. rec.held = sub[r].held /\ rec.missed = sub[r].missed
  BY <1>1 DEF Transactions
<1>7. Step(r, rec)
  BY DEF LoadQuestions
<1> HIDE DEF rec
<1>8. QED
  BY <1>1, <1>3, <1>4, <1>5, <1>6, <1>7, TxStepInv DEF IInv, ExclusiveLocks

(* What is unanswered is a part of them. *)
LEMMA ReadAnsweredInv ==
  ASSUME IInv, TypeOK', NEW r \in Submitters, ReadAnswered(r) PROVE IInv'
<1> DEFINE open == {q \in sub[r].todo : answers[Target[r]][q] = "none"}
           rec == [sub[r] EXCEPT !.pc = "fill", !.todo = open]
<1>1. sub[r] \in Transactions /\ sub[r].pc = "answered" /\ InTx(r)
  BY DEF IInv, TypeOK, ReadAnswered, InTx, TxStates
<1>2. open \subseteq Order[Target[r]] /\ open \subseteq Questions
  BY <1>1, RequestAssumption, DataAssumption DEF IInv, OwnQuestions, OwnOf
<1> HIDE DEF open
<1>3. rec \in Transactions /\ rec.pc \in TxStates
  BY <1>1, <1>2 DEF Transactions, SubStates, TxStates
<1>4. OwnOf(rec, Target[r])
  BY <1>1, <1>2 DEF IInv, OwnQuestions, OwnOf, Transactions
<1>5. VersionsOf(rec)
  BY <1>1 DEF IInv, RowVersions, VersionsOf, Transactions
<1>6. rec.held = sub[r].held /\ rec.missed = sub[r].missed
  BY <1>1 DEF Transactions
<1>7. Step(r, rec)
  BY DEF ReadAnswered, open
<1> HIDE DEF rec
<1>8. QED
  BY <1>1, <1>3, <1>4, <1>5, <1>6, <1>7, TxStepInv DEF IInv, ExclusiveLocks

(* Blanks are written for questions of the attempt only. *)
LEMMA FillBlankInv ==
  ASSUME IInv, TypeOK', NEW r \in Submitters, FillBlank(r) PROVE IInv'
<1> DEFINE q == First(sub[r].todo)
           rec == [sub[r] EXCEPT !.todo = @ \ {q}, !.blanks = @ \cup {q}]
<1>1. sub[r] \in Transactions /\ sub[r].pc = "fill" /\ InTx(r)
  BY DEF IInv, TypeOK, FillBlank, InTx, TxStates
<1>2. sub[r].todo \subseteq Order[Target[r]] /\ Order[Target[r]] \subseteq Questions
  BY <1>1, RequestAssumption, DataAssumption DEF IInv, OwnQuestions, OwnOf
<1>3. q \in sub[r].todo
  BY <1>2, FirstIsLeast, DataAssumption DEF FillBlank
<1>4. Step(r, rec)
  BY DEF FillBlank
<1> HIDE DEF q
<1>5. rec \in Transactions /\ rec.pc \in TxStates
  BY <1>1, <1>2, <1>3 DEF Transactions, TxStates
<1>6. OwnOf(rec, Target[r])
  BY <1>1, <1>2, <1>3 DEF IInv, OwnQuestions, OwnOf, Transactions
<1>7. VersionsOf(rec)
  BY <1>1 DEF IInv, RowVersions, VersionsOf, Transactions
<1>8. rec.held = sub[r].held /\ rec.missed = sub[r].missed
  BY <1>1 DEF Transactions
<1> HIDE DEF rec
<1>9. QED
  BY <1>1, <1>4, <1>5, <1>6, <1>7, <1>8, TxStepInv DEF IInv, ExclusiveLocks

(* A row that is seen belongs to the attempt. *)
LEMMA VisibleOwn ==
  ASSUME IInv, NEW r \in Submitters, NEW q \in Questions, Visible(r, q) # "none"
  PROVE  q \in Order[Target[r]]
BY RequestAssumption DEF IInv, OwnQuestions, OwnOf, Visible

(* The skills to write are those of the answers that were read. *)
LEMMA LoadAnswersInv ==
  ASSUME IInv, TypeOK', NEW r \in Submitters, LoadAnswers(r) PROVE IInv'
<1> DEFINE counted == {q \in Questions : Visible(r, q) # "none"}
           right == {q \in Questions : Visible(r, q) = "right"}
           todo == UNION {SkillsOf[q] : q \in counted}
           rec == [sub[r] EXCEPT !.pc = "skills", !.counted = counted,
                                 !.right = right, !.todo = todo]
<1>1. sub[r] \in Transactions /\ sub[r].pc = "fill" /\ InTx(r)
  BY DEF IInv, TypeOK, LoadAnswers, InTx, TxStates
<1>2. right \subseteq counted /\ counted \subseteq Questions
  OBVIOUS
<1>3. counted \subseteq Order[Target[r]]
  BY VisibleOwn
<1>4. todo \subseteq Skills
  BY <1>2, DataAssumption
<1>5. Step(r, rec)
  BY DEF LoadAnswers
<1>6. VersionsOf(sub[r]) /\ sub[r].held = {} /\ sub[r].missed = {}
  BY <1>1 DEF IInv, RowVersions, VersionsOf
<1>7. todo = UNION {SkillsOf[q] : q \in counted}
  OBVIOUS
<1> HIDE DEF todo, counted, right
<1>8. rec \in Transactions /\ rec.pc \in TxStates
  BY <1>1, <1>2, <1>4 DEF Transactions, SubStates, TxStates
<1>9. OwnOf(rec, Target[r])
  BY <1>1, <1>2, <1>3 DEF IInv, OwnQuestions, OwnOf, Transactions
<1>10. /\ rec.pc = "skills" /\ rec.held = {} /\ rec.missed = {}
       /\ rec.todo = todo /\ rec.counted = counted
  BY <1>1, <1>6 DEF Transactions
<1> HIDE DEF rec
<1>11. VersionsOf(rec)
  BY <1>7, <1>10 DEF VersionsOf
<1>12. QED
  BY <1>1, <1>5, <1>8, <1>9, <1>10, <1>11, TxStepInv

(* The row of a skill is free, so its counters are the committed ones. *)
LEMMA RecordSkillOutcomeInv ==
  ASSUME IInv, TypeOK', NEW r \in Submitters, RecordSkillOutcome(r) PROVE IInv'
<1> DEFINE s == First(sub[r].todo)
           row == [seen    |-> mastery[s].seen + Count(sub[r].counted, s),
                   correct |-> mastery[s].correct + Count(sub[r].right, s)]
           rec == [sub[r] EXCEPT !.todo = @ \ {s}, !.held = @ \cup {s},
                                 !.rows[s] = row]
<1>1. /\ sub[r] \in Transactions /\ sub[r].pc = "skills" /\ InTx(r)
      /\ sub[r].todo # {}
  BY DEF IInv, TypeOK, RecordSkillOutcome, InTx, TxStates
<1>2. VersionsOf(sub[r])
  BY <1>1 DEF IInv, RowVersions
<1>3. sub[r].todo \subseteq Skills
  <2>1. sub[r].counted \subseteq Questions
    BY <1>1 DEF Transactions
  <2>2. UNION {SkillsOf[q] : q \in sub[r].counted} \subseteq Skills
    BY <2>1, DataAssumption
  <2>3. sub[r].todo \subseteq UNION {SkillsOf[q] : q \in sub[r].counted}
    BY <1>1, <1>2 DEF VersionsOf
  <2>4. QED
    BY <2>2, <2>3
<1>4. s \in sub[r].todo
  BY <1>1, <1>3, FirstIsLeast, DataAssumption
<1>5. Step(r, rec) /\ \A t \in Submitters \ {r} : ~SkillLockedBy(t, s)
  BY DEF RecordSkillOutcome
<1>6. Step(r, sub'[r]) /\ sub'[r] = rec /\ sub'[r] \in Transactions
  BY <1>5 DEF IInv, TypeOK, Step
<1>7. row = [seen    |-> mastery[s].seen + Count(sub[r].counted, s),
             correct |-> mastery[s].correct + Count(sub[r].right, s)]
  OBVIOUS
<1> HIDE DEF s, row
<1>8. /\ rec.pc = "skills" /\ rec.held = sub[r].held \cup {s}
      /\ rec.missed = sub[r].missed /\ rec.todo = sub[r].todo \ {s}
      /\ rec.counted = sub[r].counted /\ rec.right = sub[r].right
      /\ rec.blanks = sub[r].blanks /\ rec.counts = sub[r].counts
      /\ rec.rows = [sub[r].rows EXCEPT ![s] = row]
  BY <1>1 DEF Transactions
<1>9. rec.rows[s] = row /\ \A x \in Skills \ {s} : rec.rows[x] = sub[r].rows[x]
  BY <1>1, <1>3, <1>4, <1>8 DEF Transactions
<1>10. rec \in Transactions
  BY <1>6
<1> HIDE DEF rec
<1>11. OwnOf(rec, Target[r])
  BY <1>1, <1>8 DEF IInv, OwnQuestions, OwnOf
<1>12. VersionsOf(rec)
  <2>1. ASSUME NEW x \in rec.held
        PROVE  rec.rows[x] =
                 [seen    |-> mastery[x].seen + Count(rec.counted, x),
                  correct |-> mastery[x].correct + Count(rec.right, x)]
    <3>1. CASE x = s
      BY <1>7, <1>8, <1>9, <3>1
    <3>2. CASE x # s
      BY <1>1, <1>2, <1>8, <1>9, <2>1, <3>2 DEF VersionsOf, Transactions
    <3>3. QED
      BY <3>1, <3>2
  <2>2. rec.held \cup rec.todo = UNION {SkillsOf[q] : q \in rec.counted}
    BY <1>1, <1>2, <1>4, <1>8 DEF VersionsOf
  <2>3. QED
    BY <1>1, <1>2, <1>8, <2>1, <2>2 DEF VersionsOf
<1>13. ASSUME NEW t \in Submitters \ {r}, InTx(t)
       PROVE  rec.held \cap sub[t].held = {} /\ rec.missed \cap sub[t].missed = {}
  BY <1>1, <1>5, <1>8, <1>13 DEF IInv, ExclusiveLocks, SkillLockedBy
<1>14. Step(r, rec)
  BY <1>6
<1>15. QED
  BY <1>1, <1>8, <1>10, <1>11, <1>12, <1>13, <1>14, TxStepInv DEF TxStates

(* All skills of the answers are written when the mistakes are read. *)
LEMMA ReadWrongInv ==
  ASSUME IInv, TypeOK', NEW r \in Submitters, ReadWrong(r) PROVE IInv'
<1> DEFINE wrong == {q \in Questions : /\ Visible(r, q) \in {"wrong", "blank"}
                                       /\ SkillsOf[q] # {}}
           rec == [sub[r] EXCEPT !.pc = "mistakes", !.todo = wrong]
<1>1. /\ sub[r] \in Transactions /\ sub[r].pc = "skills" /\ InTx(r)
      /\ sub[r].todo = {}
  BY DEF IInv, TypeOK, ReadWrong, InTx, TxStates
<1>2. wrong \subseteq Questions /\ wrong \subseteq Order[Target[r]]
  BY VisibleOwn
<1>3. Step(r, rec)
  BY DEF ReadWrong
<1>4. VersionsOf(sub[r])
  BY <1>1 DEF IInv, RowVersions
<1> HIDE DEF wrong
<1>5. rec \in Transactions /\ rec.pc \in TxStates
  BY <1>1, <1>2 DEF Transactions, SubStates, TxStates
<1>6. OwnOf(rec, Target[r])
  BY <1>1, <1>2 DEF IInv, OwnQuestions, OwnOf, Transactions
<1>7. VersionsOf(rec)
  BY <1>1, <1>4 DEF VersionsOf, Transactions
<1>8. rec.held = sub[r].held /\ rec.missed = sub[r].missed
  BY <1>1 DEF Transactions
<1> HIDE DEF rec
<1>9. QED
  BY <1>1, <1>3, <1>5, <1>6, <1>7, <1>8, TxStepInv DEF IInv, ExclusiveLocks

(* The row of a mistake is free, so its counter is the committed one. *)
LEMMA RecordMistakeInv ==
  ASSUME IInv, TypeOK', NEW r \in Submitters, NEW q \in Questions,
         RecordMistake(r, q)
  PROVE  IInv'
<1> DEFINE n == mistakes[q] + 1
           rec == [sub[r] EXCEPT !.todo = @ \ {q}, !.missed = @ \cup {q},
                                 !.counts[q] = n]
<1>1. /\ sub[r] \in Transactions /\ sub[r].pc = "mistakes" /\ InTx(r)
      /\ q \in sub[r].todo
  BY DEF IInv, TypeOK, RecordMistake, InTx, TxStates
<1>2. VersionsOf(sub[r]) /\ OwnOf(sub[r], Target[r])
  BY <1>1 DEF IInv, RowVersions, OwnQuestions
<1>3. Step(r, rec) /\ \A t \in Submitters \ {r} : ~MistakeLockedBy(t, q)
  BY DEF RecordMistake
<1>4. Step(r, rec) /\ rec \in Transactions
  BY <1>3 DEF IInv, TypeOK, Step
<1>5. n = mistakes[q] + 1
  OBVIOUS
<1> HIDE DEF n
<1>6. /\ rec.pc = "mistakes" /\ rec.held = sub[r].held
      /\ rec.missed = sub[r].missed \cup {q} /\ rec.todo = sub[r].todo \ {q}
      /\ rec.counted = sub[r].counted /\ rec.right = sub[r].right
      /\ rec.blanks = sub[r].blanks /\ rec.rows = sub[r].rows
      /\ rec.counts = [sub[r].counts EXCEPT ![q] = n]
  BY <1>1 DEF Transactions
<1>7. rec.counts[q] = n /\ \A x \in Questions \ {q} : rec.counts[x] = sub[r].counts[x]
  BY <1>1, <1>6 DEF Transactions
<1> HIDE DEF rec
<1>8. OwnOf(rec, Target[r])
  BY <1>1, <1>2, <1>6 DEF OwnOf
<1>9. VersionsOf(rec)
  <2>1. \A x \in rec.missed : rec.counts[x] = mistakes[x] + 1
    BY <1>1, <1>2, <1>5, <1>6, <1>7 DEF VersionsOf, Transactions
  <2>2. QED
    BY <1>1, <1>2, <1>6, <2>1 DEF VersionsOf
<1>10. ASSUME NEW t \in Submitters \ {r}, InTx(t)
       PROVE  rec.held \cap sub[t].held = {} /\ rec.missed \cap sub[t].missed = {}
  BY <1>1, <1>3, <1>6, <1>10 DEF IInv, ExclusiveLocks, MistakeLockedBy
<1>11. QED
  BY <1>1, <1>4, <1>6, <1>8, <1>9, <1>10, TxStepInv DEF TxStates

(* The commit: the rows of the transaction become the committed ones; the   *)
(* other open transactions wrote none of them.                              *)
LEMMA CommitInv ==
  ASSUME IInv, TypeOK', NEW r \in Submitters, Commit(r) PROVE IInv'
<1> DEFINE a == Target[r]
<1>1. /\ a \in Attempts /\ sub[r] \in Transactions /\ InTx(r)
      /\ status[a] = "in_progress" /\ results[a] = {}
  BY RequestAssumption DEF IInv, TypeOK, Commit, InTx, TxStates, OneTxPerAttempt,
     ResultRows
<1>2. /\ \A t \in Submitters \ {r} : sub'[t] = sub[t] /\ (InTx(t)' <=> InTx(t))
      /\ sub'[r].pc \in {"streak", "task"} /\ ~InTx(r)'
      /\ sub'[r].pc = "task" => TaskOf[a] # NoTask
  BY <1>1 DEF IInv, TypeOK, Commit, InTx, TxStates, Transactions
<1>3. /\ sub'[r].right = sub[r].right /\ sub'[r].counted = sub[r].counted
      /\ sub'[r].blanks = sub[r].blanks /\ sub'[r].missed = sub[r].missed
  BY <1>1 DEF IInv, TypeOK, Commit, Transactions
<1>4. /\ status' = [status EXCEPT ![a] = "submitted"]
      /\ results' = [results EXCEPT ![a] = {OutcomeOf(r)}]
      /\ UNCHANGED <<inFlight, reply>>
  BY <1>1 DEF IInv, TypeOK, Commit
<1>5. \A t \in Submitters \ {r} : InTx(t) => Target[t] # a
  BY <1>1 DEF IInv, OneTxPerAttempt
<1>6. OneTxPerAttempt'
  BY <1>1, <1>2, <1>4, <1>5, RequestAssumption DEF IInv, TypeOK, OneTxPerAttempt
<1>7. ResultRows'
  <2>1. OutcomeOf(r) \in Results /\ OutcomeOf(r)' = OutcomeOf(r)
    BY <1>1, <1>3 DEF OutcomeOf, Results, Transactions
  <2>2. ASSUME NEW b \in Attempts
        PROVE  IF status'[b] = "submitted"
               THEN \E res \in Results : results'[b] = {res} ELSE results'[b] = {}
    BY <1>1, <1>4, <2>1 DEF IInv, TypeOK, ResultRows
  <2>3. ASSUME NEW t \in Submitters, sub'[t].pc \in AfterCommit
        PROVE  results'[Target[t]] = {OutcomeOf(t)}'
    <3>1. CASE t = r
      BY <1>1, <1>4, <2>1, <3>1 DEF IInv, TypeOK
    <3>2. CASE t # r
      <4>1. results[Target[t]] = {OutcomeOf(t)} /\ OutcomeOf(t)' = OutcomeOf(t)
        BY <1>2, <2>3, <3>2 DEF IInv, ResultRows, OutcomeOf
      <4>2. Target[t] # a
        BY <1>1, <4>1
      <4>3. QED
        BY <1>4, <4>1, <4>2, RequestAssumption DEF IInv, TypeOK
    <3>3. QED
      BY <3>1, <3>2
  <2>4. QED
    BY <2>2, <2>3 DEF ResultRows
<1>8. OwnQuestions'
  <2>1. ASSUME NEW b \in Attempts, NEW q \in Questions, answers'[b][q] # "none"
        PROVE  q \in Order[b]
    <3>1. answers' = [answers EXCEPT ![a] = [x \in Questions |-> Visible(r, x)]]
      BY DEF Commit
    <3>2. CASE b = a
      BY <1>1, <2>1, <3>1, <3>2, VisibleOwn DEF IInv, TypeOK
    <3>3. CASE b # a
      BY <2>1, <3>1, <3>3 DEF IInv, TypeOK, OwnQuestions
    <3>4. QED
      BY <3>2, <3>3
  <2>2. OwnOf(sub[r], a)'
    BY <1>2, <1>3 DEF IInv, OwnQuestions, OwnOf
  <2>3. \A t \in Submitters \ {r} : OwnOf(sub[t], Target[t])'
    BY <1>2 DEF IInv, OwnQuestions, OwnOf
  <2>4. QED
    BY <1>4, <2>1, <2>2, <2>3 DEF IInv, OwnQuestions
<1>9. RowVersions'
  <2>1. ASSUME NEW t \in Submitters \ {r}, InTx(t) PROVE VersionsOf(sub[t])'
    <3>1. VersionsOf(sub[t]) /\ sub[t] \in Transactions
      BY <2>1 DEF IInv, RowVersions, TypeOK
    <3>2. \A s \in sub[t].held : mastery'[s] = mastery[s]
      BY <1>1, <2>1, <3>1 DEF IInv, ExclusiveLocks, Commit, Transactions
    <3>3. \A q \in sub[t].missed : mistakes'[q] = mistakes[q]
      BY <1>1, <2>1, <3>1 DEF IInv, ExclusiveLocks, Commit, Transactions
    <3>4. QED
      BY <1>2, <3>1, <3>2, <3>3 DEF VersionsOf
  <2>2. QED
    BY <1>2, <2>1 DEF RowVersions
<1>10. ExclusiveLocks'
  BY <1>2 DEF IInv, ExclusiveLocks
<1>11. TaskSteps'
  BY <1>2 DEF IInv, TaskSteps
<1>12. ReplyIsStored'
  BY <1>1, <1>4, RequestAssumption DEF IInv, TypeOK, ReplyIsStored
<1>13. QED
  BY <1>6, <1>7, <1>8, <1>9, <1>10, <1>11, <1>12 DEF IInv

(* Steps outside a transaction that move no table of the ledger: the       *)
(* record of r is not in a transaction afterwards.                         *)
LEMMA OutsideStepInv ==
  ASSUME IInv, TypeOK', NEW r \in Submitters, NEW rec \in Transactions,
         sub' = [sub EXCEPT ![r] = rec], rec.pc \notin TxStates,
         UNCHANGED <<status, answers, results, mastery, mistakes, inFlight>>,
         OwnOf(rec, Target[r]),
         rec.pc \in AfterCommit =>
           results[Target[r]] = {[right |-> rec.right, counted |-> rec.counted]},
         rec.pc \in {"task", "completion"} => TaskOf[Target[r]] # NoTask,
         \A t \in Submitters : reply'[t] \subseteq results[Target[t]]
  PROVE  IInv'
<1>1. /\ sub'[r] = rec /\ ~InTx(r)'
      /\ \A t \in Submitters \ {r} : sub'[t] = sub[t] /\ (InTx(t)' <=> InTx(t))
  BY DEF IInv, TypeOK, InTx
<1>2. OneTxPerAttempt'
  BY <1>1 DEF IInv, OneTxPerAttempt
<1>3. ResultRows'
  BY <1>1 DEF IInv, ResultRows, OutcomeOf
<1>4. OwnQuestions'
  <2>1. \A t \in Submitters : OwnOf(sub[t], Target[t])'
    BY <1>1 DEF IInv, OwnQuestions, OwnOf
  <2>2. QED
    BY <2>1 DEF IInv, OwnQuestions
<1>5. RowVersions'
  <2>1. ASSUME NEW t \in Submitters \ {r}, InTx(t) PROVE VersionsOf(sub[t])'
    <3>1. VersionsOf(sub[t])
      BY <2>1 DEF IInv, RowVersions
    <3>2. QED
      BY <1>1, <3>1 DEF VersionsOf
  <2>2. QED
    BY <1>1, <2>1 DEF RowVersions
<1>6. ExclusiveLocks'
  BY <1>1 DEF IInv, ExclusiveLocks
<1>7. TaskSteps'
  BY <1>1 DEF IInv, TaskSteps
<1>8. ReplyIsStored'
  BY DEF ReplyIsStored
<1>9. QED
  BY <1>2, <1>3, <1>4, <1>5, <1>6, <1>7, <1>8 DEF IInv

(* A fresh record holds nothing and locks nothing. *)
LEMMA FreshIsOwn ==
  /\ \A a : OwnOf(Fresh, a)
  /\ Fresh.pc \notin TxStates /\ Fresh.pc \notin AfterCommit
BY DEF OwnOf, Fresh, TxStates, AfterCommit

(* The end of a request: it replies, or dies. *)
LEMMA EndInv ==
  ASSUME IInv, TypeOK', NEW r \in Submitters,
         GetResult(r) \/ AwardAndReply(r) \/ ReplyUnawarded(r) \/ SubmitFail(r)
  PROVE  IInv'
<1>1. /\ sub' = [sub EXCEPT ![r] = Fresh]
      /\ UNCHANGED <<status, answers, results, mastery, mistakes, inFlight>>
  BY DEF GetResult, AwardAndReply, ReplyUnawarded, SubmitFail, learning
<1>2. ASSUME NEW t \in Submitters PROVE reply'[t] \subseteq results[Target[t]]
  <2>1. reply[t] \subseteq results[Target[t]]
    BY DEF IInv, ReplyIsStored
  <2>2. CASE GetResult(r)
    BY <2>1, <2>2 DEF IInv, TypeOK, GetResult
  <2>3. CASE AwardAndReply(r) \/ ReplyUnawarded(r)
    <3>1. results[Target[r]] = {OutcomeOf(r)}
      BY <2>3 DEF IInv, ResultRows, AwardAndReply, ReplyUnawarded, AfterCommit
    <3>2. reply' = [reply EXCEPT ![r] = {OutcomeOf(r)}]
      BY <2>3 DEF AwardAndReply, ReplyUnawarded
    <3>3. QED
      BY <2>1, <3>1, <3>2 DEF IInv, TypeOK
  <2>4. CASE SubmitFail(r)
    BY <2>1, <2>4 DEF SubmitFail
  <2>5. QED
    BY <2>2, <2>3, <2>4
<1>3. Fresh.pc \notin {"task", "completion"}
  BY DEF Fresh
<1>4. QED
  BY <1>1, <1>2, <1>3, FreshType, FreshIsOwn, OutsideStepInv

(* The side effects change neither results nor counters. *)
LEMMA SideEffectInv ==
  ASSUME IInv, TypeOK', NEW r \in Submitters,
         CompleteTask(r) \/ InsertCompletion(r) \/ TouchStreak(r) \/ EffectError(r)
  PROVE  IInv'
<1>1. PICK p \in {"completion", "streak", "award"} :
        /\ sub' = [sub EXCEPT ![r].pc = p]
        /\ p = "completion" => sub[r].pc = "task"
  BY DEF CompleteTask, InsertCompletion, TouchStreak, EffectError, SideEffect
<1>2. /\ sub[r].pc \in AfterCommit
      /\ UNCHANGED <<status, answers, results, mastery, mistakes, inFlight, reply>>
  BY DEF CompleteTask, InsertCompletion, TouchStreak, EffectError, SideEffect,
     learning, AfterCommit
<1> DEFINE rec == [sub[r] EXCEPT !.pc = p]
<1>3. /\ sub[r] \in Transactions /\ rec \in Transactions
      /\ rec.pc = p /\ rec.blanks = sub[r].blanks /\ rec.missed = sub[r].missed
      /\ rec.right = sub[r].right /\ rec.counted = sub[r].counted
  <2>1. sub[r] \in Transactions
    BY DEF IInv, TypeOK
  <2>2. QED
    BY <2>1 DEF Transactions, SubStates, AfterCommit
<1>4. sub' = [sub EXCEPT ![r] = rec]
  BY <1>1
<1> HIDE DEF rec
<1>5. OwnOf(rec, Target[r])
  BY <1>1, <1>3 DEF IInv, OwnQuestions, OwnOf
<1>6. results[Target[r]] = {[right |-> rec.right, counted |-> rec.counted]}
  BY <1>2, <1>3 DEF IInv, ResultRows, OutcomeOf
<1>7. rec.pc \notin TxStates
  BY <1>1, <1>3 DEF TxStates
<1>8. rec.pc \in {"task", "completion"} => TaskOf[Target[r]] # NoTask
  BY <1>1, <1>3 DEF IInv, TaskSteps
<1>9. \A t \in Submitters : reply'[t] \subseteq results[Target[t]]
  BY <1>2 DEF IInv, ReplyIsStored
<1>10. QED
  BY <1>2, <1>3, <1>4, <1>5, <1>6, <1>7, <1>8, <1>9, OutsideStepInv

(* Saving answers, expiring attempts and publishing questions leave the    *)
(* requests alone.                                                         *)
LEMMA OthersInv ==
  ASSUME IInv, TypeOK',
         \/ \E c \in Calls : SaveAnswer(c)
         \/ ExpireAbandonedAttempts
         \/ \E q \in Edited : ChangePublication(q)
  PROVE  IInv'
<1>1. UNCHANGED <<results, mastery, mistakes, sub, reply>>
  BY DEF SaveAnswer, SaveAnswerCheck, SaveAnswerWrite, SaveAnswerFail,
     ExpireAbandonedAttempts, ChangePublication, learning
<1>2. \A r \in Submitters : InTx(r)' <=> InTx(r)
  BY <1>1 DEF InTx
<1>3. /\ \A a \in Attempts : status'[a] # status[a] =>
           /\ status[a] = "in_progress" /\ status'[a] = "abandoned"
           /\ ~AttemptLocked(a)
  <2>1. CASE ExpireAbandonedAttempts
    BY <2>1 DEF IInv, TypeOK, ExpireAbandonedAttempts
  <2>2. CASE ~ExpireAbandonedAttempts
    BY <2>2 DEF SaveAnswer, SaveAnswerCheck, SaveAnswerWrite, SaveAnswerFail,
         ChangePublication
  <2>3. QED
    BY <2>1, <2>2
<1>4. OneTxPerAttempt'
  BY <1>1, <1>2, <1>3, RequestAssumption DEF IInv, OneTxPerAttempt, AttemptLocked
<1>5. ResultRows'
  BY <1>1, <1>3 DEF IInv, ResultRows, OutcomeOf
<1>6. OwnQuestions'
  <2>1. ASSUME NEW c \in Calls, SaveAnswerCheck(c) \/ SaveAnswerWrite(c)
                                 \/ SaveAnswerFail(c)
        PROVE  /\ \A a \in Attempts, q \in Questions :
                    answers'[a][q] # "none" => q \in Order[a]
               /\ \A d \in inFlight' : d.q \in Order[d.a]
    <3>1. CASE SaveAnswerCheck(c)
      BY <3>1 DEF IInv, OwnQuestions, SaveAnswerCheck, Loadable
    <3>2. CASE SaveAnswerWrite(c)
      BY <3>2 DEF IInv, TypeOK, OwnQuestions, SaveAnswerWrite, Calls
    <3>3. CASE SaveAnswerFail(c)
      BY <3>3 DEF IInv, OwnQuestions, SaveAnswerFail
    <3>4. QED
      BY <2>1, <3>1, <3>2, <3>3
  <2>2. ASSUME UNCHANGED <<answers, inFlight>>
        PROVE  /\ \A a \in Attempts, q \in Questions :
                    answers'[a][q] # "none" => q \in Order[a]
               /\ \A d \in inFlight' : d.q \in Order[d.a]
    BY <2>2 DEF IInv, OwnQuestions
  <2>3. \A r \in Submitters : OwnOf(sub[r], Target[r])'
    BY <1>1 DEF IInv, OwnQuestions, OwnOf
  <2>4. QED
    BY <2>1, <2>2, <2>3
    DEF OwnQuestions, SaveAnswer, ExpireAbandonedAttempts, ChangePublication
<1>7. RowVersions'
  BY <1>1, <1>2 DEF IInv, RowVersions, VersionsOf
<1>8. ExclusiveLocks' /\ TaskSteps' /\ ReplyIsStored'
  BY <1>1, <1>2 DEF IInv, ExclusiveLocks, TaskSteps, ReplyIsStored
<1>9. QED
  BY <1>4, <1>5, <1>6, <1>7, <1>8 DEF IInv

(* Every step keeps the invariant. *)
THEOREM NextInv == IInv /\ [Next]_vars => IInv'
<1> SUFFICES ASSUME IInv, [Next]_vars PROVE IInv'
  OBVIOUS
<1>1. TypeOK'
  BY NextType
<1>2. ASSUME NEW r \in Submitters, Submit(r) PROVE IInv'
  <2>1. ASSUME NEW q \in Questions, RecordMistake(r, q) PROVE IInv'
    BY <1>1, <2>1, RecordMistakeInv
  <2>2. CASE CompleteTask(r) \/ InsertCompletion(r) \/ TouchStreak(r) \/ EffectError(r)
    BY <1>1, <2>2, SideEffectInv
  <2>3. CASE GetResult(r) \/ AwardAndReply(r) \/ ReplyUnawarded(r) \/ SubmitFail(r)
    BY <1>1, <2>3, EndInv
  <2>4. QED
    BY <1>1, <1>2, <2>1, <2>2, <2>3, MarkSubmittedInv, LoadQuestionsInv,
       ReadAnsweredInv,
       FillBlankInv, LoadAnswersInv, RecordSkillOutcomeInv, ReadWrongInv, CommitInv
    DEF Submit, SubmitStep
<1>3. CASE UNCHANGED vars
  <2>1. UNCHANGED <<status, answers, results, mastery, mistakes, inFlight, sub, reply>>
    BY <1>3 DEF vars, learning
  <2>2. \A r \in Submitters : InTx(r)' <=> InTx(r)
    BY <2>1 DEF InTx
  <2>3. OneTxPerAttempt' /\ ExclusiveLocks' /\ TaskSteps' /\ ReplyIsStored'
    BY <2>1, <2>2 DEF IInv, OneTxPerAttempt, ExclusiveLocks, TaskSteps, ReplyIsStored
  <2>4. ResultRows' /\ OwnQuestions'
    BY <2>1 DEF IInv, ResultRows, OutcomeOf, OwnQuestions, OwnOf
  <2>5. RowVersions'
    BY <2>1, <2>2 DEF IInv, RowVersions, VersionsOf
  <2>6. QED
    BY <1>1, <2>3, <2>4, <2>5 DEF IInv
<1>4. QED
  BY <1>1, <1>2, <1>3, OthersInv DEF Next

(* The inductive invariant holds in every reachable state. *)
THEOREM Invariant == Spec => []IInv
<1>1. Init => IInv
  BY InitInv
<1>2. QED
  BY <1>1, NextInv, PTL DEF Spec

(* Every table keeps its type, and no skill has more correct answers than  *)
(* answers.                                                                *)
THEOREM TypeCorrect == Spec => []TypeOK
<1>1. IInv => TypeOK
  BY DEF IInv
<1>2. QED
  BY <1>1, Invariant, PTL

(* Submit is all or nothing: an attempt is submitted exactly when its one   *)
(* result row exists, for any number of requests, attempts and failures.   *)
THEOREM SubmittedWithResult == Spec => []ResultIffSubmitted
<1>1. IInv => ResultIffSubmitted
  <2> SUFFICES ASSUME IInv, NEW a \in Attempts
               PROVE  Cardinality(results[a]) = IF status[a] = "submitted" THEN 1 ELSE 0
    BY DEF ResultIffSubmitted
  <2>1. CASE status[a] = "submitted"
    BY <2>1, FS_Singleton DEF IInv, ResultRows
  <2>2. CASE status[a] # "submitted"
    BY <2>2, FS_EmptySet DEF IInv, ResultRows
  <2>3. QED
    BY <2>1, <2>2
<1>2. QED
  BY <1>1, Invariant, PTL

(* Whatever request answers, it answers with the stored result. *)
THEOREM RepliesAgree == Spec => []ReplyIsStored
<1>1. IInv => ReplyIsStored
  BY DEF IInv
<1>2. QED
  BY <1>1, Invariant, PTL

-----------------------------------------------------------------------------
(* The engine implements the ledger *)

(* The ledger counts with the same Cardinality. *)
LEMMA SameCardinality ==
  ASSUME NEW S PROVE Ledger!Cardinality(S) = Cardinality(S)
BY Zenon DEF Ledger!Cardinality, Cardinality

(* The two initial states agree. *)
LEMMA InitLedger == Init => Ledger!Init
BY DEF Init, Ledger!Init

(* The commit of a transaction is the submission of its outcome. *)
LEMMA CommitLedger ==
  ASSUME IInv, NEW r \in Submitters, Commit(r) PROVE Ledger!Next
<1> DEFINE a == Target[r]
<1>1. /\ a \in Attempts /\ sub[r] \in Transactions /\ InTx(r)
      /\ status[a] = "in_progress" /\ results[a] = {} /\ sub[r].pc = "mistakes"
      /\ sub[r].todo = {}
  BY RequestAssumption DEF IInv, TypeOK, Commit, InTx, TxStates, OneTxPerAttempt,
     ResultRows
<1>2. OwnOf(sub[r], a) /\ VersionsOf(sub[r])
  BY <1>1 DEF IInv, OwnQuestions, RowVersions
<1>3. ASSUME NEW s \in Skills
      PROVE  mastery'[s] =
               [seen    |-> mastery[s].seen
                              + Cardinality(Ledger!OnSkill(sub[r].counted, s)),
                correct |-> mastery[s].correct
                              + Cardinality(Ledger!OnSkill(sub[r].right, s))]
  <2>1. /\ Count(sub[r].counted, s) = Cardinality(Ledger!OnSkill(sub[r].counted, s))
        /\ Count(sub[r].right, s) = Cardinality(Ledger!OnSkill(sub[r].right, s))
    BY DEF Count, Ledger!OnSkill
  <2>2. CASE s \in sub[r].held
    BY <1>2, <2>1, <2>2 DEF VersionsOf, Commit
  <2>3. CASE s \notin sub[r].held
    <3>1. \A q \in sub[r].counted : s \notin SkillsOf[q]
      BY <1>1, <1>2, <2>3 DEF VersionsOf
    <3>2. \A q \in sub[r].right : s \notin SkillsOf[q]
      BY <1>2, <3>1 DEF OwnOf
    <3>3. Count(sub[r].counted, s) = 0 /\ Count(sub[r].right, s) = 0
      BY <3>1, <3>2, CountOfNone
    <3>4. mastery'[s] = mastery[s] /\ mastery[s] \in Rows
      BY <2>3 DEF IInv, TypeOK, Commit
    <3>5. QED
      BY <2>1, <3>3, <3>4 DEF Rows
  <2>4. QED
    BY <2>2, <2>3
<1>4. mastery' = [s \in Skills |->
         [seen    |-> mastery[s].seen + Cardinality(Ledger!OnSkill(sub[r].counted, s)),
          correct |-> mastery[s].correct + Cardinality(Ledger!OnSkill(sub[r].right, s))]]
  BY <1>3 DEF Commit
<1>5. mistakes' = [q \in Questions |->
         IF q \in sub[r].missed THEN mistakes[q] + 1 ELSE mistakes[q]]
  BY <1>1, <1>2 DEF Commit, VersionsOf, Transactions
<1>6. /\ status' = [status EXCEPT ![a] = "submitted"]
      /\ results' = [results EXCEPT ![a] =
           {[right |-> sub[r].right, counted |-> sub[r].counted]}]
  BY <1>1 DEF IInv, TypeOK, Commit, OutcomeOf
<1>7. Ledger!Submit(a, sub[r].right, sub[r].counted, sub[r].missed)
  BY <1>1, <1>2, <1>4, <1>5, <1>6, SameCardinality DEF Ledger!Submit, OwnOf
<1>8. /\ sub[r].right \in SUBSET Order[a] /\ sub[r].counted \in SUBSET Order[a]
      /\ sub[r].missed \in SUBSET Order[a]
  BY <1>2 DEF OwnOf
<1>9. QED
  BY <1>1, <1>7, <1>8 DEF Ledger!Next

(* Every step is a step of the ledger or does not change it. *)
LEMMA NextLedger == IInv /\ [Next]_vars => [Ledger!Next]_(Ledger!vars)
<1> SUFFICES ASSUME IInv, [Next]_vars,
                    ~ UNCHANGED <<status, results, mastery, mistakes>>
             PROVE  Ledger!Next
  BY DEF Ledger!vars
<1>1. ASSUME NEW r \in Submitters, Submit(r) PROVE Ledger!Next
  <2>1. Commit(r)
    BY <1>1 DEF Submit, SubmitStep, MarkSubmitted, GetResult, LoadQuestions, ReadAnswered,
       FillBlank, LoadAnswers, RecordSkillOutcome, ReadWrong, RecordMistake,
       CompleteTask, InsertCompletion, TouchStreak, AwardAndReply, EffectError,
       ReplyUnawarded, SubmitFail, Step, SideEffect, learning
  <2>2. QED
    BY <2>1, CommitLedger
<1>2. ASSUME ExpireAbandonedAttempts PROVE Ledger!Next
  <2>1. PICK old \in SUBSET Attempts : Ledger!Abandon(old)
    BY <1>2 DEF ExpireAbandonedAttempts, Ledger!Abandon, learning
  <2>2. QED
    BY <2>1 DEF Ledger!Next
<1>3. QED
  BY <1>1, <1>2 DEF Next, SaveAnswer, SaveAnswerCheck, SaveAnswerWrite,
     SaveAnswerFail, ChangePublication, vars, learning

(* A student's record is kept as the ledger promises: each attempt is      *)
(* counted once, wholly, with its result, or not at all.                   *)
THEOREM ImplementsLedger == Spec => LedgerSpec
<1>1. Spec => Ledger!Init /\ [][Ledger!Next]_(Ledger!vars)
  BY InitLedger, NextLedger, Invariant, PTL DEF Spec
<1>2. QED
  BY <1>1 DEF LedgerSpec, Ledger!Spec

-----------------------------------------------------------------------------
(* The locks.  Submissions never wait for each other in a circle, for any   *)
(* number of requests, provided createAttempt froze every question.         *)
(* Otherwise an answer that arrives between the two reads of the answers,   *)
(* for a question nobody could load at the first, enters the mistakes       *)
(* without the lock of its skill.                                           *)
AllFrozen == \A a \in Attempts : Frozen[a] = Order[a]

(* What r can still find unanswered is what it has left to fill.           *)
FillCovers(r) ==
  /\ sub[r].pc = "answered" => Order[Target[r]] \subseteq sub[r].todo
  /\ sub[r].pc = "fill" =>
    \A q \in Order[Target[r]] : Visible(r, q) = "none" => q \in sub[r].todo

(* The skills are taken in ascending order, those of all questions; then   *)
(* only mistakes whose skills are held.                                    *)
LockOrderOf(rec, a) ==
  /\ rec.pc = "skills" => \A x \in rec.held, y \in rec.todo : x < y
  /\ rec.pc \in {"skills", "mistakes"} => rec.counted = Order[a]
  /\ rec.pc = "mistakes" => \A q \in rec.todo \cup rec.missed : SkillsOf[q] # {}

LockOrder ==
  \A r \in Submitters : FillCovers(r) /\ LockOrderOf(sub[r], Target[r])

LInv == IInv /\ LockOrder

-----------------------------------------------------------------------------
(* An answer row is never taken away. *)
LEMMA AnswersStay ==
  ASSUME IInv, [Next]_vars, NEW a \in Attempts, NEW q \in Questions,
         answers[a][q] # "none"
  PROVE  answers'[a][q] # "none"
<1>1. ASSUME NEW r \in Submitters, Commit(r) PROVE answers'[a][q] # "none"
  <2>1. answers' = [answers EXCEPT ![Target[r]] = [x \in Questions |-> Visible(r, x)]]
    BY <1>1 DEF Commit
  <2>2. Target[r] = a => Visible(r, q) # "none"
    BY DEF Visible
  <2>3. QED
    BY <2>1, <2>2, RequestAssumption DEF IInv, TypeOK
<1>2. ASSUME NEW c \in Calls, SaveAnswerWrite(c) PROVE answers'[a][q] # "none"
  <2>1. c.grade # "none" /\ answers' = [answers EXCEPT ![c.a][c.q] = c.grade]
    BY <1>2 DEF Calls, Grades, SaveAnswerWrite
  <2>2. QED
    BY <2>1 DEF IInv, TypeOK
<1>3. ASSUME UNCHANGED answers PROVE answers'[a][q] # "none"
  BY <1>3
<1>4. QED
  BY <1>1, <1>2, <1>3
  DEF Next, Submit, SubmitStep, MarkSubmitted, GetResult, LoadQuestions, ReadAnswered,
      FillBlank, LoadAnswers, RecordSkillOutcome, ReadWrong, RecordMistake,
      CompleteTask, InsertCompletion, TouchStreak, AwardAndReply, EffectError,
      ReplyUnawarded, SubmitFail, Step, SideEffect, SaveAnswer, SaveAnswerCheck, SaveAnswerFail,
      ExpireAbandonedAttempts, ChangePublication, vars

(* A request that does not move keeps its part of the invariant. *)
LEMMA OthersKeepOrder ==
  ASSUME LInv, [Next]_vars, NEW t \in Submitters, sub'[t] = sub[t]
  PROVE  (FillCovers(t) /\ LockOrderOf(sub[t], Target[t]))'
<1>1. LockOrderOf(sub[t], Target[t])'
  BY DEF LInv, LockOrder, LockOrderOf
<1>2. ASSUME NEW q \in Order[Target[t]], Visible(t, q)' = "none", sub[t].pc = "fill"
      PROVE  q \in sub[t].todo
  <2>1. q \in Questions /\ Target[t] \in Attempts
    BY DataAssumption, RequestAssumption
  <2>2. Visible(t, q) = "none"
    BY <1>2, <2>1, AnswersStay DEF LInv, Visible
  <2>3. QED
    BY <1>2, <2>2 DEF LInv, LockOrder, FillCovers
<1>3. FillCovers(t)'
  BY <1>2 DEF LInv, LockOrder, FillCovers
<1>4. QED
  BY <1>1, <1>3

(* The step of a request moves no other request. *)
LEMMA OneRequestMoves ==
  ASSUME IInv, NEW r \in Submitters, Submit(r), NEW t \in Submitters \ {r}
  PROVE  sub'[t] = sub[t]
BY DEF IInv, TypeOK, Submit, SubmitStep, MarkSubmitted, GetResult, LoadQuestions, ReadAnswered,
   FillBlank, LoadAnswers, RecordSkillOutcome, ReadWrong, RecordMistake, Commit,
   CompleteTask, InsertCompletion, TouchStreak, AwardAndReply, EffectError,
   ReplyUnawarded, SubmitFail, Step, SideEffect

(* Up to LoadAnswers: no question of the attempt is left out. *)
LEMMA FillKeepsOrder ==
  ASSUME LInv, AllFrozen, NEW r \in Submitters,
         LoadQuestions(r) \/ ReadAnswered(r) \/ FillBlank(r) \/ LoadAnswers(r)
  PROVE  (FillCovers(r) /\ LockOrderOf(sub[r], Target[r]))'
<1>1. /\ sub[r] \in Transactions /\ InTx(r) /\ VersionsOf(sub[r])
      /\ Target[r] \in Attempts /\ Order[Target[r]] \subseteq Questions
      /\ UNCHANGED answers
  BY RequestAssumption, DataAssumption
  DEF LInv, IInv, TypeOK, RowVersions, InTx, TxStates, LoadQuestions, ReadAnswered,
      FillBlank,
      LoadAnswers, Step
<1>2. CASE ReadAnswered(r)
  <2>1. /\ sub'[r].pc = "fill" /\ sub'[r].blanks = sub[r].blanks
        /\ sub[r].pc = "answered"
        /\ sub'[r].todo = {q \in sub[r].todo : answers[Target[r]][q] = "none"}
    BY <1>1, <1>2 DEF LInv, IInv, TypeOK, ReadAnswered, Step, Transactions
  <2>2. Order[Target[r]] \subseteq sub[r].todo
    BY <2>1 DEF LInv, LockOrder, FillCovers
  <2>3. QED
    BY <1>1, <2>1, <2>2 DEF FillCovers, LockOrderOf, Visible
<1>3. CASE FillBlank(r)
  <2>1. /\ sub[r].pc = "fill" /\ sub'[r].pc = "fill"
        /\ sub'[r].blanks = sub[r].blanks \cup {First(sub[r].todo)}
        /\ sub'[r].todo = sub[r].todo \ {First(sub[r].todo)}
    BY <1>1, <1>3 DEF LInv, IInv, TypeOK, FillBlank, Step, Transactions
  <2>2. QED
    BY <1>1, <2>1 DEF LInv, LockOrder, FillCovers, LockOrderOf, Visible
<1>4. CASE LoadAnswers(r)
  <2> DEFINE counted == {q \in Questions : Visible(r, q) # "none"}
  <2>1. /\ sub[r].pc = "fill" /\ sub[r].todo = {} /\ sub'[r].pc = "skills"
        /\ sub'[r].counted = counted /\ sub'[r].held = sub[r].held
    BY <1>1, <1>4 DEF LInv, IInv, TypeOK, LoadAnswers, Step, Transactions
  <2>2. counted = Order[Target[r]]
    BY <1>1, <2>1, VisibleOwn DEF LInv, LockOrder, FillCovers
  <2>3. sub[r].held = {}
    BY <1>1, <2>1 DEF VersionsOf
  <2> HIDE DEF counted
  <2>4. QED
    BY <2>1, <2>2, <2>3 DEF FillCovers, LockOrderOf
<1>5. CASE LoadQuestions(r)
  <2>1. sub'[r].pc = "answered" /\ sub'[r].todo = Loadable(Target[r])
    BY <1>1, <1>5 DEF LInv, IInv, TypeOK, LoadQuestions, Step, Transactions
  <2>2. Order[Target[r]] \subseteq Loadable(Target[r])
    BY <1>1 DEF AllFrozen, Loadable
  <2>3. QED
    BY <2>1, <2>2 DEF FillCovers, LockOrderOf
<1>6. QED
  BY <1>2, <1>3, <1>4, <1>5

(* The writes: skills ascending, then mistakes. *)
LEMMA WritesKeepOrder ==
  ASSUME LInv, NEW r \in Submitters,
         \/ RecordSkillOutcome(r)
         \/ ReadWrong(r)
         \/ \E q \in Questions : RecordMistake(r, q)
  PROVE  (FillCovers(r) /\ LockOrderOf(sub[r], Target[r]))'
<1>1. /\ sub[r] \in Transactions /\ InTx(r) /\ VersionsOf(sub[r])
      /\ LockOrderOf(sub[r], Target[r])
  BY DEF LInv, LockOrder, IInv, TypeOK, RowVersions, InTx, TxStates,
     RecordSkillOutcome, ReadWrong, RecordMistake
<1>2. CASE RecordSkillOutcome(r)
  <2> DEFINE s == First(sub[r].todo)
  <2>1. /\ sub[r].pc = "skills" /\ sub'[r].pc = "skills" /\ sub[r].todo # {}
        /\ sub'[r].held = sub[r].held \cup {s} /\ sub'[r].todo = sub[r].todo \ {s}
        /\ sub'[r].counted = sub[r].counted
    BY <1>1, <1>2 DEF LInv, IInv, TypeOK, RecordSkillOutcome, Step, Transactions
  <2>2. sub[r].held \subseteq Nat /\ sub[r].todo \subseteq Nat
    <3>1. sub[r].counted \subseteq Questions
      BY <1>1 DEF Transactions
    <3>2. UNION {SkillsOf[q] : q \in sub[r].counted} \subseteq Nat
      BY <3>1, DataAssumption
    <3>3. QED
      BY <1>1, <2>1, <3>2 DEF VersionsOf
  <2>3. s \in sub[r].todo /\ \A y \in sub[r].todo : s <= y
    BY <2>1, <2>2, FirstIsLeast
  <2> HIDE DEF s
  <2>4. \A x \in sub'[r].held, y \in sub'[r].todo : x < y
    BY <1>1, <2>1, <2>2, <2>3 DEF LockOrderOf
  <2>5. QED
    BY <1>1, <2>1, <2>4 DEF FillCovers, LockOrderOf
<1>3. CASE ReadWrong(r)
  <2>1. /\ sub[r].pc = "skills" /\ sub'[r].pc = "mistakes"
        /\ \A q \in sub'[r].todo : SkillsOf[q] # {}
        /\ sub'[r].counted = sub[r].counted /\ sub'[r].missed = sub[r].missed
    BY <1>1, <1>3 DEF LInv, IInv, TypeOK, ReadWrong, Step, Transactions
  <2>2. sub[r].missed = {}
    BY <1>1, <2>1 DEF VersionsOf
  <2>3. QED
    BY <1>1, <2>1, <2>2 DEF FillCovers, LockOrderOf
<1>4. ASSUME NEW q \in Questions, RecordMistake(r, q)
      PROVE  (FillCovers(r) /\ LockOrderOf(sub[r], Target[r]))'
  <2>1. /\ sub[r].pc = "mistakes" /\ sub'[r].pc = "mistakes" /\ q \in sub[r].todo
        /\ sub'[r].todo = sub[r].todo \ {q} /\ sub'[r].missed = sub[r].missed \cup {q}
        /\ sub'[r].counted = sub[r].counted
    BY <1>1, <1>4 DEF LInv, IInv, TypeOK, RecordMistake, Step, Transactions
  <2>2. QED
    BY <1>1, <2>1 DEF FillCovers, LockOrderOf
<1>5. QED
  BY <1>2, <1>3, <1>4

(* The steps that begin, commit and follow the transaction, or end it. *)
LEMMA RestKeepsOrder ==
  ASSUME LInv, NEW r \in Submitters,
         \/ MarkSubmitted(r) \/ GetResult(r) \/ Commit(r) \/ CompleteTask(r)
         \/ InsertCompletion(r) \/ TouchStreak(r) \/ AwardAndReply(r)
         \/ EffectError(r) \/ ReplyUnawarded(r) \/ SubmitFail(r)
  PROVE  (FillCovers(r) /\ LockOrderOf(sub[r], Target[r]))'
<1>1. sub[r] \in Transactions /\ Fresh.pc = "idle"
  BY DEF LInv, IInv, TypeOK, Fresh
<1>2. sub'[r].pc \notin {"answered", "fill", "skills", "mistakes"}
  <2>1. CASE MarkSubmitted(r)
    BY <1>1, <2>1 DEF LInv, IInv, TypeOK, MarkSubmitted, Step, Fresh
  <2>2. CASE GetResult(r) \/ AwardAndReply(r) \/ ReplyUnawarded(r) \/ SubmitFail(r)
    BY <1>1, <2>2 DEF LInv, IInv, TypeOK, GetResult, AwardAndReply, ReplyUnawarded, SubmitFail
  <2>3. CASE Commit(r) \/ CompleteTask(r) \/ InsertCompletion(r)
               \/ TouchStreak(r) \/ EffectError(r)
    BY <1>1, <2>3 DEF LInv, IInv, TypeOK, Transactions, Commit, CompleteTask,
       InsertCompletion, TouchStreak, EffectError, SideEffect
  <2>4. QED
    BY <2>1, <2>2, <2>3
<1>3. QED
  BY <1>2 DEF FillCovers, LockOrderOf

(* Every step keeps the order of the locks. *)
LEMMA NextOrder == AllFrozen /\ LInv /\ [Next]_vars => LInv'
<1> SUFFICES ASSUME AllFrozen, LInv, [Next]_vars,  NEW t \in Submitters
             PROVE  (FillCovers(t) /\ LockOrderOf(sub[t], Target[t]))'
  BY NextInv DEF LInv, LockOrder
<1>1. CASE sub'[t] = sub[t]
  BY <1>1, OthersKeepOrder
<1>2. CASE sub'[t] # sub[t]
  <2>1. PICK r \in Submitters : Submit(r)
    BY <1>2 DEF Next, SaveAnswer, SaveAnswerCheck, SaveAnswerWrite, SaveAnswerFail,
       ExpireAbandonedAttempts, ChangePublication, vars
  <2>2. t = r
    BY <1>2, <2>1, OneRequestMoves DEF LInv
  <2>3. QED
    BY <2>1, <2>2, FillKeepsOrder, WritesKeepOrder, RestKeepsOrder
    DEF Submit, SubmitStep
<1>3. QED
  BY <1>1, <1>2

(* No lock is held initially. *)
LEMMA InitOrder == Init => LInv
BY InitInv DEF Init, LInv, LockOrder, FillCovers, LockOrderOf, Fresh

-----------------------------------------------------------------------------
(* A request that writes mistakes waits for nobody: whoever holds the row   *)
(* of the mistake holds a skill of the question as well.                    *)
LEMMA MistakesNeverWait ==
  ASSUME AllFrozen, LInv, NEW r \in Submitters, sub[r].pc = "mistakes",
         NEW t \in Submitters, WaitsFor(r, t)
  PROVE  FALSE
<1>1. /\ r # t /\ sub[r].todo # {}
      /\ \A q \in sub[r].todo : MistakeLockedBy(t, q)
  BY DEF WaitsFor
<1>2. PICK q \in sub[r].todo : InTx(t) /\ q \in sub[t].missed
  BY <1>1 DEF MistakeLockedBy
<1>3. /\ InTx(r) /\ VersionsOf(sub[r]) /\ VersionsOf(sub[t])
      /\ OwnOf(sub[r], Target[r]) /\ OwnOf(sub[t], Target[t])
      /\ LockOrderOf(sub[r], Target[r]) /\ LockOrderOf(sub[t], Target[t])
  BY <1>2 DEF LInv, IInv, LockOrder, RowVersions, OwnQuestions, InTx, TxStates
<1>4. sub[t].pc = "mistakes"
  BY <1>2, <1>3 DEF VersionsOf
<1>5. PICK s : s \in SkillsOf[q]
  BY <1>3 DEF LockOrderOf
<1>6. q \in sub[r].counted /\ q \in sub[t].counted
  BY <1>2, <1>3, <1>4 DEF OwnOf, LockOrderOf
<1>7. s \in sub[r].held /\ s \in sub[t].held
  BY <1>3, <1>4, <1>5, <1>6 DEF VersionsOf
<1>8. QED
  BY <1>1, <1>2, <1>3, <1>7 DEF LInv, IInv, ExclusiveLocks

(* Skills not below s. *)
Above(s) == {x \in Skills : x > s}

(* Fewer skills lie above a larger one. *)
LEMMA AboveShrinks ==
  ASSUME NEW s \in Skills, NEW x \in Skills, s < x
  PROVE  Cardinality(Above(x)) < Cardinality(Above(s))
<1>1. IsFiniteSet(Above(s))
  <2>1. Above(s) \in SUBSET Skills
    BY DEF Above
  <2>2. QED
    BY <2>1, DataAssumption, FS_Subset
<1>2. Above(x) \in SUBSET Above(s)
  <2>1. s \in Nat /\ x \in Nat
    BY DataAssumption
  <2>2. ASSUME NEW y \in Skills, y > x PROVE y > s
    BY <2>1, <2>2, DataAssumption
  <2>3. QED
    BY <2>2 DEF Above
<1>3. Above(x) # Above(s)
  BY DataAssumption DEF Above
<1>4. /\ IsFiniteSet(Above(x)) /\ Cardinality(Above(x)) <= Cardinality(Above(s))
      /\ Cardinality(Above(x)) # Cardinality(Above(s))
  BY <1>1, <1>2, <1>3, FS_Subset
<1>5. QED
  BY <1>1, <1>4, FS_CardinalityType

(* Where the wait is for the row of a skill, its owner waits for, or is at, *)
(* a greater one.                                                           *)
LEMMA WaitsUpwards ==
  ASSUME LInv, NEW r \in Submitters, NEW t \in Submitters, WaitsFor(r, t),
         sub[r].pc = "skills", sub[t].pc = "skills", sub[t].todo # {}
  PROVE  First(sub[r].todo) < First(sub[t].todo)
<1>1. /\ InTx(t) /\ VersionsOf(sub[t]) /\ LockOrderOf(sub[t], Target[t])
      /\ sub[t] \in Transactions /\ First(sub[r].todo) \in sub[t].held
  BY DEF LInv, IInv, TypeOK, LockOrder, RowVersions, InTx, TxStates, WaitsFor,
     SkillLockedBy
<1>2. sub[t].todo \subseteq Nat
  <2>1. sub[t].counted \subseteq Questions
    BY <1>1 DEF Transactions
  <2>2. UNION {SkillsOf[q] : q \in sub[t].counted} \subseteq Nat
    BY <2>1, DataAssumption
  <2>3. QED
    BY <1>1, <2>2 DEF VersionsOf
<1>3. First(sub[t].todo) \in sub[t].todo
  BY <1>2, FirstIsLeast
<1>4. QED
  BY <1>1, <1>3 DEF LockOrderOf

(* The order of the locks excludes a circle of waiting requests. *)
LEMMA NoWaitCircle == AllFrozen /\ LInv => NoDeadlock
<1> SUFFICES ASSUME AllFrozen, LInv, NEW S \in SUBSET Submitters, S # {},
                    \A r \in S : \E t \in S : WaitsFor(r, t)
             PROVE  FALSE
  BY DEF NoDeadlock
<1> DEFINE Waiting == {r \in S : sub[r].pc = "skills" /\ sub[r].todo # {}}
           least(r) == First(sub[r].todo)
           rest(r) == Cardinality(Above(least(r)))
<1>1. ASSUME NEW r \in S, InTx(r) PROVE r \in Waiting
  <2>1. PICK t \in S : WaitsFor(r, t)
    OBVIOUS
  <2>2. sub[r].pc # "mistakes"
    BY <2>1, MistakesNeverWait
  <2>3. QED
    BY <1>1, <2>1, <2>2 DEF WaitsFor, InTx, TxStates
<1>2. \A r, t \in S : WaitsFor(r, t) => InTx(t)
  <2>1. ASSUME NEW r \in S, NEW t \in S, WaitsFor(r, t) PROVE InTx(t)
    <3>1. sub[r].pc # "mistakes"
      BY <2>1, MistakesNeverWait
    <3>2. QED
      BY <2>1, <3>1 DEF WaitsFor, SkillLockedBy
  <2>2. QED
    BY <2>1
<1>3. Waiting # {}
  BY <1>1, <1>2
<1>4. ASSUME NEW r \in Waiting PROVE least(r) \in Skills /\ rest(r) \in Nat
  <2>1. /\ sub[r] \in Transactions /\ VersionsOf(sub[r])
        /\ sub[r].pc = "skills" /\ sub[r].todo # {}
    BY <1>4 DEF LInv, IInv, TypeOK, RowVersions, InTx, TxStates
  <2>2. sub[r].todo \subseteq Skills
    <3>1. sub[r].counted \subseteq Questions
      BY <2>1 DEF Transactions
    <3>2. UNION {SkillsOf[q] : q \in sub[r].counted} \subseteq Skills
      BY <3>1, DataAssumption
    <3>3. QED
      BY <2>1, <3>2 DEF VersionsOf
  <2>3. least(r) \in Skills
    BY <2>1, <2>2, DataAssumption, FirstIsLeast
  <2>4. Above(least(r)) \in SUBSET Skills
    BY DEF Above
  <2>5. QED
    BY <2>3, <2>4, DataAssumption, FS_Subset, FS_CardinalityType
<1>5. ASSUME NEW r \in Waiting PROVE \E t \in Waiting : rest(t) < rest(r)
  <2>1. PICK t \in S : WaitsFor(r, t)
    OBVIOUS
  <2>2. t \in Waiting
    BY <1>1, <1>2, <2>1
  <2>3. least(r) < least(t)
    BY <2>1, <2>2, WaitsUpwards
  <2>4. QED
    BY <1>4, <2>2, <2>3, AboveShrinks
<1> DEFINE Rests == {rest(r) : r \in Waiting}
<1>6. Rests \in SUBSET Nat /\ Rests # {}
  BY <1>3, <1>4
<1>7. PICK m \in Rests : \A n \in Rests : m <= n
  BY <1>6, FirstIsLeast
<1>8. PICK r \in Waiting : m = rest(r)
  BY <1>7
<1>9. PICK t \in Waiting : rest(t) < rest(r)
  BY <1>5
<1>10. rest(r) <= rest(t)
  BY <1>7, <1>8
<1>11. QED
  BY <1>4, <1>9, <1>10

(* Any number of requests that submit a student's attempts, sharing        *)
(* questions and skills in any way, never wait for each other in a circle. *)
THEOREM SubmitsNeverDeadlock ==
  ASSUME AllFrozen PROVE Spec => []NoDeadlock
<1>1. AllFrozen
  OBVIOUS
<1>2. Init => LInv
  BY InitOrder
<1>3. LInv /\ [Next]_vars => LInv'
  BY <1>1, NextOrder
<1>4. LInv => NoDeadlock
  BY <1>1, NoWaitCircle
<1>5. QED
  BY <1>2, <1>3, <1>4, PTL DEF Spec

-----------------------------------------------------------------------------
(* The side effects. *)

(* While no request died: a request has done all effects before the one it  *)
(* is at, and an attempt that no request is at any more has them all.       *)
TaskDone(a) == TaskOf[a] # NoTask => TaskOf[a] \in completed \cap completions
EffectsSoFar ==
  failures = 0 =>
    \A r \in Submitters :
      /\ sub[r].pc = "completion" => TaskOf[Target[r]] \in completed
      /\ sub[r].pc \in {"streak", "award"} => TaskDone(Target[r])
      /\ sub[r].pc = "award" => activeToday

EffectsInv == EffectsSoFar /\ SideEffectsFollow

(* Steps that neither begin nor end the effects of a request, nor undo any. *)
LEMMA EffectsStay ==
  ASSUME IInv, EffectsInv, failures = 0, UNCHANGED effects,
         \A a \in Attempts : status'[a] = "submitted" => status[a] = "submitted",
         \A r \in Submitters : \/ sub'[r].pc = sub[r].pc
                               \/ sub'[r].pc \notin AfterCommit /\ sub[r].pc \notin AfterCommit
  PROVE  EffectsInv'
<1>1. EffectsSoFar'
  BY DEF EffectsInv, EffectsSoFar, TaskDone, AfterCommit, effects
<1>2. SideEffectsFollow'
  BY DEF EffectsInv, SideEffectsFollow, effects
<1> QED BY <1>1, <1>2 DEF EffectsInv

LEMMA EffectsInTx ==
  ASSUME IInv, EffectsInv, failures = 0, NEW r \in Submitters,
         sub[r].pc \notin AfterCommit, NEW rec, rec.pc \notin AfterCommit,
         sub' = [sub EXCEPT ![r] = rec], UNCHANGED <<status, effects>>
  PROVE  EffectsInv'
<1>1. sub'[r] = rec /\ \A t \in Submitters \ {r} : sub'[t] = sub[t]
  BY DEF IInv, TypeOK
<1> QED BY <1>1, EffectsStay

(* An effect of a request that has committed.                               *)
LEMMA EffectDone ==
  ASSUME IInv, EffectsInv, failures = 0, NEW r \in Submitters,
         CompleteTask(r) \/ InsertCompletion(r) \/ TouchStreak(r)
  PROVE  EffectsInv'
<1>1. sub \in [Submitters -> Transactions]
  BY DEF IInv, TypeOK
<1>2. /\ \A t \in Submitters \ {r} : sub'[t] = sub[t]
      /\ sub[r].pc \in AfterCommit /\ sub'[r].pc \in AfterCommit /\ status' = status
      /\ completed \subseteq completed' /\ completions \subseteq completions'
      /\ (activeToday => activeToday') /\ awards' = awards
  BY <1>1 DEF CompleteTask, InsertCompletion, TouchStreak, SideEffect, Transactions, AfterCommit
<1>3. /\ sub'[r].pc = "completion" => TaskOf[Target[r]] \in completed'
      /\ sub'[r].pc \in {"streak", "award"} => TaskDone(Target[r])'
      /\ sub'[r].pc = "award" => activeToday'
  <2>1. CASE CompleteTask(r)
    <3>1. sub'[r].pc = "completion" /\ completed' = completed \cup {TaskOf[Target[r]]}
      BY <1>1, <2>1 DEF CompleteTask, SideEffect, Transactions
    <3> QED BY <3>1
  <2>2. CASE InsertCompletion(r)
    <3>1. /\ sub'[r].pc = "streak" /\ completions' = completions \cup {TaskOf[Target[r]]}
          /\ completed' = completed /\ TaskOf[Target[r]] \in completed
      BY <1>1, <2>2 DEF InsertCompletion, SideEffect, Transactions, EffectsInv, EffectsSoFar
    <3> QED BY <3>1 DEF TaskDone
  <2>3. CASE TouchStreak(r)
    <3>1. /\ sub'[r].pc = "award" /\ activeToday' = TRUE /\ TaskDone(Target[r])
          /\ completed' = completed /\ completions' = completions
      BY <1>1, <2>3 DEF TouchStreak, SideEffect, Transactions, EffectsInv, EffectsSoFar
    <3> QED BY <3>1 DEF TaskDone
  <2> QED BY <2>1, <2>2, <2>3
<1>4. EffectsSoFar'
  BY <1>2, <1>3 DEF EffectsInv, EffectsSoFar, TaskDone
<1>5. SideEffectsFollow'
  BY <1>2 DEF EffectsInv, SideEffectsFollow
<1> QED BY <1>4, <1>5 DEF EffectsInv

LEMMA EffectsBegin ==
  ASSUME IInv, EffectsInv, failures = 0, NEW r \in Submitters, Commit(r)
  PROVE  EffectsInv'
<1>1. sub \in [Submitters -> Transactions] /\ status \in [Attempts -> {"in_progress", "submitted", "abandoned"}]
  BY DEF IInv, TypeOK
<1>2. /\ \A t \in Submitters \ {r} : sub'[t] = sub[t]
      /\ sub'[r].pc = (IF TaskOf[Target[r]] = NoTask THEN "streak" ELSE "task")
      /\ UNCHANGED effects
      /\ sub[r].pc = "mistakes"
      /\ \A a \in Attempts : a # Target[r] => status'[a] = status[a]
  BY <1>1 DEF Commit, Transactions
<1>3. EffectsSoFar'
  BY <1>2 DEF EffectsInv, EffectsSoFar, TaskDone, effects
<1>4. SideEffectsFollow'
  BY <1>2 DEF EffectsInv, SideEffectsFollow, effects, AfterCommit
<1> QED BY <1>3, <1>4 DEF EffectsInv

LEMMA EffectsEnd ==
  ASSUME IInv, EffectsInv, failures = 0, NEW r \in Submitters, AwardAndReply(r)
  PROVE  EffectsInv'
<1>1. sub \in [Submitters -> Transactions]
  BY DEF IInv, TypeOK
<1>2. /\ \A t \in Submitters \ {r} : sub'[t] = sub[t]
      /\ sub'[r].pc = "idle" /\ sub[r].pc = "award"
      /\ UNCHANGED <<status, completed, completions, activeToday>>
      /\ "first_quiz" \in awards' /\ awards \subseteq awards'
  BY <1>1 DEF AwardAndReply, Fresh, Earned
<1>3. EffectsSoFar'
  BY <1>2 DEF EffectsInv, EffectsSoFar, TaskDone
<1>4. activeToday /\ TaskDone(Target[r])
  BY <1>2 DEF EffectsInv, EffectsSoFar
<1>5. SideEffectsFollow'
  BY <1>2, <1>4 DEF EffectsInv, SideEffectsFollow, TaskDone
<1> QED BY <1>3, <1>5 DEF EffectsInv

LEMMA EffectsKeep == IInv /\ EffectsInv /\ [Next]_vars => EffectsInv'
<1> SUFFICES ASSUME IInv, EffectsInv, [Next]_vars PROVE EffectsInv'
  OBVIOUS
<1>1. failures \in Nat
  BY RequestAssumption DEF IInv, TypeOK
<1>2. CASE failures' # 0
  BY <1>2 DEF EffectsInv, EffectsSoFar, SideEffectsFollow
<1>3. CASE failures' = 0
  <2>1. failures = 0
    <3>1. failures' \in {failures, failures + 1}
      <4>1. ASSUME NEW r \in Submitters, SubmitStep(r) PROVE failures' = failures
        BY <4>1 DEF SubmitStep, Step, GetResult, LoadQuestions, ReadAnswered, FillBlank,
           LoadAnswers, RecordSkillOutcome, ReadWrong, RecordMistake, Commit, CompleteTask,
           InsertCompletion, TouchStreak, AwardAndReply, SideEffect
      <4>2. ASSUME NEW r \in Submitters, Submit(r) PROVE failures' \in {failures, failures + 1}
        BY <4>1, <4>2 DEF Submit, MarkSubmitted, Step, EffectError, ReplyUnawarded, SubmitFail
      <4>3. ASSUME NEW c \in Calls, SaveAnswer(c) PROVE failures' \in {failures, failures + 1}
        BY <4>3 DEF SaveAnswer, SaveAnswerCheck, SaveAnswerWrite, SaveAnswerFail
      <4> QED BY <4>2, <4>3 DEF Next, ExpireAbandonedAttempts, ChangePublication, vars
    <3> QED BY <1>1, <1>3, <3>1
  <2>2. ASSUME NEW r \in Submitters, Submit(r) PROVE EffectsInv'
    <3>1. CASE MarkSubmitted(r)
      <4>1. sub[r].pc = "idle"
        BY <3>1 DEF MarkSubmitted
      <4>2. CASE Step(r, [Fresh EXCEPT !.pc = "load"])
        <5>1. [Fresh EXCEPT !.pc = "load"].pc = "load"
          BY DEF Fresh
        <5> QED BY <2>1, <4>1, <4>2, <5>1, EffectsInTx DEF Step, AfterCommit
      <4>3. CASE Step(r, [Fresh EXCEPT !.pc = "finished"])
        <5>1. [Fresh EXCEPT !.pc = "finished"].pc = "finished"
          BY DEF Fresh
        <5> QED BY <2>1, <4>1, <4>3, <5>1, EffectsInTx DEF Step, AfterCommit
      <4> QED BY <3>1, <4>2, <4>3 DEF MarkSubmitted
    <3>2. CASE GetResult(r)
      BY <2>1, <3>2, EffectsInTx DEF GetResult, AfterCommit, Fresh
    <3>3. CASE \/ LoadQuestions(r) \/ ReadAnswered(r) \/ FillBlank(r) \/ LoadAnswers(r)
               \/ RecordSkillOutcome(r) \/ ReadWrong(r) \/ \E q \in Questions : RecordMistake(r, q)
      <4>1. sub[r] \in Transactions /\ sub[r].pc \in TxStates
        BY <3>3 DEF IInv, TypeOK, TxStates, LoadQuestions, ReadAnswered, FillBlank, LoadAnswers,
           RecordSkillOutcome, ReadWrong, RecordMistake
      <4>2. \E rec : Step(r, rec) /\ rec.pc \in TxStates
        <5>1. CASE LoadQuestions(r)
          <6> DEFINE rec == [sub[r] EXCEPT !.pc = "answered", !.todo = Loadable(Target[r])]
          <6>1. Step(r, rec)
            BY <5>1 DEF LoadQuestions
          <6>2. rec.pc = "answered"
            BY <4>1 DEF Transactions, TxStates
          <6> HIDE DEF rec
          <6> QED BY <4>1, <6>1, <6>2 DEF TxStates
        <5>2. CASE ReadAnswered(r)
          <6> DEFINE open == {q \in sub[r].todo : answers[Target[r]][q] = "none"}
                     rec == [sub[r] EXCEPT !.pc = "fill", !.todo = open]
          <6>1. Step(r, rec)
            BY <5>2 DEF ReadAnswered
          <6>2. rec.pc = "fill"
            BY <4>1 DEF Transactions, TxStates
          <6> HIDE DEF rec
          <6> QED BY <4>1, <6>1, <6>2 DEF TxStates
        <5>3. CASE FillBlank(r)
          <6> DEFINE x == First(sub[r].todo)
                     rec == [sub[r] EXCEPT !.todo = @ \ {x}, !.blanks = @ \cup {x}]
          <6>1. Step(r, rec)
            BY <5>3 DEF FillBlank
          <6>2. rec.pc = sub[r].pc
            BY <4>1 DEF Transactions, TxStates
          <6> HIDE DEF rec
          <6> QED BY <4>1, <6>1, <6>2 DEF TxStates
        <5>4. CASE LoadAnswers(r)
          <6> DEFINE counted == {q \in Questions : Visible(r, q) # "none"}
                     right == {q \in Questions : Visible(r, q) = "right"}
                     rec == [sub[r] EXCEPT !.pc = "skills", !.counted = counted, !.right = right,
                                    !.todo = UNION {SkillsOf[q] : q \in counted}]
          <6>1. Step(r, rec)
            BY <5>4 DEF LoadAnswers
          <6>2. rec.pc = "skills"
            BY <4>1 DEF Transactions, TxStates
          <6> HIDE DEF rec
          <6> QED BY <4>1, <6>1, <6>2 DEF TxStates
        <5>5. CASE RecordSkillOutcome(r)
          <6> DEFINE x == First(sub[r].todo)
                     row == [seen    |-> mastery[x].seen + Count(sub[r].counted, x),
                             correct |-> mastery[x].correct + Count(sub[r].right, x)]
                     rec == [sub[r] EXCEPT !.todo = @ \ {x}, !.held = @ \cup {x}, !.rows[x] = row]
          <6>1. Step(r, rec)
            BY <5>5 DEF RecordSkillOutcome
          <6>2. rec.pc = sub[r].pc
            BY <4>1 DEF Transactions, TxStates
          <6> HIDE DEF rec
          <6> QED BY <4>1, <6>1, <6>2 DEF TxStates
        <5>6. CASE ReadWrong(r)
          <6> DEFINE wrong == {q \in Questions : /\ Visible(r, q) \in {"wrong", "blank"}
                                               /\ SkillsOf[q] # {}}
                     rec == [sub[r] EXCEPT !.pc = "mistakes", !.todo = wrong]
          <6>1. Step(r, rec)
            BY <5>6 DEF ReadWrong
          <6>2. rec.pc = "mistakes"
            BY <4>1 DEF Transactions, TxStates
          <6> HIDE DEF rec
          <6> QED BY <4>1, <6>1, <6>2 DEF TxStates
        <5>7. ASSUME NEW q \in Questions, RecordMistake(r, q)
              PROVE  \E rec : Step(r, rec) /\ rec.pc \in TxStates
          <6> DEFINE rec == [sub[r] EXCEPT !.todo = @ \ {q}, !.missed = @ \cup {q},
                                           !.counts[q] = mistakes[q] + 1]
          <6>1. Step(r, rec)
            BY <5>7 DEF RecordMistake
          <6>2. rec.pc = sub[r].pc
            BY <4>1 DEF Transactions
          <6> HIDE DEF rec
          <6> QED BY <4>1, <6>1, <6>2
        <5> QED BY <3>3, <5>1, <5>2, <5>3, <5>4, <5>5, <5>6, <5>7
      <4> QED BY <2>1, <4>1, <4>2, EffectsInTx DEF Step, TxStates, AfterCommit
    <3>4. CASE CompleteTask(r) \/ InsertCompletion(r) \/ TouchStreak(r)
      BY <2>1, <3>4, EffectDone
    <3>5. CASE Commit(r)
      BY <2>1, <3>5, EffectsBegin
    <3>6. CASE AwardAndReply(r)
      BY <2>1, <3>6, EffectsEnd
    <3>7. CASE EffectError(r) \/ ReplyUnawarded(r) \/ SubmitFail(r)
      BY <1>3, <2>1, <3>7 DEF EffectError, ReplyUnawarded, SubmitFail
    <3> QED BY <2>2, <3>1, <3>2, <3>3, <3>4, <3>5, <3>6, <3>7 DEF Submit, SubmitStep
  <2>3. CASE ExpireAbandonedAttempts
    <3>1. /\ sub' = sub /\ UNCHANGED effects
          /\ \A a \in Attempts : status'[a] = "submitted" => status[a] = "submitted"
      BY <2>3 DEF ExpireAbandonedAttempts
    <3> QED BY <2>1, <3>1, EffectsStay
  <2>4. CASE UNCHANGED <<sub, status, effects>>
    BY <2>1, <2>4, EffectsStay
  <2> QED BY <2>2, <2>3, <2>4 DEF Next, SaveAnswer, SaveAnswerCheck, SaveAnswerWrite,
            SaveAnswerFail, ChangePublication, vars
<1> QED BY <1>2, <1>3

(* Unless a request died, an attempt that is submitted, and that no request *)
(* is still working on, has completed its daily task and counts for the     *)
(* streak and for the first achievement.                                    *)
THEOREM EffectsFollowSubmission == Spec => []SideEffectsFollow
<1>1. Init => EffectsInv
  BY DEF Init, Fresh, EffectsInv, EffectsSoFar, SideEffectsFollow
<1>2. IInv /\ EffectsInv /\ [Next]_vars => EffectsInv'
  BY EffectsKeep
<1>3. EffectsInv => SideEffectsFollow
  BY DEF EffectsInv
<1> QED BY <1>1, <1>2, <1>3, Invariant, PTL DEF Spec
=============================================================================
