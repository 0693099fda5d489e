------------------------- MODULE QuestionLifecycle -------------------------
(***************************************************************************)
(* The questions of a lesson and the administrators that write, review,    *)
(* publish, edit, archive and delete them, all at once.                    *)
(*                                                                         *)
(* Content is a row of question_versions.  A row that was published is     *)
(* never rewritten: an edit adds a version.  A row that was not is deleted *)
(* and written again in the same slot (version_number), with a new id.     *)
(* Update reads the question before its transaction, and Publish reads its *)
(* status without a lock: both act later on what they read.                *)
(***************************************************************************)
EXTENDS Integers, FiniteSets, Sequences, Functions

CONSTANTS
  Questions,    \* question ids, all of one lesson
  Admins,       \* concurrent requests of administrators
  MaxWrites,    \* bound on the rows of question_versions ever written
  MaxFailures   \* bound on the requests that fail or die

ASSUME LifecycleAssumption ==
  IsFiniteSet(Admins) /\ MaxWrites \in Nat \ {0} /\ MaxFailures \in Nat

VARIABLES
  status,        \* questions.status, or absent, or deleted
  versions,      \* the row of question_versions in each slot of a question
  current,       \* questions.current_version
  published,     \* rows with published_at
  publications,  \* rows that content_publications refers to
  quizzes,       \* number of lesson quizzes
  members,       \* quiz_questions
  decided,       \* questions with an approval in content_reviews
  req,           \* the request of each administrator
  writes,        \* rows written so far; also their ids
  failures,      \* failed requests so far
  approved,      \* questions that were ever approved (history)
  reviewed,      \* rows that were the latest when their question was approved (history)
  shown          \* rows that were loaded for a student (history)

question == <<status, versions, current>>
publication == <<published, publications, quizzes, members, decided>>
history == <<approved, reviewed, shown>>
vars == <<question, publication, req, writes, failures, history>>

RowIds == 1..MaxWrites
Quizzes == 1..Cardinality(Admins)
Statuses == {"draft", "in_review", "changes_requested", "approved", "published", "archived"}
Decisions == {"approved", "changes_requested"}
Exists(q) == status[q] \in Statuses
Latest(q) == Len(versions[q])
InQuiz(q) == \E k \in Quizzes : <<k, q>> \in members

(* A request: its question, the slot it works on, for Update the status it *)
(* read and whether it adds a version, the row that it wrote or marked, and *)
(* for Publish the quiz it found, 0 for none.                              *)
Idle == [pc |-> "idle"]
Updates == [pc : {"version", "update"}, q : Questions, slot : RowIds,
            seen : Statuses, new : BOOLEAN, row : {0} \cup RowIds]
Publishes == [pc : {"max", "mark", "set", "publish"}, q : Questions,
              slot : {0} \cup RowIds, row : {0} \cup RowIds, quiz : {0} \cup Quizzes]
Reviews == [pc : {"record"}, q : Questions, decision : Decisions]

(* Row locks: a slot from the write or the mark of its row to the commit,   *)
(* the row of the question from its own update to the commit.               *)
SlotLocked(q, n) ==
  \E a \in Admins : req[a].pc \in {"update", "set", "publish"} /\ req[a].q = q /\ req[a].slot = n
QuestionLocked(q) == \E a \in Admins : req[a].pc = "publish" /\ req[a].q = q

Init ==
  /\ status = [q \in Questions |-> "absent"]
  /\ versions = [q \in Questions |-> <<>>]
  /\ current = [q \in Questions |-> 1]
  /\ published = {} /\ publications = {}
  /\ quizzes = 0 /\ members = {} /\ decided = {}
  /\ req = [a \in Admins |-> Idle]
  /\ writes = 0 /\ failures = 0
  /\ approved = {} /\ reviewed = {} /\ shown = {}

Answer(a) == req' = [req EXCEPT ![a] = Idle]
Tables == UNCHANGED <<question, publication, history>>

-----------------------------------------------------------------------------
(* Create, and GenerateAIDraft, which ends in the same createQuestion *)
Create(q) ==
  /\ status[q] = "absent" /\ writes < MaxWrites
  /\ status' = [status EXCEPT ![q] = "draft"]
  /\ versions' = [versions EXCEPT ![q] = <<writes + 1>>]
  /\ writes' = writes + 1
  /\ UNCHANGED <<current, publication, req, failures, history>>

-----------------------------------------------------------------------------
(* Update *)

UpdateRead(a, q) ==
  /\ req[a] = Idle
  /\ Exists(q) /\ status[q] # "archived"
  /\ req' = [req EXCEPT ![a] =
       [pc |-> "version", q |-> q, slot |-> Latest(q), seen |-> status[q],
        new |-> versions[q][Latest(q)] \in published, row |-> 0]]
  /\ Tables /\ UNCHANGED <<writes, failures>>

(* What the database refuses: the key of a slot that is taken, a reference *)
(* to a question that is gone, the deletion of a row that a publication    *)
(* refers to.                                                              *)
Refused(q, slot, new) ==
  \/ ~Exists(q)
  \/ IF new THEN slot < Latest(q) ELSE versions[q][slot] \in publications

WriteVersion(a, slot) ==
  LET r == req[a]
      to == IF r.new THEN slot + 1 ELSE slot
  IN  /\ r.pc = "version"
      /\ ~SlotLocked(r.q, to)
      /\ IF Refused(r.q, slot, r.new)
         THEN Answer(a) /\ UNCHANGED writes
         ELSE /\ writes < MaxWrites
              /\ writes' = writes + 1
              /\ req' = [req EXCEPT ![a] = [r EXCEPT !.pc = "update", !.slot = to,
                                                     !.row = writes + 1]]
      /\ Tables /\ UNCHANGED failures

(* Mutant: the number of the new version is not the one after the version   *)
(* that was read, but the one after the latest.                            *)
UpdateVersionAnew(a) ==
  req[a].pc = "version" /\ Exists(req[a].q) /\
  WriteVersion(a, IF req[a].new THEN Latest(req[a].q) ELSE req[a].slot)

(* The row of the version that was read is replaced, or one is added after *)
(* it: DELETE, writeVersion and linkSkills.                                *)
UpdateVersion(a) == req[a].pc = "version" /\ WriteVersion(a, req[a].slot)

(* Mutant: only a new version sends the question back to review. *)
NewStatusIfNew(seen, new) == IF new THEN "draft" ELSE seen

NewStatus(seen, new) ==
  IF new \/ seen \in {"in_review", "approved"} THEN "draft" ELSE seen

UpdateCommit(a) ==
  LET r == req[a] IN
  /\ r.pc = "update"
  /\ ~QuestionLocked(r.q)
  /\ versions' = [versions EXCEPT ![r.q] =
       IF r.new THEN Append(@, r.row) ELSE [@ EXCEPT ![r.slot] = r.row]]
  /\ status' = [status EXCEPT ![r.q] = NewStatus(r.seen, r.new)]
  /\ Answer(a)
  /\ UNCHANGED <<current, publication, writes, failures, history>>

-----------------------------------------------------------------------------
(* Review cycle: conditional updates of one statement *)

Transition(q, from, to) ==
  /\ status[q] \in from /\ ~QuestionLocked(q)
  /\ status' = [status EXCEPT ![q] = to]
  /\ UNCHANGED <<versions, current, publication, writes, failures>>

SubmitForReview(q) ==
  /\ Transition(q, {"draft", "changes_requested"}, "in_review")
  /\ UNCHANGED <<req, history>>

Review(a, q, decision) ==
  /\ req[a] = Idle
  /\ Transition(q, {"in_review"}, decision)
  /\ req' = [req EXCEPT ![a] = [pc |-> "record", q |-> q, decision |-> decision]]
  /\ IF decision = "approved"
     THEN /\ approved' = approved \cup {q}
          /\ reviewed' = reviewed \cup {versions[q][Latest(q)]}
     ELSE UNCHANGED <<approved, reviewed>>
  /\ UNCHANGED shown

(* The row of content_reviews: a statement of its own. *)
RecordDecision(a) ==
  /\ req[a].pc = "record"
  /\ decided' = IF req[a].decision = "approved" /\ Exists(req[a].q)
               THEN decided \cup {req[a].q} ELSE decided
  /\ Answer(a)
  /\ UNCHANGED <<question, published, publications, quizzes, members, writes, failures, history>>

-----------------------------------------------------------------------------
(* Publish: a transaction that reads without locks *)

PublishCheck(a, q) ==
  /\ req[a] = Idle
  /\ status[q] = "approved"
  /\ req' = [req EXCEPT ![a] = [pc |-> "max", q |-> q, slot |-> 0, row |-> 0, quiz |-> 0]]
  /\ Tables /\ UNCHANGED <<writes, failures>>

PublishMax(a) ==
  /\ req[a].pc = "max"
  /\ IF Exists(req[a].q)
     THEN req' = [req EXCEPT ![a] = [@ EXCEPT !.pc = "mark", !.slot = Latest(req[a].q)]]
     ELSE Answer(a)
  /\ Tables /\ UNCHANGED <<writes, failures>>

MarkVersion(a) ==
  LET r == req[a] IN
  /\ r.pc = "mark"
  /\ ~SlotLocked(r.q, r.slot)
  /\ IF Exists(r.q)
     THEN req' = [req EXCEPT ![a] = [r EXCEPT !.pc = "set", !.row = versions[r.q][r.slot]]]
     ELSE Answer(a)
  /\ Tables /\ UNCHANGED <<writes, failures>>

(* The status and current_version are set; any quiz of the lesson is taken. *)
SetPublished(a) ==
  LET r == req[a] IN
  /\ r.pc = "set"
  /\ ~QuestionLocked(r.q)
  /\ \E quiz \in IF quizzes = 0 THEN {0} ELSE 1..quizzes :
       req' = [req EXCEPT ![a] = [r EXCEPT !.pc = "publish", !.quiz = quiz]]
  /\ Tables /\ UNCHANGED <<writes, failures>>

PublishAs(a, slot, rows, quizRow) ==
  LET r == req[a]
      quiz == IF r.quiz = 0 THEN quizzes + 1 ELSE r.quiz
  IN  /\ r.pc = "publish"
      /\ published' = published \cup {r.row}
      /\ status' = [status EXCEPT ![r.q] = "published"]
      /\ current' = [current EXCEPT ![r.q] = slot]
      /\ quizzes' = IF r.quiz = 0 THEN quizzes + 1 ELSE quizzes
      /\ members' = IF quizRow THEN members \cup {<<quiz, r.q>>} ELSE members
      /\ publications' = publications \cup rows
      /\ Answer(a)
      /\ UNCHANGED <<versions, decided, writes, failures, history>>

(* Mutants: no row of content_publications; the question is added to a quiz *)
(* only when the quiz is created.                                           *)
CommitUnrecorded(a) == req[a].pc = "publish" /\ PublishAs(a, req[a].slot, {}, TRUE)
CommitNewQuizOnly(a) ==
  req[a].pc = "publish" /\ PublishAs(a, req[a].slot, {req[a].row}, req[a].quiz = 0)

CommitPublish(a) == req[a].pc = "publish" /\ PublishAs(a, req[a].slot, {req[a].row}, TRUE)

-----------------------------------------------------------------------------
Archive(q) ==
  /\ Transition(q, Statuses \ {"archived"}, "archived")
  /\ UNCHANGED <<req, history>>

(* The row goes with its versions, once no transaction holds a lock on it;  *)
(* quiz_questions refers to it without a cascade.                           *)
Delete(q) ==
  /\ status[q] = "draft" /\ ~InQuiz(q)
  /\ \A a \in Admins : req[a].pc \in {"update", "set", "publish"} => req[a].q # q
  /\ status' = [status EXCEPT ![q] = "deleted"]
  /\ versions' = [versions EXCEPT ![q] = <<>>]
  /\ decided' = decided \ {q}
  /\ UNCHANGED <<current, published, publications, quizzes, members>>
  /\ UNCHANGED <<req, writes, failures, history>>

(* loadQuestions: a new attempt shows the current version of a published    *)
(* question.                                                               *)
LoadQuestions(q) ==
  /\ status[q] = "published"
  /\ shown' = shown \cup {versions[q][current[q]]}
  /\ UNCHANGED <<question, publication, req, writes, failures, approved, reviewed>>

(* A request returns early or dies; its transaction is rolled back. *)
RequestFail(a) ==
  /\ req[a] # Idle /\ failures < MaxFailures
  /\ failures' = failures + 1
  /\ Answer(a)
  /\ Tables /\ UNCHANGED writes

-----------------------------------------------------------------------------
Next ==
  \/ \E q \in Questions :
       \/ Create(q)
       \/ SubmitForReview(q)
       \/ Archive(q)
       \/ Delete(q)
       \/ LoadQuestions(q)
  \/ \E a \in Admins, q \in Questions :
       \/ UpdateRead(a, q)
       \/ \E decision \in Decisions : Review(a, q, decision)
       \/ PublishCheck(a, q)
  \/ \E a \in Admins :
       \/ UpdateVersion(a)
       \/ UpdateCommit(a)
       \/ RecordDecision(a)
       \/ PublishMax(a)
       \/ MarkVersion(a)
       \/ SetPublished(a)
       \/ CommitPublish(a)
       \/ RequestFail(a)

Spec == Init /\ [][Next]_vars

-----------------------------------------------------------------------------
TypeOK ==
  /\ status \in [Questions -> Statuses \cup {"absent", "deleted"}]
  /\ versions \in [Questions -> Seq(RowIds)]
  /\ current \in [Questions -> RowIds]
  /\ \A q \in Questions : Exists(q) => current[q] <= Latest(q)
  /\ published \subseteq RowIds /\ publications \subseteq RowIds
  /\ quizzes \in {0} \cup Quizzes
  /\ members \subseteq Quizzes \X Questions /\ decided \subseteq Questions
  /\ req \in [Admins -> {Idle} \cup Updates \cup Publishes \cup Reviews]
  /\ writes \in 0..MaxWrites /\ failures \in 0..MaxFailures
  /\ approved \subseteq Questions
  /\ reviewed \subseteq RowIds /\ shown \subseteq RowIds

StoredRows == UNION {Range(versions[q]) : q \in Questions}

(* Whatever was published or shown to a student stays, word for word: the   *)
(* row of the version is neither rewritten nor deleted, although an Update  *)
(* may have read it as unpublished before Publish marked it, and although a *)
(* question that was published is a draft again after an edit.              *)
ShownVersionsStay == shown \cup published \subseteq StoredRows

(* Edits at once never leave a version behind that was not published: at    *)
(* most the latest is not, so publishing the latest loses nobody's work.    *)
OnlyLatestUnpublished ==
  \A q \in Questions : \A n \in 1..Latest(q) :
    n < Latest(q) => versions[q][n] \in published

(* Students see of a published question a version that was published. *)
CurrentIsPublished ==
  \A q \in Questions : status[q] = "published" =>
    /\ current[q] \in 1..Latest(q)
    /\ versions[q][current[q]] \in published

(* A published question is in a quiz of its lesson, whichever of the        *)
(* concurrent publications of the lesson created the quiz.                  *)
PublishedInQuiz == \A q \in Questions : status[q] = "published" => InQuiz(q)

(* New content is never left approved or in review by the decision about    *)
(* the old one, however an edit interleaves with reviewers and editors.     *)
EditReturnsToDraft ==
  [][\A q \in Questions :
       versions'[q] # versions[q] => status'[q] \notin {"in_review", "approved"}]_vars

(* "A review is mandatory before publication" (docs/question-model.md), and  *)
(* the comment in Update: what was edited after its approval must not be    *)
(* "published later with content that was never reviewed".  Publish reads   *)
(* the status without a lock and marks whatever is the latest version by    *)
(* then.                                                                    *)
PublishedWasReviewed == published \subseteq reviewed

(* What is left of it: nothing is published or shown of a question of which *)
(* no version was ever approved.                                            *)
ApprovedBeforePublished ==
  \A q \in Questions : \A n \in 1..Latest(q) :
    versions[q][n] \in published \cup shown => q \in approved
=============================================================================
