# Maser: a verification development in TLA+

Maser is a learning platform for one school subject: a Go API over PostgreSQL
(`services/api`), a Go worker that runs periodic jobs (`services/worker`), and
two web frontends, one for students and their parents (`apps/web`) and one for
administrators and editors (`apps/admin`). This directory models the parts whose
correctness depends on an order of events: attempts at quizzes, the mistake
notebook, the plan of the day, the life of a question, the queue of AI jobs, the import of a
book into the curriculum, the sessions of a browser, and what the pages of both frontends show while their
calls are under way. The models are checked with TLC on small instances, and every
safety property that a passing run checks is proved with TLAPS for every instance. Source paths below are relative to the repository; `A/` stands for
`services/api/internal/` and `W/` for `services/worker/`.

Two things make events meet. On the server every piece of state lives in
PostgreSQL, and hazards come from how requests interleave there: the transactions
are READ COMMITTED, most handlers read first and write later in another
transaction, and a handler that dies in between is not resumed by anybody. In a
browser a page goes on while its calls are under way; they are handled and
answered in any order or lost, they outlive the page that sent them, and all tabs
share one cookie.

## 1. Inventory

| Component | Source | State | Operations | What is hard |
| --- | --- | --- | --- | --- |
| Attempt engine | `A/service/quiz_service.go`, `A/repository/attempt_repository.go` | attempts, attempt_questions, attempt_answers, attempt_results | start, SaveAnswer, Submit, GetResult; abandon (worker) | double submissions, answers that arrive late, row locks of several tables, crash after the commit |
| Mastery model | `A/repository/learning_repository.go` | student_skill_mastery | RecordSkillOutcome, classifyMastery | thresholds; lost updates |
| Mistake notebook | `A/repository/learning_repository.go`, `A/handlers/mistakes.go` | student_mistakes, review_schedules | RecordMistake, Review / ReviewOutcome | four statements without a transaction, against themselves and against submissions |
| Daily plan | `A/service/daily_plan_service.go`, `A/handlers/daily_plan.go` | daily_plans, daily_tasks, task_completions | Generate, StartTask, CompleteTask | two devices; check and act in different transactions |
| Question lifecycle | `A/handlers/admin_questions.go`, `A/repository/question_repository.go` | questions, question_versions, content_reviews, content_publications, quizzes, quiz_questions | Create, Update, SubmitForReview, Review, Publish, Archive, Delete, loadQuestions | edits that race reviews and publications |
| Textbooks and AI jobs | `A/handlers/admin_subject_books.go`, `A/repository/ai_job_repository.go`, `W/internal/jobs/process_ai_jobs.go`, `analyze_book.go` | subject_books, ai_jobs, book_analyses | UploadBook, enqueue, claim, analyse, finish | several workers, retries, crashes, replaced files |
| Curriculum | `A/handlers/admin_subject_books.go`, `A/handlers/admin_curriculum.go` | units, lessons, skills, lesson_skills | ImportBookAnalysis; create and update a unit, a lesson, a skill | find and insert without a unique constraint; long transactions that meet on the pairs they link |
| Worker scheduling | `W/cmd/worker/main.go`, `W/internal/jobs/job.go` | none | RunAll at every tick | a stop in the middle of a job |
| Streaks and achievements | `A/service/achievement_service.go` | student_streaks, student_achievements | TouchStreak, Award | errors dropped by the callers |
| Accounts and sessions | `A/service/auth_service.go`, `A/repository/session_repository.go`, `A/handlers/auth.go`, `packages/api-client/src/client.ts` | users, user_sessions; the refresh cookie; the token of each tab | register, login, refresh, logout, change and reset of the password, OAuth | rotation of a cookie that several tabs share; a refresh that races a revocation |
| Access control | `A/middleware/permissions.go`, `A/router/router.go`, `apps/admin/src/lib/roles.ts` | role_permissions, and a cache of them per process | check, change a role | what a role is shown against what it may call; stale cache |
| Student app | `apps/web/src/app/(student)`, `apps/web/src/components/student` | state of the mounted page | today, dashboard, quiz player, results, review | replies out of order, replies to a page that is gone |
| Admin app, and lists of the student app | `apps/admin/src/app`, `apps/web/src/app` | a list, a chain of selects, flags of the controls, an error | load, choose, change, reload | loads that overlap, joined calls that fail in part |
| Everything else | grades and subjects, parents, onboarding, settings, uploads, reports (server side); grading, e-mail, audit, analytics, AI clients, scripts | | | single statements, pure reads, or adapters |

How they interact: `Submit` writes the attempt, the mastery counters and the
mistakes in one transaction and then, outside it, completes the daily task that
started the attempt, touches the streak and awards achievements. `StartTask`
creates attempts. The worker abandons attempts that are older than a day, and
consumes the jobs that the API enqueues. Administrators change the questions
while attempts that show them are open; `createAttempt` freezes the version of
every question for this reason. The student app starts, saves, submits and
reviews by calls of which several are under way at once. Every call of either app
may be answered 401, and then waits for the refresh of the session.

Properties that make each component correct are listed with its module in
section 3; the hazards they are aimed at are in `PROJECT.json`.

## 2. Modules

| Module | Models | Checked by |
| --- | --- | --- |
| `MasteryRules` | labels of a skill, promotion of a mistake, delay of a review: pure operators | used by the next two; theorems |
| `AttemptLedger` | abstract specification: what a student's record is promised | refined by `AttemptEngine` |
| `AttemptEngine` | SaveAnswer, Submit, expiry, statement by statement | `MCAttemptEngine`, `MCSubmitLocks`; theorems |
| `MistakeNotebook` | RecordMistake and ReviewOutcome | `MCMistakeNotebook`; theorems |
| `DailyPlan` | Generate, StartTask, CompleteTask, and what Submit does to tasks | `MCDailyPlan`; theorems |
| `QuestionLifecycle` | the handlers of AdminQuestionsHandler that write, loadQuestions | `MCQuestionLifecycle`; theorems |
| `BookJobs` | upload, queue, workers | `MCBooks`; theorems |
| `Curriculum` | the import of the structure of a book, the forms of units, lessons and skills | `MCBooks`, with the instance of `MCCurriculum`; theorems |
| `Sessions` | the tabs of a browser, ApiClient, the refresh cookie and the sessions behind it | `MCBrowser`, `MCSessions`; theorems |
| `StudentApp` | the student's pages of a day, their calls, and the handlers of the server, statement by statement | `MCStudentApp`; theorems |
| `Pages` | every page of both apps that lists something and changes it, as a record of a table | `MCBrowser`, with the instance of `MCPages`; theorems |
| `AttemptEngineProofs`, `MistakeNotebookProofs`, `DailyPlanProofs`, `BookJobsProofs`, `QuestionLifecycleProofs`, `CurriculumProofs`, `BrowserProofs`, `PagesProofs` | theorems and proofs; those about `MasteryRules` are at the end of `MistakeNotebookProofs`, `BrowserProofs` is about `StudentApp` and `Sessions` | TLAPS |

`AttemptEngine` implements `AttemptLedger` by an instance with an explicit
substitution (`Ledger == INSTANCE AttemptLedger WITH ...`). The other modules do not
share variables: what one component does to another is an action of the module that
suffers it (Submit and the worker in `DailyPlan`, the misses in `MistakeNotebook`, the
plan and the attempts in `StudentApp`). `MCBooks` (the queue and the imports) and `MCBrowser`
(sessions and list pages) each check two modules in one run: as these touch none of each
other's state, each moves while the other rests where it started.

Operators called "Mutant" in a module are not part of the model: each is a
plausible bug in the definition that follows it, kept to show that a property
notices it. `PROJECT.json` pairs them with the properties.

### Conventions

* A variable is a table, or the columns of a table that matter, as committed.
  A request in progress is a record with a program counter `pc`.
* One action is one SQL statement that commits by itself, or one statement of a
  transaction. What an open transaction has written is kept in its record until
  its `Commit` action makes it visible; the locks it holds are predicates on
  the record (`AttemptLocked`, `SkillLockedBy`, `SlotLocked`, ...). A statement
  that has to wait for a row is disabled and then acts on the new state. The
  other outcomes PostgreSQL has for a waiting statement (no row, unique
  violation) end the request without an effect.
* A request may die at any step; an open transaction is then rolled back. The
  number of deaths is bounded by `MaxFailures` (`MaxLosses`, `MaxErrors` in
  `BookJobs`).
* In the modules of a browser a call is a record that carries what its closure
  captured. Sending it, what the server does, and the arrival of its reply are
  separate actions; a failure is a reply too. What the page sets at each of them is
  part of the action. `disturbed` (`interfered` in `Sessions`) is history: it names what
  interfered with the calls so far, and properties say which interference they tolerate.
* History variables are marked so where they are declared. They are never read
  by a guard that models code.

## 3. What each module says

### AttemptEngine, AttemptLedger

`sub[r]` is a Submit request: `idle`, `load`, `answered`, `fill`, `skills`,
`mistakes` are the statements of the transaction (`quiz_service.go:245-360`), `task`,
`completion`, `streak`, `award` what comes after the commit, and `finished` the
repeated request that reads the stored result (`GetResult`). The skills are
walked in ascending order, because the code sorts them; the mistakes in any
order, because the database returns them in any order. `SaveAnswer` is
`SaveAnswerCheck` (reads only) followed by `SaveAnswerWrite` (the upsert).
`ChangePublication` lets a question leave and re-enter publication while the
attempt is open. An attempt may have questions that were not frozen: `createAttempt` is
not a transaction and can die between its inserts.

* `ResultIffSubmitted`: whatever dies, an attempt is submitted exactly when it
  has its one result.
* `ReplyIsStored`: duplicates answer with the first result.
* `SideEffectsFollow`: without failures a submitted attempt has completed its
  task, with the completion row, and counted for the streak.
* `NoDeadlock`: submissions of one student never wait in a circle.
* `SubmitReturns`: each request ends, under `FairSpec`.
* `LedgerSpec`: refinement of `AttemptLedger`. The student's record moves with a
  submission and with nothing else, once per attempt, by what the result says.
  The ledger's variables are the engine's tables of the same name; every other
  step is a stutter.

### MasteryRules

`Classify` is `classifyMastery`. The percentages are compared by
cross-multiplication (`AccuracyAtLeast`): in the code they are floating point
quotients compared with 0.4, 0.7 and 0.9, which agrees for every count a student
can reach.

### MistakeNotebook

`review[v]` runs through `read`, `close`, `count`, `state`, `schedule`: the four
statements of `ReviewOutcome` and its read, then the streak and the achievement
of the handler. `RecordMistake` is one step, as it shows at the commit of Submit.
Two errors that the code drops (`learning_repository.go:154-175`) are
`IgnoredError`.

* `CountsEveryMiss`: the counter loses no wrong answer and counts none twice.
* `StateHasItsSchedule`: an active mistake nobody is reviewing has an open
  schedule that suits its state. It holds although there is no transaction,
  because a review closes the schedules before it writes the state and inserts
  its schedule after: the last state written always has its schedule ahead.
* `MasteredAfterThree`: three right reviews at least, whatever fails.

### DailyPlan

`dev[d]` is the request of a device. Tasks are model values; `TestTasks` are
those done by an attempt. `CommitPlan` inserts all tasks; the unique index on
(user, day) makes the second `InsertPlan` fail.

* `OnePlanWithItsTasks`: two devices that generate at once leave one plan, with its tasks.
* `CompletedIsRecorded`: without failures a completed task has its completion row.
* `InProgressHasAttempt`: a test task in progress has an attempt.
* `NoDuplicateAttempt` and `CompletedStays` are what the comments of `StartTask` promise, and
  are false (section 5): two starts that overlap create two attempts, and `setTaskStatus` sets a
  task that was completed in the meantime back to in progress. `OpenAttemptsBounded` says how
  many duplicates there can be, one for each device, and is proved.

Corner cases that the model has, and no line promises otherwise: the device that loses the
race of `Generate` gets an error rather than the plan; the achievement `first_task` comes from
`CompleteTask` and never from a submission.

### QuestionLifecycle

Content is the id of a row of `question_versions`; `versions[q]` is the sequence of the
rows in the slots (`version_number`). `req[a]` is the request of an administrator: Update
goes `version` (its writes, holding the lock of a slot) and `update` (up to the
commit); Publish goes `max`, `mark`, `set`, `publish`. Create, SubmitForReview, Archive
and Delete are single statements or transactions that touch nothing shared
before the end, so they are one action each; Review is a conditional update, then
the insertion of its decision. `Refused` is what the constraints of the schema refuse.

* `ShownVersionsStay`: a version that was published, or shown to a student, is
  never rewritten or deleted. The reason is not in the code of Update, which
  decides from a stale read: `content_publications` refers to the row, so the
  deletion fails; and `quiz_questions` keeps Delete away from a published question
  that is a draft again.
* `OnlyLatestUnpublished`: concurrent edits leave no unpublished version behind
  the latest. The unique key (question, number) carries this.
* `EditReturnsToDraft`: whenever the content of the latest version changes, the
  question ends neither approved nor in review, although the status that is
  written was computed from an earlier read.
* `PublishedWasReviewed` is what the documents make mandatory, and false (section 5): Publish may
  publish a version that nobody reviewed. What is left of it, `ApprovedBeforePublished` (some
  version of the question was approved), is proved, and says little.
* `PublishedInQuiz`: a published question is in a quiz of its lesson.
* `CurrentIsPublished` is not in a run, because it follows for every instance: it is proved.

The model also has, and no property forbids: two quizzes of one lesson after
two first publications at once; an archived question that a slow Update or Publish
brings back; a slow Publish that sets `current_version` back to an older
published version.

### BookJobs

`worker[w]` is `claim` (select with SKIP LOCKED, up to the commit of `processing`), then
the steps of `runAnalyzeBook`, then `finish`. `StatementFails` is any statement whose
error reaches `finishAIJob`; `Analyse` may fail, which the job records in
`book_analyses` and then reports as success. `UploadLost`, `MarkLost` and
`WorkerLost` are what disappears without a trace.

* `RunByOne`: no job is run by two workers.
* `CompletedIsDocumented`: a completed job has an analysis with an outcome.
* `CurrentFileAnalysed`: once the jobs of a book have ended, the file it has was analysed.
* `JobsEnd` (liveness): each job ends, unless something was lost.
* `AttemptsCountRuns`: the attempts of a job count the runs that returned an error. It is proved
  (section 6); the run checks `JobsTypeOK` with its bounds on attempts and on the number of jobs.

`ListBooks` shows the analysis created last, which may be of the file that was replaced.

### Curriculum

`imp[i]` is an import, one transaction: `Script[i]` is the structure the administrator sends,
in the order of the nested loops, each unit before its lessons and each lesson before its skills.
`Find` is the `SELECT ... ILIKE ... LIMIT 1` of `findOrCreateUnit`, `findOrCreateLesson` and
`findOrCreateSkill`, which sees what is committed and what the transaction wrote;
`ReadOrder` and `Insert` follow if it finds nothing; `Link` inserts the pair of `lesson_skills` and waits
for a transaction that has inserted it; `Mark` and `Commit` end it. Two imports that link the
same skills in opposite orders wait for each other, and PostgreSQL ends one (`EndDeadlock`).
`Like` says which names match which as a pattern. A form inserts or rewrites one row and
does not look for its name; a skill may be linked by a second statement, which may fail.
`disturbed` is history: imports that overlapped, forms that were sent, rows they renamed.

* `SiblingsDiffer`: imports that do not overlap, whichever of them fail, insert no row that has
  the name of a sibling, or a number of the order that a sibling has. That names match themselves as a
  pattern (`MatchesItself`; a backslash under `ILIKE` does not) is part of the property.
* `ReimportAddsNothing`: importing a structure again creates nothing, if names match themselves
  and nothing else and the siblings there were have different names (`Unambiguous`): no constraint
  of the schema ensures either.
* `ImportedIsThere`: whatever overlaps, fails, waits or is ended, an import that was
  acknowledged has left each lesson in its unit and each skill linked to its lesson, in a row of
  its name or of one that the name matches. A lesson
  may be there twice; the skill is then linked in one of the two.
* `TypeOK` includes that every lesson has its unit and every link its lesson and its skill, so that
  nothing relies on a row that a transaction took back.

`is_active`, the texts, and the choice among several analyses of one book are left out.

### Sessions

One browser. `place[t]` and `token[t]` are what a tab shows and the access token it
keeps in memory; `req[t]` its protected requests; `renew[t]` the one refresh it has under
way (`refreshInFlight` of ApiClient, or `bootstrapSession` of a page load);
`form[t]` a login, logout or change of the password. `cookie` belongs to the browser and
`active` to the server. `Denied` is the 401 of a request, which starts a refresh or
joins the one in flight. `CheckCookie`, then `Rotate` (revoke, then issue) is
`AuthService.Refresh`; `RevokeAll`, then `IssueForForm` is a change of the password;
`ReturnFromProvider` is the OAuth callback. A reply sets or clears the cookie when it
arrives (`RenewArrives`, `RenewFails`, `FormSucceeds`, `FormFails`, `LogoutReturns`).

* `KeepsSession`: while calls do not overlap and nothing is lost or disabled, the
  cookie of a signed-in user is an active session whenever no call is under way.
* `ChangeEndsSessions`: no session that was issued up to the moment a password change revoked
  them is active after it. (A refresh that had passed its check may issue a later one.)
* `PageHasToken`: a page is shown only with a token, and requests wait only for a
  refresh that exists.
* `RequestsReturn` (liveness): each request that waits for a refresh is released.

The model also has, and no property forbids: a refresh that overlaps a password change
and issues a session after it; an OAuth callback that issues a session to a
disabled account, which the next refresh refuses; a login to the admin app by a role
that may not use it, which leaves the session cookie behind.

### StudentApp

`page` is the route and `path` the attempt in it; `board` the state of `/today` or of the
dashboard, `quiz` of the quiz player, `review` and `report` of their pages; `calls` the requests
and replies under way; `srv` the plan, the attempts at the test task, their answers and the
due mistakes as the server has them. A page that is left loses its state; a reply for it
sets nothing, but its `router.push` still navigates (`Pushes`).

The handlers run side by side. `step` says how far the handler of a call is, and `got` what it
has read: `StartTask` is `ReadTask`, `FindAttempt`, `CreateAttempt` and the unconditional
`SetInProgress`, as in `DailyPlan`, so a start can set back a task that was completed meanwhile, and
two starts can create two attempts; `GetAttempt` reads the status and then the answers;
`SaveAnswer` is the check (`CheckOpen`) and the upsert; Submit is its row lock with the read of the
answered questions, then `Commit` with the blanks of the others, as in `AttemptEngine`, then
`CompleteLinked`, whose error the code drops. A request that is left out of this list is one statement, or
its statements cannot be told apart by any other call. `raced`, `met` and `late` are history: the
questions of which two saves met or one failed, those of which a save may have met a Submit, and
the tasks that were finished while a start of them was past its check.

* `SavedIsStored`: a question with the badge "saved" has an answer of the student on the server,
  before and after the submission: not nothing, and not the blank of a Submit, unless it is in `met`. What
  `met` excludes is the lost answer of section 5. And that answer is the one on the page, unless the
  question is in `raced`.
* `ShownHasHappened`: no page shows a task further on than it is, unless it is in `late`, nor a result of
  an attempt that is open, whatever order replies come in. What `late` excludes is the set-back
  of `CompletedStays`, seen from the page.
* `DueStaysOnPage`: a mistake that is still due does not leave the review page.
* `DisabledWaits`: a button is disabled only while the call that will enable it is under way.

The model also has, and no property forbids: `/today` says that it loads for ever when
its first load fails; a refresh of the dashboard that began earlier overwrites a
newer board (with less, never with more than happened); after two saves of a question
of which the second fails the badge still says "saved"; a start on `/today` whose reply comes late opens the
quiz, or the review, over whatever page is shown by then.

### Pages

Twenty-six pages are written after one pattern, and the module is that pattern: an
effect loads, a chain of selects chooses the list, a control sends a change and
loads again. `Table` has a record for each: the rights of the calls of a load, whether
they are joined with `Promise.all` or `allSettled`, which flags disable which controls, and
what becomes of an error. `Granted` is what the migrations give each role, and
`SectionRoles` who finds a link. A list is a revision that each successful write moves.

* `ShownIsCurrent`: once all calls are answered and none overlapped, a page shows the
  list that is selected as the server has it, or an error.
* `ChainFits`: options and selections of a chain belong to the option above them.
* `TypeOK` includes that a disabled control or a loading page waits for a call.

The model also has, and no property forbids: a draft of the AI that was
cancelled is not in the list until the next load; opening a question for editing
clears an error without loading again; a load after an upload resets the form
of the site settings; onboarding keeps a subject of another grade until one is
chosen; the page of a lesson whose load fails says that it loads for ever.

## 4. Runs

A passing run takes from a few seconds to about two minutes; the sizes are distinct states.

| Run | Instance | States |
| --- | --- | --- |
| `attempt_engine` | one attempt of two questions, one of them not frozen and edited meanwhile; two skills, one of them one right answer from mastery; two Submit requests, one SaveAnswer at a time, one failure | 341 188 |
| `submit_locks` | three attempts, any two share a question, submitted at once; one failure; fair | 22 578 |
| `mistake_notebook` | one mistake, three reviewers, 3 misses, 4 right reviews, one failure | 1 325 346 |
| `daily_plan` | two devices, one review task and one test task, 4 attempts, one failure | 175 959 |
| `question_lifecycle` | two questions of a lesson, two administrators, 3 rows, one failure | 857 626 |
| `books` | one book uploaded twice, two workers, three attempts per job, 3 errors, one loss; one book imported twice and another once, into a subject that has one unit and one lesson of theirs and two skills, where the second book names those skills in the other order; one form, one failure; fair | 960 347 |
| `browser` | two tabs of a browser, two requests each, 3 sessions, one loss, the account may be disabled; each of the 26 pages for each role that finds it, two grades, subjects and units below the first, 2 calls, 2 changes of a list; fair | 710 179 |
| `student_app` | a plan of an explanation, a review and a test of one question with two different answers, two attempts at it, two due mistakes, 2 calls under way at a click | 2 875 877 |
| `lost_answer`, `overlapped_refresh`, `duplicate_attempt`, `unreviewed_publication` | the same modules, for one property each | a counterexample each |

Why these bounds are enough to be interesting:

* Two requests suffice for every race of a pair of statements; where a third
  party matters it is there (the worker that expires attempts, the third
  reviewer, the publication by another administrator between the steps of the
  first). Deadlock between more than two is what `submit_locks` is for: three
  transactions over three shared rows can form a circle that no two of them
  form, and the mutant that walks a Go map does.
* Four right reviews and three misses pass every level of the notebook and fall
  back from it; three errors exhaust `max_attempts`, and one job remains to see
  that its attempts are its own.
* Three rows of content are a version that is rewritten, a version that is
  added, and one for the other question; a question can be created, published,
  edited, and published again. The type of a question (`matching` cannot be published),
  its difficulty and its skills are left out.
* Three imports are a first one, its repetition, and one of another book that meets both; two
  skills in two orders close a circle of waits. A form can come before, between or after them,
  and rename what they rely on.
* Two tabs and two requests per tab are two callers of one refresh and a second
  refresh beside it; three sessions are a login, its rotation, and one more that another
  tab or a password change issues.
* A plan with one task of each kind has each of the ways a task is started and
  completed; one question with two answers has the saves that meet each other or a Submit, a second
  attempt is what a second start creates, and two mistakes
  tell the card that is answered from the one that stays. `MCSpec` bounds one thing more: of the test
  and the rest of the day's work, only one gets as far as an answer (`TestOnly`, `RestOnly`); what they share is
  the plan and the page that is shown. The theorems have no such bound.
* The tree of `Pages` has an option with two below it, one with none, and a second
  root without any: what a chain of selects can run into. Two calls are a load and
  a write, two loads, or a load with its references. `super_admin` is granted and shown what
  `admin` is, and is left out.
* One failure can strike at any step of any request. Properties that a crash
  invalidates by design say `failures = 0` or `losses = 0` and are still checked while a
  failure is possible.

`TypeOK` of `AttemptEngine`, `MistakeNotebook`, `DailyPlan` and `QuestionLifecycle`, and `SessionsTypeOK`, are not in a
run: each is proved for every instance (section 6), as part of the inductive invariant the rest is proved from.

`CHECK_DEADLOCK FALSE`: students stop submitting, bounds are used up, and the
system may rest. Symmetry is used only in runs without liveness.

### Fairness

* `AttemptEngine!FairSpec`: a request the server accepted runs on
  (weak fairness of the steps of Submit and of the pending upsert). Nothing
  else is fair: no student has to submit, no worker has to abandon. A request
  whose row is locked is disabled; weak fairness is enough because locks are released
  when a transaction ends, and an attempt is submitted once, so no row is taken
  again for ever.
* `JobsFairness` of `BookJobs` (also in `BooksSpec`): each worker polls for ever (`main.go`: a ticker in an endless loop)
  and a call of the model ends (`W/internal/gemini/client.go:30`: a timeout of 120 seconds);
  a request that stored a book goes on to enqueue; `available_at` comes. Failures and losses are never fair.
* `SessionsFairness` of `Sessions` (also in `BrowserSpec`): the server answers a refresh and `fetch` settles, with a reply or an
  error, and the 401 of a request arrives. Nothing makes a user act, a token expire or a page load.

## 5. Findings

Where a comment or a document promises more than the code does, a run shows the
counterexample. The first four are runs of `PROJECT.json`, which quotes the lines:

1. `lost_answer` (`BlankOnlyUnanswered`): Submit overwrites an answer that was saved while it ran with
   the blank of a question it had read as unanswered (`quiz_service.go:280`). With
   `ON CONFLICT DO NOTHING` for the blanks the answer would stay.
2. `overlapped_refresh` (`OverlapKeepsSession`): two tabs renew the session with one cookie; the refusal
   of the second clears the cookie the first has just received
   (`packages/api-client/src/client.ts:106`, `A/handlers/auth.go:97`). The single flight is one per tab;
   `docs/security-requirements.md:56` wants the session stable after a reload.
3. `duplicate_attempt` (`NoDuplicateAttempt`): the comments at `daily_plan_service.go:209` and
   `attempt_repository.go:69` say that pressing start again creates no second attempt. Two starts that
   overlap both find none and create one each.
4. `unreviewed_publication` (`PublishedWasReviewed`): the review before publication is mandatory
   (`docs/question-model.md:35` and `:45`, and the comment at `admin_questions.go:424`). Publish
   checks `approved` without a lock (`admin_questions.go:600`) and then publishes what replaced the
   approved content.

The others are checked by the command given with them:

| Statement, command | What is promised | What happens |
| --- | --- | --- |
| `CompletedStays`: `tlc -config ViolCompletedStays.cfg MCDailyPlan.tla` | a completed task is no longer set back to in progress (`daily_plan_service.go:210`) | a start that read the task before writes its status after it was completed (`daily_plan_service.go:301`) |
| `AnswersFinal`: `tlc -config ViolAnswersFinal.cfg MCAttemptEngine.tla` | no answer is sent after the end of an attempt (`attempt_repository.go:204`) | SaveAnswer checks the status, the attempt ends, the answer is written; no counter moves (`LedgerSpec`) |
| `SectionLoads`: `tlc -config ViolSectionLoads.cfg MCPages.tla` | the question bank is a section of content editors and reviewers (`apps/admin/src/lib/roles.ts`) | its load is joined with a call that only `reports.read` may make (`apps/admin/src/app/questions/page.tsx:85`): they see an error |
| `NameOnce`: `tlc -config ViolNameOnce.cfg MCCurriculum.tla` | a row of the same name is reused and never repeated (`admin_subject_books.go:170`) | two imports into one subject look for the name, find nothing and insert it: there is no unique constraint, and neither sees what the other has not committed |
| `NamedThere`: `tlc -config ViolNamedThere.cfg MCCurriculum.tla` | the same | the name is the pattern of an `ILIKE` and not escaped: a unit called `50%` takes the row of the unit called `50 of 100`, and its lessons go there; `lower(name) = lower($2)` would compare names |
| `JobsEndAnyway`: `tlc -config ViolJobsEndAnyway.cfg BookJobs.tla` | a job that was claimed is completed, comes back to the queue or is given up (`process_ai_jobs.go:102`), and the worker stops cleanly (`W/cmd/worker/main.go:45`) | a worker that stops after its claim leaves the job in `processing` for ever; without losses jobs end (`JobsEnd`) |

One sharper statement is false that no line promises: `MissedIsNotMastered` of `MistakeNotebook` (add
it as `INVARIANT` to `MCMistakeNotebook.cfg`). A mistake that is made again during a review is
mastered by it; three right reviews are still needed (`MasteredAfterThree`).

## 6. Proofs

All theorems are checked by TLAPS to the last leaf, for every value of the
constants that satisfies the assumptions named in the modules (finite sets of
questions and skills, natural numbers for the bounds, the prior counters
consistent). TLC evaluates those assumptions in the runs. What the code does not ensure is no assumption but a premise
of the property it is needed for.

* **`MasteryRules`** (in `MistakeNotebookProofs`): `WrongNeverPromotes`, `RightNeverDemotes`, `OneAnswerOneStep`
  (an answer moves the label of an assessed skill by at most one place), `RepeatedComesSooner`: arithmetic
  over all counters.
* **`AttemptEngineProofs`**: `Invariant` proves the inductive invariant `IInv`.
  `ResultIffSubmitted` is not inductive: that a commit adds exactly one result
  needs that no other transaction is open on the attempt and that its status is still
  in progress, although other requests and the worker run in between. `IInv`
  therefore adds `OneTxPerAttempt` (the row lock), `ResultRows` (a result exactly with
  submitted), `OwnQuestions` (what a transaction works on belongs to its attempt),
  `RowVersions` and `ExclusiveLocks` (a row a transaction holds is the committed one
  plus its own increment, and nobody else holds it), and `TaskSteps`. From it
  follow `TypeCorrect`, `SubmittedWithResult`, `RepliesAgree`, and
  `ImplementsLedger`: initial states map to initial states, `Commit` to the
  ledger's submission, expiry to abandonment, everything else to a stutter. That the
  increment a transaction publishes is still based on the committed row is what
  makes the commit a ledger step.
  `SubmitsNeverDeadlock` is proved under `AllFrozen` (every
  question of the attempts was frozen). `LInv` adds `LockOrder`: the skills a transaction
  holds lie below those it still has to take, and the skills of its mistakes are
  among those it holds. A request that waits for a mistake would already have
  met the holder on a skill, so mistakes are never waited for
  (`MistakesNeverWait`), and waits for skills go upwards (`WaitsUpwards`).
  Without `AllFrozen` the argument fails: a question that could not be loaded gets no
  blank, its answer may be saved between the two reads of the answers, and its mistake is
  then written by a transaction that does not hold its skills.
  `EffectsFollowSubmission` needs what each step after the commit has done so far
  (`EffectsSoFar`), and that nothing takes a completed task or a row of it back.
* **`MistakeNotebookProofs`**: `Invariant` proves `IInv` = `TypeOK`, `CountersOfWrongs`,
  `CountsEveryMiss`, `RightsCover` (the right reviews cover the level of the
  row, and the level any request is about to write from what it read) and
  `ScheduleAhead` (the state of the row has a schedule that suits it, or a request
  that is going to insert one). `EveryMissCounted`, `EveryStateScheduled`,
  `ThreeRightsToMaster` and `TypeCorrect` follow.
* **`DailyPlanProofs`**: three invariants, one on top of the other. `PInv` adds to the types that a
  task has a row only if a plan has it, that one transaction at a time holds the unique
  index (`OneInserts`), and that what a committing request inserts is what it built
  (`PlanRows`): `OnePlan`. `StartsCreated` says of a request about to set a task in progress
  that its attempt exists: `InProgressCreated`. `Recorded` accounts for each completed
  task by its row or by a request that goes on to write it: `CompletionRecorded`. `OpenPerDevice` (of
  `OpenAttemptsBounded`, which no run checks) is a bound on a cardinality: open attempts of a task plus devices about to create one
  are at most the devices, and each step moves one device from the one set to the other.
* **`BookJobsProofs`**: `Queue` ties a worker to a job in `processing` that no other worker holds,
  which `FOR UPDATE SKIP LOCKED` makes inductive: `OneWorkerPerJob`. `FillsOwn` says that a worker fills
  the analysis it created, `Documented` that a job that ended well has one with an
  outcome: `CompletedHasOutcome`. `Pursued` says that the file of a book is analysed, or some job or request
  that has not ended will read it: `CurrentFileInTheEnd`. The bound on the queue in `JobsTypeOK` is a
  sum over the books and not inductive. `FromUploads` says of each book that its jobs and the requests
  about to insert one are at most its uploads; `JobsFit` maps a job to its book and its number among the
  jobs of that book, which no two share, so there are at most `MaxUploads * Cardinality(Books)` jobs:
  `QueueStaysBounded`. `Charged` (a job is charged for each run that returned an error, and an id that is
  not in the queue never ran) gives `RetriesAreCounted`.
* **`QuestionLifecycleProofs`**: `IInv` is `TypeOK`, `Rows` (a row of `question_versions` is in one
  slot of one question), `Lives` (what must be so of a question by its status),
  `OnlyLatestUnpublished`, `RequestsFit` (what each open request read or locked is still
  so, or can no longer matter) and `QuizzesBounded` (one quiz more for each first
  publication under way). The steps of Update and Publish are the work: that a stale read of the
  latest version ends in a refusal rather than in a lost row is a case analysis on
  what the other requests may have committed. From it follow `TypeCorrect`, `RowsStay`, `LatestOnly`,
  `InAQuiz`, `NewContentIsDraft` and, of statements no run checks, `ApprovedFirst` and `CurrentWasPublished`.
* **`CurriculumProofs`**: `SiblingsDiffer` speaks of committed rows, and an import
  inserts by what it read some statements before. The invariant of `SiblingsStayDistinct` says, as long as nothing disturbed the
  imports, that one runs at a time (`OneAtATime`), that what it inserted, as it sees it, is
  distinct from every sibling (`SeenDistinct`), and that what it read is still so: no sibling has the name it did not find
  (`NameIsNew`), none has the order it is about to give (`OrderIsLast`). Of the search by pattern it needs only that every
  name matches itself (`MatchesItself`, a premise of the property); of the rows there were, nothing.
  Two theorems hold whatever overlaps. `OwnIds` and `OneRow` say that the id of a row tells who
  inserted it and that no id is used twice; `AllWhole`, that what is committed, and what each transaction
  sees, has no row without the one it refers to: `RowsStayWhole`. `AllKnown` says of an import that the
  unit, the lesson and the skill it is at exist for it, and every entry before is in its place, in a row of its name or
  of one that its name matches: `ImportedStays`. `Repeats` says of an import that follows one of the same structure, undisturbed, that it has
  inserted nothing and will find the entry it is at: `ReimportIsEmpty`. It is here that a name must match
  itself and nothing else, and that the siblings there were must differ in their names (`Unambiguous`, a premise of the
  property): with two units of one name an import takes either, and its repetition may take the other.
  `SeededAssumption` asks of the rows there were no more than their types, ids that differ, and the foreign key of `lessons`.
* **`BrowserProofs`**, what runs in a student's browser. For the pages (`StudentApp`): handlers interleave and replies
  come in any order, so the invariant is about one call at a time, and holds
  of any number of them. What a call has read stays true (`Tells`): an answer
  stays given, a review stays taken, and a task only advances, unless a start that is past its check sets it back after it was
  finished, and then `late` has it (`StartsAreLate`). Each call was sent by the page that its operation belongs to (`CallOk`), and a page
  that is not shown holds nothing (`Unmounted`), so a reply sets a state it knows about. `SaveOf` is the one
  statement about pairs of calls: a question whose saves never met has at most one under way, and that is of the answer
  shown. `Held` is what makes a badge last: the server has an answer, and every Submit that holds the attempt has read it
  as answered, so that no blank will replace it. That no save of a question outside `met` runs beside a Submit (`QuizCall`), and that
  an attempt which is not submitted has no blank (`OpenHasNoBlank`), carry it to the next step. `BoardInv`, `QuizInv` and
  `ReviewInv` name the call each disabled button waits for. From `Invariant` follow
  `PagesStayTyped`, `SavedTellsTheTruth`, `NothingShownTooEarly`, `DueMistakesAreShown` and `ButtonsComeBack`.
  For the session (`Sessions`): `ChangeEndsAll` and `PagesHaveTokens` follow from the types and what a call in
  each of its steps has done. `RotationKeepsSession` needs `CalmInv`: while nothing interfered with the
  browser there is at most one call in flight, and the cookie it holds, or the one
  it brings, is active; each way a call moves or ends is a lemma. `SessionsTypeCorrect` adds that nothing refers to a
  session before it is issued (`Numbers`), and that there is room for the sessions which calls under way have still
  to issue (`Bounded`).
* **`PagesProofs`**: of the twenty-six records of the table the proofs use only what `TableOk` says of each
  (`PageOk`: a page that shows nothing while it loads has no chain of selects, a page that polls has no select,
  and so on), so one argument covers all pages. `Waits` is what `TypeOK` says of disabled controls, and is
  inductive. The other two are about pages on which no calls overlapped: then there is one call at
  a time and it is in the first slot, but for the references that were asked for with the first load
  (`Lone`). `ShownInv` says that the list is what the server holds, or the call that will replace it is
  under way, or a call failed and the page shows an error, or shows none by design (`Excused`). While the options of a
  select are on their way nothing is selected in the last one, and the list must be empty as that of the root is on the
  server; hence `RootInv`: on a chain nothing is loaded, written or shown for the root, and only pages that poll list
  something that is pending. `ChainInv` says that all selects fit together but the one whose options are on their way,
  and that they are those of the option selected above it. Options may nest to any depth and be any sets of numbers: that the first of them is one of
  them is the well-foundedness of `<`. From `Invariant` follow `PageTyped`, `ListsAreCurrent` and `ChainsFit`.

Only model-checked is what TLAPS cannot do, the liveness properties `SubmitReturns`, `JobsEnd` and
`RequestsReturn`. The refinement of the ledger is both checked and proved. The inductive invariants were checked with TLC on the instances of the runs
before they were proved.

## 7. Not modelled

* The skills of a question (`question_skills`) are constant while attempts run.
  Update can change them, and the type of a question, and neither is versioned;
  the engine then counts an old attempt by the current skills.
* Grading is an input: an answer is right or wrong. `grading.go` is a pure
  function with its own unit tests.
* The length of a streak and its achievements: no property here depends on the calendar.
* Which questions and tasks are selected for a quiz, a diagnostic test or a plan: any set.
* The connection pool: `Submit` takes a second connection while it holds one
  (`quiz_service.go:267`), so a pool of N connections stalls under N submissions.
* The cache of a role's permissions (60 seconds per process) and the change of a role.
* The reset of a password and the verification of an e-mail address, which are links that are
  used once; more than one browser of a user (a second tab that shares the cookie is
  the harder case).
* The last insert of `ReviewOutcome` failing is not told from a crash at that point:
  the model ends the request there in both cases.
* A deadlock between submissions of attempts that were not frozen completely: the run
  `attempt_engine` has such an attempt, `submit_locks` and the proof assume that all are frozen.
* In the frontends: what a form holds before it is sent, the student's preferences, the public
  pages, rendering.
* E-mail, storage, audit and analytics are adapters whose failures the callers
  drop; the AI clients are the nondeterministic choice of `Analyse`; scripts and deployment
  are no part of the running system's state.

## 8. Plan

Done, in this order: `MasteryRules`, `AttemptLedger`, `AttemptEngine` with its
proofs, `MistakeNotebook` with its proofs, `DailyPlan`, `BookJobs`,
`QuestionLifecycle`; then `Sessions` with its proofs, `StudentApp`, `Pages`, `Curriculum`, and the proofs of
`DailyPlan`, `BookJobs`, `QuestionLifecycle`, `Curriculum`, `StudentApp` and `Pages`.

What is left, the most useful first:

1. `ConnectionPool`: N connections, submissions that take one or two; who can make progress.
2. The permissions cache with `Sessions`: how long a permission outlives its removal.
