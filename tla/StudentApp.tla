----------------------------- MODULE StudentApp -----------------------------
(***************************************************************************)
(* The student's pages around a day's work, in one browser tab, and the    *)
(* server behind them: dashboard and /today start the tasks of a plan,     *)
(* /quizzes saves and submits the attempt of the test task, /results shows *)
(* its result, /review asks for the mistakes that are due.                 *)
(*                                                                         *)
(* A click sends a call and the page goes on.  The handlers of the server  *)
(* run side by side, a statement at a time where another call can come in  *)
(* between; replies come back in any order or not at all, and a call       *)
(* outlives its page: the state setters of a page that is gone do nothing, *)
(* but its router.push still changes the page.                             *)
(***************************************************************************)
EXTENDS Integers, Sequences, FiniteSets

CONSTANTS
  Kinds,       \* the tasks of the plan in order: "test", "review", "explain"
  NQuestions,  \* the questions of an attempt
  Values,      \* the answers a question may be given
  Blank,       \* what Submit stores for a question without an answer
  Mistakes,    \* the mistakes that are due when the day starts
  MaxCalls,    \* bound on the calls a click may find under way
  MaxAttempts  \* bound on the attempts at the test task

ASSUME AppAssumption ==
  /\ Kinds \in Seq({"test", "review", "explain"})
  /\ Cardinality({t \in DOMAIN Kinds : Kinds[t] = "test"}) = 1
  /\ NQuestions \in Nat \ {0} /\ MaxCalls \in Nat /\ MaxAttempts \in Nat
  /\ 0 \notin Values /\ Blank \notin Values \cup {0} /\ 0 \notin Mistakes

VARIABLES
  page,    \* the route
  path,    \* the attempt in its path, 0 if it has none
  board,   \* state of TodayPage or useStudentDashboard
  quiz,    \* state of QuizPage
  review,  \* state of ReviewPage
  report,  \* state of ResultPage
  calls,   \* requests on their way, and the replies on their way back
  srv      \* what the server has stored

ui == <<page, path, board, quiz, review, report>>
vars == <<page, path, board, quiz, review, report, calls, srv>>

Tasks == DOMAIN Kinds
Questions == 1..NQuestions
Attempts == 1..MaxAttempts           \* in the order of their creation
Statuses == {"absent", "pending", "in_progress", "completed"}
Plans == [Tasks -> Statuses]
NoPlan == [t \in Tasks |-> "absent"]
Pages == {"today", "dashboard", "quiz", "results", "review"}

(* A call: its number among its like, the attempt it is about (that of its  *)
(* path, or the one a start has found or created), whether its page is      *)
(* still there, how far it is, and what its handler has read.               *)
NoReply == [tasks |-> NoPlan, status |-> "absent", answered |-> {}, due |-> {}]
Call(op, arg, val) == [id |-> 0, op |-> op, arg |-> arg, val |-> val, att |-> path,
                       from |-> page, live |-> TRUE, step |-> "sent", got |-> NoReply]
Numbered(c, cs) ==
  [c EXCEPT !.id = CHOOSE i \in 1..(Cardinality(cs) + 1) :
                     \A d \in cs : d.op = c.op /\ d.arg = c.arg => d.id # i]
InServer(c) == c.step \notin {"ok", "failed"}

(* What a page holds when it is mounted, and the calls of its effects.      *)
(* "raced" and "met" are history: the questions of which two saves met or   *)
(* one failed, and those of which a save may have met a Submit.             *)
NewBoard == [known |-> FALSE, tasks |-> NoPlan, loading |-> TRUE,
             generating |-> FALSE, busy |-> 0]
NewQuiz == [known |-> FALSE, draft |-> [q \in Questions |-> 0],
            saving |-> {}, saved |-> {}, submitting |-> FALSE,
            raced |-> {}, met |-> {}]
NewReview == [known |-> FALSE, queue |-> {}, feedback |-> {}, submitting |-> 0]

LoadOf(p) ==
  CASE p = "today" -> "getPlan" [] p = "dashboard" -> "dashLoad"
    [] p = "quiz" -> "getAttempt" [] p = "results" -> "getResult" [] p = "review" -> "due"
FirstLoad(p, a) == [Call(LoadOf(p), 0, 0) EXCEPT !.from = p, !.att = a]
Submits(cs, a) == \E c \in cs : c.op = "submit" /\ c.att = a /\ InServer(c)
Mounted(p, a, cs) ==
  [NewQuiz EXCEPT !.met = IF p = "quiz" /\ Submits(cs, a) THEN Questions ELSE {}]

(* A reply that still changes the page after the page that asked is gone. *)
Pushes(c) ==
  /\ c.step = "ok"
  /\ \/ c.op = "submit"
     \/ c.op = "start" /\ (Kinds[c.arg] # "explain" \/ c.from = "dashboard")
Writes == {"generate", "start", "complete", "save", "submit", "review"}
Matters(c) == c.live \/ Pushes(c) \/ (InServer(c) /\ c.op \in Writes)
Kept(cs) == {c \in cs : Matters(c)}

(* The calls that are left when their page is: those of p come after them. *)
Leaving(p, a, cs) ==
  LET left == Kept({[c EXCEPT !.live = FALSE] : c \in cs})
  IN left \cup {Numbered(FirstLoad(p, a), left)}

(* Mutant: the state of /today lives on when its page is left. *)
GoKeepsBoard(p, a, cs) ==
  IF p = page /\ a = path
    THEN calls' = cs /\ UNCHANGED ui
    ELSE /\ page' = p /\ path' = a
         /\ quiz' = Mounted(p, a, cs) /\ review' = NewReview /\ report' = "loading"
         /\ calls' = Leaving(p, a, cs)
         /\ UNCHANGED board

(* The router shows p, of attempt a, with the calls cs under way.  A route   *)
(* that is shown already is not mounted again.                              *)
Go(p, a, cs) ==
  IF p = page /\ a = path
    THEN calls' = cs /\ UNCHANGED ui
    ELSE /\ page' = p /\ path' = a
         /\ board' = NewBoard /\ quiz' = Mounted(p, a, cs) /\ review' = NewReview
         /\ report' = "loading"
         /\ calls' = Leaving(p, a, cs)

Init ==
  /\ page = "dashboard" /\ path = 0
  /\ board = NewBoard /\ quiz = NewQuiz /\ review = NewReview
  /\ report = "loading"
  /\ calls = {[id |-> 1, op |-> "dashLoad", arg |-> 0, val |-> 0, att |-> 0,
               from |-> "dashboard", live |-> TRUE, step |-> "sent", got |-> NoReply]}
  /\ srv = [tasks |-> NoPlan, late |-> {}, attempts |-> [a \in Attempts |-> "absent"],
            stored |-> [a \in Attempts |-> [q \in Questions |-> 0]], reviewed |-> {}]

-----------------------------------------------------------------------------
(* What the student does. *)

(* A link, or the history: the pages of an attempt have its id in the path. *)
Open(p, a) ==
  /\ <<p, a>> # <<page, path>> /\ Cardinality(calls) < MaxCalls
  /\ IF p \in {"quiz", "results"} THEN a # 0 /\ srv.attempts[a] # "absent" ELSE a = 0
  /\ Go(p, a, calls)
  /\ UNCHANGED srv

Send(c) ==
  /\ Cardinality(calls) < MaxCalls
  /\ calls' = calls \cup {Numbered(c, calls)}
  /\ UNCHANGED srv

OnBoard == page \in {"today", "dashboard"} /\ (page = "today" => board.known)
Shown == board.tasks # NoPlan

Refresh ==
  /\ page = "dashboard" /\ ~board.loading
  /\ board' = [board EXCEPT !.loading = TRUE]
  /\ Send(Call("dashLoad", 0, 0))
  /\ UNCHANGED <<page, path, quiz, review, report>>

PressGenerate ==
  /\ OnBoard /\ ~Shown /\ ~board.generating
  /\ page = "dashboard" => ~board.loading
  /\ board' = [board EXCEPT !.generating = TRUE]
  /\ Send(Call("generate", 0, 0))
  /\ UNCHANGED <<page, path, quiz, review, report>>

(* Any task that is not finished.  busyTaskId disables the button of one    *)
(* task; "continue now" of the dashboard, for the first task, stays enabled. *)
Unfinished == {t \in Tasks : board.tasks[t] \in {"pending", "in_progress"}}
PressStart(t) ==
  /\ OnBoard /\ t \in Unfinished
  /\ board.busy # t \/ (page = "dashboard" /\ \A u \in Unfinished : t <= u)
  /\ board' = [board EXCEPT !.busy = t]
  /\ Send(Call("start", t, 0))
  /\ UNCHANGED <<page, path, quiz, review, report>>

PressComplete(t) ==
  /\ OnBoard /\ page = "today"
  /\ Kinds[t] # "test" /\ board.tasks[t] = "in_progress" /\ board.busy # t
  /\ board' = [board EXCEPT !.busy = t]
  /\ Send(Call("complete", t, 0))
  /\ UNCHANGED <<page, path, quiz, review, report>>

(* setAndSave: every answer is sent at once, whatever else is under way.    *)
(* One question is on the screen, and any other, the last with its submit   *)
(* button too, is reached without answering.                                *)
SavesOf(q) == {c \in calls : c.op = "save" /\ c.att = path /\ c.arg = q}
Answer(q, v) ==
  /\ page = "quiz" /\ quiz.known /\ v # quiz.draft[q]
  /\ quiz' = [quiz EXCEPT !.draft[q] = v, !.saving = @ \cup {q},
       !.raced = IF SavesOf(q) # {} THEN @ \cup {q} ELSE @,
       !.met = IF Submits(calls, path) THEN @ \cup {q} ELSE @]
  /\ Send(Call("save", q, v))
  /\ UNCHANGED <<page, path, board, review, report>>

PressSubmit ==
  /\ page = "quiz" /\ quiz.known /\ ~quiz.submitting
  /\ quiz' = [quiz EXCEPT !.submitting = TRUE,
       !.met = @ \cup {q \in Questions : \E c \in SavesOf(q) : InServer(c)}]
  /\ Send(Call("submit", 0, 0))
  /\ UNCHANGED <<page, path, board, review, report>>

(* The answer to a mistake; submittingId disables the button of one card.   *)
PressReview(m) ==
  /\ page = "review" /\ m \in review.queue \ review.feedback /\ review.submitting # m
  /\ review' = [review EXCEPT !.submitting = m]
  /\ Send(Call("review", m, 0))
  /\ UNCHANGED <<page, path, board, quiz, report>>

(* The timer that takes a reviewed card away. *)
RemoveCard(m) ==
  /\ m \in review.queue \cap review.feedback
  /\ review' = [review EXCEPT !.queue = @ \ {m}]
  /\ UNCHANGED <<page, path, board, quiz, report, calls, srv>>

-----------------------------------------------------------------------------
(* The server. *)

(* Call c has been handled: its reply, if anyone waits for it, is on the way. *)
Reply(c, step, got) ==
  /\ calls' = (calls \ {c}) \cup Kept({[c EXCEPT !.step = step, !.got = got]})
  /\ UNCHANGED ui
Ok(c) == Reply(c, "ok", NoReply)
Refuse(c) == Reply(c, "failed", NoReply) /\ UNCHANGED srv
At(c, op, step) == c.op = op /\ c.step = step
(* It goes on after a statement, with the attempt and the reads it has now. *)
Goes(c, step, att, got) ==
  /\ calls' = (calls \ {c}) \cup {[c EXCEPT !.step = step, !.att = att, !.got = got]}
  /\ UNCHANGED ui

GetToday(c) ==
  /\ At(c, "getPlan", "sent") \/ At(c, "dashLoad", "sent")
  /\ Reply(c, "ok", [NoReply EXCEPT !.tasks = srv.tasks])
  /\ UNCHANGED srv

Generate(c) ==
  LET tasks == IF srv.tasks = NoPlan THEN [t \in Tasks |-> "pending"] ELSE srv.tasks IN
  /\ At(c, "generate", "sent")
  /\ srv' = [srv EXCEPT !.tasks = tasks]
  /\ Reply(c, "ok", [NoReply EXCEPT !.tasks = tasks])

(* Mutant: a finished task is started too. *)
ReadAnyTask(c) == At(c, "start", "sent") /\ Goes(c, "read", 0, NoReply) /\ UNCHANGED srv

(* A finished task is not started again: so says the task as it is now.     *)
ReadTask(c) ==
  /\ At(c, "start", "sent")
  /\ IF srv.tasks[c.arg] = "completed" THEN Refuse(c)
       ELSE Goes(c, "read", 0, NoReply) /\ UNCHANGED srv

(* The open attempt of a test task is resumed, the newest, and the status   *)
(* of the task stays as it is.                                              *)
FindAttempt(c) ==
  LET opened == {a \in Attempts : srv.attempts[a] = "open"} IN
  /\ At(c, "start", "read") /\ Kinds[c.arg] = "test"
  /\ \/ opened = {} /\ Goes(c, "unfound", 0, NoReply)
     \/ \E a \in opened : (\A b \in opened : b <= a) /\ Goes(c, "ok", a, NoReply)
  /\ UNCHANGED srv

CreateAttempt(c) ==
  /\ At(c, "start", "unfound")
  /\ \E a \in Attempts :
       /\ srv.attempts[a] = "absent" /\ \A b \in 1..(a - 1) : srv.attempts[b] # "absent"
       /\ srv' = [srv EXCEPT !.attempts[a] = "open"]
       /\ Goes(c, "made", a, NoReply)

(* The last statement of a start, whatever the task is by now. *)
SetInProgress(c) ==
  /\ c.op = "start"
  /\ c.step = IF Kinds[c.arg] = "test" THEN "made" ELSE "read"
  /\ srv' = [srv EXCEPT !.tasks[c.arg] = "in_progress"]
  /\ Ok(c)

(* The tasks S are finished.  "late" is history: those of which a start was  *)
(* being handled, past its check, when they were.                           *)
Starting(t) == \E c \in calls : c.op = "start" /\ c.arg = t
                                   /\ c.step \in {"read", "unfound", "made"}
Finished(S) ==
  [srv EXCEPT !.tasks = [t \in Tasks |-> IF t \in S THEN "completed" ELSE @[t]],
              !.late = (@ \ S) \cup {t \in S : Starting(t)}]

(* The handler reads the task first, and writes nothing if it is finished;  *)
(* with what is written the two are as one.                                 *)
CompleteTask(c) ==
  /\ At(c, "complete", "sent")
  /\ srv' = Finished({c.arg})
  /\ Ok(c)

(* The status of the attempt, and in a later statement its answers. *)
GetAttempt(c) ==
  /\ \/ /\ At(c, "getAttempt", "sent")
        /\ Goes(c, "read", c.att, [NoReply EXCEPT !.status = srv.attempts[c.att]])
     \/ /\ At(c, "getAttempt", "read")
        /\ Reply(c, "ok", [c.got EXCEPT
             !.answered = {q \in Questions : srv.stored[c.att][q] # 0}])
  /\ UNCHANGED srv

(* SaveAnswer: the check that the attempt is open, and later the upsert. *)
CheckOpen(c) ==
  /\ At(c, "save", "sent")
  /\ IF srv.attempts[c.att] = "open" THEN Goes(c, "read", c.att, NoReply) /\ UNCHANGED srv
                                     ELSE Refuse(c)

(* Mutant: the first answer of a question stays. *)
SaveFirstAnswer(c) ==
  /\ At(c, "save", "read")
  /\ srv' = [srv EXCEPT !.stored[c.att][c.arg] = IF @ = 0 THEN c.val ELSE @]
  /\ Ok(c)

SaveAnswer(c) ==
  /\ At(c, "save", "read")
  /\ srv' = [srv EXCEPT !.stored[c.att][c.arg] = c.val]
  /\ Ok(c)

(* Submit: MarkSubmitted holds the row of the attempt, so that another one  *)
(* waits, and then answers with the stored result; the answered questions   *)
(* are read.                                                                *)
Submit(c) ==
  /\ At(c, "submit", "sent")
  /\ \A d \in calls : At(d, "submit", "locked") => d.att # c.att
  /\ IF srv.attempts[c.att] = "submitted" THEN Ok(c)
       ELSE Goes(c, "locked", c.att, [NoReply EXCEPT
              !.answered = {q \in Questions : srv.stored[c.att][q] # 0}])
  /\ UNCHANGED srv

(* The commit, with the blanks of the questions that were read as having no *)
(* answer.  A save that meets a blank waits for the commit.                 *)
Commit(c) ==
  /\ At(c, "submit", "locked")
  /\ srv' = [srv EXCEPT !.attempts[c.att] = "submitted",
       !.stored[c.att] = [q \in Questions |-> IF q \in c.got.answered THEN @[q] ELSE Blank]]
  /\ Goes(c, "committed", c.att, NoReply)

(* completeLinkedDailyTask, whose error is ignored. *)
CompleteLinked(c) ==
  /\ At(c, "submit", "committed")
  /\ srv' \in {srv, Finished({t \in Tasks : Kinds[t] = "test"})}
  /\ Ok(c)

GetResult(c) ==
  /\ At(c, "getResult", "sent")
  /\ IF srv.attempts[c.att] = "submitted" THEN Ok(c) /\ UNCHANGED srv ELSE Refuse(c)

(* Right or wrong, a review moves the next one to another day.              *)
DueMistakes(c) ==
  /\ At(c, "due", "sent")
  /\ Reply(c, "ok", [NoReply EXCEPT !.due = Mistakes \ srv.reviewed])
  /\ UNCHANGED srv

ReviewMistake(c) ==
  /\ At(c, "review", "sent")
  /\ srv' = [srv EXCEPT !.reviewed = @ \cup {c.arg}]
  /\ Ok(c)

StartTask(c) == ReadTask(c) \/ FindAttempt(c) \/ CreateAttempt(c) \/ SetInProgress(c)
Serve(c) ==
  \/ GetToday(c) \/ Generate(c) \/ StartTask(c) \/ CompleteTask(c)
  \/ GetAttempt(c) \/ CheckOpen(c) \/ SaveAnswer(c) \/ GetResult(c)
  \/ Submit(c) \/ Commit(c) \/ CompleteLinked(c)
  \/ DueMistakes(c) \/ ReviewMistake(c)

(* The request does not arrive, the handler fails, or the reply is lost.    *)
Fail(c) ==
  /\ c.step # "failed"
  /\ Reply(c, "failed", NoReply)
  /\ UNCHANGED srv

-----------------------------------------------------------------------------
(* The reply reaches the page that asked, unless that one is gone. *)

Back(c, ops) == c.live /\ c.op \in ops /\ c.step \in {"ok", "failed"}
Done(c) == calls' = calls \ {c}
Then(c, op) == calls' = (calls \ {c}) \cup {Numbered(Call(op, 0, 0), calls \ {c})}

(* load of /today: nothing but the message of the error changes if it fails. *)
TodayLoaded(c) ==
  /\ Back(c, {"getPlan"}) /\ Done(c)
  /\ IF c.step = "ok"
       THEN board' = [board EXCEPT !.known = TRUE, !.tasks = c.got.tasks]
       ELSE UNCHANGED board
  /\ UNCHANGED <<page, path, quiz, review, report, srv>>

(* refresh waits for all its sources; without the plan it shows none.       *)
DashboardLoaded(c) ==
  /\ Back(c, {"dashLoad"}) /\ Done(c)
  /\ board' = [board EXCEPT !.loading = FALSE, !.tasks = c.got.tasks]
  /\ UNCHANGED <<page, path, quiz, review, report, srv>>

Generated(c) ==
  /\ Back(c, {"generate"}) /\ Done(c)
  /\ board' = [board EXCEPT !.generating = FALSE,
                            !.tasks = IF c.step = "ok" THEN c.got.tasks ELSE @]
  /\ UNCHANGED <<page, path, quiz, review, report, srv>>

Target(c) == CASE Kinds[c.arg] = "test" -> "quiz"
               [] Kinds[c.arg] = "review" -> "review"
               [] OTHER -> "today"

Started(c) ==
  /\ c.op = "start"
  /\ IF Pushes(c)
       THEN Go(Target(c), IF Target(c) = "quiz" THEN c.att ELSE 0, calls \ {c})
       ELSE /\ Back(c, {"start"})
            /\ IF c.step = "ok" THEN Then(c, "getPlan") ELSE Done(c)
            /\ board' = [board EXCEPT !.busy = 0]
            /\ UNCHANGED <<page, path, quiz, review, report>>
  /\ UNCHANGED srv

(* Mutant: the error of completeDailyTask leaves busyTaskId set. *)
CompletedOrBusy(c) ==
  /\ Back(c, {"complete"})
  /\ IF c.step = "ok" THEN Then(c, "getPlan") ELSE Done(c)
  /\ board' = [board EXCEPT !.busy = IF c.step = "ok" THEN 0 ELSE @]
  /\ UNCHANGED <<page, path, quiz, review, report, srv>>

Completed(c) ==
  /\ Back(c, {"complete"})
  /\ IF c.step = "ok" THEN Then(c, "getPlan") ELSE Done(c)
  /\ board' = [board EXCEPT !.busy = 0]
  /\ UNCHANGED <<page, path, quiz, review, report, srv>>

AttemptLoaded(c) ==
  /\ Back(c, {"getAttempt"})
  /\ IF c.step = "ok" /\ c.got.status = "submitted"
       THEN Go("results", path, calls \ {c})
       ELSE /\ Done(c)
            /\ quiz' = IF c.step = "failed" THEN quiz
                       ELSE [quiz EXCEPT !.known = TRUE, !.saved = c.got.answered]
            /\ UNCHANGED <<page, path, board, review, report>>
  /\ UNCHANGED srv

(* The question counts as saved once one save of it has succeeded.          *)
Saved(c) ==
  /\ Back(c, {"save"}) /\ Done(c)
  /\ quiz' = [quiz EXCEPT !.saving = @ \ {c.arg},
       !.saved = IF c.step = "ok" THEN @ \cup {c.arg} ELSE @,
       !.raced = IF c.step = "ok" THEN @ ELSE @ \cup {c.arg}]
  /\ UNCHANGED <<page, path, board, review, report, srv>>

Submitted(c) ==
  /\ c.op = "submit"
  /\ IF Pushes(c)
       THEN Go("results", c.att, calls \ {c})
       ELSE /\ Back(c, {"submit"}) /\ Done(c)
            /\ quiz' = [quiz EXCEPT !.submitting = FALSE]
            /\ UNCHANGED <<page, path, board, review, report>>
  /\ UNCHANGED srv

ResultLoaded(c) ==
  /\ Back(c, {"getResult"}) /\ Done(c)
  /\ report' = IF c.step = "ok" THEN "shown" ELSE "error"
  /\ UNCHANGED <<page, path, board, quiz, review, srv>>

QueueLoaded(c) ==
  /\ Back(c, {"due"}) /\ Done(c)
  /\ review' = IF c.step = "ok"
                 THEN [review EXCEPT !.known = TRUE, !.queue = c.got.due] ELSE review
  /\ UNCHANGED <<page, path, board, quiz, report, srv>>

(* Mutant: the card is taken away even if the review failed. *)
ReviewedOrFailed(c) ==
  /\ Back(c, {"review"}) /\ Done(c)
  /\ review' = [review EXCEPT !.submitting = 0, !.feedback = @ \cup {c.arg}]
  /\ UNCHANGED <<page, path, board, quiz, report, srv>>

Reviewed(c) ==
  /\ Back(c, {"review"}) /\ Done(c)
  /\ review' = [review EXCEPT !.submitting = 0,
       !.feedback = IF c.step = "ok" THEN @ \cup {c.arg} ELSE @]
  /\ UNCHANGED <<page, path, board, quiz, report, srv>>

Deliver(c) ==
  \/ TodayLoaded(c) \/ DashboardLoaded(c) \/ Generated(c) \/ Started(c) \/ Completed(c)
  \/ AttemptLoaded(c) \/ Saved(c) \/ Submitted(c) \/ ResultLoaded(c)
  \/ QueueLoaded(c) \/ Reviewed(c)

-----------------------------------------------------------------------------
Next ==
  \/ \E p \in Pages, a \in Attempts \cup {0} : Open(p, a)
  \/ Refresh \/ PressGenerate \/ PressSubmit
  \/ \E t \in Tasks : PressStart(t) \/ PressComplete(t)
  \/ \E q \in Questions, v \in Values : Answer(q, v)
  \/ \E m \in Mistakes : PressReview(m) \/ RemoveCard(m)
  \/ \E c \in calls : Serve(c) \/ Fail(c) \/ Deliver(c)

Spec == Init /\ [][Next]_vars

-----------------------------------------------------------------------------
(* The types of the variables; a page that is not shown holds nothing, and  *)
(* only what can still matter is on its way.                                *)
TypeOK ==
  /\ page \in Pages
  /\ IF page \in {"quiz", "results"} THEN path \in Attempts ELSE path = 0
  /\ board \in [known : BOOLEAN, tasks : Plans, loading : BOOLEAN,
                generating : BOOLEAN, busy : Tasks \cup {0}]
  /\ quiz.draft \in [Questions -> Values \cup {0}]
  /\ quiz.saving \subseteq Questions /\ quiz.saved \subseteq Questions
  /\ review.queue \subseteq Mistakes /\ review.feedback \subseteq Mistakes
  /\ report \in {"loading", "shown", "error"}
  /\ page \notin {"today", "dashboard"} => board = NewBoard
  /\ page # "quiz" => quiz = NewQuiz
  /\ page # "review" => review = NewReview
  /\ page # "results" => report = "loading"
  /\ \A c \in calls : Matters(c) /\ (c.live => c.from = page)
  /\ srv.tasks \in Plans /\ srv.late \subseteq Tasks
  /\ srv.attempts \in [Attempts -> {"absent", "open", "submitted"}]
  /\ srv.stored \in [Attempts -> [Questions -> Values \cup {0, Blank}]]

(* The badge "saved" tells the truth, before and after the attempt is        *)
(* submitted and however calls are delayed.  A question that has it has an   *)
(* answer of the student on the server, not nothing and not the blank of a   *)
(* Submit, unless a save of it and a Submit were under way together.  That   *)
(* answer is the one on the page, unless two saves of the question met or    *)
(* one of them failed.                                                       *)
SavedIsStored ==
  \A q \in quiz.saved \ quiz.met :
    /\ srv.stored[path][q] \in Values
    /\ q \notin quiz.saving \cup quiz.raced /\ quiz.draft[q] # 0 =>
         srv.stored[path][q] = quiz.draft[q]

(* No page shows more than has happened, however old its replies are: a     *)
(* task is not further on the page than in the plan, unless it was finished *)
(* while a start of it was being handled, and a result is shown only of an  *)
(* attempt that was submitted.                                              *)
Rank == [absent |-> 0, pending |-> 1, in_progress |-> 2, completed |-> 3]
ShownHasHappened ==
  /\ \A t \in Tasks \ srv.late : Rank[board.tasks[t]] <= Rank[srv.tasks[t]]
  /\ report = "shown" => srv.attempts[path] = "submitted"

(* A mistake that is still due is on the review page: a card goes only      *)
(* after the server has taken an answer to it.                              *)
DueStaysOnPage == review.known => Mistakes \ srv.reviewed \subseteq review.queue

(* A button is disabled only while a call of its page is under way that     *)
(* will enable it again: no failure and no order of replies leaves one      *)
(* disabled for good.                                                       *)
DisabledWaits ==
  LET Awaits(ops, a) == \E c \in calls : c.live /\ c.op \in ops /\ c.arg = a IN
  /\ board.loading /\ page = "dashboard" => Awaits({"dashLoad"}, 0)
  /\ board.generating => Awaits({"generate"}, 0)
  /\ board.busy # 0 => Awaits({"start", "complete"}, board.busy)
  /\ quiz.submitting => Awaits({"submit"}, 0)
  /\ \A q \in quiz.saving : Awaits({"save"}, q)
  /\ review.submitting # 0 => Awaits({"review"}, review.submitting)
=============================================================================
