---------------------------- MODULE BrowserProofs ----------------------------
(***************************************************************************)
(* What runs in a student's browser: the pages (StudentApp), and beneath   *)
(* them the tabs and their session (Sessions).                             *)
(*                                                                         *)
(* The pages, for any plan, any number of questions, attempts, mistakes    *)
(* and calls under way: what a page shows of a task or an answer is what   *)
(* the server holds, but for the two races of the handlers that the        *)
(* properties name, and no button waits for a reply that will not come.    *)
(* The argument is about the calls: what a reply on its way says of the    *)
(* server stays true, with the same exceptions, and every call was sent by *)
(* the page that its operation belongs to.                                 *)
(*                                                                         *)
(* The session, for any number of tabs, requests and sessions: no session  *)
(* that was issued before a password change revoked all is active again, a *)
(* page has a token, and rotation loses no session while calls do not      *)
(* overlap.                                                                *)
(***************************************************************************)
EXTENDS StudentApp, Sessions, FiniteSetTheorems, TLAPS

-----------------------------------------------------------------------------
(* The pages. *)

Ops == {"getPlan", "dashLoad", "generate", "start", "complete", "getAttempt", "save",
        "submit", "getResult", "due", "review"}
Steps == {"sent", "read", "unfound", "made", "locked", "committed", "ok", "failed"}
Replies == [tasks : Plans, status : {"absent", "open", "submitted"},
            answered : SUBSET Questions, due : SUBSET Mistakes]
CallRecords(id) ==
  [id : {id}, op : Ops, arg : Tasks \cup Questions \cup Mistakes \cup {0},
   val : Values \cup {0}, att : Attempts \cup {0}, from : Pages, live : BOOLEAN,
   step : Steps, got : Replies]
IsCall(c) == \E id : c \in CallRecords(id)
Boards == [known : BOOLEAN, tasks : Plans, loading : BOOLEAN, generating : BOOLEAN,
           busy : Tasks \cup {0}]
Quizzes == [known : BOOLEAN, draft : [Questions -> Values \cup {0}],
            saving : SUBSET Questions, saved : SUBSET Questions, submitting : BOOLEAN,
            raced : SUBSET Questions, met : SUBSET Questions]
Reviews == [known : BOOLEAN, queue : SUBSET Mistakes, feedback : SUBSET Mistakes,
            submitting : Mistakes \cup {0}]
Servers == [tasks : Plans, late : SUBSET Tasks,
            attempts : [Attempts -> {"absent", "open", "submitted"}],
            stored : [Attempts -> [Questions -> Values \cup {0, Blank}]],
            reviewed : SUBSET Mistakes]

(* The page that sends a call, and what the call is about.                  *)
OfAttempt == {"getAttempt", "submit", "save", "getResult"}
Asks(c) ==
  \/ c.op = "getPlan" /\ c.from = "today"
  \/ c.op = "dashLoad" /\ c.from = "dashboard"
  \/ c.op = "generate" /\ c.from \in {"today", "dashboard"}
  \/ c.op = "start" /\ c.from \in {"today", "dashboard"} /\ c.arg \in Tasks
  \/ c.op = "complete" /\ c.from = "today" /\ c.arg \in Tasks
  \/ c.op \in {"getAttempt", "submit"} /\ c.from = "quiz"
  \/ c.op = "save" /\ c.from = "quiz" /\ c.arg \in Questions /\ c.val \in Values
  \/ c.op = "getResult" /\ c.from = "results"
  \/ c.op = "due" /\ c.from = "review"
  \/ c.op = "review" /\ c.from = "review" /\ c.arg \in Mistakes

(* The attempt a call is about. *)
HasAttempt(c) ==
  /\ c.op \in OfAttempt => c.att \in Attempts
  /\ c.op = "start" => /\ c.step = "made" => c.att \in Attempts
                       /\ c.step = "ok" /\ Kinds[c.arg] = "test" => c.att \in Attempts

OfPage(c, p, a) == c.live => c.from = p /\ (c.op \in OfAttempt => c.att = a)

(* What a page holds that is not shown. *)
Unmounted ==
  /\ page \notin {"today", "dashboard"} => board = NewBoard
  /\ page # "quiz" => quiz = NewQuiz
  /\ page # "review" => review = NewReview
  /\ page # "results" => report = "loading"

CallOk(c) ==
  /\ IsCall(c) /\ Asks(c) /\ HasAttempt(c) /\ Matters(c) /\ OfPage(c, page, path)

OfRoute(p, a) == IF p \in {"quiz", "results"} THEN a \in Attempts ELSE a = 0
Typed ==
  /\ page \in Pages /\ OfRoute(page, path)
  /\ board \in Boards /\ quiz \in Quizzes /\ review \in Reviews
  /\ report \in {"loading", "shown", "error"}
  /\ srv \in Servers
  /\ Unmounted
  /\ \A c \in calls : CallOk(c)

(* What a reply says of a server s that was true when it was read, and      *)
(* stays so.                                                                *)
Tells(c, s) ==
  /\ \A t \in Tasks \ s.late : Rank[c.got.tasks[t]] <= Rank[s.tasks[t]]
  /\ c.op = "getAttempt" => \A q \in c.got.answered : s.stored[c.att][q] # 0
  /\ c.step = "ok" =>
       /\ c.op = "getResult" => s.attempts[c.att] = "submitted"
       /\ c.op = "due" => Mistakes \ s.reviewed \subseteq c.got.due
       /\ c.op = "review" => c.arg \in s.reviewed
AllTell == \A c \in calls : Tells(c, srv)

(* A start that is past its check finds its task finished only if "late"    *)
(* says so; and only Submit writes blanks.                                  *)
Midway(c) == c.op = "start" /\ c.step \in {"read", "unfound", "made"}
StartsAreLate ==
  \A c \in calls : Midway(c) /\ srv.tasks[c.arg] = "completed" => c.arg \in srv.late
OpenHasNoBlank ==
  \A a \in Attempts : srv.attempts[a] # "submitted" =>
    \A q \in Questions : srv.stored[a][q] # Blank

Awaited(ops, arg) == \E c \in calls : c.live /\ c.op \in ops /\ c.arg = arg

BoardInv ==
  /\ \A t \in Tasks \ srv.late : Rank[board.tasks[t]] <= Rank[srv.tasks[t]]
  /\ board.loading /\ page = "dashboard" => Awaited({"dashLoad"}, 0)
  /\ board.generating => Awaited({"generate"}, 0)
  /\ board.busy # 0 => Awaited({"start", "complete"}, board.busy)

(* The attempt of the page holds an answer to q, and no Submit that is being *)
(* handled will put a blank in its place.                                   *)
Locked(c) == c.op = "submit" /\ c.att = path /\ c.step = "locked"
Held(q) ==
  /\ srv.stored[path][q] \in Values
  /\ \A c \in calls : Locked(c) => q \in c.got.answered

(* A question that was answered on this page, and whose saves never met nor *)
(* failed, has at most one save under way, of the answer that is shown.     *)
IsSave(c, q) == c.op = "save" /\ c.att = path /\ c.arg = q
SaveOf(q) ==
  quiz.draft[q] # 0 /\ q \notin quiz.raced =>
    /\ \A c \in calls : IsSave(c, q) =>
         /\ c.live /\ c.val = quiz.draft[q] /\ q \in quiz.saving
         /\ c.step = "ok" /\ q \notin quiz.met => srv.stored[path][q] = quiz.draft[q]
         /\ \A d \in calls : IsSave(d, q) => d = c
    /\ q \notin quiz.saving \cup quiz.met =>
         Held(q) /\ srv.stored[path][q] = quiz.draft[q]

(* What a call of the quiz that is shown says of it: "met" has the question *)
(* of every save that may meet a Submit, and a page that does not know its  *)
(* attempt yet found no Submit of it under way, unless all may have met one. *)
QuizCall(c) ==
  /\ c.op = "save" /\ c.arg \notin quiz.met =>
       /\ InServer(c) => ~Submits(calls, path)
       /\ c.step = "ok" => Held(c.arg)
  /\ c.op = "getAttempt" =>
       /\ ~quiz.known
       /\ c.step \in {"read", "ok"} /\ c.got.status # "submitted" /\ quiz.met # Questions =>
            srv.attempts[path] # "submitted"

Loading(c) == c.live /\ c.op = "getAttempt"

QuizInv ==
  /\ \A q \in quiz.saved \ quiz.met : Held(q)
  /\ \A q \in Questions : SaveOf(q)
  /\ \A c \in calls : c.live => QuizCall(c)
  /\ \A c, d \in calls : Loading(c) /\ Loading(d) => c = d
  /\ page = "quiz" /\ ~quiz.known /\ Submits(calls, path) => quiz.met = Questions
  /\ quiz.submitting => Awaited({"submit"}, 0)
  /\ \A q \in quiz.saving : Awaited({"save"}, q)

ReviewInv ==
  /\ review.known => Mistakes \ srv.reviewed \subseteq review.queue
  /\ review.feedback \subseteq srv.reviewed
  /\ review.submitting # 0 => Awaited({"review"}, review.submitting)

ReportInv == report = "shown" => srv.attempts[path] = "submitted"

IInv ==
  /\ Typed /\ AllTell /\ StartsAreLate /\ OpenHasNoBlank
  /\ BoardInv /\ QuizInv /\ ReviewInv /\ ReportInv

-----------------------------------------------------------------------------
(* Types. *)

LEMMA RankOf ==
  /\ Rank["absent"] = 0 /\ Rank["pending"] = 1
  /\ Rank["in_progress"] = 2 /\ Rank["completed"] = 3
  /\ \A s \in Statuses : Rank[s] \in 0..3
<1>1. /\ Rank["absent"] = 0 /\ Rank["pending"] = 1
      /\ Rank["in_progress"] = 2 /\ Rank["completed"] = 3
  BY DEF Rank
<1>2. ASSUME NEW s \in Statuses PROVE Rank[s] \in 0..3
  <2>1. s \in {"absent", "pending", "in_progress", "completed"}
    BY DEF Statuses
  <2> QED BY <1>1, <2>1
<1> QED BY <1>1, <1>2

LEMMA NewTypes ==
  /\ NoPlan \in Plans /\ NoReply \in Replies
  /\ NewBoard \in Boards /\ NewQuiz \in Quizzes /\ NewReview \in Reviews
  /\ Tasks \subseteq Nat /\ 0 \notin Tasks /\ Attempts \subseteq Nat /\ 0 \notin Attempts
  /\ 0 \notin Mistakes /\ 0 \notin Values /\ Blank \notin Values /\ Blank # 0
<1>1. Tasks = 1..Len(Kinds) /\ Len(Kinds) \in Nat
  BY AppAssumption DEF Tasks
<1>2. NoPlan \in Plans
  BY DEF NoPlan, Plans, Statuses
<1>3. NoReply \in Replies
  BY <1>2 DEF NoReply, Replies
<1>4. NewBoard \in Boards
  BY <1>2 DEF NewBoard, Boards
<1>5. NewQuiz \in Quizzes /\ NewReview \in Reviews
  BY DEF NewQuiz, Quizzes, NewReview, Reviews
<1>6. Attempts \subseteq Nat /\ 0 \notin Attempts
  BY AppAssumption DEF Attempts
<1> QED BY <1>1, <1>2, <1>3, <1>4, <1>5, <1>6, AppAssumption

(* A number changes nothing else of a call. *)
LEMMA NumberedIs ==
  ASSUME NEW c, IsCall(c), NEW cs
  PROVE  LET d == Numbered(c, cs)
         IN  /\ IsCall(d) /\ d.op = c.op /\ d.arg = c.arg /\ d.val = c.val /\ d.att = c.att
             /\ d.from = c.from /\ d.live = c.live /\ d.step = c.step /\ d.got = c.got
<1>1. PICK id : c \in CallRecords(id)
  BY DEF IsCall
<1> DEFINE n == CHOOSE i \in 1..(Cardinality(cs) + 1) :
                  \A d \in cs : d.op = c.op /\ d.arg = c.arg => d.id # i
<1>2. Numbered(c, cs) = [c EXCEPT !.id = n]
  BY DEF Numbered
<1> HIDE DEF n
<1>3. [c EXCEPT !.id = n] \in CallRecords(n)
  BY <1>1 DEF CallRecords
<1> QED BY <1>1, <1>2, <1>3 DEF IsCall, CallRecords

(* A call that the page p of the attempt a sends. *)
Fresh(d, p, a) ==
  /\ IsCall(d) /\ Asks(d) /\ d.live /\ d.from = p /\ d.att = a /\ d.step = "sent"
  /\ d.got = NoReply

LEMMA CallIs ==
  ASSUME Typed, NEW op \in Ops, NEW arg \in Tasks \cup Questions \cup Mistakes \cup {0},
         NEW val \in Values \cup {0}, NEW cs, NEW d, d = Numbered(Call(op, arg, val), cs)
  PROVE  /\ IsCall(d) /\ d.op = op /\ d.arg = arg /\ d.val = val
         /\ Asks(d) => Fresh(d, page, path)
<1> DEFINE c == Call(op, arg, val)
<1>1. path \in Attempts \cup {0} /\ page \in Pages /\ NoReply \in Replies
  BY NewTypes DEF Typed, OfRoute
<1>2. /\ c \in CallRecords(0) /\ c.op = op /\ c.arg = arg /\ c.val = val /\ c.att = path
      /\ c.from = page /\ c.live /\ c.step = "sent" /\ c.got = NoReply
  BY <1>1 DEF Call, CallRecords, Steps
<1>3. d = Numbered(c, cs)
  OBVIOUS
<1> HIDE DEF c
<1> QED BY <1>2, <1>3, NumberedIs DEF IsCall, Fresh

LEMMA FirstLoadIs ==
  ASSUME Typed, NEW p \in Pages, NEW a, OfRoute(p, a), NEW cs, NEW d,
         d = Numbered(FirstLoad(p, a), cs)
  PROVE  /\ Fresh(d, p, a) /\ d.op = LoadOf(p) /\ d.arg = 0
         /\ d.op \notin Writes
         /\ p = "dashboard" => d.op = "dashLoad"
         /\ d.op \in OfAttempt => p \in {"quiz", "results"}
<1> DEFINE op == LoadOf(p)
<1>1. /\ op \in Ops /\ op \notin Writes
      /\ p = "today" => op = "getPlan"
      /\ p = "dashboard" => op = "dashLoad"
      /\ p = "quiz" => op = "getAttempt"
      /\ p = "results" => op = "getResult"
      /\ p = "review" => op = "due"
  BY DEF LoadOf, Pages, Ops, Writes
<1> HIDE DEF op
<1> DEFINE e == Call(op, 0, 0)
           f == [e EXCEPT !.from = p, !.att = a]
<1>2. NoReply \in Replies /\ path \in Attempts \cup {0} /\ a \in Attempts \cup {0}
  BY NewTypes DEF Typed, OfRoute
<1>3. /\ e \in CallRecords(0) /\ e.op = op /\ e.arg = 0 /\ e.live /\ e.step = "sent"
      /\ e.got = NoReply
  BY <1>1, <1>2 DEF Call, CallRecords, Steps, Typed
<1> HIDE DEF e
<1>4. /\ f \in CallRecords(0) /\ f.op = op /\ f.arg = 0 /\ f.live /\ f.step = "sent"
      /\ f.got = NoReply /\ f.from = p /\ f.att = a
  BY <1>2, <1>3 DEF CallRecords
<1>5. FirstLoad(p, a) = f
  BY DEF FirstLoad, f, e, op
<1> HIDE DEF f
<1>6. /\ IsCall(d) /\ d.op = op /\ d.arg = 0 /\ d.live /\ d.step = "sent"
      /\ d.got = NoReply /\ d.from = p /\ d.att = a
  BY <1>4, <1>5, NumberedIs DEF IsCall
<1>7. Asks(d)
  BY <1>1, <1>6 DEF Asks, Pages
<1> QED BY <1>1, <1>6, <1>7 DEF Fresh, op, OfAttempt, Pages

(* A call that has moved on, and one that its page has left.                *)
Same(c, d) ==
  d.op = c.op /\ d.arg = c.arg /\ d.val = c.val /\ d.from = c.from /\ d.live = c.live
Turned(c, d, step, att, got) ==
  IsCall(d) /\ Same(c, d) /\ d.step = step /\ d.att = att /\ d.got = got

LEMMA TurnedIs ==
  ASSUME NEW c, IsCall(c), NEW step \in Steps, NEW att \in Attempts \cup {0},
         NEW got \in Replies
  PROVE  /\ Turned(c, [c EXCEPT !.step = step, !.att = att, !.got = got], step, att, got)
         /\ Turned(c, [c EXCEPT !.step = step, !.got = got], step, c.att, got)
<1>1. PICK id : c \in CallRecords(id)
  BY DEF IsCall
<1>2. /\ [c EXCEPT !.step = step, !.att = att, !.got = got] \in CallRecords(id)
      /\ [c EXCEPT !.step = step, !.got = got] \in CallRecords(id)
  BY <1>1 DEF CallRecords
<1> QED BY <1>1, <1>2 DEF Turned, Same, IsCall, CallRecords

LEMMA LeftIs ==
  ASSUME NEW c, IsCall(c), NEW d, d = [c EXCEPT !.live = FALSE]
  PROVE  /\ IsCall(d) /\ d.op = c.op /\ d.arg = c.arg /\ d.val = c.val /\ d.att = c.att
         /\ d.from = c.from /\ ~d.live /\ d.step = c.step /\ d.got = c.got
<1>1. PICK id : c \in CallRecords(id)
  BY DEF IsCall
<1>2. d \in CallRecords(id)
  BY <1>1 DEF CallRecords
<1> QED BY <1>1, <1>2 DEF IsCall, CallRecords

(* A reply that says nothing of the server. *)
LEMMA TellsNothing ==
  ASSUME NEW s \in Plans
  PROVE  /\ \A t \in Tasks : Rank[NoReply.tasks[t]] <= Rank[s[t]]
         /\ NoReply.answered = {}
<1>1. NoReply.tasks = NoPlan /\ NoReply.answered = {}
  BY DEF NoReply
<1>2. ASSUME NEW t \in Tasks PROVE Rank[NoPlan[t]] <= Rank[s[t]]
  <2>1. NoPlan[t] = "absent" /\ s[t] \in Statuses
    BY DEF NoPlan, Plans
  <2>2. Rank[s[t]] \in 0..3 /\ Rank["absent"] = 0
    BY <2>1, RankOf
  <2> QED BY <2>1, <2>2
<1> QED BY <1>1, <1>2

-----------------------------------------------------------------------------
(* The server. *)

(* Nothing that was done is undone, but the end of a task that "late" names. *)
Grows ==
  /\ \A t \in Tasks \ srv'.late :
       \/ srv'.tasks[t] = "completed"
       \/ t \notin srv.late /\ Rank[srv.tasks[t]] <= Rank[srv'.tasks[t]]
  /\ \A a \in Attempts : srv.attempts[a] = "submitted" => srv'.attempts[a] = "submitted"
  /\ \A a \in Attempts, q \in Questions : srv.stored[a][q] # 0 => srv'.stored[a][q] # 0
  /\ srv.reviewed \subseteq srv'.reviewed

(* What the handler of call c may do to tasks, attempts and answers.        *)
TasksKept ==
  \A t \in Tasks : srv'.tasks[t] = "completed" =>
    \/ srv.tasks[t] = "completed" /\ (t \in srv.late => t \in srv'.late)
    \/ Starting(t) => t \in srv'.late
AttemptsKept(c) ==
  \A a \in Attempts : srv'.attempts[a] = "submitted" =>
    srv.attempts[a] = "submitted" \/ (At(c, "submit", "locked") /\ c.att = a)
StoredKept(c) ==
  \A a \in Attempts, q \in Questions :
    \/ srv'.stored[a][q] = srv.stored[a][q]
    \/ c.op = "save" /\ c.att = a /\ c.arg = q /\ srv'.stored[a][q] = c.val
    \/ /\ At(c, "submit", "locked") /\ c.att = a /\ q \notin c.got.answered
       /\ srv'.attempts[a] = "submitted"

ServerStep(c) ==
  srv' \in Servers /\ Grows /\ TasksKept /\ AttemptsKept(c) /\ StoredKept(c)

LEMMA SameServer ==
  ASSUME Typed, srv' = srv, NEW c
  PROVE  ServerStep(c)
<1>1. \A t \in Tasks : Rank[srv.tasks[t]] \in 0..3
  BY RankOf DEF Typed, Servers, Plans
<1>2. Grows
  BY <1>1 DEF Grows
<1> QED BY <1>2 DEF Typed, ServerStep, TasksKept, AttemptsKept, StoredKept

(* A statement that writes tasks only, none of them finished by it.         *)
LEMMA TasksStep ==
  ASSUME Typed, NEW c, NEW tasks \in Plans, srv' = [srv EXCEPT !.tasks = tasks],
         \A t \in Tasks \ srv.late : Rank[srv.tasks[t]] <= Rank[tasks[t]],
         \A t \in Tasks : tasks[t] = "completed" => srv.tasks[t] = "completed"
  PROVE  ServerStep(c) /\ srv'.tasks = tasks
<1>1. /\ srv' \in Servers /\ srv'.tasks = tasks /\ srv'.late = srv.late
      /\ srv'.attempts = srv.attempts /\ srv'.stored = srv.stored
      /\ srv'.reviewed = srv.reviewed
  BY DEF Typed, Servers
<1>2. Grows /\ TasksKept
  BY <1>1 DEF Grows, TasksKept
<1> QED BY <1>1, <1>2 DEF ServerStep, AttemptsKept, StoredKept

(* What becomes of the call that is handled: it is d now, if it matters.    *)
Handled(c, d) ==
  /\ IsCall(d) /\ Same(c, d) /\ HasAttempt(d)
  /\ d.op \in OfAttempt => d.att = c.att
  /\ InServer(d) => InServer(c)
  /\ \/ calls' = (calls \ {c}) \cup {d} /\ Matters(d)
     \/ calls' = calls \ {c} /\ ~c.live

(* A step of d says what the server held when the handler took it.          *)
Moves(c, d) ==
  /\ Midway(d) => Midway(c) \/ srv'.tasks[d.arg] # "completed"
  /\ d.op = "submit" /\ d.step = "locked" =>
       d.got.answered = {q \in Questions : srv.stored[c.att][q] # 0}
  /\ d.op = "save" /\ d.step = "ok" =>
       InServer(c) /\ srv'.stored[c.att][c.arg] = c.val
  /\ d.op = "getAttempt" /\ d.step \in {"read", "ok"} =>
       \/ c.step = "read" /\ d.got.status = c.got.status
       \/ d.got.status = srv.attempts[c.att]

Served(c) ==
  /\ UNCHANGED ui /\ ServerStep(c)
  /\ \E d : Handled(c, d) /\ Tells(d, srv') /\ Moves(c, d)

LEMMA ReplyHandles ==
  ASSUME Typed, NEW c \in calls, NEW step \in {"ok", "failed"}, NEW got \in Replies,
         Reply(c, step, got),
         c.op = "start" /\ step = "ok" /\ Kinds[c.arg] = "test" => c.att \in Attempts
  PROVE  /\ UNCHANGED ui
         /\ \E d : Turned(c, d, step, c.att, got) /\ Handled(c, d)
<1> DEFINE d == [c EXCEPT !.step = step, !.got = got]
<1>1. IsCall(c) /\ HasAttempt(c)
  BY DEF Typed, CallOk
<1>2. step \in Steps
  BY DEF Steps
<1>3. Turned(c, d, step, c.att, got)
  BY <1>1, <1>2, NewTypes, TurnedIs
<1>4. calls' = (calls \ {c}) \cup Kept({d}) /\ UNCHANGED ui
  BY DEF Reply
<1> HIDE DEF d
<1>5. HasAttempt(d)
  BY <1>1, <1>3 DEF HasAttempt, Turned, Same
<1>6. \/ calls' = (calls \ {c}) \cup {d} /\ Matters(d)
      \/ calls' = calls \ {c} /\ ~c.live
  <2>1. CASE Matters(d)
    BY <1>4, <2>1 DEF Kept
  <2>2. CASE ~Matters(d)
    BY <1>3, <1>4, <2>2 DEF Kept, Matters, Turned, Same
  <2> QED BY <2>1, <2>2
<1>7. Handled(c, d)
  BY <1>3, <1>5, <1>6 DEF Handled, Turned, InServer
<1> QED BY <1>3, <1>4, <1>7

LEMMA GoesHandles ==
  ASSUME Typed, NEW c \in calls, NEW step \in Steps, NEW att \in Attempts \cup {0},
         NEW got \in Replies, Goes(c, step, att, got), InServer(c), step # "failed",
         c.live \/ c.op \in Writes, c.op \in OfAttempt => att = c.att,
         c.op = "start" /\ step \in {"made", "ok"} => att \in Attempts,
         step = "ok" => c.op = "start" /\ Kinds[c.arg] = "test"
  PROVE  /\ UNCHANGED ui
         /\ \E d : Turned(c, d, step, att, got) /\ Handled(c, d)
<1> DEFINE d == [c EXCEPT !.step = step, !.att = att, !.got = got]
<1>1. IsCall(c) /\ HasAttempt(c)
  BY DEF Typed, CallOk
<1>2. Turned(c, d, step, att, got)
  BY <1>1, TurnedIs
<1>3. calls' = (calls \ {c}) \cup {d} /\ UNCHANGED ui
  BY DEF Goes
<1> HIDE DEF d
<1>4. HasAttempt(d) /\ (d.op \in OfAttempt => d.att = c.att)
  BY <1>1, <1>2 DEF HasAttempt, Turned, Same, OfAttempt
<1>5. Matters(d)
  BY <1>2 DEF Matters, Turned, Same, InServer, Pushes
<1>6. Handled(c, d)
  BY <1>2, <1>3, <1>4, <1>5 DEF Handled, Turned
<1> QED BY <1>2, <1>3, <1>6

(* A call that has moved on, without a reply yet or without one that says   *)
(* anything.                                                                *)
LEMMA TurnedTells ==
  ASSUME NEW c, NEW d, NEW step, NEW att, Turned(c, d, step, att, NoReply), srv' \in Servers,
         step = "ok" =>
           /\ c.op = "getResult" => srv'.attempts[att] = "submitted"
           /\ c.op # "due"
           /\ c.op = "review" => c.arg \in srv'.reviewed
  PROVE  Tells(d, srv')
<1>1. srv'.tasks \in Plans
  BY DEF Servers
<1>2. d.got.answered = {} /\ \A t \in Tasks : Rank[d.got.tasks[t]] <= Rank[srv'.tasks[t]]
  BY <1>1, TellsNothing DEF Turned
<1> QED BY <1>2 DEF Tells, Turned, Same

LEMMA CallFacts ==
  ASSUME Typed, NEW c \in calls
  PROVE  /\ IsCall(c) /\ Asks(c) /\ HasAttempt(c) /\ c.got \in Replies /\ srv \in Servers
         /\ c.att \in Attempts \cup {0} /\ c.step \in Steps /\ c.op \in Ops
         /\ c.live \/ c.op \in Writes \/ Pushes(c)
         /\ OfPage(c, page, path)
<1>1. CallOk(c) /\ srv \in Servers
  BY DEF Typed
<1>2. PICK id : c \in CallRecords(id)
  BY <1>1 DEF CallOk, IsCall
<1> QED BY <1>1, <1>2 DEF CallOk, CallRecords, Matters

(* The reply of call c carries nothing. *)
LEMMA EndServes ==
  ASSUME Typed, NEW c \in calls, NEW step \in {"ok", "failed"}, Reply(c, step, NoReply),
         ServerStep(c),
         c.op = "start" /\ step = "ok" /\ Kinds[c.arg] = "test" => c.att \in Attempts,
         step = "ok" =>
           /\ c.op = "getResult" => srv'.attempts[c.att] = "submitted"
           /\ c.op \notin {"due", "getAttempt"}
           /\ c.op = "review" => c.arg \in srv'.reviewed
           /\ c.op = "save" => InServer(c) /\ srv'.stored[c.att][c.arg] = c.val
  PROVE  Served(c)
<1>1. NoReply \in Replies
  BY NewTypes
<1>2. PICK d : Turned(c, d, step, c.att, NoReply) /\ Handled(c, d)
  BY <1>1, ReplyHandles
<1>3. Tells(d, srv')
  BY <1>2, TurnedTells DEF ServerStep
<1>4. Moves(c, d)
  BY <1>2 DEF Moves, Turned, Same, Midway
<1>5. UNCHANGED ui
  BY DEF Reply
<1> QED BY <1>2, <1>3, <1>4, <1>5 DEF Served

LEMMA RefuseServes ==
  ASSUME Typed, NEW c \in calls, Refuse(c)
  PROVE  Served(c)
<1>1. srv' = srv /\ Reply(c, "failed", NoReply)
  BY DEF Refuse
<1> QED BY <1>1, SameServer, EndServes

LEMMA GetTodayServes ==
  ASSUME Typed, NEW c \in calls, GetToday(c)
  PROVE  Served(c)
<1> DEFINE got == [NoReply EXCEPT !.tasks = srv.tasks]
<1>1. srv' = srv /\ Reply(c, "ok", got) /\ c.op \in {"getPlan", "dashLoad"}
  BY DEF GetToday, At
<1>2. got \in Replies /\ got.tasks = srv.tasks /\ got.answered = {}
  BY DEF NoReply, Replies, Typed, Servers
<1> HIDE DEF got
<1>3. ServerStep(c) /\ UNCHANGED ui
  BY <1>1, SameServer DEF Reply
<1>4. PICK d : Turned(c, d, "ok", c.att, got) /\ Handled(c, d)
  BY <1>1, <1>2, ReplyHandles
<1>5. \A t \in Tasks : Rank[srv.tasks[t]] \in 0..3
  BY RankOf DEF Typed, Servers, Plans
<1>6. Tells(d, srv') /\ Moves(c, d)
  BY <1>1, <1>2, <1>4, <1>5 DEF Tells, Moves, Midway, Turned, Same
<1> QED BY <1>3, <1>4, <1>6 DEF Served

LEMMA GenerateServes ==
  ASSUME Typed, NEW c \in calls, Generate(c)
  PROVE  Served(c)
<1> DEFINE tasks == IF srv.tasks = NoPlan THEN [t \in Tasks |-> "pending"] ELSE srv.tasks
           got == [NoReply EXCEPT !.tasks = tasks]
<1>1. /\ srv' = [srv EXCEPT !.tasks = tasks] /\ Reply(c, "ok", got)
      /\ c.op = "generate" /\ srv \in Servers
  BY DEF Generate, At, Typed
<1>2. tasks \in Plans
  BY <1>1 DEF Plans, Statuses, Servers
<1>3. /\ \A t \in Tasks : Rank[srv.tasks[t]] <= Rank[tasks[t]] /\ Rank[tasks[t]] <= Rank[tasks[t]]
      /\ \A t \in Tasks : tasks[t] = "completed" => srv.tasks[t] = "completed"
  <2> SUFFICES ASSUME NEW t \in Tasks
               PROVE  /\ Rank[srv.tasks[t]] <= Rank[tasks[t]] /\ Rank[tasks[t]] <= Rank[tasks[t]]
                      /\ tasks[t] = "completed" => srv.tasks[t] = "completed"
    OBVIOUS
  <2>1. srv.tasks[t] \in Statuses /\ tasks[t] \in Statuses
    BY <1>1, <1>2 DEF Plans, Servers
  <2>2. Rank[srv.tasks[t]] \in 0..3 /\ Rank[tasks[t]] \in 0..3
    BY <2>1, RankOf
  <2>3. CASE srv.tasks = NoPlan
    <3>1. srv.tasks[t] = "absent" /\ tasks[t] = "pending"
      BY <2>3 DEF NoPlan
    <3> QED BY <2>2, <3>1, RankOf
  <2>4. CASE srv.tasks # NoPlan
    BY <2>2, <2>4
  <2> QED BY <2>3, <2>4
<1> HIDE DEF tasks
<1>4. got \in Replies /\ got.tasks = tasks /\ got.answered = {}
  BY <1>2 DEF NoReply, Replies
<1> HIDE DEF got
<1>5. ServerStep(c) /\ srv'.tasks = tasks
  BY <1>1, <1>2, <1>3, TasksStep
<1>6. PICK d : Turned(c, d, "ok", c.att, got) /\ Handled(c, d) /\ UNCHANGED ui
  BY <1>1, <1>4, ReplyHandles
<1>7. Tells(d, srv') /\ Moves(c, d)
  BY <1>1, <1>3, <1>4, <1>5, <1>6 DEF Tells, Moves, Midway, Turned, Same
<1> QED BY <1>5, <1>6, <1>7 DEF Served

(* A start, or another write, goes on to its next statement.                *)
LEMMA OnServes ==
  ASSUME Typed, NEW c \in calls, NEW step \in Steps, NEW att \in Attempts \cup {0},
         Goes(c, step, att, NoReply), InServer(c), step # "failed",
         c.op \in {"start", "save", "submit"}, c.op \in OfAttempt => att = c.att,
         c.op = "start" /\ step \in {"made", "ok"} => att \in Attempts,
         step = "ok" => c.op = "start" /\ Kinds[c.arg] = "test", step # "locked", ServerStep(c),
         c.op = "start" => Midway(c) \/ srv'.tasks[c.arg] # "completed"
  PROVE  Served(c)
<1>1. NoReply \in Replies /\ c.op \in Writes
  BY NewTypes DEF Writes
<1>2. PICK d : Turned(c, d, step, att, NoReply) /\ Handled(c, d)
  BY <1>1, GoesHandles
<1>3. Tells(d, srv')
  BY <1>2, TurnedTells DEF ServerStep
<1>4. Moves(c, d)
  BY <1>2 DEF Moves, Turned, Same, Midway
<1>5. UNCHANGED ui
  BY DEF Goes
<1> QED BY <1>2, <1>3, <1>4, <1>5 DEF Served

LEMMA ReadTaskServes ==
  ASSUME Typed, NEW c \in calls, ReadTask(c)
  PROVE  Served(c)
<1>1. CASE srv.tasks[c.arg] = "completed"
  BY <1>1, RefuseServes DEF ReadTask
<1>2. CASE srv.tasks[c.arg] # "completed"
  <2>1. /\ Goes(c, "read", 0, NoReply) /\ srv' = srv /\ c.op = "start" /\ c.step = "sent"
        /\ "read" \in Steps
    BY <1>2 DEF ReadTask, At, Steps
  <2> QED BY <1>2, <2>1, SameServer, OnServes DEF InServer, OfAttempt
<1> QED BY <1>1, <1>2

LEMMA FindAttemptServes ==
  ASSUME Typed, NEW c \in calls, FindAttempt(c)
  PROVE  Served(c)
<1>1. /\ srv' = srv /\ c.op = "start" /\ c.step = "read" /\ Kinds[c.arg] = "test"
      /\ Goes(c, "unfound", 0, NoReply) \/ \E a \in Attempts : Goes(c, "ok", a, NoReply)
      /\ {"unfound", "ok"} \subseteq Steps
  BY DEF FindAttempt, At, Steps
<1> QED BY <1>1, SameServer, OnServes DEF InServer, OfAttempt, Midway

LEMMA CreateAttemptServes ==
  ASSUME Typed, NEW c \in calls, CreateAttempt(c)
  PROVE  Served(c)
<1>1. PICK a \in Attempts :
        /\ srv.attempts[a] = "absent" /\ srv' = [srv EXCEPT !.attempts[a] = "open"]
        /\ Goes(c, "made", a, NoReply)
  BY DEF CreateAttempt
<1>2. c.op = "start" /\ c.step = "unfound" /\ "made" \in Steps /\ srv \in Servers
  BY DEF CreateAttempt, At, Steps, Typed
<1>3. /\ srv' \in Servers /\ srv'.tasks = srv.tasks /\ srv'.late = srv.late
      /\ srv'.stored = srv.stored /\ srv'.reviewed = srv.reviewed
      /\ srv'.attempts = [srv.attempts EXCEPT ![a] = "open"]
  BY <1>1, <1>2 DEF Servers
<1>4. \A b \in Attempts : srv'.attempts[b] = "submitted" <=> srv.attempts[b] = "submitted"
  BY <1>1, <1>2, <1>3 DEF Servers
<1>5. \A t \in Tasks : Rank[srv.tasks[t]] \in 0..3
  BY <1>2, RankOf DEF Servers, Plans
<1>6. ServerStep(c)
  BY <1>3, <1>4, <1>5 DEF ServerStep, Grows, TasksKept, AttemptsKept, StoredKept
<1> QED BY <1>1, <1>2, <1>6, OnServes DEF InServer, OfAttempt, Midway

(* The task may be finished by now: then it is among the late ones.         *)
LEMMA SetInProgressServes ==
  ASSUME Typed, StartsAreLate, NEW c \in calls, SetInProgress(c)
  PROVE  Served(c)
<1> DEFINE tasks == [srv.tasks EXCEPT ![c.arg] = "in_progress"]
<1>1. /\ srv' = [srv EXCEPT !.tasks = tasks] /\ Reply(c, "ok", NoReply) /\ c.op = "start"
      /\ c.step = IF Kinds[c.arg] = "test" THEN "made" ELSE "read"
      /\ srv \in Servers /\ c.arg \in Tasks
  BY CallFacts DEF SetInProgress, Ok, Typed, Servers, Asks
<1>2. Midway(c)
  BY <1>1 DEF Midway
<1>3. tasks \in Plans /\ srv.tasks \in Plans
  BY <1>1 DEF Plans, Statuses, Servers
<1>4. ASSUME NEW t \in Tasks
      PROVE  /\ t \notin srv.late => Rank[srv.tasks[t]] <= Rank[tasks[t]]
             /\ tasks[t] = "completed" => srv.tasks[t] = "completed"
  <2>1. srv.tasks[t] \in Statuses /\ Rank[srv.tasks[t]] \in 0..3
    BY <1>3, RankOf DEF Plans
  <2>2. CASE t = c.arg
    <3>1. tasks[t] = "in_progress"
      BY <1>3, <2>2 DEF Plans
    <3>2. t \notin srv.late => srv.tasks[t] # "completed"
      BY <1>2, <2>2 DEF StartsAreLate
    <3> QED BY <2>1, <3>1, <3>2, RankOf DEF Statuses
  <2>3. CASE t # c.arg
    <3>1. tasks[t] = srv.tasks[t]
      BY <1>3, <2>3 DEF Plans
    <3> QED BY <2>1, <3>1
  <2> QED BY <2>2, <2>3
<1> HIDE DEF tasks
<1>5. ServerStep(c)
  BY <1>1, <1>3, <1>4, TasksStep
<1>6. Kinds[c.arg] = "test" => c.att \in Attempts
  BY <1>1, CallFacts DEF HasAttempt
<1> QED BY <1>1, <1>5, <1>6, EndServes

LEMMA FinishedStep ==
  ASSUME Typed, NEW c, NEW S \in SUBSET Tasks, srv' = Finished(S)
  PROVE  ServerStep(c)
<1> DEFINE tasks == [t \in Tasks |-> IF t \in S THEN "completed" ELSE srv.tasks[t]]
           late == (srv.late \ S) \cup {t \in S : Starting(t)}
<1>1. srv \in Servers /\ srv' = [srv EXCEPT !.tasks = tasks, !.late = late]
  BY DEF Typed, Finished, Servers
<1>2. tasks \in Plans /\ late \subseteq Tasks
  BY <1>1 DEF Plans, Statuses, Servers
<1>3. \A t \in Tasks : /\ t \in S => tasks[t] = "completed"
                       /\ t \notin S => tasks[t] = srv.tasks[t]
  OBVIOUS
<1>4. \A t \in Tasks : /\ t \in S => (t \in late <=> Starting(t))
                       /\ t \notin S => (t \in late <=> t \in srv.late)
  BY <1>1 DEF Servers
<1> HIDE DEF tasks, late
<1>5. /\ srv' \in Servers /\ srv'.tasks = tasks /\ srv'.late = late
      /\ srv'.attempts = srv.attempts /\ srv'.stored = srv.stored
      /\ srv'.reviewed = srv.reviewed
  BY <1>1, <1>2 DEF Servers
<1>6. \A t \in Tasks : Rank[srv.tasks[t]] \in 0..3
  BY <1>1, RankOf DEF Servers, Plans
<1>7. Grows
  BY <1>3, <1>4, <1>5, <1>6 DEF Grows
<1>8. TasksKept
  BY <1>3, <1>4, <1>5 DEF TasksKept
<1> QED BY <1>5, <1>7, <1>8 DEF ServerStep, AttemptsKept, StoredKept

LEMMA CompleteTaskServes ==
  ASSUME Typed, NEW c \in calls, CompleteTask(c)
  PROVE  Served(c)
<1>1. /\ srv' = Finished({c.arg}) /\ Reply(c, "ok", NoReply) /\ c.op = "complete"
      /\ c.arg \in Tasks
  BY CallFacts DEF CompleteTask, At, Ok, Asks
<1>2. ServerStep(c)
  BY <1>1, FinishedStep
<1> QED BY <1>1, <1>2, EndServes

LEMMA CompleteLinkedServes ==
  ASSUME Typed, NEW c \in calls, CompleteLinked(c)
  PROVE  Served(c)
<1>1. /\ srv' = srv \/ srv' = Finished({t \in Tasks : Kinds[t] = "test"})
      /\ Reply(c, "ok", NoReply) /\ c.op = "submit"
  BY DEF CompleteLinked, At, Ok
<1>2. ServerStep(c)
  BY <1>1, SameServer, FinishedStep
<1> QED BY <1>1, <1>2, EndServes

LEMMA GetAttemptServes ==
  ASSUME Typed, AllTell, NEW c \in calls, GetAttempt(c)
  PROVE  Served(c)
<1>1. srv' = srv /\ c.op = "getAttempt" /\ srv \in Servers /\ c.att \in Attempts /\ InServer(c)
  BY CallFacts DEF GetAttempt, At, HasAttempt, OfAttempt, InServer
<1>2. ServerStep(c) /\ srv.tasks \in Plans
  BY <1>1, SameServer DEF Servers
<1>3. CASE At(c, "getAttempt", "sent")
  <2> DEFINE got == [NoReply EXCEPT !.status = srv.attempts[c.att]]
  <2>1. Goes(c, "read", c.att, got) /\ "read" \in Steps /\ (c.live \/ c.op \in Writes)
    BY <1>3, CallFacts DEF GetAttempt, At, Steps, Pushes
  <2>2. /\ got \in Replies /\ got.tasks = NoReply.tasks /\ got.answered = NoReply.answered
        /\ got.status = srv.attempts[c.att]
    BY <1>1, NewTypes DEF NoReply, Replies, Servers
  <2> HIDE DEF got
  <2>3. PICK d : Turned(c, d, "read", c.att, got) /\ Handled(c, d) /\ UNCHANGED ui
    BY <1>1, <2>1, <2>2, GoesHandles
  <2>4. Tells(d, srv') /\ Moves(c, d)
    BY <1>1, <1>2, <2>2, <2>3, TellsNothing DEF Tells, Moves, Midway, Turned, Same
  <2> QED BY <1>2, <2>3, <2>4 DEF Served
<1>4. CASE At(c, "getAttempt", "read")
  <2> DEFINE answered == {q \in Questions : srv.stored[c.att][q] # 0}
             got == [c.got EXCEPT !.answered = answered]
  <2>1. Reply(c, "ok", got) /\ c.step = "read" /\ c.got \in Replies
    BY <1>4, CallFacts DEF GetAttempt, At
  <2>2. /\ got \in Replies /\ got.tasks = c.got.tasks /\ got.answered = answered
        /\ got.status = c.got.status
    BY <2>1 DEF Replies
  <2> HIDE DEF got
  <2>3. PICK d : Turned(c, d, "ok", c.att, got) /\ Handled(c, d) /\ UNCHANGED ui
    BY <1>1, <2>1, <2>2, ReplyHandles
  <2>4. \A t \in Tasks \ srv.late : Rank[c.got.tasks[t]] <= Rank[srv.tasks[t]]
    BY DEF AllTell, Tells
  <2>5. Tells(d, srv') /\ Moves(c, d)
    BY <1>1, <2>1, <2>2, <2>3, <2>4 DEF Tells, Moves, Midway, Turned, Same
  <2> QED BY <1>2, <2>3, <2>5 DEF Served
<1> QED BY <1>3, <1>4 DEF GetAttempt

LEMMA CheckOpenServes ==
  ASSUME Typed, NEW c \in calls, CheckOpen(c)
  PROVE  Served(c)
<1>1. CASE srv.attempts[c.att] = "open"
  <2>1. /\ Goes(c, "read", c.att, NoReply) /\ srv' = srv /\ c.op = "save" /\ c.step = "sent"
        /\ "read" \in Steps /\ c.att \in Attempts \cup {0}
    BY <1>1, CallFacts DEF CheckOpen, At, Steps
  <2> QED BY <2>1, SameServer, OnServes DEF InServer
<1>2. CASE srv.attempts[c.att] # "open"
  BY <1>2, RefuseServes DEF CheckOpen
<1> QED BY <1>1, <1>2

LEMMA SaveAnswerServes ==
  ASSUME Typed, NEW c \in calls, SaveAnswer(c)
  PROVE  Served(c)
<1> DEFINE stored == [srv.stored EXCEPT ![c.att] = [srv.stored[c.att] EXCEPT ![c.arg] = c.val]]
<1>1. /\ c.op = "save" /\ c.step = "read" /\ c.arg \in Questions /\ c.val \in Values
      /\ c.att \in Attempts /\ srv \in Servers
  BY CallFacts DEF SaveAnswer, At, Asks, HasAttempt, OfAttempt
<1>2. srv' = [srv EXCEPT !.stored = stored] /\ Reply(c, "ok", NoReply)
  BY <1>1 DEF SaveAnswer, Ok, Servers
<1>3. /\ stored \in [Attempts -> [Questions -> Values \cup {0, Blank}]]
      /\ stored[c.att][c.arg] = c.val
      /\ \A a \in Attempts, q \in Questions :
           a # c.att \/ q # c.arg => stored[a][q] = srv.stored[a][q]
  BY <1>1 DEF Servers
<1> HIDE DEF stored
<1>4. /\ srv' \in Servers /\ srv'.tasks = srv.tasks /\ srv'.late = srv.late
      /\ srv'.attempts = srv.attempts /\ srv'.stored = stored /\ srv'.reviewed = srv.reviewed
  BY <1>1, <1>2, <1>3 DEF Servers
<1>5. (\A t \in Tasks : Rank[srv.tasks[t]] \in 0..3) /\ c.val # 0
  BY <1>1, RankOf, NewTypes DEF Servers, Plans
<1>6. Grows
  BY <1>3, <1>4, <1>5 DEF Grows
<1>7. ServerStep(c)
  BY <1>1, <1>3, <1>4, <1>6 DEF ServerStep, TasksKept, AttemptsKept, StoredKept
<1> QED BY <1>1, <1>2, <1>3, <1>4, <1>7, EndServes DEF InServer

LEMMA SubmitServes ==
  ASSUME Typed, NEW c \in calls, Submit(c)
  PROVE  Served(c)
<1>1. /\ c.op = "submit" /\ c.step = "sent" /\ srv' = srv /\ srv \in Servers
      /\ c.att \in Attempts
  BY CallFacts DEF Submit, At, HasAttempt, OfAttempt
<1>2. CASE srv.attempts[c.att] = "submitted"
  <2>1. Reply(c, "ok", NoReply)
    BY <1>2 DEF Submit, Ok
  <2> QED BY <1>1, <2>1, SameServer, EndServes
<1>3. CASE srv.attempts[c.att] # "submitted"
  <2> DEFINE answered == {q \in Questions : srv.stored[c.att][q] # 0}
             got == [NoReply EXCEPT !.answered = answered]
  <2>1. Goes(c, "locked", c.att, got) /\ "locked" \in Steps /\ c.op \in Writes
    BY <1>1, <1>3 DEF Submit, Steps, Writes
  <2>2. got \in Replies /\ got.tasks = NoReply.tasks /\ got.answered = answered
    BY NewTypes DEF NoReply, Replies
  <2> HIDE DEF got
  <2>3. PICK d : Turned(c, d, "locked", c.att, got) /\ Handled(c, d) /\ UNCHANGED ui
    BY <1>1, <2>1, <2>2, GoesHandles DEF InServer
  <2>4. srv.tasks \in Plans /\ ServerStep(c)
    BY <1>1, SameServer DEF Servers
  <2>5. Tells(d, srv')
    BY <1>1, <2>2, <2>3, <2>4, TellsNothing DEF Tells, Turned, Same
  <2>6. Moves(c, d)
    BY <1>1, <2>2, <2>3 DEF Moves, Midway, Turned, Same
  <2> QED BY <2>3, <2>4, <2>5, <2>6 DEF Served
<1> QED BY <1>2, <1>3

LEMMA CommitServes ==
  ASSUME Typed, NEW c \in calls, Commit(c)
  PROVE  Served(c)
<1> DEFINE row == [q \in Questions |->
                     IF q \in c.got.answered THEN srv.stored[c.att][q] ELSE Blank]
           stored == [srv.stored EXCEPT ![c.att] = row]
           attempts == [srv.attempts EXCEPT ![c.att] = "submitted"]
<1>1. /\ c.op = "submit" /\ c.step = "locked" /\ srv \in Servers /\ c.att \in Attempts
      /\ Goes(c, "committed", c.att, NoReply) /\ "committed" \in Steps
  BY CallFacts DEF Commit, At, HasAttempt, OfAttempt, Steps
<1>2. srv' = [srv EXCEPT !.attempts = attempts, !.stored = stored]
  BY <1>1 DEF Commit, Servers
<1>3. /\ stored \in [Attempts -> [Questions -> Values \cup {0, Blank}]]
      /\ \A a \in Attempts, q \in Questions :
           a # c.att \/ q \in c.got.answered => stored[a][q] = srv.stored[a][q]
      /\ \A q \in Questions : q \notin c.got.answered => stored[c.att][q] = Blank
      /\ \A a \in Attempts, q \in Questions : stored[a][q] \in {srv.stored[a][q], Blank}
  BY <1>1 DEF Servers
<1>4. /\ attempts \in [Attempts -> {"absent", "open", "submitted"}]
      /\ attempts[c.att] = "submitted"
      /\ \A a \in Attempts : a # c.att => attempts[a] = srv.attempts[a]
  BY <1>1 DEF Servers
<1> HIDE DEF row, stored, attempts
<1>5. /\ srv' \in Servers /\ srv'.tasks = srv.tasks /\ srv'.late = srv.late
      /\ srv'.attempts = attempts /\ srv'.stored = stored /\ srv'.reviewed = srv.reviewed
  BY <1>1, <1>2, <1>3, <1>4 DEF Servers
<1>6. (\A t \in Tasks : Rank[srv.tasks[t]] \in 0..3) /\ Blank # 0
  BY <1>1, RankOf, NewTypes DEF Servers, Plans
<1>7. Grows
  BY <1>3, <1>4, <1>5, <1>6 DEF Grows
<1>8. AttemptsKept(c) /\ StoredKept(c) /\ TasksKept
  BY <1>1, <1>3, <1>4, <1>5 DEF AttemptsKept, StoredKept, TasksKept, At
<1> QED BY <1>1, <1>5, <1>7, <1>8, OnServes DEF ServerStep, InServer

LEMMA GetResultServes ==
  ASSUME Typed, NEW c \in calls, GetResult(c)
  PROVE  Served(c)
<1>1. CASE srv.attempts[c.att] = "submitted"
  <2>1. c.op = "getResult" /\ srv' = srv /\ Reply(c, "ok", NoReply)
    BY <1>1 DEF GetResult, At, Ok
  <2> QED BY <1>1, <2>1, SameServer, EndServes
<1>2. CASE srv.attempts[c.att] # "submitted"
  BY <1>2, RefuseServes DEF GetResult
<1> QED BY <1>1, <1>2

LEMMA DueMistakesServes ==
  ASSUME Typed, NEW c \in calls, DueMistakes(c)
  PROVE  Served(c)
<1> DEFINE due == Mistakes \ srv.reviewed
           got == [NoReply EXCEPT !.due = due]
<1>1. srv' = srv /\ Reply(c, "ok", got) /\ c.op = "due" /\ srv \in Servers
  BY DEF DueMistakes, At, Typed
<1>2. got \in Replies /\ got.tasks = NoReply.tasks /\ got.due = due
  BY NewTypes DEF NoReply, Replies
<1> HIDE DEF got
<1>3. PICK d : Turned(c, d, "ok", c.att, got) /\ Handled(c, d) /\ UNCHANGED ui
  BY <1>1, <1>2, ReplyHandles
<1>4. ServerStep(c) /\ srv.tasks \in Plans
  BY <1>1, SameServer DEF Servers
<1>5. Tells(d, srv') /\ Moves(c, d)
  BY <1>1, <1>2, <1>3, <1>4, TellsNothing DEF Tells, Moves, Midway, Turned, Same
<1> QED BY <1>3, <1>4, <1>5 DEF Served

LEMMA ReviewMistakeServes ==
  ASSUME Typed, NEW c \in calls, ReviewMistake(c)
  PROVE  Served(c)
<1> DEFINE reviewed == srv.reviewed \cup {c.arg}
<1>1. /\ c.op = "review" /\ c.arg \in Mistakes /\ srv \in Servers
      /\ srv' = [srv EXCEPT !.reviewed = reviewed] /\ Reply(c, "ok", NoReply)
  BY CallFacts DEF ReviewMistake, At, Asks, Ok
<1>2. reviewed \subseteq Mistakes /\ srv.reviewed \subseteq reviewed /\ c.arg \in reviewed
  BY <1>1 DEF Servers
<1> HIDE DEF reviewed
<1>3. /\ srv' \in Servers /\ srv'.tasks = srv.tasks /\ srv'.late = srv.late
      /\ srv'.attempts = srv.attempts /\ srv'.stored = srv.stored /\ srv'.reviewed = reviewed
  BY <1>1, <1>2 DEF Servers
<1>4. \A t \in Tasks : Rank[srv.tasks[t]] \in 0..3
  BY <1>1, RankOf DEF Servers, Plans
<1>5. ServerStep(c)
  BY <1>2, <1>3, <1>4 DEF ServerStep, Grows, TasksKept, AttemptsKept, StoredKept
<1> QED BY <1>1, <1>2, <1>3, <1>5, EndServes

(* Whatever the server does with a call, and whatever fails.                *)
LEMMA Serves ==
  ASSUME Typed, AllTell, StartsAreLate, NEW c \in calls, Serve(c) \/ Fail(c)
  PROVE  Served(c)
<1>1. CASE Serve(c)
  BY <1>1, GetTodayServes, GenerateServes, ReadTaskServes, FindAttemptServes,
     CreateAttemptServes, SetInProgressServes, CompleteTaskServes, CompleteLinkedServes,
     GetAttemptServes, CheckOpenServes, SaveAnswerServes, SubmitServes, CommitServes,
     GetResultServes, DueMistakesServes, ReviewMistakeServes DEF Serve, StartTask
<1>2. CASE Fail(c)
  BY <1>2, RefuseServes DEF Fail, Refuse
<1> QED BY <1>1, <1>2

-----------------------------------------------------------------------------
(* The calls. *)

CallsOk == AllTell /\ StartsAreLate /\ \A c \in calls : CallOk(c)

LEMMA FreshOk ==
  ASSUME NEW d, NEW p, NEW a, Fresh(d, p, a), OfRoute(p, a), srv \in Servers,
         d.op \in OfAttempt => p \in {"quiz", "results"}
  PROVE  /\ Asks(d) /\ HasAttempt(d) /\ Matters(d) /\ OfPage(d, p, a) /\ Tells(d, srv)
         /\ ~Midway(d)
<1>1. srv.tasks \in Plans /\ d.got = NoReply /\ d.step = "sent"
  BY DEF Servers, Fresh
<1>2. Tells(d, srv)
  BY <1>1, TellsNothing DEF Tells
<1> QED BY <1>1, <1>2 DEF Fresh, HasAttempt, Matters, OfPage, OfRoute, Midway

LEMMA RouteOps ==
  ASSUME NEW c, Asks(c), c.op \in OfAttempt
  PROVE  c.from \in {"quiz", "results"}
BY DEF Asks, OfAttempt

(* A reply stays true while the server only grows.                          *)
LEMMA TellsStill ==
  ASSUME Typed, NEW c \in calls, srv' \in Servers, Grows, Tells(c, srv)
  PROVE  Tells(c, srv')
<1>1. /\ srv \in Servers /\ c.got \in Replies /\ HasAttempt(c) /\ Asks(c)
  BY CallFacts
<1>2. ASSUME NEW t \in Tasks \ srv'.late PROVE Rank[c.got.tasks[t]] <= Rank[srv'.tasks[t]]
  <2>1. c.got.tasks[t] \in Statuses /\ srv.tasks[t] \in Statuses /\ srv'.tasks[t] \in Statuses
    BY <1>1 DEF Replies, Servers, Plans
  <2>2. Rank[c.got.tasks[t]] \in 0..3 /\ Rank[srv.tasks[t]] \in 0..3 /\ Rank[srv'.tasks[t]] \in 0..3
    BY <2>1, RankOf
  <2>3. CASE srv'.tasks[t] = "completed"
    BY <2>2, <2>3, RankOf
  <2>4. CASE t \notin srv.late /\ Rank[srv.tasks[t]] <= Rank[srv'.tasks[t]]
    BY <2>2, <2>4 DEF Tells
  <2> QED BY <2>3, <2>4 DEF Grows
<1>3. c.op = "getAttempt" => \A q \in c.got.answered : srv'.stored[c.att][q] # 0
  BY <1>1 DEF Tells, Grows, HasAttempt, OfAttempt, Replies
<1>4. c.op = "getResult" /\ c.step = "ok" => srv'.attempts[c.att] = "submitted"
  BY <1>1 DEF Tells, Grows, HasAttempt, OfAttempt
<1> QED BY <1>2, <1>3, <1>4 DEF Tells, Grows

(* A page sends a call, and takes others away.                              *)
LEMMA SendKeeps ==
  ASSUME Typed, AllTell, StartsAreLate, page' = page, path' = path, srv' = srv,
         NEW d, Fresh(d, page, path), calls' \subseteq calls \cup {d}
  PROVE  CallsOk'
<1>1. /\ Asks(d) /\ HasAttempt(d) /\ Matters(d) /\ OfPage(d, page, path) /\ Tells(d, srv)
      /\ ~Midway(d) /\ IsCall(d)
  BY FreshOk, RouteOps DEF Typed, Fresh
<1>2. \A c \in calls' : /\ IsCall(c) /\ Asks(c) /\ HasAttempt(c) /\ Matters(c)
                        /\ OfPage(c, page, path) /\ Tells(c, srv)
                        /\ Midway(c) => c \in calls
  BY <1>1 DEF Typed, AllTell, CallOk
<1> QED BY <1>2 DEF CallsOk, AllTell, CallOk, StartsAreLate

LEMMA TakeKeeps ==
  ASSUME Typed, AllTell, StartsAreLate, page' = page, path' = path, srv' = srv,
         calls' \subseteq calls
  PROVE  CallsOk'
BY DEF CallsOk, AllTell, Typed, CallOk, StartsAreLate

LEMMA ServeKeeps ==
  ASSUME Typed, AllTell, StartsAreLate, NEW c \in calls, Served(c)
  PROVE  CallsOk'
<1>1. /\ srv \in Servers /\ srv' \in Servers /\ Grows /\ TasksKept
      /\ page' = page /\ path' = path
  BY DEF Served, ServerStep, ui, Typed
<1>2. PICK d : Handled(c, d) /\ Tells(d, srv') /\ Moves(c, d)
  BY DEF Served
<1>3. Asks(c) /\ OfPage(c, page, path)
  BY CallFacts
<1>4. ASSUME NEW e \in calls'
      PROVE  /\ IsCall(e) /\ Asks(e) /\ HasAttempt(e) /\ Matters(e) /\ OfPage(e, page, path)
             /\ Tells(e, srv')
  <2>1. CASE e \in calls
    BY <1>1, <2>1, TellsStill DEF Typed, CallOk, AllTell
  <2>2. CASE e = d /\ e \notin calls
    <3>1. Asks(d)
      BY <1>2, <1>3 DEF Handled, Same, Asks
    <3>2. OfPage(d, page, path)
      BY <1>2, <1>3 DEF Handled, Same, OfPage
    <3> QED BY <1>2, <2>2, <3>1, <3>2 DEF Handled
  <2> QED BY <1>2, <2>1, <2>2 DEF Handled
<1>5. ASSUME NEW e \in calls', Midway(e), srv'.tasks[e.arg] = "completed"
      PROVE  e.arg \in srv'.late
  <2>1. PICK f \in calls : Midway(f) /\ f.arg = e.arg
    BY <1>2, <1>5 DEF Handled, Moves, Same
  <2>2. f.arg \in Tasks /\ Starting(f.arg)
    BY <2>1, CallFacts DEF Midway, Starting, Asks
  <2> QED BY <1>1, <1>5, <2>1, <2>2 DEF TasksKept, StartsAreLate
<1> QED BY <1>1, <1>4, <1>5 DEF CallsOk, AllTell, CallOk, StartsAreLate, Midway

(* A live call stays, or its reply comes.                                   *)
Outlives(ops) ==
  \A c \in calls : c.live /\ c.op \in ops =>
    \E d \in calls' : d.live /\ d.op = c.op /\ d.arg = c.arg

LEMMA OutlivesAwaited ==
  ASSUME NEW ops, Outlives(ops), NEW some \in SUBSET ops, NEW arg, Awaited(some, arg)
  PROVE  \E d \in calls' : d.live /\ d.op \in some /\ d.arg = arg
BY DEF Outlives, Awaited

LEMMA ServeOutlives ==
  ASSUME NEW c \in calls, Served(c), NEW ops
  PROVE  Outlives(ops)
<1>1. PICK d : Handled(c, d)
  BY DEF Served
<1> QED BY <1>1 DEF Outlives, Handled, Same

LEMMA ServeBlanks ==
  ASSUME Typed, OpenHasNoBlank, NEW c \in calls, Served(c)
  PROVE  OpenHasNoBlank'
<1>1. AttemptsKept(c) /\ StoredKept(c) /\ Grows
  BY DEF Served, ServerStep
<1>2. c.op = "save" => c.val # Blank
  BY CallFacts, NewTypes DEF Asks
<1> QED BY <1>1, <1>2 DEF OpenHasNoBlank, AttemptsKept, StoredKept, Grows

-----------------------------------------------------------------------------
(* Pages that a step leaves as they are. *)

BoardOps == {"dashLoad", "generate", "start", "complete"}
QuizOps == {"submit", "save"}

LEMMA RankGrows ==
  ASSUME NEW s \in Plans, srv \in Servers, srv' \in Servers, Grows,
         \A t \in Tasks \ srv.late : Rank[s[t]] <= Rank[srv.tasks[t]]
  PROVE  \A t \in Tasks \ srv'.late : Rank[s[t]] <= Rank[srv'.tasks[t]]
<1> SUFFICES ASSUME NEW t \in Tasks \ srv'.late PROVE Rank[s[t]] <= Rank[srv'.tasks[t]]
  OBVIOUS
<1>1. s[t] \in Statuses /\ srv.tasks[t] \in Statuses /\ srv'.tasks[t] \in Statuses
  BY DEF Servers, Plans
<1>2. Rank[s[t]] \in 0..3 /\ Rank[srv.tasks[t]] \in 0..3 /\ Rank[srv'.tasks[t]] \in 0..3
  BY <1>1, RankOf
<1>3. CASE srv'.tasks[t] = "completed"
  BY <1>2, <1>3, RankOf
<1>4. CASE t \notin srv.late /\ Rank[srv.tasks[t]] <= Rank[srv'.tasks[t]]
  BY <1>2, <1>4
<1> QED BY <1>3, <1>4 DEF Grows

LEMMA BoardStays ==
  ASSUME Typed, BoardInv, srv' \in Servers, Grows, board' = board, page' = page,
         Outlives(BoardOps)
  PROVE  BoardInv'
<1>1. \A t \in Tasks \ srv'.late : Rank[board'.tasks[t]] <= Rank[srv'.tasks[t]]
  BY RankGrows DEF Typed, Boards, BoardInv
<1>2. \A some \in SUBSET BoardOps : \A arg : Awaited(some, arg) => Awaited(some, arg)'
  BY OutlivesAwaited DEF Awaited
<1>3. {"dashLoad"} \in SUBSET BoardOps /\ {"generate"} \in SUBSET BoardOps
      /\ {"start", "complete"} \in SUBSET BoardOps
  BY DEF BoardOps
<1> QED BY <1>1, <1>2, <1>3 DEF BoardInv

LEMMA ReviewStays ==
  ASSUME Typed, ReviewInv, Grows, review' = review, Outlives({"review"})
  PROVE  ReviewInv'
<1>1. \A arg : Awaited({"review"}, arg) => Awaited({"review"}, arg)'
  BY OutlivesAwaited DEF Awaited
<1> QED BY <1>1 DEF ReviewInv, Grows

LEMMA ReportStays ==
  ASSUME Typed, ReportInv, Grows, report' = report, path' = path
  PROVE  ReportInv'
<1>1. report = "shown" => path \in Attempts
  BY DEF Typed, Unmounted, OfRoute
<1> QED BY <1>1 DEF ReportInv, Grows

LEMMA QuizWaits ==
  ASSUME QuizInv, quiz' = quiz, Outlives(QuizOps)
  PROVE  /\ quiz'.submitting => Awaited({"submit"}, 0)'
         /\ \A q \in quiz'.saving : Awaited({"save"}, q)'
<1>1. \A some \in SUBSET QuizOps : \A arg : Awaited(some, arg) => Awaited(some, arg)'
  BY OutlivesAwaited DEF Awaited
<1>2. {"submit"} \in SUBSET QuizOps /\ {"save"} \in SUBSET QuizOps
  BY DEF QuizOps
<1> QED BY <1>1, <1>2 DEF QuizInv

(* A step of the pages, with no new call of the quiz.                       *)
QuizCallOps == {"submit", "save", "getAttempt"}
LEMMA QuizStays ==
  ASSUME QuizInv, srv' = srv, quiz' = quiz, page' = page, path' = path, Outlives(QuizOps),
         \A c \in calls' : c.op \in QuizCallOps => c \in calls
  PROVE  QuizInv'
<1>1. Submits(calls', path) => Submits(calls, path)
  BY DEF Submits, QuizCallOps
<1>2. \A q : Held(q) => Held(q)'
  BY DEF Held, Locked, QuizCallOps
<1>3. \A q \in Questions : SaveOf(q)'
  BY <1>2 DEF QuizInv, SaveOf, IsSave, QuizCallOps
<1>4. \A c \in calls' : c.live => QuizCall(c)'
  BY <1>1, <1>2 DEF QuizInv, QuizCall, QuizCallOps
<1>5. \A c, d \in calls' : Loading(c) /\ Loading(d) => c = d
  BY DEF QuizInv, Loading, QuizCallOps
<1> QED BY <1>1, <1>2, <1>3, <1>4, <1>5, QuizWaits DEF QuizInv

(* A step changes what one page holds: what is left to show for the rest.   *)
LEMMA BoardStep ==
  ASSUME IInv, page' = page, path' = path, srv' = srv, UNCHANGED <<quiz, review, report>>,
         CallsOk', board' \in Boards, page \notin {"today", "dashboard"} => board' = NewBoard,
         BoardInv', Outlives(QuizOps), Outlives({"review"}),
         \A c \in calls' : c.op \in QuizCallOps => c \in calls
  PROVE  IInv'
<1>1. Grows /\ srv' \in Servers
  BY SameServer DEF IInv, ServerStep
<1>2. Typed' /\ AllTell' /\ StartsAreLate' /\ OpenHasNoBlank'
  BY <1>1 DEF IInv, Typed, Unmounted, CallsOk, OpenHasNoBlank
<1>3. QuizInv' /\ ReviewInv' /\ ReportInv'
  BY <1>1, QuizStays, ReviewStays, ReportStays DEF IInv
<1> QED BY <1>1, <1>2, <1>3 DEF IInv

LEMMA QuizStep ==
  ASSUME IInv, page' = page, path' = path, srv' = srv, UNCHANGED <<board, review, report>>,
         CallsOk', quiz' \in Quizzes, page # "quiz" => quiz' = NewQuiz,
         QuizInv', Outlives(BoardOps), Outlives({"review"})
  PROVE  IInv'
<1>1. Grows /\ srv' \in Servers
  BY SameServer DEF IInv, ServerStep
<1>2. Typed' /\ AllTell' /\ StartsAreLate' /\ OpenHasNoBlank'
  BY <1>1 DEF IInv, Typed, Unmounted, CallsOk, OpenHasNoBlank
<1>3. BoardInv' /\ ReviewInv' /\ ReportInv'
  BY <1>1, BoardStays, ReviewStays, ReportStays DEF IInv
<1> QED BY <1>1, <1>2, <1>3 DEF IInv

LEMMA ReviewStep ==
  ASSUME IInv, page' = page, path' = path, srv' = srv, UNCHANGED <<board, quiz, report>>,
         CallsOk', review' \in Reviews, page # "review" => review' = NewReview,
         ReviewInv', Outlives(BoardOps), Outlives(QuizOps),
         \A c \in calls' : c.op \in QuizCallOps => c \in calls
  PROVE  IInv'
<1>1. Grows /\ srv' \in Servers
  BY SameServer DEF IInv, ServerStep
<1>2. Typed' /\ AllTell' /\ StartsAreLate' /\ OpenHasNoBlank'
  BY <1>1 DEF IInv, Typed, Unmounted, CallsOk, OpenHasNoBlank
<1>3. BoardInv' /\ QuizInv' /\ ReportInv'
  BY <1>1, BoardStays, QuizStays, ReportStays DEF IInv
<1> QED BY <1>1, <1>2, <1>3 DEF IInv

(* A call that was taken is not missed by those who wait for others.        *)
LEMMA TakenOutlives ==
  ASSUME NEW c, calls \ {c} \subseteq calls', NEW ops, c.live => c.op \notin ops
  PROVE  Outlives(ops)
BY DEF Outlives

LEMMA SentOutlives ==
  ASSUME calls \subseteq calls', NEW ops
  PROVE  Outlives(ops)
BY DEF Outlives

-----------------------------------------------------------------------------
(* The router. *)

LEMMA GoStays ==
  ASSUME IInv, srv' = srv, UNCHANGED ui, NEW c, calls' = calls \ {c}, ~c.live
  PROVE  IInv'
<1>1. /\ page' = page /\ path' = path /\ board' = board /\ quiz' = quiz /\ review' = review
      /\ report' = report
  BY DEF ui
<1>2. \A ops : Outlives(ops)
  BY TakenOutlives
<1>3. CallsOk'
  BY <1>1, TakeKeeps DEF IInv
<1>4. BoardInv'
  BY <1>1, <1>2, SameServer, BoardStays DEF IInv, ServerStep
<1>5. board \in Boards /\ (page \notin {"today", "dashboard"} => board = NewBoard)
  BY DEF IInv, Typed, Unmounted
<1> QED BY <1>1, <1>2, <1>3, <1>4, <1>5, BoardStep

(* A call of a page that is left says no less of the server.                *)
LEMMA LeftOk ==
  ASSUME IInv, NEW c \in calls, NEW d, d = [c EXCEPT !.live = FALSE]
  PROVE  /\ IsCall(d) /\ Asks(d) /\ HasAttempt(d) /\ ~d.live /\ Tells(d, srv)
         /\ d.op = c.op /\ d.arg = c.arg /\ d.att = c.att /\ d.step = c.step
<1>1. IsCall(c) /\ Asks(c) /\ HasAttempt(c) /\ Tells(c, srv)
  BY CallFacts DEF IInv, AllTell
<1>2. /\ IsCall(d) /\ d.op = c.op /\ d.arg = c.arg /\ d.val = c.val /\ d.att = c.att
      /\ d.from = c.from /\ ~d.live /\ d.step = c.step /\ d.got = c.got
  BY <1>1, LeftIs
<1>3. Asks(d)
  BY <1>1, <1>2 DEF Asks
<1>4. HasAttempt(d) /\ Tells(d, srv)
  BY <1>1, <1>2 DEF HasAttempt, Tells
<1> QED BY <1>2, <1>3, <1>4

LEMMA GoMounts ==
  ASSUME IInv, srv' = srv, NEW p \in Pages, NEW a, OfRoute(p, a), ~(p = page /\ a = path),
         NEW cs, cs \subseteq calls, Go(p, a, cs)
  PROVE  IInv'
<1> DEFINE left == Kept({[c EXCEPT !.live = FALSE] : c \in cs})
           first == Numbered(FirstLoad(p, a), left)
<1>1. /\ page' = p /\ path' = a /\ board' = NewBoard /\ quiz' = Mounted(p, a, cs)
      /\ review' = NewReview /\ report' = "loading"
      /\ calls' = left \cup {first}
      /\ \A d \in left : Matters(d) /\ \E c \in cs : d = [c EXCEPT !.live = FALSE]
  BY DEF Go, Leaving, Kept
<1> HIDE DEF left
<1>2. /\ Fresh(first, p, a) /\ first.arg = 0 /\ first.op \notin Writes
      /\ p = "dashboard" => first.op = "dashLoad"
      /\ first.op \in OfAttempt => p \in {"quiz", "results"}
      /\ first.op = LoadOf(p)
  BY FirstLoadIs DEF IInv
<1> HIDE DEF first
<1>3. Grows /\ srv' \in Servers /\ srv \in Servers
  BY SameServer DEF IInv, Typed, ServerStep
<1>4. ASSUME NEW d \in left
      PROVE  /\ IsCall(d) /\ Asks(d) /\ HasAttempt(d) /\ Matters(d) /\ ~d.live
             /\ Tells(d, srv)
             /\ \E c \in cs : d.op = c.op /\ d.arg = c.arg /\ d.att = c.att /\ d.step = c.step
  BY <1>1, LeftOk
<1>5. /\ IsCall(first) /\ Asks(first) /\ HasAttempt(first) /\ Matters(first)
      /\ OfPage(first, p, a) /\ Tells(first, srv) /\ ~Midway(first)
  BY <1>2, <1>3, FreshOk DEF Fresh
<1>6. \A d \in calls' : IsCall(d) /\ Asks(d) /\ HasAttempt(d) /\ Matters(d)
                        /\ OfPage(d, p, a) /\ Tells(d, srv)
  BY <1>1, <1>4, <1>5 DEF OfPage
<1>7. quiz' \in Quizzes /\ (p # "quiz" => quiz' = NewQuiz)
      /\ quiz'.draft = [q \in Questions |-> 0] /\ quiz'.saving = {} /\ quiz'.saved = {}
      /\ ~quiz'.known /\ ~quiz'.submitting
      /\ quiz'.met = IF p = "quiz" /\ Submits(cs, a) THEN Questions ELSE {}
  BY <1>1 DEF Mounted, NewQuiz, Quizzes
<1>8. Typed' /\ AllTell' /\ OpenHasNoBlank'
  BY <1>1, <1>3, <1>6, <1>7, NewTypes DEF Typed, Unmounted, AllTell, CallOk, OpenHasNoBlank, IInv
<1>9. StartsAreLate'
  <2> SUFFICES ASSUME NEW d \in calls', Midway(d), srv.tasks[d.arg] = "completed"
               PROVE  d.arg \in srv.late
    BY DEF StartsAreLate, Midway
  <2>1. \E c \in calls : Midway(c) /\ c.arg = d.arg
    BY <1>1, <1>4, <1>5 DEF Midway
  <2> QED BY <2>1 DEF IInv, StartsAreLate
<1>10. BoardInv'
  <2>1. NewBoard.tasks = NoPlan /\ ~NewBoard.generating /\ NewBoard.busy = 0
    BY DEF NewBoard
  <2>2. NoReply.tasks = NoPlan /\ srv.tasks \in Plans
    BY <1>3 DEF NoReply, Servers
  <2>3. \A t \in Tasks : Rank[NewBoard.tasks[t]] <= Rank[srv.tasks[t]]
    BY <2>1, <2>2, TellsNothing
  <2>4. p = "dashboard" => Awaited({"dashLoad"}, 0)'
    BY <1>1, <1>2 DEF Awaited, Fresh
  <2> QED BY <1>1, <2>1, <2>3, <2>4 DEF BoardInv
<1>11. QuizInv'
  <2>1. Submits(calls', a) => Submits(cs, a)
    BY <1>1, <1>2, <1>4 DEF Submits, InServer, Writes
  <2>2. \A c \in calls' : c.live => c = first
    BY <1>1, <1>4
  <2>3. ASSUME NEW c, c = first PROVE QuizCall(c)'
    BY <2>3, <1>2, <1>7 DEF QuizCall, Writes, Fresh
  <2>4. \A q \in Questions : SaveOf(q)'
    BY <1>7 DEF SaveOf
  <2>5. \A c, d \in calls' : Loading(c) /\ Loading(d) => c = d
    BY <2>2 DEF Loading
  <2>6. \A c \in calls' : c.live => QuizCall(c)'
    BY <2>2, <2>3
  <2>7. page' = "quiz" /\ Submits(calls', path') => quiz'.met = Questions
    BY <1>1, <1>7, <2>1
  <2> QED BY <1>7, <2>4, <2>5, <2>6, <2>7 DEF QuizInv
<1>12. ReviewInv' /\ ReportInv'
  BY <1>1 DEF ReviewInv, NewReview, ReportInv
<1> QED BY <1>8, <1>9, <1>10, <1>11, <1>12 DEF IInv

LEMMA OpenKeeps ==
  ASSUME IInv, NEW p \in Pages, NEW a \in Attempts \cup {0}, Open(p, a)
  PROVE  IInv'
<1>1. OfRoute(p, a) /\ ~(p = page /\ a = path)
  BY DEF Open, OfRoute
<1> QED BY <1>1, GoMounts DEF Open

(* A call whose reply moves the router is gone, and its page with it.       *)
LEMMA PushKeeps ==
  ASSUME IInv, srv' = srv, NEW c \in calls, NEW p \in Pages, NEW a, OfRoute(p, a),
         Go(p, a, calls \ {c}), p = page /\ a = path => ~c.live
  PROVE  IInv'
<1>1. CASE ~(p = page /\ a = path)
  BY <1>1, GoMounts
<1>2. CASE p = page /\ a = path
  BY <1>2, GoStays DEF Go
<1> QED BY <1>1, <1>2

-----------------------------------------------------------------------------
(* The server, and what can fail: the quiz that is shown. *)

(* The handlers of other calls leave a held answer, and those of its saves  *)
(* leave an answer.                                                         *)
LEMMA HeldKept ==
  ASSUME Typed, NEW c \in calls, ServerStep(c), NEW d, Handled(c, d), Moves(c, d),
         path' = path, path \in Attempts, NEW q \in Questions, Held(q)
  PROVE  /\ Held(q)'
         /\ ~IsSave(c, q) => srv'.stored[path][q] = srv.stored[path][q]
<1>1. /\ srv'.stored[path][q] \in Values
      /\ ~IsSave(c, q) => srv'.stored[path][q] = srv.stored[path][q]
  <2>1. \/ srv'.stored[path][q] = srv.stored[path][q]
        \/ IsSave(c, q) /\ srv'.stored[path][q] = c.val
        \/ Locked(c) /\ q \notin c.got.answered
    BY DEF ServerStep, StoredKept, IsSave, Locked, At
  <2>2. c.op = "save" => c.val \in Values
    BY CallFacts DEF Asks
  <2> QED BY <2>1, <2>2 DEF Held, IsSave
<1>2. ASSUME NEW e \in calls', e.op = "submit", e.att = path, e.step = "locked"
      PROVE  q \in e.got.answered
  <2>1. CASE e \in calls
    BY <1>2, <2>1 DEF Held, Locked
  <2>2. CASE e = d
    <3>1. c.att = path /\ d.got.answered = {x \in Questions : srv.stored[path][x] # 0}
      BY <1>2, <2>2 DEF Handled, Moves, Same, OfAttempt
    <3> QED BY <2>2, <3>1, NewTypes DEF Held
  <2> QED BY <2>1, <2>2 DEF Handled
<1> QED BY <1>1, <1>2 DEF Held, Locked

LEMMA ServeSubmits ==
  ASSUME NEW c \in calls, NEW d, Handled(c, d), NEW a, Submits(calls', a)
  PROVE  Submits(calls, a)
BY DEF Submits, Handled, Same, OfAttempt

LEMMA ServeSaveOf ==
  ASSUME IInv, NEW c \in calls, ServerStep(c), NEW d, Handled(c, d), Moves(c, d),
         path' = path, quiz' = quiz, NEW q \in Questions
  PROVE  SaveOf(q)'
<1> SUFFICES ASSUME quiz.draft[q] # 0, q \notin quiz.raced
             PROVE  /\ \A e \in calls' : IsSave(e, q) =>
                         /\ e.live /\ e.val = quiz.draft[q] /\ q \in quiz.saving
                         /\ e.step = "ok" /\ q \notin quiz.met =>
                              srv'.stored[path][q] = quiz.draft[q]
                         /\ \A f \in calls' : IsSave(f, q) => f = e
                    /\ q \notin quiz.saving \cup quiz.met =>
                         Held(q)' /\ srv'.stored[path][q] = quiz.draft[q]
  BY DEF SaveOf, IsSave
<1>1. path \in Attempts
  BY DEF IInv, Typed, Unmounted, OfRoute, NewQuiz
<1>2. /\ \A e \in calls : IsSave(e, q) =>
           /\ e.live /\ e.val = quiz.draft[q] /\ q \in quiz.saving
           /\ e.step = "ok" /\ q \notin quiz.met => srv.stored[path][q] = quiz.draft[q]
           /\ \A f \in calls : IsSave(f, q) => f = e
      /\ q \notin quiz.saving \cup quiz.met => Held(q) /\ srv.stored[path][q] = quiz.draft[q]
  BY DEF IInv, QuizInv, SaveOf
<1>3. IsSave(d, q) => IsSave(c, q) /\ d.live = c.live /\ d.val = c.val
  BY DEF Handled, Same, IsSave, OfAttempt
<1>4. calls' \subseteq (calls \ {c}) \cup {d}
  BY DEF Handled
<1>5. ASSUME NEW e \in calls', IsSave(e, q), e.step = "ok", q \notin quiz.met
      PROVE  srv'.stored[path][q] = quiz.draft[q]
  <2>1. CASE e \in calls /\ e # c
    <3>1. e.live /\ ~IsSave(c, q) /\ srv.stored[path][q] = quiz.draft[q]
      BY <1>2, <1>5, <2>1
    <3>2. Held(q)
      BY <1>5, <3>1, <2>1 DEF IInv, QuizInv, QuizCall, IsSave
    <3> QED BY <1>1, <3>1, <3>2, HeldKept DEF IInv
  <2>2. CASE e = d
    <3>1. IsSave(c, q) /\ srv'.stored[c.att][c.arg] = c.val
      BY <1>3, <1>5, <2>2 DEF Moves, IsSave
    <3> QED BY <1>2, <3>1 DEF IsSave
  <2> QED BY <1>4, <2>1, <2>2
<1>6. ASSUME q \notin quiz.saving \cup quiz.met
      PROVE  Held(q)' /\ srv'.stored[path][q] = quiz.draft[q]
  <2>1. Held(q) /\ srv.stored[path][q] = quiz.draft[q] /\ ~IsSave(c, q)
    BY <1>2, <1>6
  <2> QED BY <1>1, <2>1, HeldKept DEF IInv
<1> QED BY <1>2, <1>3, <1>4, <1>5, <1>6

LEMMA ServeQuizCall ==
  ASSUME IInv, NEW c \in calls, ServerStep(c), NEW d, Handled(c, d), Moves(c, d),
         path' = path, page' = page, quiz' = quiz, NEW e \in calls', e.live
  PROVE  QuizCall(e)'
<1>1. /\ e.op \in {"save", "getAttempt"} => e.att = path /\ path \in Attempts /\ page = "quiz"
      /\ e.op = "save" => e.arg \in Questions
  <2>1. CASE e \in calls
    BY <2>1, CallFacts DEF IInv, OfPage, OfAttempt, HasAttempt, Asks
  <2>2. CASE e = d
    BY <2>2, CallFacts DEF IInv, OfPage, OfAttempt, HasAttempt, Asks, Handled, Same
  <2> QED BY <2>1, <2>2 DEF Handled
<1>2. Submits(calls', path) => Submits(calls, path)
  BY ServeSubmits
<1>3. ASSUME e.op = "save", e.arg \notin quiz.met
      PROVE  /\ InServer(e) => ~Submits(calls', path)
             /\ e.step = "ok" => Held(e.arg)'
  <2>1. CASE e \in calls
    <3>1. /\ InServer(e) => ~Submits(calls, path)
          /\ e.step = "ok" => Held(e.arg)
      BY <1>3, <2>1 DEF IInv, QuizInv, QuizCall
    <3> QED BY <1>1, <1>2, <1>3, <3>1, HeldKept DEF IInv
  <2>2. CASE e = d
    <3>1. c.op = "save" /\ c.live /\ c.arg = e.arg /\ c.att = path
      BY <1>1, <1>3, <2>2 DEF Handled, Same, OfAttempt
    <3>2. InServer(c) => ~Submits(calls, path)
      BY <1>3, <3>1 DEF IInv, QuizInv, QuizCall
    <3>3. ASSUME e.step = "ok" PROVE Held(e.arg)'
      <4>1. srv'.stored[path][e.arg] = c.val /\ c.val \in Values /\ ~Submits(calls', path)
        BY <1>2, <1>3, <2>2, <3>1, <3>2, <3>3, CallFacts DEF Moves, Asks, IInv
      <4> QED BY <4>1 DEF Held, Locked, Submits, InServer
    <3> QED BY <1>2, <2>2, <3>2, <3>3 DEF Handled
  <2> QED BY <2>1, <2>2 DEF Handled
<1>4. ASSUME e.op = "getAttempt"
      PROVE  /\ ~quiz.known
             /\ e.step \in {"read", "ok"} /\ e.got.status # "submitted"
                /\ quiz.met # Questions => srv'.attempts[path] # "submitted"
  <2>1. PICK f \in calls : /\ f.op = "getAttempt" /\ f.live /\ f.att = path
                           /\ e = f \/ (e = d /\ f = c)
    BY <1>1, <1>4 DEF Handled, Same, OfAttempt
  <2>2. ~quiz.known /\ (quiz.met # Questions => ~Submits(calls, path))
    BY <1>1, <1>4, <2>1 DEF IInv, QuizInv, QuizCall
  <2>3. ASSUME e.step \in {"read", "ok"}, e.got.status # "submitted", quiz.met # Questions
        PROVE  srv'.attempts[path] # "submitted"
    <3>1. srv.attempts[path] # "submitted"
      <4>1. CASE e = f
        BY <2>1, <2>3, <4>1 DEF IInv, QuizInv, QuizCall
      <4>2. CASE e = d /\ f = c
        BY <1>4, <2>1, <2>3, <4>2 DEF IInv, QuizInv, QuizCall, Moves
      <4> QED BY <2>1, <4>1, <4>2
    <3>2. ~(At(c, "submit", "locked") /\ c.att = path)
      BY <2>2, <2>3 DEF Submits, At, InServer
    <3> QED BY <1>1, <1>4, <3>1, <3>2 DEF ServerStep, AttemptsKept
  <2> QED BY <2>2, <2>3
<1> QED BY <1>3, <1>4 DEF QuizCall, Submits

LEMMA ServeQuiz ==
  ASSUME IInv, NEW c \in calls, Served(c)
  PROVE  QuizInv'
<1>1. quiz' = quiz /\ page' = page /\ path' = path /\ ServerStep(c)
  BY DEF Served, ui
<1>2. PICK d : Handled(c, d) /\ Moves(c, d)
  BY DEF Served
<1>3. \A q \in quiz'.saved \ quiz'.met : Held(q)'
  <2> SUFFICES ASSUME NEW q \in quiz.saved \ quiz.met PROVE Held(q)'
    BY <1>1
  <2>1. path \in Attempts /\ q \in Questions /\ Held(q)
    BY DEF IInv, Typed, Unmounted, OfRoute, NewQuiz, Quizzes, QuizInv
  <2> QED BY <1>1, <1>2, <2>1, HeldKept DEF IInv
<1>4. \A q \in Questions : SaveOf(q)'
  BY <1>1, <1>2, ServeSaveOf
<1>5. \A e \in calls' : e.live => QuizCall(e)'
  BY <1>1, <1>2, ServeQuizCall
<1>6. \A e, f \in calls' : Loading(e) /\ Loading(f) => e = f
  BY <1>2 DEF IInv, QuizInv, Loading, Handled, Same
<1>7. page' = "quiz" /\ ~quiz'.known /\ Submits(calls', path') => quiz'.met = Questions
  BY <1>1, <1>2, ServeSubmits DEF IInv, QuizInv
<1>8. Outlives(QuizOps)
  BY ServeOutlives
<1>9. /\ quiz'.submitting => Awaited({"submit"}, 0)'
      /\ \A q \in quiz'.saving : Awaited({"save"}, q)'
  BY <1>1, <1>8, QuizWaits DEF IInv
<1> QED BY <1>3, <1>4, <1>5, <1>6, <1>7, <1>9 DEF QuizInv

LEMMA ServeStep ==
  ASSUME IInv, NEW c \in calls, Serve(c) \/ Fail(c)
  PROVE  IInv'
<1>1. Served(c)
  BY Serves DEF IInv
<1>2. srv' \in Servers /\ Grows /\ UNCHANGED ui
  BY <1>1 DEF Served, ServerStep
<1>3. CallsOk' /\ QuizInv' /\ OpenHasNoBlank'
  BY <1>1, ServeKeeps, ServeQuiz, ServeBlanks DEF IInv
<1>4. Outlives(BoardOps) /\ Outlives({"review"})
  BY <1>1, ServeOutlives
<1>5. BoardInv' /\ ReviewInv' /\ ReportInv'
  BY <1>2, <1>4, BoardStays, ReviewStays, ReportStays DEF IInv, ui
<1>6. Typed'
  BY <1>2, <1>3 DEF IInv, Typed, Unmounted, CallsOk, ui
<1> QED BY <1>3, <1>5, <1>6 DEF IInv, CallsOk

-----------------------------------------------------------------------------
(* What the student does. *)

(* A call is sent: what its page has to show.                               *)
LEMMA Sends ==
  ASSUME IInv, NEW op \in Ops, NEW arg \in Tasks \cup Questions \cup Mistakes \cup {0},
         NEW val \in Values \cup {0}, page' = page, path' = path, srv' = srv, NEW cs,
         NEW d, d = Numbered(Call(op, arg, val), cs), Asks(d), calls' \subseteq calls \cup {d},
         d \in calls', calls \subseteq calls'
  PROVE  /\ CallsOk' /\ d.live /\ d.op = op /\ d.arg = arg /\ d.val = val /\ d.step = "sent"
         /\ d.att = path
         /\ \A ops : Outlives(ops)
<1>1. d.op = op /\ d.arg = arg /\ d.val = val /\ Fresh(d, page, path)
  BY CallIs DEF IInv
<1>2. CallsOk'
  BY <1>1, SendKeeps DEF IInv
<1>3. \A ops : Outlives(ops)
  BY SentOutlives
<1> QED BY <1>1, <1>2, <1>3 DEF Fresh

LEMMA BoardSends ==
  ASSUME IInv, NEW op \in BoardOps, NEW arg \in Tasks \cup {0}, page \in {"today", "dashboard"},
         op \in {"start", "complete"} => arg \in Tasks,
         op \in {"dashLoad", "generate"} => arg = 0,
         op = "dashLoad" => page = "dashboard", op = "complete" => page = "today",
         Send(Call(op, arg, 0)), UNCHANGED <<page, path, quiz, review, report>>,
         board' \in Boards, board'.tasks = board.tasks,
         board'.loading => board.loading \/ op = "dashLoad",
         board'.generating => board.generating \/ op = "generate",
         board'.busy = board.busy \/ (op \in {"start", "complete"} /\ board'.busy = arg)
  PROVE  IInv'
<1>1. PICK d : d = Numbered(Call(op, arg, 0), calls)
  OBVIOUS
<1>2. /\ page' = page /\ path' = path /\ srv' = srv /\ calls' = calls \cup {d} /\ op \in Ops
      /\ op \notin QuizCallOps
  BY <1>1 DEF Send, BoardOps, Ops, QuizCallOps
<1>3. d.op = op /\ d.arg = arg /\ (Asks(d) => d.from = page)
  BY <1>1, <1>2, CallIs DEF IInv, Fresh
<1>4. Asks(d)
  <2>1. d.from = page
    BY <1>1 DEF Numbered, Call
  <2> QED BY <1>3, <2>1 DEF Asks, BoardOps
<1>5. CallsOk' /\ d.live /\ d \in calls' /\ \A ops : Outlives(ops)
  BY <1>1, <1>2, <1>4, Sends
<1>6. \A ops, x : Awaited(ops, x) => Awaited(ops, x)'
  BY <1>2 DEF Awaited
<1>7. BoardInv'
  <2>1. op = "dashLoad" => Awaited({"dashLoad"}, 0)'
    BY <1>3, <1>5 DEF Awaited
  <2>2. op = "generate" => Awaited({"generate"}, 0)'
    BY <1>3, <1>5 DEF Awaited
  <2>3. op \in {"start", "complete"} => Awaited({"start", "complete"}, arg)'
    BY <1>3, <1>5 DEF Awaited
  <2> QED BY <1>2, <1>6, <2>1, <2>2, <2>3 DEF BoardInv, IInv
<1>8. \A c \in calls' : c.op \in QuizCallOps => c \in calls
  BY <1>2, <1>3
<1> QED BY <1>2, <1>5, <1>7, <1>8, BoardStep

LEMMA RefreshKeeps == IInv /\ Refresh => IInv'
<1> SUFFICES ASSUME IInv, Refresh PROVE IInv'
  OBVIOUS
<1>1. board \in Boards
  BY DEF IInv, Typed
<1>2. /\ board' = [board EXCEPT !.loading = TRUE] /\ page = "dashboard"
      /\ Send(Call("dashLoad", 0, 0)) /\ UNCHANGED <<page, path, quiz, review, report>>
  BY DEF Refresh
<1>3. /\ board' \in Boards /\ board'.tasks = board.tasks
      /\ board'.generating = board.generating /\ board'.busy = board.busy
  BY <1>1, <1>2 DEF Boards
<1> QED BY <1>2, <1>3, BoardSends DEF BoardOps

LEMMA PressGenerateKeeps == IInv /\ PressGenerate => IInv'
<1> SUFFICES ASSUME IInv, PressGenerate PROVE IInv'
  OBVIOUS
<1>1. board \in Boards
  BY DEF IInv, Typed
<1>2. /\ board' = [board EXCEPT !.generating = TRUE] /\ page \in {"today", "dashboard"}
      /\ Send(Call("generate", 0, 0)) /\ UNCHANGED <<page, path, quiz, review, report>>
  BY DEF PressGenerate, OnBoard
<1>3. /\ board' \in Boards /\ board'.tasks = board.tasks
      /\ board'.loading = board.loading /\ board'.busy = board.busy
  BY <1>1, <1>2 DEF Boards
<1> QED BY <1>2, <1>3, BoardSends DEF BoardOps

LEMMA PressTaskKeeps ==
  ASSUME IInv, NEW t \in Tasks, PressStart(t) \/ PressComplete(t)
  PROVE  IInv'
<1>1. board \in Boards
  BY DEF IInv, Typed
<1>2. /\ board' = [board EXCEPT !.busy = t] /\ page \in {"today", "dashboard"}
      /\ \/ Send(Call("start", t, 0))
         \/ Send(Call("complete", t, 0)) /\ page = "today"
      /\ UNCHANGED <<page, path, quiz, review, report>>
  BY DEF PressStart, PressComplete, OnBoard
<1>3. /\ board' \in Boards /\ board'.tasks = board.tasks /\ board'.loading = board.loading
      /\ board'.generating = board.generating /\ board'.busy = t
  BY <1>1, <1>2 DEF Boards
<1> QED BY <1>1, <1>2, <1>3, BoardSends DEF BoardOps

(* The quiz sends d, and may have to expect that saves meet a Submit.       *)
LEMMA QuizSends ==
  ASSUME IInv, page = "quiz", quiz.known, page' = page, path' = path, srv' = srv, NEW d,
         calls' = calls \cup {d}, d.live, d.step = "sent", d.op \in {"save", "submit"},
         quiz'.known, quiz'.saved = quiz.saved, quiz.met \subseteq quiz'.met,
         d.op = "save" /\ d.arg \notin quiz'.met => ~Submits(calls, path),
         d.op = "submit" => \A c \in calls : c.live /\ c.op = "save" /\ InServer(c)
                                               => c.arg \in quiz'.met
  PROVE  /\ \A q : Held(q) => Held(q)'
         /\ \A q \in quiz'.saved \ quiz'.met : Held(q)'
         /\ \A c \in calls' : c.live => QuizCall(c)'
         /\ \A c, e \in calls' : Loading(c) /\ Loading(e) => c = e
         /\ \A ops, x : Awaited(ops, x) => Awaited(ops, x)'
<1>1. \A q : Held(q) => Held(q)'
  BY DEF Held, Locked
<1>2. ASSUME NEW c \in calls', c.live PROVE QuizCall(c)'
  <2>1. CASE c = d
    BY <2>1 DEF QuizCall, Submits
  <2>2. CASE c \in calls
    <3>1. QuizCall(c)
      BY <1>2, <2>2 DEF IInv, QuizInv
    <3>2. c.op # "getAttempt"
      BY <3>1 DEF QuizCall
    <3>3. d.op = "save" => (Submits(calls', path) => Submits(calls, path))
      BY DEF Submits
    <3> QED BY <1>1, <1>2, <2>2, <3>1, <3>2, <3>3 DEF QuizCall
  <2> QED BY <2>1, <2>2
<1> QED BY <1>1, <1>2 DEF IInv, QuizInv, Loading, Awaited

LEMMA AnswerKeeps ==
  ASSUME IInv, NEW q \in Questions, NEW v \in Values, Answer(q, v)
  PROVE  IInv'
<1> DEFINE draft == [quiz.draft EXCEPT ![q] = v]
           saving == quiz.saving \cup {q}
           raced == IF SavesOf(q) # {} THEN quiz.raced \cup {q} ELSE quiz.raced
           met == IF Submits(calls, path) THEN quiz.met \cup {q} ELSE quiz.met
<1>1. quiz \in Quizzes
  BY DEF IInv, Typed
<1>2. PICK d : d = Numbered(Call("save", q, v), calls)
  OBVIOUS
<1>3. /\ quiz' = [quiz EXCEPT !.draft = draft, !.saving = saving, !.raced = raced, !.met = met]
      /\ page = "quiz" /\ page' = page /\ path' = path /\ srv' = srv /\ calls' = calls \cup {d}
      /\ UNCHANGED <<board, review, report>> /\ quiz.known
  BY <1>1, <1>2 DEF Answer, Send, Quizzes
<1>4. d.op = "save" /\ d.arg = q /\ d.val = v
  BY <1>2, CallIs DEF IInv, Ops
<1>5. Asks(d)
  <2>1. d.from = page
    BY <1>2 DEF Numbered, Call
  <2> QED BY <1>3, <1>4, <2>1 DEF Asks
<1>6. /\ CallsOk' /\ d.live /\ d.step = "sent" /\ d.att = path /\ d \in calls'
      /\ \A ops : Outlives(ops)
  BY <1>2, <1>3, <1>5, Sends DEF Ops
<1>7. /\ draft \in [Questions -> Values \cup {0}] /\ draft[q] = v
      /\ \A x \in Questions : x # q => draft[x] = quiz.draft[x]
  BY <1>1 DEF Quizzes
<1>8. /\ saving \subseteq Questions /\ raced \subseteq Questions /\ met \subseteq Questions
      /\ \A x \in Questions : x # q => (x \in saving <=> x \in quiz.saving)
                                      /\ (x \in raced <=> x \in quiz.raced)
                                      /\ (x \in met <=> x \in quiz.met)
      /\ q \in saving /\ quiz.met \subseteq met
      /\ q \notin met => ~Submits(calls, path)
      /\ q \notin raced => \A c \in calls : ~IsSave(c, q)
  BY <1>1 DEF Quizzes, SavesOf, IsSave
<1> HIDE DEF draft, saving, raced, met
<1>9. /\ quiz' \in Quizzes /\ quiz'.draft = draft /\ quiz'.saving = saving /\ quiz'.raced = raced
      /\ quiz'.met = met /\ quiz'.saved = quiz.saved /\ quiz'.submitting = quiz.submitting
      /\ quiz'.known = quiz.known
  BY <1>1, <1>3, <1>7, <1>8 DEF Quizzes
<1>10. /\ \A x : Held(x) => Held(x)'
       /\ \A x \in quiz'.saved \ quiz'.met : Held(x)'
       /\ \A c \in calls' : c.live => QuizCall(c)'
       /\ \A c, e \in calls' : Loading(c) /\ Loading(e) => c = e
       /\ \A ops, x : Awaited(ops, x) => Awaited(ops, x)'
  BY <1>3, <1>4, <1>6, <1>8, <1>9, QuizSends
<1>11. ASSUME NEW x \in Questions PROVE SaveOf(x)'
  <2>1. CASE x = q
    BY <1>3, <1>4, <1>6, <1>7, <1>8, <1>9, <2>1 DEF SaveOf, IsSave
  <2>2. CASE x # q
    BY <1>3, <1>4, <1>7, <1>8, <1>9, <1>10, <2>2 DEF SaveOf, IsSave, IInv, QuizInv
  <2> QED BY <2>1, <2>2
<1>12. \A x \in saving : Awaited({"save"}, x)'
  <2>1. Awaited({"save"}, q)'
    BY <1>4, <1>6 DEF Awaited
  <2> QED BY <1>8, <1>10, <2>1 DEF IInv, QuizInv
<1>13. QuizInv'
  BY <1>3, <1>9, <1>10, <1>11, <1>12 DEF QuizInv, IInv
<1> QED BY <1>3, <1>6, <1>9, <1>13, QuizStep

LEMMA PressSubmitKeeps == IInv /\ PressSubmit => IInv'
<1> SUFFICES ASSUME IInv, PressSubmit PROVE IInv'
  OBVIOUS
<1> DEFINE met == quiz.met \cup {q \in Questions : \E c \in SavesOf(q) : InServer(c)}
<1>1. quiz \in Quizzes
  BY DEF IInv, Typed
<1>2. PICK d : d = Numbered(Call("submit", 0, 0), calls)
  OBVIOUS
<1>3. /\ quiz' = [quiz EXCEPT !.submitting = TRUE, !.met = met] /\ page = "quiz" /\ page' = page
      /\ path' = path /\ srv' = srv /\ calls' = calls \cup {d}
      /\ UNCHANGED <<board, review, report>> /\ quiz.known
  BY <1>1, <1>2 DEF PressSubmit, Send, Quizzes
<1>4. d.op = "submit" /\ d.arg = 0
  BY <1>2, CallIs DEF IInv, Ops
<1>5. Asks(d)
  <2>1. d.from = page
    BY <1>2 DEF Numbered, Call
  <2> QED BY <1>3, <1>4, <2>1 DEF Asks
<1>6. /\ CallsOk' /\ d.live /\ d.step = "sent" /\ d \in calls' /\ \A ops : Outlives(ops)
  BY <1>2, <1>3, <1>5, Sends DEF Ops
<1>7. met \subseteq Questions /\ quiz.met \subseteq met
  BY <1>1 DEF Quizzes
<1>8. ASSUME NEW c \in calls, c.live, c.op = "save", InServer(c) PROVE c.arg \in met
  <2>1. c.att = path /\ c.arg \in Questions
    BY <1>8, CallFacts DEF IInv, OfPage, OfAttempt, Asks
  <2> QED BY <1>8, <2>1 DEF SavesOf
<1> HIDE DEF met
<1>9. /\ quiz' \in Quizzes /\ quiz'.draft = quiz.draft /\ quiz'.saving = quiz.saving
      /\ quiz'.raced = quiz.raced /\ quiz'.saved = quiz.saved /\ quiz'.known = quiz.known
      /\ quiz'.met = met
  BY <1>1, <1>3, <1>7 DEF Quizzes
<1>10. /\ \A x : Held(x) => Held(x)'
       /\ \A x \in quiz'.saved \ quiz'.met : Held(x)'
       /\ \A c \in calls' : c.live => QuizCall(c)'
       /\ \A c, e \in calls' : Loading(c) /\ Loading(e) => c = e
       /\ \A ops, x : Awaited(ops, x) => Awaited(ops, x)'
  BY <1>3, <1>4, <1>6, <1>7, <1>8, <1>9, QuizSends
<1>11. \A q \in Questions : SaveOf(q)'
  BY <1>3, <1>4, <1>7, <1>9, <1>10 DEF SaveOf, IsSave, IInv, QuizInv
<1>12. Awaited({"submit"}, 0)'
  BY <1>4, <1>6 DEF Awaited
<1>13. QuizInv'
  BY <1>3, <1>9, <1>10, <1>11, <1>12 DEF QuizInv, IInv
<1> QED BY <1>3, <1>6, <1>9, <1>13, QuizStep

LEMMA PressReviewKeeps ==
  ASSUME IInv, NEW m \in Mistakes, PressReview(m)
  PROVE  IInv'
<1>1. review \in Reviews
  BY DEF IInv, Typed
<1>2. PICK d : d = Numbered(Call("review", m, 0), calls)
  OBVIOUS
<1>3. /\ review' = [review EXCEPT !.submitting = m] /\ page = "review" /\ page' = page
      /\ path' = path /\ srv' = srv /\ calls' = calls \cup {d} /\ UNCHANGED <<board, quiz, report>>
  BY <1>2 DEF PressReview, Send
<1>4. d.op = "review" /\ d.arg = m
  BY <1>2, CallIs DEF IInv, Ops
<1>5. Asks(d)
  <2>1. d.from = page
    BY <1>2 DEF Numbered, Call
  <2> QED BY <1>3, <1>4, <2>1 DEF Asks
<1>6. CallsOk' /\ d.live /\ d \in calls' /\ \A ops : Outlives(ops)
  BY <1>2, <1>3, <1>5, Sends DEF Ops
<1>7. /\ review' \in Reviews /\ review'.known = review.known /\ review'.queue = review.queue
      /\ review'.feedback = review.feedback /\ review'.submitting = m
  BY <1>1, <1>3 DEF Reviews
<1>8. Awaited({"review"}, m)'
  BY <1>4, <1>6 DEF Awaited
<1>9. ReviewInv'
  BY <1>3, <1>7, <1>8 DEF ReviewInv, IInv
<1>10. \A c \in calls' : c.op \in QuizCallOps => c \in calls
  BY <1>3, <1>4 DEF QuizCallOps
<1> QED BY <1>3, <1>6, <1>7, <1>9, <1>10, ReviewStep

LEMMA RemoveCardKeeps ==
  ASSUME IInv, NEW m \in Mistakes, RemoveCard(m)
  PROVE  IInv'
<1> DEFINE queue == review.queue \ {m}
<1>1. review \in Reviews /\ (page # "review" => review = NewReview)
  BY DEF IInv, Typed, Unmounted
<1>2. /\ review' = [review EXCEPT !.queue = queue] /\ m \in review.queue /\ m \in review.feedback
      /\ page' = page /\ path' = path /\ srv' = srv /\ calls' = calls
      /\ UNCHANGED <<board, quiz, report>>
  BY DEF RemoveCard
<1>3. page = "review"
  BY <1>1, <1>2 DEF NewReview
<1>4. queue \subseteq Mistakes /\ m \in srv.reviewed
  BY <1>1, <1>2 DEF Reviews, IInv, ReviewInv
<1>5. review.known => Mistakes \ srv.reviewed \subseteq queue
  BY <1>4 DEF IInv, ReviewInv
<1> HIDE DEF queue
<1>6. /\ review' \in Reviews /\ review'.known = review.known /\ review'.queue = queue
      /\ review'.feedback = review.feedback /\ review'.submitting = review.submitting
  BY <1>1, <1>2, <1>4 DEF Reviews
<1>7. ReviewInv'
  BY <1>2, <1>5, <1>6 DEF ReviewInv, IInv, Awaited
<1>8. CallsOk' /\ \A ops : Outlives(ops)
  BY <1>2, TakeKeeps, SentOutlives DEF IInv
<1> QED BY <1>2, <1>3, <1>6, <1>7, <1>8, ReviewStep

-----------------------------------------------------------------------------
(* A reply reaches its page. *)

(* The dashboard or /today takes the reply it asked for, and enables what   *)
(* waited for it; /today may ask for the plan again.                        *)
LEMMA BoardTakes ==
  ASSUME IInv, NEW c \in calls, c.live,
         c.op \in {"getPlan", "dashLoad", "generate", "start", "complete"},
         Done(c) \/ (Then(c, "getPlan") /\ page = "today"),
         UNCHANGED <<page, path, quiz, review, report, srv>>,
         board' \in Boards,
         \A t \in Tasks \ srv.late : Rank[board'.tasks[t]] <= Rank[srv.tasks[t]],
         board'.loading => board.loading /\ c.op # "dashLoad",
         board'.generating => board.generating /\ c.op # "generate",
         board'.busy # 0 => board'.busy = board.busy /\ c.op \notin {"start", "complete"}
  PROVE  IInv'
<1>1. page' = page /\ path' = path /\ srv' = srv /\ UNCHANGED <<quiz, review, report>>
  OBVIOUS
<1>2. page \in {"today", "dashboard"}
  BY CallFacts DEF IInv, Asks, OfPage
<1>3. PICK d : d = Numbered(Call("getPlan", 0, 0), calls \ {c})
  OBVIOUS
<1>4. d.op = "getPlan" /\ (page = "today" => Fresh(d, page, path))
  <2>1. d.op = "getPlan" /\ (Asks(d) => Fresh(d, page, path))
    BY <1>3, CallIs DEF IInv, Ops
  <2>2. d.from = page
    BY <1>3 DEF Numbered, Call
  <2> QED BY <2>1, <2>2 DEF Asks
<1>5. /\ calls \ {c} \subseteq calls'
      /\ calls' \subseteq calls \/ (page = "today" /\ calls' \subseteq calls \cup {d})
  BY <1>3 DEF Done, Then
<1>6. CallsOk'
  BY <1>1, <1>4, <1>5, TakeKeeps, SendKeeps DEF IInv
<1>7. Outlives(QuizOps) /\ Outlives({"review"})
  BY <1>5, TakenOutlives DEF QuizOps
<1>8. \A e \in calls' : e.op \in QuizCallOps => e \in calls
  BY <1>4, <1>5 DEF QuizCallOps
<1>9. \A ops, x : Awaited(ops, x) /\ c.op \notin ops => Awaited(ops, x)'
  BY <1>5 DEF Awaited
<1>10. BoardInv'
  BY <1>1, <1>9 DEF BoardInv, IInv
<1> QED BY <1>1, <1>2, <1>6, <1>7, <1>8, <1>10, BoardStep

LEMMA TodayLoadedKeeps ==
  ASSUME IInv, NEW c \in calls, TodayLoaded(c)
  PROVE  IInv'
<1>1. /\ board \in Boards /\ c.got.tasks \in Plans /\ Tells(c, srv) /\ BoardInv
  BY CallFacts DEF IInv, Typed, Replies, AllTell
<1>2. /\ c.live /\ c.op = "getPlan" /\ Done(c)
      /\ UNCHANGED <<page, path, quiz, review, report, srv>>
      /\ board' = IF c.step = "ok" THEN [board EXCEPT !.known = TRUE, !.tasks = c.got.tasks]
                  ELSE board
  BY DEF TodayLoaded, Back
<1>3. /\ board' \in Boards /\ board'.loading = board.loading
      /\ board'.generating = board.generating /\ board'.busy = board.busy
      /\ board'.tasks \in {board.tasks, c.got.tasks}
  BY <1>1, <1>2 DEF Boards
<1>4. \A t \in Tasks \ srv.late : Rank[board'.tasks[t]] <= Rank[srv.tasks[t]]
  BY <1>1, <1>3 DEF Tells, BoardInv
<1> QED BY <1>2, <1>3, <1>4, BoardTakes

LEMMA DashboardLoadedKeeps ==
  ASSUME IInv, NEW c \in calls, DashboardLoaded(c)
  PROVE  IInv'
<1>1. board \in Boards /\ c.got.tasks \in Plans /\ Tells(c, srv)
  BY CallFacts DEF IInv, Typed, Replies, AllTell
<1>2. /\ c.live /\ c.op = "dashLoad" /\ Done(c)
      /\ UNCHANGED <<page, path, quiz, review, report, srv>>
      /\ board' = [board EXCEPT !.loading = FALSE, !.tasks = c.got.tasks]
  BY DEF DashboardLoaded, Back
<1>3. /\ board' \in Boards /\ ~board'.loading /\ board'.tasks = c.got.tasks
      /\ board'.generating = board.generating /\ board'.busy = board.busy
  BY <1>1, <1>2 DEF Boards
<1>4. \A t \in Tasks \ srv.late : Rank[board'.tasks[t]] <= Rank[srv.tasks[t]]
  BY <1>1, <1>3 DEF Tells
<1> QED BY <1>2, <1>3, <1>4, BoardTakes

LEMMA GeneratedKeeps ==
  ASSUME IInv, NEW c \in calls, Generated(c)
  PROVE  IInv'
<1> DEFINE tasks == IF c.step = "ok" THEN c.got.tasks ELSE board.tasks
<1>1. /\ board \in Boards /\ c.got.tasks \in Plans /\ Tells(c, srv) /\ BoardInv
  BY CallFacts DEF IInv, Typed, Replies, AllTell
<1>2. /\ c.live /\ c.op = "generate" /\ Done(c)
      /\ UNCHANGED <<page, path, quiz, review, report, srv>>
      /\ board' = [board EXCEPT !.generating = FALSE, !.tasks = tasks]
  BY <1>1 DEF Generated, Back, Boards
<1>3. tasks \in Plans /\ \A t \in Tasks \ srv.late : Rank[tasks[t]] <= Rank[srv.tasks[t]]
  BY <1>1 DEF Tells, BoardInv, Boards
<1> HIDE DEF tasks
<1>4. /\ board' \in Boards /\ ~board'.generating /\ board'.tasks = tasks
      /\ board'.loading = board.loading /\ board'.busy = board.busy
  BY <1>1, <1>2, <1>3 DEF Boards
<1> QED BY <1>2, <1>3, <1>4, BoardTakes

(* The task is no longer busy, whatever came of it.                         *)
LEMMA FreesTask ==
  ASSUME IInv, NEW c \in calls, c.live, c.op \in {"start", "complete"},
         Done(c) \/ (Then(c, "getPlan") /\ page = "today"),
         UNCHANGED <<page, path, quiz, review, report, srv>>,
         board' = [board EXCEPT !.busy = 0]
  PROVE  IInv'
<1>1. board \in Boards /\ BoardInv
  BY DEF IInv, Typed
<1>2. /\ board' \in Boards /\ board'.busy = 0 /\ board'.tasks = board.tasks
      /\ board'.loading = board.loading /\ board'.generating = board.generating
  BY <1>1 DEF Boards
<1>3. \A t \in Tasks \ srv.late : Rank[board'.tasks[t]] <= Rank[srv.tasks[t]]
  BY <1>1, <1>2 DEF BoardInv
<1> QED BY <1>2, <1>3, BoardTakes

LEMMA StartedKeeps ==
  ASSUME IInv, NEW c \in calls, Started(c)
  PROVE  IInv'
<1>1. /\ c.op = "start" /\ c.arg \in Tasks /\ (c.live => c.from = page) /\ HasAttempt(c)
      /\ c.from \in {"today", "dashboard"} /\ srv' = srv
  BY CallFacts DEF Started, IInv, Asks, OfPage
<1>2. Kinds[c.arg] \in {"test", "review", "explain"}
  BY <1>1, AppAssumption DEF Tasks
<1>3. CASE Pushes(c)
  <2>1. PICK a : Go(Target(c), a, calls \ {c}) /\ a = IF Target(c) = "quiz" THEN c.att ELSE 0
    BY <1>3 DEF Started
  <2>2. c.step = "ok" /\ (Kinds[c.arg] # "explain" \/ c.from = "dashboard")
    BY <1>1, <1>3 DEF Pushes
  <2>3. Target(c) \in Pages /\ (Target(c) = page => ~c.live) /\ OfRoute(Target(c), a)
    BY <1>1, <1>2, <2>1, <2>2 DEF Target, Pages, OfRoute, HasAttempt
  <2> QED BY <1>1, <2>1, <2>3, PushKeeps
<1>4. CASE ~Pushes(c)
  <2>1. /\ c.live /\ (IF c.step = "ok" THEN Then(c, "getPlan") ELSE Done(c))
        /\ board' = [board EXCEPT !.busy = 0]
        /\ UNCHANGED <<page, path, quiz, review, report, srv>>
    BY <1>4 DEF Started, Back
  <2>2. c.step = "ok" => page = "today"
    BY <1>1, <1>4, <2>1 DEF Pushes
  <2> QED BY <1>1, <2>1, <2>2, FreesTask
<1> QED BY <1>3, <1>4

LEMMA CompletedKeeps ==
  ASSUME IInv, NEW c \in calls, Completed(c)
  PROVE  IInv'
<1>1. /\ c.live /\ c.op = "complete" /\ (IF c.step = "ok" THEN Then(c, "getPlan") ELSE Done(c))
      /\ board' = [board EXCEPT !.busy = 0]
      /\ UNCHANGED <<page, path, quiz, review, report, srv>>
  BY DEF Completed, Back
<1>2. page = "today"
  BY <1>1, CallFacts DEF IInv, Asks, OfPage
<1> QED BY <1>1, <1>2, FreesTask

(* The quiz takes the reply of a call, and no longer waits for it.          *)
LEMMA QuizTakes ==
  ASSUME IInv, NEW c \in calls, c.live, c.op \in {"getAttempt", "submit", "save"}, Done(c),
         UNCHANGED <<page, path, board, review, report, srv>>, quiz' \in Quizzes,
         quiz'.met = quiz.met, quiz'.known = quiz.known \/ (c.op = "getAttempt" /\ quiz'.known),
         \A q \in quiz'.saved \ quiz.met : Held(q),
         \A q \in Questions : SaveOf(q)',
         quiz'.submitting => quiz.submitting /\ c.op # "submit",
         \A q \in quiz'.saving : q \in quiz.saving /\ (c.op = "save" => c.arg # q)
  PROVE  IInv'
<1>1. /\ page' = page /\ path' = path /\ srv' = srv /\ UNCHANGED <<board, review, report>>
      /\ calls' = calls \ {c}
  BY DEF Done
<1>2. page = "quiz" /\ QuizInv
  BY CallFacts DEF IInv, Asks, OfPage
<1>3. CallsOk' /\ Outlives(BoardOps) /\ Outlives({"review"})
  BY <1>1, TakeKeeps, TakenOutlives DEF IInv, BoardOps
<1>4. ASSUME NEW op, NEW arg, Awaited({op}, arg), c.op = op => c.arg # arg
      PROVE  Awaited({op}, arg)'
  BY <1>1, <1>4 DEF Awaited
<1>5. quiz'.submitting => Awaited({"submit"}, 0)'
  BY <1>2, <1>4 DEF QuizInv
<1>6. \A q \in quiz'.saving : Awaited({"save"}, q)'
  BY <1>2, <1>4 DEF QuizInv
<1>7. \A q : Held(q) => Held(q)'
  BY <1>1 DEF Held, Locked
<1>8. Submits(calls', path) => Submits(calls, path)
  BY <1>1 DEF Submits
<1>9. ASSUME NEW e \in calls', e.live PROVE QuizCall(e)'
  <2>1. e \in calls /\ e # c /\ QuizCall(e)
    BY <1>1, <1>2, <1>9 DEF QuizInv
  <2>2. e.op = "getAttempt" => quiz'.known = quiz.known
    BY <1>2, <1>9, <2>1 DEF QuizInv, Loading
  <2> QED BY <1>1, <1>7, <1>8, <2>1, <2>2 DEF QuizCall
<1>10. \A d, e \in calls' : Loading(d) /\ Loading(e) => d = e
  BY <1>1, <1>2 DEF QuizInv, Loading
<1>11. page' = "quiz" /\ ~quiz'.known /\ Submits(calls', path') => quiz'.met = Questions
  BY <1>1, <1>2, <1>8 DEF QuizInv
<1>12. \A q \in quiz'.saved \ quiz'.met : Held(q)'
  BY <1>7
<1>13. QuizInv'
  BY <1>5, <1>6, <1>9, <1>10, <1>11, <1>12 DEF QuizInv
<1> QED BY <1>1, <1>2, <1>3, <1>13, QuizStep

LEMMA AttemptLoadedKeeps ==
  ASSUME IInv, NEW c \in calls, AttemptLoaded(c)
  PROVE  IInv'
<1>1. /\ c.live /\ c.op = "getAttempt" /\ page = "quiz" /\ c.att = path /\ path \in Attempts
      /\ srv' = srv /\ srv \in Servers /\ quiz \in Quizzes /\ c.step \in {"ok", "failed"}
      /\ c.got.answered \subseteq Questions /\ Tells(c, srv) /\ QuizInv
  BY CallFacts DEF AttemptLoaded, Back, IInv, Typed, Asks, OfPage, OfAttempt, HasAttempt,
     Replies, AllTell
<1>2. CASE c.step = "ok" /\ c.got.status = "submitted"
  <2>1. Go("results", path, calls \ {c}) /\ "results" \in Pages /\ OfRoute("results", path)
    BY <1>1, <1>2 DEF AttemptLoaded, Pages, OfRoute
  <2> QED BY <1>1, <2>1, PushKeeps
<1>3. CASE ~(c.step = "ok" /\ c.got.status = "submitted")
  <2>1. /\ Done(c) /\ UNCHANGED <<page, path, board, review, report, srv>>
        /\ quiz' = IF c.step = "failed" THEN quiz
                   ELSE [quiz EXCEPT !.known = TRUE, !.saved = c.got.answered]
    BY <1>1, <1>3 DEF AttemptLoaded
  <2>2. /\ quiz' \in Quizzes /\ quiz'.draft = quiz.draft /\ quiz'.saving = quiz.saving
        /\ quiz'.raced = quiz.raced /\ quiz'.submitting = quiz.submitting
        /\ quiz'.met = quiz.met /\ (quiz'.known = quiz.known \/ quiz'.known)
        /\ quiz'.saved = quiz.saved \/ (c.step = "ok" /\ quiz'.saved = c.got.answered)
    BY <1>1, <2>1 DEF Quizzes
  <2>3. ASSUME NEW q \in c.got.answered, q \notin quiz.met, c.step = "ok" PROVE Held(q)
    <3>1. QuizCall(c) /\ quiz.met # Questions /\ q \in Questions
      BY <1>1, <2>3 DEF QuizInv
    <3>2. srv.attempts[path] # "submitted" /\ ~Submits(calls, path)
      BY <1>1, <1>3, <2>3, <3>1 DEF QuizCall, QuizInv
    <3>3. srv.stored[path][q] # 0 /\ srv.stored[path][q] # Blank
      BY <1>1, <3>1, <3>2 DEF Tells, IInv, OpenHasNoBlank
    <3>4. srv.stored[path][q] \in Values
      BY <1>1, <3>1, <3>3 DEF Servers
    <3> QED BY <3>2, <3>4 DEF Held, Locked, Submits, InServer
  <2>4. \A q \in quiz'.saved \ quiz.met : Held(q)
    BY <1>1, <2>2, <2>3 DEF QuizInv
  <2>5. \A q : Held(q) => Held(q)'
    BY <2>1 DEF Done, Held, Locked
  <2>6. \A q \in Questions : SaveOf(q)'
    BY <1>1, <2>1, <2>2, <2>5 DEF Done, SaveOf, IsSave, QuizInv
  <2> QED BY <1>1, <2>1, <2>2, <2>4, <2>6, QuizTakes
<1> QED BY <1>2, <1>3

LEMMA SavedKeeps ==
  ASSUME IInv, NEW c \in calls, Saved(c)
  PROVE  IInv'
<1> DEFINE saving == quiz.saving \ {c.arg}
           saved == IF c.step = "ok" THEN quiz.saved \cup {c.arg} ELSE quiz.saved
           raced == IF c.step = "ok" THEN quiz.raced ELSE quiz.raced \cup {c.arg}
<1>1. /\ c.live /\ c.op = "save" /\ c.arg \in Questions /\ c.att = path /\ quiz \in Quizzes
      /\ QuizInv /\ Done(c) /\ UNCHANGED <<page, path, board, review, report, srv>>
  BY CallFacts DEF Saved, Back, IInv, Typed, Asks, OfPage, OfAttempt
<1>2. quiz' = [quiz EXCEPT !.saving = saving, !.saved = saved, !.raced = raced]
  BY <1>1 DEF Saved, Quizzes
<1>3. /\ saving \subseteq Questions /\ saved \subseteq Questions /\ raced \subseteq Questions
      /\ \A q \in saving : q \in quiz.saving /\ c.arg # q
      /\ \A q \in Questions : q # c.arg => /\ q \in saving <=> q \in quiz.saving
                                           /\ q \in raced <=> q \in quiz.raced
      /\ c.arg \notin raced => c.step = "ok" /\ c.arg \notin quiz.raced
  BY <1>1 DEF Quizzes
<1>4. c.step = "ok" /\ c.arg \notin quiz.met => Held(c.arg)
  BY <1>1 DEF QuizInv, QuizCall
<1>5. \A q \in saved \ quiz.met : Held(q)
  BY <1>1, <1>4 DEF QuizInv
<1> HIDE DEF saving, saved, raced
<1>6. /\ quiz' \in Quizzes /\ quiz'.draft = quiz.draft /\ quiz'.saving = saving
      /\ quiz'.saved = saved /\ quiz'.raced = raced /\ quiz'.submitting = quiz.submitting
      /\ quiz'.met = quiz.met /\ quiz'.known = quiz.known
  BY <1>1, <1>2, <1>3 DEF Quizzes
<1>7. \A q : Held(q) => Held(q)'
  BY <1>1 DEF Done, Held, Locked
<1>8. ASSUME NEW q \in Questions PROVE SaveOf(q)'
  <2>1. SaveOf(q) /\ calls' = calls \ {c} /\ srv' = srv /\ path' = path
    BY <1>1 DEF Done, QuizInv
  <2>2. CASE q = c.arg
    <3>1. IsSave(c, q)
      BY <1>1, <2>2 DEF IsSave
    <3> QED BY <1>1, <1>3, <1>4, <1>6, <1>7, <2>1, <2>2, <3>1 DEF SaveOf, IsSave
  <2>3. CASE q # c.arg
    BY <1>3, <1>6, <1>7, <2>1, <2>3 DEF SaveOf, IsSave
  <2> QED BY <2>2, <2>3
<1> QED BY <1>1, <1>3, <1>5, <1>6, <1>8, QuizTakes

LEMMA SubmittedKeeps ==
  ASSUME IInv, NEW c \in calls, Submitted(c)
  PROVE  IInv'
<1>1. /\ c.op = "submit" /\ (c.live => page = "quiz") /\ srv' = srv /\ quiz \in Quizzes
      /\ QuizInv /\ c.att \in Attempts
  BY CallFacts DEF Submitted, IInv, Typed, Asks, OfPage, HasAttempt, OfAttempt
<1>2. CASE Pushes(c)
  <2>1. Go("results", c.att, calls \ {c}) /\ "results" \in Pages /\ OfRoute("results", c.att)
    BY <1>1, <1>2 DEF Submitted, Pages, OfRoute
  <2> QED BY <1>1, <2>1, PushKeeps
<1>3. CASE ~Pushes(c)
  <2>1. /\ c.live /\ Done(c) /\ UNCHANGED <<page, path, board, review, report, srv>>
        /\ quiz' = [quiz EXCEPT !.submitting = FALSE]
    BY <1>3 DEF Submitted, Back
  <2>2. /\ quiz' \in Quizzes /\ quiz'.draft = quiz.draft /\ quiz'.saving = quiz.saving
        /\ quiz'.saved = quiz.saved /\ quiz'.raced = quiz.raced /\ ~quiz'.submitting
        /\ quiz'.met = quiz.met /\ quiz'.known = quiz.known
    BY <1>1, <2>1 DEF Quizzes
  <2>3. \A q \in quiz'.saved \ quiz.met : Held(q)
    BY <1>1, <2>2 DEF QuizInv
  <2>4. \A q : Held(q) => Held(q)'
    BY <2>1 DEF Done, Held, Locked
  <2>5. \A q \in Questions : SaveOf(q)'
    BY <1>1, <2>1, <2>2, <2>4 DEF Done, SaveOf, IsSave, QuizInv
  <2> QED BY <1>1, <2>1, <2>2, <2>3, <2>5, QuizTakes
<1> QED BY <1>2, <1>3

LEMMA ResultLoadedKeeps ==
  ASSUME IInv, NEW c \in calls, ResultLoaded(c)
  PROVE  IInv'
<1>1. /\ c.live /\ c.op = "getResult" /\ page = "results" /\ c.att = path /\ Tells(c, srv)
      /\ calls' = calls \ {c} /\ page' = page /\ path' = path /\ srv' = srv
      /\ UNCHANGED <<board, quiz, review>>
      /\ report' = IF c.step = "ok" THEN "shown" ELSE "error"
  BY CallFacts DEF ResultLoaded, Back, Done, IInv, Asks, OfPage, OfAttempt, AllTell
<1>2. CallsOk' /\ Outlives(BoardOps) /\ Outlives(QuizOps) /\ Outlives({"review"})
  BY <1>1, TakeKeeps, TakenOutlives DEF IInv, BoardOps, QuizOps
<1>3. Grows /\ srv' \in Servers
  BY <1>1, SameServer DEF IInv, ServerStep
<1>4. Typed' /\ AllTell' /\ StartsAreLate' /\ OpenHasNoBlank'
  BY <1>1, <1>2, <1>3 DEF IInv, Typed, Unmounted, CallsOk, OpenHasNoBlank
<1>5. ReportInv'
  BY <1>1 DEF ReportInv, Tells
<1>6. BoardInv' /\ QuizInv' /\ ReviewInv'
  BY <1>1, <1>2, <1>3, BoardStays, QuizStays, ReviewStays DEF IInv
<1> QED BY <1>4, <1>5, <1>6 DEF IInv

(* The page of the mistakes takes the reply of a call.                      *)
LEMMA ReviewTakes ==
  ASSUME IInv, NEW c \in calls, c.live, c.op \in {"due", "review"}, Done(c),
         UNCHANGED <<page, path, board, quiz, report, srv>>, review' \in Reviews,
         review'.known => Mistakes \ srv.reviewed \subseteq review'.queue,
         review'.feedback \subseteq srv.reviewed,
         review'.submitting # 0 => review'.submitting = review.submitting /\ c.op # "review"
  PROVE  IInv'
<1>1. /\ page' = page /\ path' = path /\ srv' = srv /\ UNCHANGED <<board, quiz, report>>
      /\ calls' = calls \ {c}
  BY DEF Done
<1>2. page = "review"
  BY CallFacts DEF IInv, Asks, OfPage
<1>3. CallsOk' /\ Outlives(BoardOps) /\ Outlives(QuizOps)
  BY <1>1, TakeKeeps, TakenOutlives DEF IInv, BoardOps, QuizOps
<1>4. ASSUME review'.submitting # 0 PROVE Awaited({"review"}, review.submitting)'
  <2>1. Awaited({"review"}, review.submitting) /\ c.op # "review"
    BY <1>4 DEF IInv, ReviewInv
  <2> QED BY <1>1, <1>4, <2>1 DEF Awaited
<1>5. ReviewInv'
  BY <1>1, <1>4 DEF ReviewInv
<1> QED BY <1>1, <1>2, <1>3, <1>5, ReviewStep

LEMMA QueueLoadedKeeps ==
  ASSUME IInv, NEW c \in calls, QueueLoaded(c)
  PROVE  IInv'
<1>1. /\ c.live /\ c.op = "due" /\ Done(c) /\ UNCHANGED <<page, path, board, quiz, report, srv>>
      /\ review' = IF c.step = "ok" THEN [review EXCEPT !.known = TRUE, !.queue = c.got.due]
                   ELSE review
  BY DEF QueueLoaded, Back
<1>2. review \in Reviews /\ c.got.due \subseteq Mistakes /\ Tells(c, srv) /\ ReviewInv
  BY CallFacts DEF IInv, Typed, Replies, AllTell
<1>3. /\ review' \in Reviews /\ review'.feedback = review.feedback
      /\ review'.submitting = review.submitting
      /\ c.step = "ok" => review'.queue = c.got.due
      /\ c.step # "ok" => review' = review
  BY <1>1, <1>2 DEF Reviews
<1>4. review'.known => Mistakes \ srv.reviewed \subseteq review'.queue
  BY <1>1, <1>2, <1>3 DEF Tells, ReviewInv
<1>5. review'.feedback \subseteq srv.reviewed
  BY <1>2, <1>3 DEF ReviewInv
<1> QED BY <1>1, <1>3, <1>4, <1>5, ReviewTakes

LEMMA ReviewedKeeps ==
  ASSUME IInv, NEW c \in calls, Reviewed(c)
  PROVE  IInv'
<1> DEFINE feedback == IF c.step = "ok" THEN review.feedback \cup {c.arg} ELSE review.feedback
<1>1. /\ c.live /\ c.op = "review" /\ c.arg \in Mistakes /\ Done(c) /\ review \in Reviews
      /\ UNCHANGED <<page, path, board, quiz, report, srv>> /\ Tells(c, srv) /\ ReviewInv
  BY CallFacts DEF Reviewed, Back, IInv, Typed, Asks, AllTell
<1>2. review' = [review EXCEPT !.submitting = 0, !.feedback = feedback]
  BY <1>1 DEF Reviewed, Reviews
<1>3. feedback \subseteq Mistakes /\ feedback \subseteq srv.reviewed
  BY <1>1 DEF Tells, ReviewInv, Reviews
<1> HIDE DEF feedback
<1>4. /\ review' \in Reviews /\ review'.known = review.known /\ review'.queue = review.queue
      /\ review'.feedback = feedback /\ review'.submitting = 0
  BY <1>1, <1>2, <1>3 DEF Reviews
<1> QED BY <1>1, <1>3, <1>4, ReviewTakes DEF ReviewInv

LEMMA DeliverKeeps ==
  ASSUME IInv, NEW c \in calls, Deliver(c)
  PROVE  IInv'
BY TodayLoadedKeeps, DashboardLoadedKeeps, GeneratedKeeps, StartedKeeps, CompletedKeeps,
   AttemptLoadedKeeps, SavedKeeps, SubmittedKeeps, ResultLoadedKeeps, QueueLoadedKeeps,
   ReviewedKeeps DEF Deliver

-----------------------------------------------------------------------------
(* The invariant. *)

LEMMA InitHolds == Init => IInv
<1> SUFFICES ASSUME Init PROVE IInv
  OBVIOUS
<1> DEFINE c == [id |-> 1, op |-> "dashLoad", arg |-> 0, val |-> 0, att |-> 0,
                 from |-> "dashboard", live |-> TRUE, step |-> "sent", got |-> NoReply]
           attempts == [a \in Attempts |-> "absent"]
           stored == [a \in Attempts |-> [q \in Questions |-> 0]]
<1>1. /\ page = "dashboard" /\ path = 0 /\ board = NewBoard /\ quiz = NewQuiz
      /\ review = NewReview /\ report = "loading" /\ calls = {c}
      /\ srv = [tasks |-> NoPlan, late |-> {}, attempts |-> attempts, stored |-> stored,
                reviewed |-> {}]
  BY DEF Init
<1>2. /\ attempts \in [Attempts -> {"absent", "open", "submitted"}]
      /\ stored \in [Attempts -> [Questions -> Values \cup {0, Blank}]]
      /\ \A a \in Attempts, q \in Questions : stored[a][q] # Blank
  BY NewTypes
<1> HIDE DEF attempts, stored
<1>3. srv \in Servers /\ srv.tasks = NoPlan /\ srv.reviewed = {} /\ srv.stored = stored
  BY <1>1, <1>2, NewTypes DEF Servers
<1>4. /\ c \in CallRecords(1) /\ c.op = "dashLoad" /\ c.arg = 0 /\ c.from = "dashboard"
      /\ c.att = 0 /\ c.live /\ c.step = "sent" /\ c.got = NoReply
  BY NewTypes DEF CallRecords, Ops, Pages, Steps
<1> HIDE DEF c
<1>5. Fresh(c, page, path) /\ OfRoute(page, path) /\ c.op \notin OfAttempt
  BY <1>1, <1>4 DEF Fresh, Asks, IsCall, OfRoute, OfAttempt
<1>6. /\ Asks(c) /\ HasAttempt(c) /\ Matters(c) /\ OfPage(c, page, path) /\ Tells(c, srv)
      /\ ~Midway(c)
  BY <1>3, <1>5, FreshOk
<1>7. Typed /\ AllTell /\ StartsAreLate /\ OpenHasNoBlank
  BY <1>1, <1>2, <1>3, <1>5, <1>6, NewTypes
     DEF Typed, AllTell, StartsAreLate, OpenHasNoBlank, Unmounted, Pages, CallOk, Fresh
<1>8. ReviewInv /\ ReportInv
  BY <1>1 DEF ReviewInv, NewReview, ReportInv
<1>9. BoardInv
  <2>1. Awaited({"dashLoad"}, 0)
    BY <1>1, <1>4 DEF Awaited
  <2>2. NoPlan \in Plans /\ NoReply.tasks = NoPlan
    BY NewTypes DEF NoReply
  <2>3. \A t \in Tasks : Rank[board.tasks[t]] <= Rank[srv.tasks[t]]
    BY <1>1, <1>3, <2>2, TellsNothing DEF NewBoard
  <2> QED BY <1>1, <2>1, <2>3 DEF BoardInv, NewBoard
<1>10. QuizInv
  BY <1>1, <1>4 DEF QuizInv, SaveOf, NewQuiz, QuizCall, Loading
<1> QED BY <1>7, <1>8, <1>9, <1>10 DEF IInv

LEMMA NextKeeps == IInv /\ [Next]_vars => IInv'
<1> SUFFICES ASSUME IInv, [Next]_vars PROVE IInv'
  OBVIOUS
<1>1. CASE UNCHANGED vars
  BY <1>1 DEF IInv, vars, Typed, Unmounted, CallOk, AllTell, StartsAreLate, OpenHasNoBlank,
     BoardInv, Awaited, QuizInv, SaveOf, Held, Locked, IsSave, QuizCall, Loading, ReviewInv,
     ReportInv
<1>2. CASE \E p \in Pages, a \in Attempts \cup {0} : Open(p, a)
  BY <1>2, OpenKeeps
<1>3. CASE Refresh \/ PressGenerate \/ PressSubmit
  BY <1>3, RefreshKeeps, PressGenerateKeeps, PressSubmitKeeps
<1>4. CASE \E t \in Tasks : PressStart(t) \/ PressComplete(t)
  BY <1>4, PressTaskKeeps
<1>5. CASE \E q \in Questions, v \in Values : Answer(q, v)
  BY <1>5, AnswerKeeps
<1>6. CASE \E m \in Mistakes : PressReview(m) \/ RemoveCard(m)
  BY <1>6, PressReviewKeeps, RemoveCardKeeps
<1>7. CASE \E c \in calls : Serve(c) \/ Fail(c) \/ Deliver(c)
  BY <1>7, ServeStep, DeliverKeeps
<1> QED BY <1>1, <1>2, <1>3, <1>4, <1>5, <1>6, <1>7 DEF Next

(* What a page holds, what its calls were sent for and what their replies   *)
(* say of the server agree at every step: what a reply says stays true      *)
(* however late it comes, but for the tasks that were finished while a      *)
(* start of them was being handled, and no Submit that is being handled     *)
(* will blank an answer that is shown as saved, unless a save of it may     *)
(* have met that Submit (daily_plan_service.go, quiz_service.go).           *)
THEOREM Invariant == Spec => []IInv
BY InitHolds, NextKeeps, PTL DEF Spec

(* Every variable keeps its type, a page that is not shown holds nothing,   *)
(* and only calls that can still matter are on their way: the setters of a  *)
(* component that was unmounted do nothing (apps/web, the student's pages). *)
THEOREM PagesStayTyped == Spec => []TypeOK
<1>1. IInv => TypeOK
  <2> SUFFICES ASSUME IInv PROVE TypeOK
    OBVIOUS
  <2>1. /\ page \in Pages /\ OfRoute(page, path) /\ board \in Boards /\ quiz \in Quizzes
        /\ review \in Reviews /\ report \in {"loading", "shown", "error"} /\ srv \in Servers
        /\ Unmounted /\ \A c \in calls : Matters(c) /\ (c.live => c.from = page)
    BY DEF IInv, Typed, CallOk, OfPage
  <2> QED BY <2>1 DEF TypeOK, Boards, Quizzes, Reviews, Servers, Unmounted, OfRoute
<1> QED BY <1>1, Invariant, PTL

(* The badge "saved" of a question stands for an answer that the server     *)
(* holds, no blank, unless a save of it and a Submit were under way         *)
(* together; and for the answer that is shown, unless two saves of the      *)
(* question met or one failed (setAndSave of quizzes/[quiz]/page.tsx sends  *)
(* every answer at once, and Submit of quiz_service.go stores the blanks).  *)
THEOREM SavedTellsTheTruth == Spec => []SavedIsStored
<1>1. IInv => SavedIsStored
  <2> SUFFICES ASSUME IInv, NEW q \in quiz.saved \ quiz.met
               PROVE  /\ srv.stored[path][q] \in Values
                      /\ q \notin quiz.saving \cup quiz.raced /\ quiz.draft[q] # 0 =>
                           srv.stored[path][q] = quiz.draft[q]
    BY DEF SavedIsStored
  <2>1. q \in Questions
    BY DEF IInv, Typed, Quizzes
  <2> QED BY <2>1 DEF IInv, QuizInv, SaveOf, Held
<1> QED BY <1>1, Invariant, PTL

(* However late a reply comes, no task is further on a page than in the     *)
(* plan, unless it was finished while a start of it, past its check, was    *)
(* being handled (StartTask of daily_plan_service.go sets it back without   *)
(* looking again); and a result is shown only of an attempt that was        *)
(* submitted.                                                               *)
THEOREM NothingShownTooEarly == Spec => []ShownHasHappened
<1>1. IInv => ShownHasHappened
  BY DEF IInv, BoardInv, ReportInv, ShownHasHappened
<1> QED BY <1>1, Invariant, PTL

(* A card leaves /review only after the server has taken an answer to its   *)
(* mistake, so no mistake that is due is missing there.                     *)
THEOREM DueMistakesAreShown == Spec => []DueStaysOnPage
<1>1. IInv => DueStaysOnPage
  BY DEF IInv, ReviewInv, DueStaysOnPage
<1> QED BY <1>1, Invariant, PTL

(* A disabled button waits for a call that is under way and will enable it: *)
(* no order of replies and no failure leaves one disabled for good.         *)
THEOREM ButtonsComeBack == Spec => []DisabledWaits
<1>1. IInv => DisabledWaits
  BY DEF IInv, BoardInv, QuizInv, ReviewInv, Awaited, DisabledWaits
<1> QED BY <1>1, Invariant, PTL
-----------------------------------------------------------------------------
(* The session beneath the pages. *)

(* The types without the bound on the sessions. *)
AnyCalls(ops) == {NoSend} \cup [op : ops, step : CallSteps, held : Nat, new : Nat]

Types ==
  /\ place \in [Tabs -> {"login", "boot", "page"}]
  /\ token \in [Tabs -> {"none", "valid", "expired"}]
  /\ req \in [Tabs -> [Requests -> ReqStates]]
  /\ renew \in [Tabs -> AnyCalls(RenewOps)]
  /\ form \in [Tabs -> AnyCalls(FormOps)]
  /\ cookie \in Nat /\ issued \in Nat /\ revokedTo \in 0..issued
  /\ interfered \subseteq Interferences

LEMMA CallShape ==
  ASSUME NEW ops, "none" \notin ops, NEW c \in AnyCalls(ops), c # NoSend
  PROVE  /\ c \in [op : ops, step : CallSteps, held : Nat, new : Nat]
         /\ c.op # "none" /\ c.step # "none"
BY DEF AnyCalls, NoSend, CallSteps

LEMMA CallNumbers ==
  ASSUME NEW ops, NEW c \in AnyCalls(ops)
  PROVE  c.held \in Nat /\ c.new \in Nat
BY DEF AnyCalls, NoSend

LEMMA SentIsCall ==
  ASSUME NEW ops, "none" \notin ops, NEW op \in ops, cookie \in Nat
  PROVE  Sent(op) \in AnyCalls(ops) /\ Sent(op) # NoSend
BY DEF AnyCalls, NoSend, CallSteps, Sent

(* A call that moves on by a step is still a call. *)
LEMMA StepOfCall ==
  ASSUME NEW ops, "none" \notin ops, NEW c \in AnyCalls(ops), c.step # "none",
         NEW step \in CallSteps, NEW held \in Nat, NEW new \in Nat
  PROVE  /\ [c EXCEPT !.step = step] \in AnyCalls(ops)
         /\ [c EXCEPT !.step = step, !.new = new] \in AnyCalls(ops)
         /\ [c EXCEPT !.step = step, !.new = new, !.held = held] \in AnyCalls(ops)
<1>1. c \in [op : ops, step : CallSteps, held : Nat, new : Nat]
  BY DEF AnyCalls, NoSend
<1>2. QED
  BY <1>1 DEF AnyCalls

-----------------------------------------------------------------------------
LEMMA InitTypes == SessionsInit => Types
BY DEF SessionsInit, Types, AnyCalls, NoSend, ReqStates, Interferences

LEMMA TypesKept ==
  ASSUME Types, [SessionsNext]_sessionsVars
  PROVE  Types'
<1> USE DEF ReqStates, Interferences, RenewOps, FormOps
<1>0. /\ "none" \notin RenewOps /\ "none" \notin FormOps
      /\ NoSend \in AnyCalls(RenewOps) /\ NoSend \in AnyCalls(FormOps)
  BY DEF AnyCalls
<1>1. ASSUME NEW t \in Tabs, LoadPage(t) PROVE Types'
  <2>1. Sent("boot") \in AnyCalls(RenewOps)
    BY <1>0, SentIsCall DEF Types
  <2>2. QED
    BY <1>1, <2>1 DEF Types, LoadPage, NoteOverlap
<1>2. ASSUME NEW t \in Tabs, ReturnFromProvider(t) PROVE Types'
  <2>1. [Sent("boot") EXCEPT !.held = issued + 1] \in AnyCalls(RenewOps)
    BY DEF Types, Sent, AnyCalls, CallSteps
  <2>2. QED
    BY <1>2, <2>1 DEF Types, ReturnFromProvider, NoteOverlap
<1>3. ASSUME NEW t \in Tabs, NEW r \in Requests, Ask(t, r) \/ Denied(t, r) PROVE Types'
  <2>1. Sent("refresh") \in AnyCalls(RenewOps)
    BY <1>0, SentIsCall DEF Types
  <2>2. QED
    <3>1. CASE Ask(t, r)
      BY <3>1 DEF Types, Ask
    <3>2. CASE Denied(t, r)
      <4>1. renew' \in [Tabs -> AnyCalls(RenewOps)] /\ interfered' \subseteq Interferences
        BY <2>1, <3>2 DEF Types, Denied, NoteOverlap
      <4>2. QED
        BY <3>2, <4>1 DEF Types, Denied
    <3>3. QED
      BY <1>3, <3>1, <3>2
<1>4. ASSUME NEW t \in Tabs, PressLogin(t) \/ PressLogout(t) \/ PressChange(t) PROVE Types'
  <2>1. \A op \in FormOps : Sent(op) \in AnyCalls(FormOps)
    BY <1>0, SentIsCall DEF Types
  <2>2. PICK op \in FormOps : PressForm(t, op)
    BY <1>4 DEF PressLogin, PressLogout, PressChange
  <2>3. QED
    BY <2>1, <2>2 DEF Types, PressForm, NoteOverlap
<1>5. ASSUME NEW t \in Tabs, RenewArrives(t) \/ RenewFails(t) PROVE Types'
  <2>1. renew[t].new \in Nat
    BY CallNumbers DEF Types
  <2>2. req' \in [Tabs -> [Requests -> ReqStates]]
    BY <1>5 DEF Types, RenewArrives, RenewFails, ReleasedRequests
  <2>3. renew' \in [Tabs -> AnyCalls(RenewOps)]
    BY <1>0, <1>5 DEF Types, RenewArrives, RenewFails
  <2>4. place' \in [Tabs -> {"login", "boot", "page"}]
    BY <1>5 DEF Types, RenewArrives, RenewFails
  <2>5. cookie' \in Nat
    BY <1>5, <2>1 DEF Types, RenewArrives, RenewFails
  <2>6. \E v \in {"none", "valid"} : token' = [token EXCEPT ![t] = v]
    BY <1>5 DEF RenewArrives, RenewFails
  <2>7. QED
    BY <1>5, <2>2, <2>3, <2>4, <2>5, <2>6 DEF Types, RenewArrives, RenewFails
<1>6. ASSUME NEW t \in Tabs, FormSucceeds(t) \/ FormFails(t) \/ LogoutReturns(t) PROVE Types'
  <2>1. form[t].new \in Nat
    BY CallNumbers DEF Types
  <2>2. form' \in [Tabs -> AnyCalls(FormOps)]
    BY <1>0, <1>6 DEF Types, FormSucceeds, FormFails, LogoutReturns
  <2>3. cookie' \in Nat
    BY <1>6, <2>1 DEF Types, FormSucceeds, FormFails, LogoutReturns
  <2>4. token' = token \/ \E v \in {"none", "valid"} : token' = [token EXCEPT ![t] = v]
    BY <1>6 DEF FormSucceeds, FormFails, LogoutReturns
  <2>5. place' \in [Tabs -> {"login", "boot", "page"}]
    BY <1>6 DEF Types, FormSucceeds, FormFails, LogoutReturns
  <2>6. QED
    BY <1>6, <2>2, <2>3, <2>4, <2>5 DEF Types, FormSucceeds, FormFails, LogoutReturns
<1>7. ASSUME NEW t \in Tabs, CheckCookie(t) \/ Rotate(t) \/ IssueFails(t) \/ LoseRenew(t)
      PROVE Types'
  <2>1. /\ renew[t].step # "none" /\ issued + 1 \in Nat
        /\ \/ \E step \in CallSteps : renew' = [renew EXCEPT ![t].step = step]
           \/ renew' = [renew EXCEPT ![t].step = "done", ![t].new = issued + 1, ![t].held = 0]
    BY <1>7 DEF Types, CheckCookie, Rotate, IssueFails, LoseRenew, RenewTo, CallSteps
  <2>2. \E c \in AnyCalls(RenewOps) : renew' = [renew EXCEPT ![t] = c]
    <3> DEFINE c == renew[t]
    <3>1. c \in AnyCalls(RenewOps) /\ "done" \in CallSteps /\ 0 \in Nat
      BY DEF Types, CallSteps
    <3>2. /\ \A step \in CallSteps : [c EXCEPT !.step = step] \in AnyCalls(RenewOps)
          /\ [c EXCEPT !.step = "done", !.new = issued + 1, !.held = 0] \in AnyCalls(RenewOps)
      BY <1>0, <2>1, <3>1, StepOfCall
    <3>3. QED
      BY <2>1, <3>2 DEF Types
  <2>3. renew' \in [Tabs -> AnyCalls(RenewOps)]
    BY <2>2 DEF Types
  <2>4. QED
    BY <1>7, <2>3 DEF Types, CheckCookie, Rotate, IssueFails, LoseRenew
<1>8. ASSUME NEW t \in Tabs,
             RevokeAll(t) \/ IssueForForm(t) \/ RevokeByLogout(t) \/ RefuseForm(t) \/ LoseForm(t)
      PROVE Types'
  <2>1. /\ form[t].step # "none" /\ issued + 1 \in Nat
        /\ \/ \E step \in CallSteps : form' = [form EXCEPT ![t].step = step]
           \/ form' = [form EXCEPT ![t].step = "done", ![t].new = issued + 1]
    BY <1>8 DEF Types, RevokeAll, IssueForForm, RevokeByLogout, RefuseForm, LoseForm, CallSteps
  <2>2. \E c \in AnyCalls(FormOps) : form' = [form EXCEPT ![t] = c]
    <3> DEFINE c == form[t]
    <3>1. c \in AnyCalls(FormOps) /\ "done" \in CallSteps /\ 0 \in Nat
      BY DEF Types, CallSteps
    <3>2. /\ \A step \in CallSteps : [c EXCEPT !.step = step] \in AnyCalls(FormOps)
          /\ [c EXCEPT !.step = "done", !.new = issued + 1] \in AnyCalls(FormOps)
      BY <1>0, <2>1, <3>1, StepOfCall
    <3>3. QED
      BY <2>1, <3>2 DEF Types
  <2>3. form' \in [Tabs -> AnyCalls(FormOps)]
    BY <2>2 DEF Types
  <2>4. QED
    BY <1>8, <2>3 DEF Types, RevokeAll, IssueForForm, RevokeByLogout, RefuseForm, LoseForm
<1>9. CASE Disable \/ UNCHANGED sessionsVars \/ \E t \in Tabs : ExpireToken(t)
  BY <1>9 DEF Types, Disable, sessionsVars, ExpireToken
<1>10. QED
  BY <1>1, <1>2, <1>3, <1>4, <1>5, <1>6, <1>7, <1>8, <1>9 DEF SessionsNext, Renewing, Submitting

-----------------------------------------------------------------------------
(* The sessions are bounded: Room counts every call, and those that have    *)
(* not issued their session yet are among them.                             *)

Renewals == {t \in Tabs : renew[t] # NoSend}
Forms == {t \in Tabs : form[t] # NoSend}
OwedRenewals == {t \in Tabs : renew[t].step \in {"sent", "checked"}}
OwedForms == {t \in Tabs : form[t].step \in {"sent", "revoked"}}

Bounded == issued + Cardinality(OwedRenewals) + Cardinality(OwedForms) <= MaxSessions

(* Every session that something refers to has been issued. *)
IssuedOnly(c) == c.held \in 0..issued /\ c.new \in 0..issued
Numbers ==
  /\ cookie \in 0..issued /\ active \subseteq 1..issued /\ signedIn \in BOOLEAN
  /\ \A t \in Tabs : IssuedOnly(renew[t]) /\ IssuedOnly(form[t])

LEMMA TabSets ==
  ASSUME NEW A \in SUBSET Tabs
  PROVE  IsFiniteSet(A) /\ Cardinality(A) \in Nat
BY SessionAssumption, FS_Subset, FS_CardinalityType

LEMMA OneMore ==
  ASSUME NEW A \in SUBSET Tabs, NEW t \in Tabs, NEW B, B \subseteq A \cup {t}
  PROVE  Cardinality(B) <= Cardinality(A) + 1
<1>1. /\ IsFiniteSet(A) /\ Cardinality(A) \in Nat
      /\ IsFiniteSet(A \cup {t}) /\ Cardinality(A \cup {t}) \in Nat
      /\ Cardinality(B) \in Nat
  BY TabSets
<1>2. Cardinality(A \cup {t}) <= Cardinality(A) + 1
  BY <1>1, FS_AddElement
<1>3. Cardinality(B) <= Cardinality(A \cup {t})
  BY <1>1, FS_Subset
<1>4. QED
  BY <1>1, <1>2, <1>3

LEMMA OneLess ==
  ASSUME NEW A \in SUBSET Tabs, NEW t \in A, NEW B, B \subseteq A \ {t}
  PROVE  Cardinality(B) + 1 <= Cardinality(A)
<1>1. /\ IsFiniteSet(A) /\ Cardinality(A) \in Nat
      /\ IsFiniteSet(A \ {t}) /\ Cardinality(A \ {t}) \in Nat
      /\ Cardinality(B) \in Nat
  BY TabSets
<1>2. Cardinality(A \ {t}) = Cardinality(A) - 1
  BY <1>1, FS_RemoveElement
<1>3. Cardinality(B) <= Cardinality(A \ {t})
  BY <1>1, FS_Subset
<1>4. QED
  BY <1>1, <1>2, <1>3

LEMMA NoMore ==
  ASSUME NEW A \in SUBSET Tabs, NEW B \in SUBSET A
  PROVE  Cardinality(B) <= Cardinality(A)
BY TabSets, FS_Subset

LEMMA OwedAreCalls ==
  /\ OwedRenewals \subseteq Renewals /\ OwedForms \subseteq Forms
  /\ Renewals \subseteq Tabs /\ Forms \subseteq Tabs
BY DEF OwedRenewals, Renewals, OwedForms, Forms, NoSend

(* A call that begins may issue n sessions, of which n - 1 are issued now. *)
LEMMA RoomKept ==
  ASSUME Types, NEW n \in 1..2, Room(n), issued' = issued + n - 1, NEW t \in Tabs,
         \/ OwedRenewals' \subseteq OwedRenewals \cup {t} /\ OwedForms' \subseteq OwedForms
         \/ OwedRenewals' \subseteq OwedRenewals /\ OwedForms' \subseteq OwedForms \cup {t}
  PROVE  Bounded'
<1>1. issued + n + Cardinality(Renewals) + Cardinality(Forms) <= MaxSessions
  BY DEF Room, Renewals, Forms
<1>2. /\ Cardinality(OwedRenewals) <= Cardinality(Renewals)
      /\ Cardinality(OwedForms) <= Cardinality(Forms)
  BY OwedAreCalls, NoMore
<1>3. /\ OwedRenewals \in SUBSET Tabs /\ OwedForms \in SUBSET Tabs
      /\ OwedRenewals' \in SUBSET Tabs /\ OwedForms' \in SUBSET Tabs
  BY DEF OwedRenewals, OwedForms
<1>4. /\ Cardinality(Renewals) \in Nat /\ Cardinality(Forms) \in Nat
      /\ Cardinality(OwedRenewals) \in Nat /\ Cardinality(OwedForms) \in Nat
      /\ Cardinality(OwedRenewals') \in Nat /\ Cardinality(OwedForms') \in Nat
  BY <1>3, OwedAreCalls, TabSets
<1>5. Cardinality(OwedRenewals') + Cardinality(OwedForms')
        <= Cardinality(OwedRenewals) + Cardinality(OwedForms) + 1
  <2>1. CASE OwedRenewals' \subseteq OwedRenewals \cup {t} /\ OwedForms' \subseteq OwedForms
    <3>1. Cardinality(OwedRenewals') <= Cardinality(OwedRenewals) + 1
      BY <1>3, <2>1, OneMore
    <3>2. Cardinality(OwedForms') <= Cardinality(OwedForms)
      BY <1>3, <2>1, NoMore
    <3>3. QED
      BY <1>4, <3>1, <3>2
  <2>2. CASE OwedRenewals' \subseteq OwedRenewals /\ OwedForms' \subseteq OwedForms \cup {t}
    <3>1. Cardinality(OwedForms') <= Cardinality(OwedForms) + 1
      BY <1>3, <2>2, OneMore
    <3>2. Cardinality(OwedRenewals') <= Cardinality(OwedRenewals)
      BY <1>3, <2>2, NoMore
    <3>3. QED
      BY <1>4, <3>1, <3>2
  <2>3. QED
    BY <2>1, <2>2
<1>6. issued \in Nat /\ MaxSessions \in Nat
  BY SessionAssumption DEF Types
<1>7. QED
  BY <1>1, <1>2, <1>4, <1>5, <1>6 DEF Bounded

(* A session is issued for a call that was owed one. *)
LEMMA IssueKept ==
  ASSUME Types, Bounded, issued' = issued + 1, NEW t,
         \/ t \in OwedRenewals /\ OwedRenewals' \subseteq OwedRenewals \ {t}
              /\ OwedForms' \subseteq OwedForms
         \/ t \in OwedForms /\ OwedForms' \subseteq OwedForms \ {t}
              /\ OwedRenewals' \subseteq OwedRenewals
  PROVE  Bounded'
<1>1. /\ OwedRenewals \in SUBSET Tabs /\ OwedForms \in SUBSET Tabs
      /\ OwedRenewals' \in SUBSET Tabs /\ OwedForms' \in SUBSET Tabs
  BY DEF OwedRenewals, OwedForms
<1>2. /\ Cardinality(OwedRenewals) \in Nat /\ Cardinality(OwedForms) \in Nat
      /\ Cardinality(OwedRenewals') \in Nat /\ Cardinality(OwedForms') \in Nat
  BY <1>1, TabSets
<1>3. Cardinality(OwedRenewals') + Cardinality(OwedForms') + 1
        <= Cardinality(OwedRenewals) + Cardinality(OwedForms)
  <2>1. CASE t \in OwedRenewals /\ OwedRenewals' \subseteq OwedRenewals \ {t}
               /\ OwedForms' \subseteq OwedForms
    <3>1. Cardinality(OwedRenewals') + 1 <= Cardinality(OwedRenewals)
      BY <1>1, <2>1, OneLess
    <3>2. Cardinality(OwedForms') <= Cardinality(OwedForms)
      BY <1>1, <2>1, NoMore
    <3>3. QED
      BY <1>2, <3>1, <3>2
  <2>2. CASE t \in OwedForms /\ OwedForms' \subseteq OwedForms \ {t}
               /\ OwedRenewals' \subseteq OwedRenewals
    <3>1. Cardinality(OwedForms') + 1 <= Cardinality(OwedForms)
      BY <1>1, <2>2, OneLess
    <3>2. Cardinality(OwedRenewals') <= Cardinality(OwedRenewals)
      BY <1>1, <2>2, NoMore
    <3>3. QED
      BY <1>2, <3>1, <3>2
  <2>3. QED
    BY <2>1, <2>2
<1>4. issued \in Nat /\ MaxSessions \in Nat
  BY SessionAssumption DEF Types
<1>5. QED
  BY <1>2, <1>3, <1>4 DEF Bounded

LEMMA RestKept ==
  ASSUME Types, Bounded, issued' = issued,
         OwedRenewals' \subseteq OwedRenewals, OwedForms' \subseteq OwedForms
  PROVE  Bounded'
<1>1. /\ OwedRenewals \in SUBSET Tabs /\ OwedForms \in SUBSET Tabs
      /\ OwedRenewals' \in SUBSET Tabs /\ OwedForms' \in SUBSET Tabs
  BY DEF OwedRenewals, OwedForms
<1>2. /\ Cardinality(OwedRenewals) \in Nat /\ Cardinality(OwedForms) \in Nat
      /\ Cardinality(OwedRenewals') \in Nat /\ Cardinality(OwedForms') \in Nat
  BY <1>1, TabSets
<1>3. /\ Cardinality(OwedRenewals') <= Cardinality(OwedRenewals)
      /\ Cardinality(OwedForms') <= Cardinality(OwedForms)
  BY <1>1, NoMore
<1>4. issued \in Nat /\ MaxSessions \in Nat
  BY SessionAssumption DEF Types
<1>5. QED
  BY <1>2, <1>3, <1>4 DEF Bounded

(* What a step does to one call. *)
LEMMA OtherCalls ==
  ASSUME Types, NEW t \in Tabs
  PROVE  /\ \A c : renew' = [renew EXCEPT ![t] = c] =>
              /\ renew'[t] = c /\ \A u \in Tabs \ {t} : renew'[u] = renew[u]
              /\ OwedRenewals' \subseteq OwedRenewals \cup {t}
              /\ c.step \notin {"sent", "checked"} => OwedRenewals' \subseteq OwedRenewals \ {t}
         /\ \A c : form' = [form EXCEPT ![t] = c] =>
              /\ form'[t] = c /\ \A u \in Tabs \ {t} : form'[u] = form[u]
              /\ OwedForms' \subseteq OwedForms \cup {t}
              /\ c.step \notin {"sent", "revoked"} => OwedForms' \subseteq OwedForms \ {t}
         /\ renew' = renew => OwedRenewals' = OwedRenewals
         /\ form' = form => OwedForms' = OwedForms
BY DEF Types, OwedRenewals, OwedForms

LEMMA BoundedKept ==
  ASSUME Types, Bounded, [SessionsNext]_sessionsVars
  PROVE  Bounded'
<1>1. ASSUME NEW t \in Tabs,
             LoadPage(t) \/ \E r \in Requests : Denied(t, r) /\ renew[t] = NoSend
      PROVE  Bounded'
  <2>1. /\ Room(1) /\ form' = form /\ issued' = issued + 1 - 1
        /\ \E c : renew' = [renew EXCEPT ![t] = c]
    BY <1>1 DEF LoadPage, Denied, Types
  <2>2. OwedRenewals' \subseteq OwedRenewals \cup {t} /\ OwedForms' \subseteq OwedForms
    BY <2>1, OtherCalls
  <2>3. 1 \in 1..2
    OBVIOUS
  <2>4. QED
    BY <2>1, <2>2, <2>3, RoomKept
<1>2. ASSUME NEW t \in Tabs, PressLogin(t) \/ PressLogout(t) \/ PressChange(t) PROVE Bounded'
  <2>1. /\ Room(1) /\ renew' = renew /\ issued' = issued + 1 - 1
        /\ \E c : form' = [form EXCEPT ![t] = c]
    BY <1>2 DEF PressLogin, PressLogout, PressChange, PressForm, Types
  <2>2. OwedRenewals' \subseteq OwedRenewals /\ OwedForms' \subseteq OwedForms \cup {t}
    BY <2>1, OtherCalls
  <2>3. 1 \in 1..2
    OBVIOUS
  <2>4. QED
    BY <2>1, <2>2, <2>3, RoomKept
<1>3. ASSUME NEW t \in Tabs, ReturnFromProvider(t) PROVE Bounded'
  <2> DEFINE c == [Sent("boot") EXCEPT !.held = issued + 1]
  <2>1. /\ Room(2) /\ form' = form /\ issued' = issued + 1
        /\ renew' = [renew EXCEPT ![t] = c]
    BY <1>3 DEF ReturnFromProvider
  <2> HIDE DEF c
  <2>2. OwedRenewals' \subseteq OwedRenewals \cup {t} /\ OwedForms' \subseteq OwedForms
    BY <2>1, OtherCalls
  <2>3. 2 \in 1..2 /\ issued' = issued + 2 - 1
    BY <2>1 DEF Types
  <2>4. QED
    BY <2>1, <2>2, <2>3, RoomKept
<1>4. ASSUME NEW t \in Tabs, Rotate(t) PROVE Bounded'
  <2> DEFINE c == [renew[t] EXCEPT !.step = "done", !.new = issued + 1, !.held = 0]
  <2>1. /\ t \in OwedRenewals /\ form' = form /\ issued' = issued + 1
        /\ renew' = [renew EXCEPT ![t] = c]
    BY <1>4 DEF Rotate, OwedRenewals, Types
  <2>2. c.step = "done"
    BY <1>4 DEF Types, AnyCalls, NoSend, Rotate
  <2> HIDE DEF c
  <2>3. QED
    BY <2>1, <2>2, OtherCalls, IssueKept
<1>5. ASSUME NEW t \in Tabs, IssueForForm(t) PROVE Bounded'
  <2> DEFINE c == [form[t] EXCEPT !.step = "done", !.new = issued + 1]
  <2>1. /\ t \in OwedForms /\ renew' = renew /\ issued' = issued + 1
        /\ form' = [form EXCEPT ![t] = c]
    BY <1>5 DEF IssueForForm, OwedForms, Types
  <2>2. c.step = "done"
    BY <1>5 DEF Types, AnyCalls, NoSend, IssueForForm
  <2> HIDE DEF c
  <2>3. QED
    BY <2>1, <2>2, OtherCalls, IssueKept
<1>6. ASSUME NEW t \in Tabs,
             CheckCookie(t) \/ RenewArrives(t) \/ RenewFails(t) \/ IssueFails(t) \/ LoseRenew(t)
      PROVE  Bounded'
  <2>1. /\ form' = form /\ issued' = issued
        /\ \E c : renew' = [renew EXCEPT ![t] = c]
        /\ renew'[t].step \in {"sent", "checked"} => t \in OwedRenewals
    BY <1>6
    DEF CheckCookie, RenewTo, RenewArrives, RenewFails, IssueFails, LoseRenew, Types, OwedRenewals,
        AnyCalls, NoSend
  <2>2. OwedRenewals' \subseteq OwedRenewals
    BY <2>1, OtherCalls DEF OwedRenewals
  <2>3. QED
    BY <2>1, <2>2, OtherCalls, RestKept
<1>7. ASSUME NEW t \in Tabs,
             \/ RefuseForm(t) \/ RevokeAll(t) \/ RevokeByLogout(t) \/ LoseForm(t)
             \/ FormSucceeds(t) \/ FormFails(t) \/ LogoutReturns(t)
      PROVE  Bounded'
  <2>1. /\ renew' = renew /\ issued' = issued
        /\ \E c : form' = [form EXCEPT ![t] = c]
        /\ form'[t].step \in {"sent", "revoked"} => t \in OwedForms
    BY <1>7
    DEF RefuseForm, RevokeAll, RevokeByLogout, LoseForm, FormSucceeds, FormFails, LogoutReturns,
        Types, OwedForms, AnyCalls, NoSend
  <2>2. OwedForms' \subseteq OwedForms
    BY <2>1, OtherCalls DEF OwedForms
  <2>3. QED
    BY <2>1, <2>2, OtherCalls, RestKept
<1>8. ASSUME UNCHANGED <<renew, form, issued>> PROVE Bounded'
  BY <1>8 DEF Bounded, OwedRenewals, OwedForms
<1>9. ASSUME NEW t \in Tabs, NEW r \in Requests, Denied(t, r), renew[t] # NoSend
       PROVE  Bounded'
  BY <1>8, <1>9 DEF Denied
<1>10. QED
  BY <1>1, <1>2, <1>3, <1>4, <1>5, <1>6, <1>7, <1>8, <1>9
  DEF SessionsNext, Renewing, Submitting, Ask, ExpireToken, Disable, sessionsVars

LEMMA NumbersKept ==
  ASSUME Types, Numbers, [SessionsNext]_sessionsVars
  PROVE  Numbers'
<1>0. issued \in Nat /\ IssuedOnly(NoSend) /\ \A op : IssuedOnly(Sent(op))
  BY DEF Types, Numbers, IssuedOnly, NoSend, Sent
<1>1. ASSUME NEW t \in Tabs, NEW r, LoadPage(t) \/ Denied(t, r) PROVE Numbers'
  <2>1. UNCHANGED <<form, cookie, active, issued, signedIn>>
    BY <1>1 DEF LoadPage, Denied
  <2>2. renew' = renew \/ \E op : renew' = [renew EXCEPT ![t] = Sent(op)]
    BY <1>1 DEF LoadPage, Denied
  <2>3. \A u \in Tabs : renew'[u] = renew[u] \/ \E op : renew'[u] = Sent(op)
    BY <2>2, OtherCalls
  <2>4. QED
    BY <1>0, <2>1, <2>3 DEF Numbers, IssuedOnly
<1>2. ASSUME NEW t \in Tabs, PressLogin(t) \/ PressLogout(t) \/ PressChange(t) PROVE Numbers'
  <2>1. UNCHANGED <<renew, cookie, active, issued>> /\ signedIn' \in BOOLEAN
    BY <1>2 DEF PressLogin, PressLogout, PressChange, PressForm, Numbers
  <2>2. \E op : form' = [form EXCEPT ![t] = Sent(op)]
    BY <1>2 DEF PressLogin, PressLogout, PressChange, PressForm
  <2>3. \A u \in Tabs : form'[u] = form[u] \/ \E op : form'[u] = Sent(op)
    BY <2>2, OtherCalls
  <2>4. QED
    BY <1>0, <2>1, <2>3 DEF Numbers, IssuedOnly
<1>3. ASSUME NEW t \in Tabs,
             \/ CheckCookie(t) \/ RenewArrives(t) \/ RenewFails(t)
             \/ IssueFails(t) \/ LoseRenew(t)
      PROVE  Numbers'
  <2>1. /\ UNCHANGED <<form, issued, signedIn>>
        /\ cookie' \in {0, cookie, renew[t].new} /\ active' \subseteq active
    BY <1>3 DEF CheckCookie, RenewTo, RenewArrives, RenewFails, IssueFails, LoseRenew
  <2>2. \/ renew' = [renew EXCEPT ![t] = NoSend]
        \/ \E step : renew' = [renew EXCEPT ![t].step = step]
    BY <1>3 DEF CheckCookie, RenewTo, RenewArrives, RenewFails, IssueFails, LoseRenew
  <2>3. \A u \in Tabs : \/ renew'[u] = NoSend
                        \/ renew'[u].held = renew[u].held /\ renew'[u].new = renew[u].new
    BY <2>2 DEF Types, AnyCalls, NoSend
  <2>4. QED
    BY <1>0, <2>1, <2>3 DEF Numbers, IssuedOnly
<1>4. ASSUME NEW t \in Tabs,
             \/ RefuseForm(t) \/ RevokeAll(t) \/ RevokeByLogout(t) \/ LoseForm(t)
             \/ FormSucceeds(t) \/ FormFails(t) \/ LogoutReturns(t)
      PROVE  Numbers'
  <2>1. /\ UNCHANGED <<renew, issued>> /\ signedIn' \in BOOLEAN
        /\ cookie' \in {0, cookie, form[t].new} /\ active' \subseteq active
    BY <1>4
    DEF RefuseForm, RevokeAll, RevokeByLogout, LoseForm, FormSucceeds, FormFails, LogoutReturns,
        Numbers
  <2>2. \/ form' = [form EXCEPT ![t] = NoSend]
        \/ \E step : form' = [form EXCEPT ![t].step = step]
    BY <1>4
    DEF RefuseForm, RevokeAll, RevokeByLogout, LoseForm, FormSucceeds, FormFails, LogoutReturns
  <2>3. \A u \in Tabs : \/ form'[u] = NoSend
                        \/ form'[u].held = form[u].held /\ form'[u].new = form[u].new
    BY <2>2 DEF Types, AnyCalls, NoSend
  <2>4. QED
    BY <1>0, <2>1, <2>3 DEF Numbers, IssuedOnly
<1>5. ASSUME NEW t \in Tabs, ReturnFromProvider(t) PROVE Numbers'
  <2>1. /\ form' = form /\ issued' = issued + 1 /\ cookie' = issued + 1 /\ signedIn' \in BOOLEAN
        /\ active' = active \cup {issued + 1}
    BY <1>5 DEF ReturnFromProvider
  <2>2. /\ renew'[t].held = issued + 1 /\ renew'[t].new = 0
        /\ \A u \in Tabs \ {t} : renew'[u] = renew[u]
    BY <1>5 DEF ReturnFromProvider, Types, Sent
  <2>3. QED
    BY <1>0, <2>1, <2>2 DEF Numbers, IssuedOnly
<1>6. ASSUME NEW t \in Tabs, Rotate(t) PROVE Numbers'
  <2>1. /\ UNCHANGED <<form, cookie, signedIn>> /\ issued' = issued + 1
        /\ active' \subseteq active \cup {issued + 1}
    BY <1>6 DEF Rotate
  <2>2. /\ renew'[t].held = 0 /\ renew'[t].new = issued + 1
        /\ \A u \in Tabs \ {t} : renew'[u] = renew[u]
    BY <1>6 DEF Rotate, Types, AnyCalls, NoSend
  <2>3. QED
    BY <1>0, <2>1, <2>2 DEF Numbers, IssuedOnly
<1>7. ASSUME NEW t \in Tabs, IssueForForm(t) PROVE Numbers'
  <2>1. /\ UNCHANGED <<renew, cookie, signedIn>> /\ issued' = issued + 1
        /\ active' = active \cup {issued + 1}
    BY <1>7 DEF IssueForForm
  <2>2. /\ form'[t].held = form[t].held /\ form'[t].new = issued + 1
        /\ \A u \in Tabs \ {t} : form'[u] = form[u]
    BY <1>7 DEF IssueForForm, Types, AnyCalls, NoSend
  <2>3. QED
    BY <1>0, <2>1, <2>2 DEF Numbers, IssuedOnly
<1>8. ASSUME UNCHANGED <<renew, form, cookie, active, issued, signedIn>> PROVE Numbers'
  BY <1>8 DEF Numbers, IssuedOnly
<1>9. QED
  BY <1>1, <1>2, <1>3, <1>4, <1>5, <1>6, <1>7, <1>8
  DEF SessionsNext, Renewing, Submitting, Ask, ExpireToken, Disable, sessionsVars

(* The variables keep their types, nothing refers to a session that was not *)
(* issued, and no more than MaxSessions are: what Room keeps free suffices. *)
THEOREM SessionsTypeCorrect == SessionsSpec => []SessionsTypeOK
<1>1. SessionsInit => Bounded /\ Numbers
  <2> SUFFICES ASSUME SessionsInit PROVE Bounded /\ Numbers
    OBVIOUS
  <2>1. OwedRenewals = {} /\ OwedForms = {}
    BY DEF SessionsInit, OwedRenewals, OwedForms, NoSend
  <2>2. Bounded
    BY <2>1, FS_EmptySet, SessionAssumption DEF SessionsInit, Bounded
  <2>3. issued = 0 /\ IssuedOnly(NoSend) /\ \A t \in Tabs : renew[t] = NoSend /\ form[t] = NoSend
    BY DEF SessionsInit, IssuedOnly, NoSend
  <2>4. Numbers
    <3>1. cookie = 0 /\ active = {} /\ signedIn = FALSE
      BY DEF SessionsInit
    <3>2. cookie \in 0..issued
      BY <2>3, <3>1
    <3>3. \A t \in Tabs : IssuedOnly(renew[t]) /\ IssuedOnly(form[t])
      BY <2>3
    <3>4. QED
      BY <3>1, <3>2, <3>3 DEF Numbers
  <2>5. QED
    BY <2>2, <2>4
<1>2. Types /\ Numbers /\ Bounded => SessionsTypeOK
  <2> SUFFICES ASSUME Types, Numbers, Bounded PROVE SessionsTypeOK
    OBVIOUS
  <2>1. /\ Cardinality(OwedRenewals) \in Nat /\ Cardinality(OwedForms) \in Nat
    BY TabSets DEF OwedRenewals, OwedForms
  <2>2. issued \in 0..MaxSessions
    BY <2>1, SessionAssumption DEF Bounded, Types
  <2>3. renew \in [Tabs -> Calls(RenewOps)] /\ form \in [Tabs -> Calls(FormOps)]
    BY <2>2, SessionAssumption DEF Types, Numbers, IssuedOnly, AnyCalls, Calls
  <2>4. QED
    BY <2>2, <2>3, SessionAssumption DEF Types, Numbers, SessionsTypeOK, SessionIds
<1>3. QED
  BY <1>1, <1>2, InitTypes, TypesKept, BoundedKept, NumbersKept, PTL DEF SessionsSpec

-----------------------------------------------------------------------------
(* A password change ends the sessions. *)

LEMMA ChangeEnds ==
  ASSUME Types, ChangeEndsSessions, [SessionsNext]_sessionsVars
  PROVE  ChangeEndsSessions'
<1>1. ASSUME NEW t \in Tabs, Rotate(t) \/ IssueForForm(t) \/ ReturnFromProvider(t)
      PROVE  ChangeEndsSessions'
  BY <1>1 DEF Types, ChangeEndsSessions, Rotate, IssueForForm, ReturnFromProvider
<1>2. ASSUME NEW t \in Tabs, RevokeAll(t) PROVE ChangeEndsSessions'
  BY <1>2 DEF ChangeEndsSessions, RevokeAll
<1>3. ASSUME active' \subseteq active, UNCHANGED revokedTo PROVE ChangeEndsSessions'
  BY <1>3 DEF ChangeEndsSessions
<1>4. QED
  BY <1>1, <1>2, <1>3
  DEF SessionsNext, Renewing, Submitting, LoadPage, ExpireToken, PressLogin, PressLogout, PressChange,
      PressForm, Ask, Denied, CheckCookie, RenewArrives, RenewFails, RevokeByLogout, FormSucceeds,
      FormFails, LogoutReturns, RefuseForm, IssueFails, LoseRenew, LoseForm, Disable, sessionsVars

(* No session that was issued by the time a password change revoked them    *)
(* all is ever active again.  Sessions issued after that moment may be: the *)
(* change's own, those of later logins, and one by a refresh that had passed*)
(* its check before.                                                        *)
THEOREM ChangeEndsAll == SessionsSpec => []ChangeEndsSessions
<1>1. SessionsInit => ChangeEndsSessions
  BY DEF SessionsInit, ChangeEndsSessions
<1>2. QED
  BY <1>1, InitTypes, TypesKept, ChangeEnds, PTL DEF SessionsSpec

-----------------------------------------------------------------------------
(* A page has a token, and what waits has something to wait for. *)

PageOf(t) == place[t] = "page" => token[t] # "none"
WaitsOf(t) == (\E r \in Requests : req[t][r] = "waiting") => renew[t].op = "refresh"

LEMMA PageKept ==
  ASSUME Types, NEW u \in Tabs, PageOf(u), [SessionsNext]_sessionsVars
  PROVE  PageOf(u)'
<1>1. ASSUME NEW t \in Tabs,
             LoadPage(t) \/ ReturnFromProvider(t) \/ ExpireToken(t) \/ RenewArrives(t)
               \/ FormSucceeds(t) \/ LogoutReturns(t)
      PROVE  PageOf(u)'
  BY <1>1
  DEF Types, PageOf, LoadPage, ReturnFromProvider, ExpireToken, RenewArrives, FormSucceeds,
      LogoutReturns
<1>2. ASSUME NEW t \in Tabs, RenewFails(t) PROVE PageOf(u)'
  BY <1>2 DEF Types, PageOf, RenewFails
<1>3. ASSUME UNCHANGED <<place, token>> PROVE PageOf(u)'
  BY <1>3 DEF PageOf
<1>4. QED
  BY <1>1, <1>2, <1>3
  DEF SessionsNext, Renewing, Submitting, PressLogin, PressLogout, PressChange, PressForm, Ask, Denied,
      CheckCookie, Rotate, RevokeAll, IssueForForm, RevokeByLogout, FormFails, RefuseForm,
      IssueFails, LoseRenew, LoseForm, Disable, sessionsVars

LEMMA WaitsKept ==
  ASSUME Types, NEW u \in Tabs, WaitsOf(u), [SessionsNext]_sessionsVars
  PROVE  WaitsOf(u)'
<1>1. ASSUME NEW t \in Tabs, LoadPage(t) \/ ReturnFromProvider(t) PROVE WaitsOf(u)'
  BY <1>1 DEF Types, WaitsOf, LoadPage, ReturnFromProvider
<1>2. ASSUME NEW t \in Tabs, NEW r \in Requests, Ask(t, r) PROVE WaitsOf(u)'
  BY <1>2 DEF Types, WaitsOf, Ask
<1>3. ASSUME NEW t \in Tabs, NEW r \in Requests, Denied(t, r) PROVE WaitsOf(u)'
  <2>1. renew[t] # NoSend => renew[t].op = "refresh"
    BY <1>3 DEF Types, Denied, RenewOps, AnyCalls
  <2>2. CASE t = u
    BY <1>3, <2>1, <2>2 DEF Types, WaitsOf, Denied, Sent
  <2>3. CASE t # u
    BY <1>3, <2>3 DEF Types, WaitsOf, Denied
  <2>4. QED
    BY <2>2, <2>3
<1>4. ASSUME NEW t \in Tabs, RenewArrives(t) \/ RenewFails(t) PROVE WaitsOf(u)'
  <2>1. CASE t = u
    <3>1. \A r \in Requests : req'[u][r] # "waiting"
      BY <1>4, <2>1 DEF Types, RenewArrives, RenewFails, ReleasedRequests
    <3>2. QED
      BY <3>1 DEF WaitsOf
  <2>2. CASE t # u
    BY <1>4, <2>2 DEF Types, WaitsOf, RenewArrives, RenewFails
  <2>3. QED
    BY <2>1, <2>2
<1>5. ASSUME NEW t \in Tabs, CheckCookie(t) \/ Rotate(t) \/ IssueFails(t) \/ LoseRenew(t)
      PROVE  WaitsOf(u)'
  <2>1. renew[t].step # "none" /\ UNCHANGED req
    BY <1>5 DEF CheckCookie, Rotate, IssueFails, LoseRenew
  <2>2. renew[t] \in [op : RenewOps, step : CallSteps, held : Nat, new : Nat]
    BY <2>1 DEF Types, AnyCalls, NoSend
  <2>3. renew'[u].op = renew[u].op
    BY <1>5, <2>2 DEF Types, CheckCookie, Rotate, IssueFails, LoseRenew, RenewTo
  <2>4. QED
    BY <2>1, <2>3 DEF WaitsOf
<1>6. ASSUME UNCHANGED <<req, renew>> PROVE WaitsOf(u)'
  BY <1>6 DEF WaitsOf
<1>7. QED
  BY <1>1, <1>2, <1>3, <1>4, <1>5, <1>6
  DEF SessionsNext, Renewing, Submitting, PressLogin, PressLogout, PressChange, PressForm, ExpireToken,
      RevokeAll, IssueForForm, RevokeByLogout, FormFails, FormSucceeds, LogoutReturns,
      RefuseForm, LoseForm, Disable, sessionsVars

(* A page is never shown without a token, nor does a request wait for no    *)
(* refresh, however the forms, loads and refreshes of the tabs interleave.  *)
THEOREM PagesHaveTokens == SessionsSpec => []PageHasToken
<1>1. SessionsInit => PageHasToken
  BY DEF SessionsInit, PageHasToken
<1>2. Types /\ PageHasToken /\ [SessionsNext]_sessionsVars => PageHasToken'
  BY PageKept, WaitsKept DEF PageHasToken, PageOf, WaitsOf
<1>3. QED
  BY <1>1, <1>2, InitTypes, TypesKept, PTL DEF SessionsSpec

-----------------------------------------------------------------------------
(* Rotation keeps the session.  While nothing has interfered there is at   *)
(* most one call, and what it holds or brings back is an active session.   *)

Quiet(t) == renew[t] = NoSend /\ form[t] = NoSend
QuietBut(t) == \A u \in Tabs \ {t} : Quiet(u)

RenewKeeps(t) ==
  /\ renew[t].step \in {"sent", "checked", "done", "refused"}
  /\ signedIn /\ renew[t].step \in {"sent", "checked"} => renew[t].held \in active
  /\ renew[t].step = "done" => renew[t].new \in active
  /\ signedIn => renew[t].step # "refused"

FormKeeps(t) ==
  /\ form[t].step # "lost"
  /\ form[t].op = "logout" => ~signedIn
  /\ signedIn /\ form[t].step \in {"sent", "refused"} => cookie \in active
  /\ form[t].op # "logout" /\ form[t].step = "done" => form[t].new \in active

Calm ==
  /\ \A t \in Tabs : renew[t] # NoSend =>
       form[t] = NoSend /\ QuietBut(t) /\ RenewKeeps(t)
  /\ \A t \in Tabs : form[t] # NoSend =>
       renew[t] = NoSend /\ QuietBut(t) /\ FormKeeps(t)
  /\ signedIn /\ (\A t \in Tabs : Quiet(t)) => cookie \in active

CalmInv == Types /\ (interfered = {} => Calm)

LEMMA OneRenewal ==
  ASSUME NEW t \in Tabs, (renew[t] # NoSend)', (form[t] = NoSend)', QuietBut(t)', RenewKeeps(t)'
  PROVE  Calm'
BY DEF Calm, Quiet, QuietBut

LEMMA OneForm ==
  ASSUME NEW t \in Tabs, (form[t] # NoSend)', (renew[t] = NoSend)', QuietBut(t)', FormKeeps(t)'
  PROVE  Calm'
BY DEF Calm, Quiet, QuietBut

LEMMA NoCallLeft ==
  ASSUME NEW t \in Tabs, Quiet(t)', QuietBut(t)', (signedIn => cookie \in active)'
  PROVE  Calm'
BY DEF Calm, Quiet, QuietBut

(* Who calls while nothing interferes finds no other call. *)
LEMMA CallsAlone ==
  ASSUME NoteOverlap, interfered' = {}
  PROVE  interfered = {} /\ \A t \in Tabs : Quiet(t)
BY DEF NoteOverlap, InFlight, Quiet

LEMMA CallBegins ==
  ASSUME CalmInv, interfered' = {}, NEW t \in Tabs,
         \/ LoadPage(t) \/ ReturnFromProvider(t)
         \/ PressLogin(t) \/ PressLogout(t) \/ PressChange(t)
         \/ \E r \in Requests : renew[t] = NoSend /\ Denied(t, r)
  PROVE  Calm'
<1>1. NoteOverlap
  BY DEF LoadPage, ReturnFromProvider, PressLogin, PressLogout, PressChange, PressForm, Denied
<1>2. /\ \A u \in Tabs : Quiet(u)
      /\ signedIn => cookie \in active
  BY <1>1, CallsAlone DEF CalmInv, Calm
<1>3. ASSUME LoadPage(t) \/ \E r \in Requests : renew[t] = NoSend /\ Denied(t, r)
      PROVE  Calm'
  <2>1. PICK op \in RenewOps : renew' = [renew EXCEPT ![t] = Sent(op)]
    BY <1>3 DEF LoadPage, Denied, RenewOps
  <2>2. UNCHANGED <<form, cookie, active, signedIn>>
    BY <1>3 DEF LoadPage, Denied
  <2>3. renew'[t] = Sent(op) /\ QuietBut(t)' /\ (form[t] = NoSend)'
    BY <1>2, <2>1, <2>2 DEF CalmInv, Types, Quiet, QuietBut
  <2>4. (renew[t] # NoSend)' /\ RenewKeeps(t)'
    BY <1>2, <2>2, <2>3 DEF Sent, NoSend, RenewKeeps, RenewOps
  <2>5. QED
    BY <2>3, <2>4, OneRenewal
<1>4. ASSUME ReturnFromProvider(t) PROVE Calm'
  <2>1. /\ renew'[t] = [Sent("boot") EXCEPT !.held = issued + 1]
        /\ issued + 1 \in active' /\ form' = form
        /\ QuietBut(t)'
    BY <1>2, <1>4 DEF CalmInv, Types, ReturnFromProvider, Quiet, QuietBut
  <2>2. (renew[t] # NoSend)' /\ RenewKeeps(t)' /\ (form[t] = NoSend)'
    BY <1>2, <2>1 DEF Sent, NoSend, RenewKeeps, Quiet
  <2>3. QED
    BY <2>1, <2>2, OneRenewal
<1>5. ASSUME PressLogin(t) \/ PressLogout(t) \/ PressChange(t) PROVE Calm'
  <2>1. PICK op \in FormOps : /\ PressForm(t, op)
                              /\ IF op = "logout" THEN signedIn' = FALSE ELSE signedIn' = signedIn
    BY <1>5 DEF PressLogin, PressLogout, PressChange, FormOps
  <2>2. /\ form'[t] = Sent(op) /\ QuietBut(t)' /\ (renew[t] = NoSend)'
        /\ UNCHANGED <<cookie, active>>
    BY <1>2, <2>1 DEF CalmInv, Types, PressForm, Quiet, QuietBut
  <2>3. (form[t] # NoSend)' /\ FormKeeps(t)'
    BY <1>2, <2>1, <2>2 DEF Sent, NoSend, FormKeeps, FormOps
  <2>4. QED
    BY <2>2, <2>3, OneForm
<1>6. QED
  BY <1>3, <1>4, <1>5

(* What the server does for the call. *)
LEMMA RenewMoves ==
  ASSUME CalmInv, interfered = {}, interfered' = {}, NEW t \in Tabs, CheckCookie(t) \/ Rotate(t)
  PROVE  Calm'
<1>1. renew[t] \in [op : RenewOps, step : CallSteps, held : Nat, new : Nat]
  BY DEF CalmInv, Types, AnyCalls, NoSend, CheckCookie, Rotate
<1>2. renew[t] # NoSend
  BY <1>1 DEF NoSend, RenewOps
<1>3. RenewKeeps(t) /\ form[t] = NoSend /\ QuietBut(t)
  BY <1>2 DEF CalmInv, Calm
<1>4. CASE CheckCookie(t)
  <2>1. PICK step \in {"checked", "refused"} :
          /\ renew'[t] = [renew[t] EXCEPT !.step = step]
          /\ step = "refused" => renew[t].held \notin active
          /\ UNCHANGED <<form, active, signedIn>>
    BY <1>4 DEF CalmInv, Types, CheckCookie, RenewTo, AccountEnabled
  <2>2. QuietBut(t)'
    BY <1>3, <1>4 DEF CalmInv, Types, CheckCookie, RenewTo, Quiet, QuietBut
  <2>3. (renew[t] # NoSend)'
    <3>1. renew'[t].op \in RenewOps
      BY <1>1, <2>1
    <3>2. QED
      BY <3>1 DEF NoSend, RenewOps
  <2>4. RenewKeeps(t)'
    BY <1>1, <1>3, <1>4, <2>1 DEF RenewKeeps, CheckCookie
  <2>5. QED
    BY <1>3, <2>1, <2>2, <2>3, <2>4, OneRenewal
<1>5. CASE Rotate(t)
  <2>1. /\ renew'[t] = [renew[t] EXCEPT !.step = "done", !.new = issued + 1, !.held = 0]
        /\ issued + 1 \in active' /\ form' = form
    BY <1>5 DEF CalmInv, Types, Rotate
  <2>2. QuietBut(t)'
    BY <1>3, <1>5 DEF CalmInv, Types, Rotate, Quiet, QuietBut
  <2>3. (renew[t] # NoSend)'
    <3>1. renew'[t].op \in RenewOps
      BY <1>1, <2>1
    <3>2. QED
      BY <3>1 DEF NoSend, RenewOps
  <2>4. RenewKeeps(t)'
    BY <1>1, <2>1 DEF RenewKeeps
  <2>5. QED
    BY <1>3, <2>1, <2>2, <2>3, <2>4, OneRenewal
<1>6. QED
  BY <1>4, <1>5

LEMMA FormMoves ==
  ASSUME CalmInv, interfered = {}, interfered' = {}, NEW t \in Tabs,
         RevokeAll(t) \/ IssueForForm(t) \/ RevokeByLogout(t) \/ RefuseForm(t)
  PROVE  Calm'
<1>1. form[t] \in [op : FormOps, step : CallSteps, held : Nat, new : Nat]
  BY DEF CalmInv, Types, AnyCalls, NoSend, RevokeAll, IssueForForm, RevokeByLogout, RefuseForm
<1>2. form[t] # NoSend
  BY <1>1 DEF NoSend, FormOps
<1>3. FormKeeps(t) /\ renew[t] = NoSend /\ QuietBut(t)
  BY <1>2 DEF CalmInv, Calm
<1>4. UNCHANGED <<renew, cookie, signedIn>>
  BY DEF RevokeAll, IssueForForm, RevokeByLogout, RefuseForm
<1>5. QuietBut(t)' /\ (renew[t] = NoSend)'
  BY <1>3, <1>4
  DEF CalmInv, Types, RevokeAll, IssueForForm, RevokeByLogout, RefuseForm, Quiet, QuietBut
<1>6. CASE RevokeAll(t) \/ RefuseForm(t) \/ RevokeByLogout(t)
  <2>1. PICK step \in {"revoked", "refused", "done"} :
          /\ form'[t] = [form[t] EXCEPT !.step = step]
          /\ step = "refused" => form[t].step = "sent" /\ active' = active
          /\ step = "done" => form[t].op = "logout"
    BY <1>6 DEF CalmInv, Types, RevokeAll, RefuseForm, RevokeByLogout
  <2>2. (form[t] # NoSend)'
    <3>1. form'[t].op \in FormOps
      BY <1>1, <2>1
    <3>2. QED
      BY <3>1 DEF NoSend, FormOps
  <2>3. FormKeeps(t)'
    BY <1>1, <1>3, <1>4, <2>1 DEF FormKeeps
  <2>4. QED
    BY <1>5, <2>2, <2>3, OneForm
<1>7. CASE IssueForForm(t)
  <2>1. /\ form'[t] = [form[t] EXCEPT !.step = "done", !.new = issued + 1]
        /\ issued + 1 \in active' /\ form[t].op # "logout"
    BY <1>7 DEF CalmInv, Types, IssueForForm
  <2>2. (form[t] # NoSend)'
    <3>1. form'[t].op \in FormOps
      BY <1>1, <2>1
    <3>2. QED
      BY <3>1 DEF NoSend, FormOps
  <2>3. FormKeeps(t)'
    BY <1>1, <1>3, <1>4, <2>1 DEF FormKeeps
  <2>4. QED
    BY <1>5, <2>2, <2>3, OneForm
<1>8. QED
  BY <1>6, <1>7

(* What the tab does with the reply. *)
LEMMA CallEnds ==
  ASSUME CalmInv, interfered = {}, interfered' = {}, NEW t \in Tabs,
         \/ RenewArrives(t) \/ RenewFails(t)
         \/ FormSucceeds(t) \/ FormFails(t) \/ LogoutReturns(t)
  PROVE  Calm'
<1>1. CASE RenewArrives(t) \/ RenewFails(t)
  <2>1. renew[t] # NoSend
    BY <1>1 DEF NoSend, RenewArrives, RenewFails
  <2>2. RenewKeeps(t) /\ form[t] = NoSend /\ QuietBut(t)
    BY <2>1 DEF CalmInv, Calm
  <2>3. Quiet(t)' /\ QuietBut(t)'
    BY <1>1, <2>2 DEF CalmInv, Types, RenewArrives, RenewFails, Quiet, QuietBut
  <2>4. (signedIn => cookie \in active)'
    <3>1. CASE RenewArrives(t)
      BY <2>2, <3>1 DEF RenewKeeps, RenewArrives
    <3>2. CASE RenewFails(t)
      BY <2>2, <3>2 DEF RenewKeeps, RenewFails
    <3>3. QED
      BY <1>1, <3>1, <3>2
  <2>5. QED
    BY <2>3, <2>4, NoCallLeft
<1>2. CASE FormSucceeds(t) \/ FormFails(t) \/ LogoutReturns(t)
  <2>1. form[t] # NoSend
    BY <1>2 DEF NoSend, FormSucceeds, FormFails, LogoutReturns
  <2>2. FormKeeps(t) /\ renew[t] = NoSend /\ QuietBut(t)
    BY <2>1 DEF CalmInv, Calm
  <2>3. Quiet(t)' /\ QuietBut(t)'
    BY <1>2, <2>2
    DEF CalmInv, Types, FormSucceeds, FormFails, LogoutReturns, Quiet, QuietBut
  <2>4. (signedIn => cookie \in active)'
    <3>1. CASE FormSucceeds(t)
      BY <2>2, <3>1 DEF FormKeeps, FormSucceeds
    <3>2. CASE FormFails(t)
      BY <2>2, <3>2 DEF FormKeeps, FormFails
    <3>3. CASE LogoutReturns(t)
      BY <2>2, <3>3 DEF FormKeeps, LogoutReturns
    <3>4. QED
      BY <1>2, <3>1, <3>2, <3>3
  <2>5. QED
    BY <2>3, <2>4, NoCallLeft
<1>3. QED
  BY <1>1, <1>2

(* What has interfered is not forgotten. *)
LEMMA DisturbedStays ==
  ASSUME [SessionsNext]_sessionsVars, interfered' = {}
  PROVE  interfered = {}
<1>1. CASE NoteOverlap \/ UNCHANGED interfered
  BY <1>1 DEF NoteOverlap
<1>2. CASE Disable \/ \E t \in Tabs : IssueFails(t) \/ LoseRenew(t) \/ LoseForm(t)
  BY <1>2 DEF Disable, IssueFails, LoseRenew, LoseForm
<1>3. ASSUME NEW t \in Tabs, Renewing(t) \/ Submitting(t) \/ RefuseForm(t) \/ ExpireToken(t)
      PROVE  UNCHANGED interfered
  BY <1>3
  DEF Renewing, Submitting, CheckCookie, Rotate, RenewArrives, RenewFails, RevokeAll, IssueForForm,
      RevokeByLogout, FormSucceeds, FormFails, LogoutReturns, RefuseForm, ExpireToken
<1>4. ASSUME NEW t \in Tabs,
             \/ LoadPage(t) \/ ReturnFromProvider(t)
             \/ PressLogin(t) \/ PressLogout(t) \/ PressChange(t)
             \/ \E r \in Requests : Ask(t, r) \/ Denied(t, r)
      PROVE  NoteOverlap \/ UNCHANGED interfered
  BY <1>4
  DEF LoadPage, ReturnFromProvider, PressLogin, PressLogout, PressChange, PressForm, Ask, Denied
<1>5. QED
  BY <1>1, <1>2, <1>3, <1>4 DEF SessionsNext, sessionsVars

LEMMA CalmKept ==
  ASSUME CalmInv, [SessionsNext]_sessionsVars, interfered' = {}
  PROVE  Calm'
<1>1. interfered = {} /\ Calm
  BY DisturbedStays DEF CalmInv
<1>2. ASSUME UNCHANGED <<renew, form, cookie, active, signedIn>> PROVE Calm'
  BY <1>1, <1>2 DEF Calm, Quiet, QuietBut, RenewKeeps, FormKeeps
<1>3. ASSUME NEW t \in Tabs, NEW r \in Requests, renew[t] # NoSend, Denied(t, r) PROVE Calm'
  BY <1>2, <1>3 DEF Denied
<1>4. CASE Disable \/ \E t \in Tabs : IssueFails(t) \/ LoseRenew(t) \/ LoseForm(t)
  BY <1>4 DEF Disable, IssueFails, LoseRenew, LoseForm
<1>5. QED
  BY <1>1, <1>2, <1>3, <1>4, CallBegins, RenewMoves, FormMoves, CallEnds
  DEF SessionsNext, Renewing, Submitting, Ask, ExpireToken, sessionsVars

(* Whatever sequence of loads, logins, password changes and refreshes ran:  *)
(* while none of them overlapped or was lost, the cookie of a signed-in     *)
(* user is an active session.                                               *)
THEOREM RotationKeepsSession == SessionsSpec => []KeepsSession
<1>1. SessionsInit => CalmInv
  BY InitTypes DEF SessionsInit, CalmInv, Calm, Quiet, QuietBut
<1>2. CalmInv /\ [SessionsNext]_sessionsVars => CalmInv'
  BY TypesKept, CalmKept DEF CalmInv
<1>3. CalmInv => KeepsSession
  BY DEF CalmInv, Calm, KeepsSession, InFlight, Quiet
<1>4. QED
  BY <1>1, <1>2, <1>3, PTL DEF SessionsSpec
==============================================================================
