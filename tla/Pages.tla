------------------------------- MODULE Pages -------------------------------
(***************************************************************************)
(* The pages of both apps that list something and let a user change it.    *)
(* They are written alike: an effect loads the list when the page is       *)
(* mounted, a chain of selects may choose which list, a control sends a    *)
(* change and loads the list again when it succeeded.  What distinguishes  *)
(* them is a record of a table: which calls a load makes, what they        *)
(* require of the user's role, which flags disable which controls, and     *)
(* what is done with an error.                                             *)
(*                                                                         *)
(* One page is mounted; its calls are handled and answered in any order.   *)
(***************************************************************************)
EXTENDS Integers, Sequences, FiniteSets

CONSTANTS
  Views,     \* the pages to check, of DOMAIN Table
  Roles,     \* the roles to check
  Children,  \* the options below an option; 0 is the root
  MaxCalls,  \* bound on the calls under way
  MaxRev     \* bound on the changes to a list

Keys == DOMAIN Children

(* 1 and 2 are also the fixed options of the question bank's filter, and a  *)
(* page asks for its list and its references at once.                       *)
ASSUME PagesAssumption ==
  /\ Keys \subseteq Nat /\ {0, 1, 2} \subseteq Keys
  /\ \A k \in Keys : Children[k] \subseteq Keys \ {0}
  /\ Children[0] # {}
  /\ MaxCalls \in Nat \ {0, 1} /\ MaxRev \in Nat

-----------------------------------------------------------------------------
(* Roles, what they are granted, and what they are shown. *)

AdminRoles == {"super_admin", "admin"}
PanelRoles == AdminRoles \cup {"content_editor", "content_reviewer", "support"}
AllRoles == PanelRoles \cup {"student", "parent"}

(* role_permissions as the migrations fill it.  "any" is requireAuth, and a *)
(* requireRole is written as the name of the role, "admin" for requireAdmin. *)
Permissions == {"curriculum.read", "curriculum.write", "questions.read", "questions.edit",
  "questions.review", "questions.publish", "users.read", "reports.read",
  "content_issues.read", "content_issues.resolve", "ai_content.generate"}
Granted(role) == {"any"} \cup
  CASE role \in AdminRoles -> Permissions \cup {"admin"}
    [] role = "content_editor" -> {"curriculum.read", "curriculum.write",
         "questions.read", "questions.edit", "ai_content.generate"}
    [] role = "content_reviewer" -> {"curriculum.read", "questions.read",
         "questions.review", "questions.publish", "content_issues.read"}
    [] role = "support" -> {"users.read", "reports.read", "content_issues.read",
         "content_issues.resolve"}
    [] OTHER -> {role}

(* SECTION_ROLES: who finds a link to the page.  The student app asks only  *)
(* for a session.                                                           *)
SectionRoles(view) ==
  CASE view \in {"curriculum", "grades", "subjects", "units", "lessons", "skills",
                 "questions", "quizzes", "books", "questionMedia"} ->
         AdminRoles \cup {"content_editor", "content_reviewer"}
    [] view = "reviews" -> AdminRoles \cup {"content_reviewer"}
    [] view \in {"students", "reports"} -> AdminRoles \cup {"support"}
    [] view = "contentIssues" -> AdminRoles \cup {"content_reviewer", "support"}
    [] view \in {"auditLogs", "featureFlags", "siteSettings"} -> AdminRoles
    [] view = "overview" -> PanelRoles
    [] OTHER -> {"student", "parent"}

-----------------------------------------------------------------------------
(* The table. *)

(* A control: the right its call requires, the flag that disables it while  *)
(* the call is under way ("form" a boolean, "row" the id of one row), which *)
(* list it changes (of the selection, of the item shown, or none), whether  *)
(* it belongs to an item of the list, what follows its success, and who is  *)
(* shown it.                                                                *)
Form(right) == [right |-> right, flag |-> "form", changes |-> "selected", item |-> FALSE,
                next |-> "load", roles |-> AllRoles]
Upload(right) == [Form(right) EXCEPT !.flag = "row"]
Row(right) == [Upload(right) EXCEPT !.item = TRUE]
Edit(right) == [Form(right) EXCEPT !.changes = "shown", !.item = TRUE]
NoWrite == [Form("any") EXCEPT !.changes = "none", !.next = "stay"]

(* A page: the right of each call that fills a select, the rights of the    *)
(* calls of a load, and of those that load references beside it;            *)
(*   settled  a call of the load that is refused leaves the others          *)
(*   gated    load sets "loading", which disables the reload button         *)
(*   clears   load clears the error       reload  there is a reload button  *)
(*   quiet    an error of load is not shown                                 *)
(*   checks   a form refuses some input with a message                      *)
(*   auto     the first option of a select is selected when it is filled    *)
(*   polls    the page reloads while something it lists is pending          *)
Plain(reads, writes) ==
  [options |-> <<>>, reads |-> reads, refs |-> {}, settled |-> FALSE, gated |-> TRUE,
   clears |-> FALSE, reload |-> TRUE, quiet |-> FALSE, checks |-> FALSE, auto |-> TRUE,
   polls |-> FALSE, writes |-> writes]
Chain(options, reads, writes) ==
  [Plain(reads, writes) EXCEPT !.options = options, !.gated = FALSE]
Loader(writes) == [Plain({"any"}, writes) EXCEPT !.gated = FALSE, !.reload = FALSE]

Grades == [Plain({"curriculum.read"}, {Form("curriculum.write")}) EXCEPT !.checks = TRUE]
Students == Plain({"users.read"}, {Row("admin")})
Reports == [Plain({"reports.read"}, {}) EXCEPT !.clears = TRUE]
Quizzes == Plain({"curriculum.read"}, {})
AuditLogs == [Plain({"admin"}, {}) EXCEPT !.clears = TRUE]
ContentIssues == Plain({"content_issues.read"}, {Row("content_issues.resolve")})
Curriculum == [Plain({"any", "curriculum.read"}, {}) EXCEPT !.clears = TRUE]
Reviews == [Plain({"questions.review"}, {Row("questions.review")}) EXCEPT !.checks = TRUE]
Skills ==
  [Plain({"curriculum.read"}, {Form("curriculum.write")}) EXCEPT !.gated = FALSE]

(* seven sources, Promise.allSettled *)
Overview ==
  [Plain({"reports.read", "questions.read", "questions.review", "admin", "curriculum.read"}, {})
     EXCEPT !.settled = TRUE, !.clears = TRUE]

FeatureFlags ==
  [Plain({"admin"}, {Row("admin")}) EXCEPT !.clears = TRUE, !.checks = TRUE]
(* save, or the upload of one of two files; hidden while it loads *)
SiteSettings ==
  [Plain({"admin"}, {Form("admin"), Upload("admin")})
     EXCEPT !.clears = TRUE, !.checks = TRUE, !.reload = FALSE]

(* The filter of the question bank is a select whose options are fixed.     *)
(* The list, its counters and, beside them, the references of the form.     *)
(* openEdit reads one question; a draft of the AI is opened, not listed.    *)
OpenEdit == [Row("questions.read") EXCEPT !.changes = "none", !.next = "stay"]
GenerateDraft ==
  [Form("ai_content.generate") EXCEPT !.next = "stay", !.roles = AdminRoles \cup {"content_editor"}]
Questions ==
  [Plain({"questions.read", "reports.read"},
         {Form("questions.edit"), OpenEdit, GenerateDraft,
          Row("questions.edit"), Row("questions.publish")})
     EXCEPT !.options = <<"fixed">>, !.refs = {"any", "curriculum.read"}, !.clears = TRUE]

Subjects ==
  [Chain(<<"curriculum.read">>, {"any"}, {Form("curriculum.write")}) EXCEPT !.checks = TRUE]
Units ==
  Chain(<<"any", "any">>, {"curriculum.read"}, {Form("curriculum.write"), Edit("curriculum.write")})
Lessons ==
  Chain(<<"any", "any", "curriculum.read">>, {"curriculum.read"},
        {Form("curriculum.write"), Edit("curriculum.write")})

(* upload of one of three books, and the import of an analysis *)
ImportAnalysis == Form("curriculum.write")
Books ==
  [Loader({Upload("curriculum.write"), ImportAnalysis})
     EXCEPT !.reads = {"curriculum.read"}, !.polls = TRUE]
QuestionMedia ==
  [Loader({Form("questions.edit")}) EXCEPT !.reads = {"questions.read"}, !.quiet = TRUE]

(* The student app. *)
Progress == Loader({})
Achievements == Loader({})
MistakeList == Loader({})
StudentSubjects == Loader({})
SubjectMap == [Loader({}) EXCEPT !.quiet = TRUE]
Respond == [NoWrite EXCEPT !.right = "student", !.flag = "none", !.changes = "selected",
                           !.next = "load"]
RequestLink == [NoWrite EXCEPT !.right = "parent", !.flag = "none", !.roles = {"parent"}]
Family ==
  [Loader({Respond, RequestLink})
     EXCEPT !.reads = {"any", "student", "parent"}, !.settled = TRUE, !.quiet = TRUE]
StartQuiz == [NoWrite EXCEPT !.next = "leave"]
Lesson == [Loader({StartQuiz}) EXCEPT !.quiet = TRUE]
(* Two choices and then the diagnostic test; no list. *)
Onboarding ==
  [Chain(<<"any", "any">>, {}, {StartQuiz}) EXCEPT !.auto = FALSE, !.quiet = TRUE, !.reload = FALSE]

Table ==
  [grades |-> Grades, students |-> Students, reports |-> Reports, quizzes |-> Quizzes,
   auditLogs |-> AuditLogs, contentIssues |-> ContentIssues, curriculum |-> Curriculum,
   reviews |-> Reviews, skills |-> Skills, overview |-> Overview,
   featureFlags |-> FeatureFlags, siteSettings |-> SiteSettings, questions |-> Questions,
   subjects |-> Subjects, units |-> Units, lessons |-> Lessons, books |-> Books,
   questionMedia |-> QuestionMedia, progress |-> Progress, achievements |-> Achievements,
   mistakeList |-> MistakeList, studentSubjects |-> StudentSubjects,
   subjectMap |-> SubjectMap, family |-> Family, lesson |-> Lesson,
   onboarding |-> Onboarding]

ASSUME ViewsAssumption == Views \subseteq DOMAIN Table /\ Roles \subseteq AllRoles

-----------------------------------------------------------------------------
VARIABLES
  view,      \* the page that is mounted
  role,      \* of the user in front of it
  sel,       \* the selected option of each select, 0 for none
  opts,      \* the options of each select
  ui,        \* what the page shows: the list, its flags, the error
  calls,     \* the calls under way: requests and replies
  srv,       \* the lists of the server: revisions, and what is pending
  disturbed  \* what has interfered with the calls: see Reasons

vars == <<view, role, sel, opts, ui, calls, srv, disturbed>>

Page == Table[view]
Levels == 1..Len(Page.options)
Fixed == Page.options = <<"fixed">>
Selected == IF Levels = {} THEN 0 ELSE sel[Len(Page.options)]
Slots == 1..MaxCalls
Reasons == {"overlap", "failed", "unlisted"}
Errors == {"", "invalid", "failed", "refused", "partial"}
Rows == {1, 2}

(* A list as it is shown: its key, its revision, whether the page polls.    *)
NoList == [key |-> 0, rev |-> 0, pending |-> FALSE]

NoCall == [op |-> "none", level |-> 0, key |-> 0, at |-> 0, write |-> NoWrite, row |-> 0,
           step |-> "none", got |-> NoList]
Load(key) == [NoCall EXCEPT !.op = "load", !.key = key, !.step = "sent"]
Options(level, parent) ==
  [NoCall EXCEPT !.op = "options", !.level = level, !.key = parent, !.step = "sent"]

Free(s) == calls[s] = NoCall /\ \A t \in 1..(s - 1) : calls[t] # NoCall
Busy == {s \in Slots : calls[s] # NoCall}
Writing(flag) == {s \in Busy : calls[s].op = "write" /\ calls[s].write.flag = flag}
Loading == {s \in Busy : calls[s].op = "load"}

Init ==
  /\ view \in Views
  /\ role \in Roles \cap SectionRoles(view)
  /\ sel = [l \in Levels |-> IF Fixed THEN 1 ELSE 0]
  /\ opts = [l \in Levels |-> IF Fixed THEN {1, 2} ELSE {}]
  /\ ui = [list |-> NoList, loading |-> Page.gated, saving |-> FALSE, busy |-> 0,
           error |-> "", open |-> TRUE]
  /\ calls = [s \in Slots |->
       IF s = 1 THEN IF Levels = {} \/ Fixed THEN Load(Selected) ELSE Options(1, 0)
       ELSE IF s = 2 /\ Page.refs # {} THEN [NoCall EXCEPT !.op = "refs", !.step = "sent"]
       ELSE NoCall]
  /\ srv = [rev |-> [k \in Keys |-> IF k = 0 /\ Levels # {} THEN 0 ELSE 1], pending |-> FALSE]
  /\ disturbed = {}

-----------------------------------------------------------------------------
(* The page. *)

(* load: what it does before its calls are answered. *)
Begin(shown) ==
  [shown EXCEPT !.loading = Page.gated, !.error = IF Page.clears THEN "" ELSE @]

(* An effect or a control sends a call; loads that overlap are noted.      *)
Send(c) ==
  /\ ui.open
  /\ \E s \in Slots : Free(s) /\ calls' = [calls EXCEPT ![s] = c]
  /\ disturbed' = disturbed \cup (IF Busy = {} THEN {} ELSE {"overlap"})
  /\ UNCHANGED <<view, role, srv>>

(* The selects below a select keep their options until theirs arrive; a     *)
(* choice of onboarding is forgotten when another grade is pressed.         *)
Below(l, v) == IF l = Len(Page.options) THEN Load(v) ELSE Options(l + 1, v)
Choose(l, v) ==
  /\ v \in opts[l] /\ (Page.auto => v # sel[l])
  /\ sel' = [i \in Levels |-> IF i = l THEN v ELSE IF i < l \/ Page.auto THEN sel[i] ELSE 0]
  /\ IF ~Page.auto /\ (l = Len(Page.options) \/ v = sel[l])
       THEN /\ ui.open
            /\ UNCHANGED <<ui, calls, view, role, srv, disturbed>>
       ELSE /\ Send(Below(l, v))
            /\ ui' = IF l = Len(Page.options) THEN Begin(ui) ELSE ui
  /\ UNCHANGED opts

Reload ==
  /\ \/ Page.reload /\ ~(Page.gated /\ ui.loading) /\ (Levels # {} => Selected # 0)
     \/ Page.polls /\ ui.list.pending
  /\ Send(Load(Selected))
  /\ ui' = Begin(ui)
  /\ UNCHANGED <<sel, opts>>

(* The control w, of row r if it belongs to a row.  It sends the key that   *)
(* the page was rendered with, and loads that key again.                    *)
Enabled(w, r) ==
  CASE w.flag = "form" -> ~ui.saving [] w.flag = "row" -> ui.busy # r [] OTHER -> TRUE
Press(w, r) ==
  /\ role \in w.roles /\ Enabled(w, r)
  /\ w.flag # "row" => r = 1
  /\ Levels # {} => \A l \in Levels : sel[l] # 0
  /\ w.item => ui.list # NoList
  /\ view = "siteSettings" => ~ui.loading
  /\ w.changes # "none" => \A k \in Keys : srv.rev[k] < MaxRev
  /\ Send([NoCall EXCEPT !.op = "write", !.key = Selected, !.write = w, !.row = r,
             !.at = IF w.changes = "shown" THEN ui.list.key ELSE Selected, !.step = "sent"])
  /\ ui' = [ui EXCEPT !.error = "", !.saving = @ \/ w.flag = "form",
                      !.busy = IF w.flag = "row" THEN r ELSE @]
  /\ UNCHANGED <<sel, opts>>

(* The form refuses what was entered; nothing is sent. *)
RefuseInput ==
  /\ ui.open /\ Page.checks /\ ui.error # "invalid"
  /\ ui' = [ui EXCEPT !.error = "invalid"]
  /\ UNCHANGED <<view, role, sel, opts, calls, srv, disturbed>>

-----------------------------------------------------------------------------
(* The server. *)

Rights(c) ==
  CASE c.op = "options" -> {Page.options[c.level]} [] c.op = "load" -> Page.reads
    [] c.op = "refs" -> Page.refs [] OTHER -> {c.write.right}
Refused(c) == ~(Rights(c) \subseteq Granted(role))

Answer(s, step, got) == calls' = [calls EXCEPT ![s].step = step, ![s].got = got]

Read(s) ==
  LET c == calls[s] IN
  /\ c.op \in {"options", "load", "refs"} /\ c.step = "sent"
  /\ Answer(s, IF ~Refused(c) THEN "ok" ELSE IF Page.settled THEN "partial" ELSE "refused",
       IF c.op = "load" THEN [key |-> c.key, rev |-> srv.rev[c.key], pending |-> srv.pending]
                        ELSE NoList)
  /\ UNCHANGED <<view, role, sel, opts, ui, srv, disturbed>>

(* A question that changed is in the list of every filter. *)
Changed(at) == IF Fixed THEN Keys ELSE {at}
Write(s) ==
  LET c == calls[s] IN
  /\ c.op = "write" /\ c.step = "sent"
  /\ IF Refused(c)
       THEN Answer(s, "refused", NoList) /\ UNCHANGED srv
       ELSE /\ Answer(s, "ok", NoList)
            /\ srv' = IF c.write.changes = "none" THEN srv
                      ELSE [srv EXCEPT !.pending = Page.polls,
                              !.rev = [k \in Keys |-> srv.rev[k] + IF k \in Changed(c.at) THEN 1 ELSE 0]]
  /\ UNCHANGED <<view, role, sel, opts, ui, disturbed>>

(* The analysis of an uploaded book ends. *)
EndAnalysis ==
  /\ srv.pending
  /\ srv' = [srv EXCEPT !.pending = FALSE, !.rev[0] = @ + 1]
  /\ UNCHANGED <<view, role, sel, opts, ui, calls, disturbed>>

(* The request does not arrive, the handler fails, or the reply is lost.    *)
Fail(s) ==
  /\ calls[s].step \in {"sent", "ok", "partial"}
  /\ Answer(s, "failed", NoList)
  /\ UNCHANGED <<view, role, sel, opts, ui, srv, disturbed>>

-----------------------------------------------------------------------------
(* The reply reaches the page. *)

Back(s, ops, steps) == ui.open /\ calls[s].op \in ops /\ calls[s].step \in steps
Done(s) == calls' = [calls EXCEPT ![s] = NoCall]
Good == {"ok", "partial"}
Bad == {"failed", "refused"}

First(options) == IF options = {} THEN 0 ELSE CHOOSE o \in options : \A p \in options : o <= p

(* Mutant: the selection of before stays, whatever the options are. *)
OptionsKeepSelection(s) ==
  LET c == calls[s]
      v == IF sel[c.level] # 0 THEN sel[c.level] ELSE First(Children[c.key]) IN
  /\ Back(s, {"options"}, Good)
  /\ opts' = [opts EXCEPT ![c.level] = Children[c.key]]
  /\ sel' = [sel EXCEPT ![c.level] = v]
  /\ IF v = sel[c.level]
       THEN Done(s) /\ UNCHANGED ui
       ELSE /\ calls' = [calls EXCEPT ![s] = Below(c.level, v)]
            /\ ui' = IF c.level = Len(Page.options) THEN Begin(ui) ELSE ui
  /\ UNCHANGED <<view, role, srv, disturbed>>

(* The options of a select arrive, and the first is selected.  A selection  *)
(* that changed has its own effect: the next select is filled, or the list  *)
(* loaded; without any option everything below is emptied.                  *)
OptionsArrive(s) ==
  LET c == calls[s]
      options == Children[c.key]
      v == IF Page.auto THEN First(options) ELSE sel[c.level]
      emptied == v = 0 /\ v # sel[c.level] IN
  /\ Back(s, {"options"}, Good)
  /\ opts' = [i \in Levels |-> IF i = c.level THEN options
                               ELSE IF i > c.level /\ emptied THEN {} ELSE opts[i]]
  /\ sel' = [i \in Levels |-> IF i = c.level THEN v
                              ELSE IF i > c.level /\ emptied THEN 0 ELSE sel[i]]
  /\ IF v = sel[c.level] \/ emptied
       THEN /\ Done(s)
            /\ ui' = IF emptied THEN [ui EXCEPT !.list = NoList] ELSE ui
       ELSE /\ calls' = [calls EXCEPT ![s] = Below(c.level, v)]
            /\ ui' = IF c.level = Len(Page.options) THEN Begin(ui) ELSE ui
  /\ UNCHANGED <<view, role, srv, disturbed>>

ListArrives(s) ==
  /\ Back(s, {"load"}, Good) /\ Done(s)
  /\ ui' = [ui EXCEPT !.list = calls[s].got, !.loading = FALSE,
       !.error = IF calls[s].step = "partial" /\ ~Page.quiet THEN "partial" ELSE @]
  /\ UNCHANGED <<view, role, sel, opts, srv, disturbed>>

RefsArrive(s) ==
  /\ Back(s, {"refs"}, Good) /\ Done(s)
  /\ UNCHANGED <<view, role, sel, opts, ui, srv, disturbed>>

(* What was shown stays, but for the pages that show an empty list instead. *)
ReadFails(s) ==
  LET loaded == calls[s].op = "load" IN
  /\ Back(s, {"options", "load", "refs"}, Bad) /\ Done(s)
  /\ ui' = [ui EXCEPT !.loading = @ /\ ~loaded,
       !.list = IF loaded /\ (Page.quiet \/ Page.settled) THEN NoList ELSE @,
       !.error = IF Page.quiet THEN @ ELSE calls[s].step]
  /\ opts' = IF calls[s].op = "options" /\ Page.quiet
               THEN [opts EXCEPT ![calls[s].level] = {}] ELSE opts
  /\ disturbed' = disturbed \cup {"failed"}
  /\ UNCHANGED <<view, role, sel, srv>>

(* finally: the flag of the control is reset. *)
Released(w) == [ui EXCEPT !.saving = @ /\ w.flag # "form", !.busy = IF w.flag = "row" THEN 0 ELSE @]

(* Mutant: the list is not loaded again. *)
WriteArrivesOnly(s) ==
  /\ Back(s, {"write"}, {"ok"}) /\ Done(s)
  /\ ui' = Released(calls[s].write)
  /\ UNCHANGED <<view, role, sel, opts, srv, disturbed>>

WriteArrives(s) ==
  LET c == calls[s] IN
  /\ Back(s, {"write"}, {"ok"})
  /\ IF c.write.next = "load"
       THEN /\ calls' = [calls EXCEPT ![s] = Load(c.key)]
            /\ ui' = Begin(Released(c.write))
       ELSE /\ Done(s)
            /\ ui' = [Released(c.write) EXCEPT !.open = c.write.next # "leave"]
  /\ disturbed' = IF c.write.next = "stay" /\ c.write.changes # "none"
                    THEN disturbed \cup {"unlisted"} ELSE disturbed
  /\ UNCHANGED <<view, role, sel, opts, srv>>

(* Mutant: the flag of the control is reset by a success only. *)
WriteFailsBusy(s) ==
  /\ Back(s, {"write"}, Bad) /\ Done(s)
  /\ ui' = [ui EXCEPT !.error = calls[s].step]
  /\ disturbed' = disturbed \cup {"failed"}
  /\ UNCHANGED <<view, role, sel, opts, srv>>

WriteFails(s) ==
  /\ Back(s, {"write"}, Bad) /\ Done(s)
  /\ ui' = [Released(calls[s].write) EXCEPT !.error = calls[s].step]
  /\ disturbed' = disturbed \cup {"failed"}
  /\ UNCHANGED <<view, role, sel, opts, srv>>

-----------------------------------------------------------------------------
User ==
  \/ \E l \in Levels : \E v \in opts[l] : Choose(l, v)
  \/ \E w \in Page.writes, r \in Rows : Press(w, r)
  \/ Reload \/ RefuseInput

Server == \/ \E s \in Slots : Read(s) \/ Write(s) \/ Fail(s)
          \/ EndAnalysis

Replies == \E s \in Slots :
  \/ OptionsArrive(s) \/ ListArrives(s) \/ RefsArrive(s) \/ ReadFails(s)
  \/ WriteArrives(s) \/ WriteFails(s)

Next == User \/ Server \/ Replies

Spec == Init /\ [][Next]_vars

-----------------------------------------------------------------------------
Settled == ui.open /\ Busy = {}

(* The types of the variables; and a control is disabled, or the page says  *)
(* that it loads, only while the call it waits for is under way.            *)
TypeOK ==
  /\ view \in Views /\ role \in Roles
  /\ sel \in [Levels -> Keys] /\ opts \in [Levels -> SUBSET Keys]
  /\ ui.list.key \in Keys /\ ui.list.rev \in Nat /\ ui.error \in Errors
  /\ ui.saving => Writing("form") # {}
  /\ ui.busy # 0 => Writing("row") # {}
  /\ ui.loading => Loading # {}
  /\ disturbed \subseteq Reasons

(* Once everything is answered the page shows the list that is selected as  *)
(* the server has it, or an error, unless calls overlapped: a load follows  *)
(* every change and every change of the selection.  After a failure a quiet *)
(* page shows no error, and a control that loads nothing, like openEdit,    *)
(* clears it; a book that is being analysed is asked for again.             *)
ClearsOnly == \E w \in Page.writes : w.next = "stay"
ShownIsCurrent ==
  Settled /\ disturbed \subseteq {"failed"} /\ Page.reads # {} =>
    \/ ui.error # "" \/ (disturbed # {} /\ (Page.quiet \/ ClearsOnly))
    \/ /\ ui.list.key = Selected
       /\ ui.list.pending \/ ui.list.rev = srv.rev[Selected]

(* The selects fit together: an option is shown and selected under the      *)
(* option it belongs to, so that what a form adds goes where the page says, *)
(* unless calls overlapped or failed.                                       *)
ChainFits ==
  Settled /\ disturbed = {} /\ Page.auto /\ ~Fixed =>
    \A l \in Levels :
      LET parent == IF l = 1 THEN 0 ELSE sel[l - 1] IN
      /\ opts[l] = IF parent = 0 /\ l > 1 THEN {} ELSE Children[parent]
      /\ sel[l] = 0 <=> opts[l] = {}
      /\ sel[l] \in opts[l] \cup {0}

(* What roles.ts says of the sections: a role that finds a link to a page   *)
(* may read what the page loads.                                            *)
SectionLoads == \A s \in Slots : calls[s].op = "load" => calls[s].step # "refused"
=============================================================================
