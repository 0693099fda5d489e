----------------------------- MODULE PagesProofs -----------------------------
(***************************************************************************)
(* The pages of the table, for any tree of options, any number of calls    *)
(* and revisions: what a page lists is what the server holds, and the      *)
(* selections of a chain belong together.                                  *)
(*                                                                         *)
(* Of the table the proofs use what TableOk says of every page, so that    *)
(* they are about the ways in which a page reads and writes, not about the *)
(* pages one by one.                                                       *)
(***************************************************************************)
EXTENDS Pages, WellFoundedInduction, TLAPS

(* What the proofs use of the table. *)
ControlOk(w) ==
  /\ w.flag \in {"form", "row", "none"}
  /\ w.changes \in {"selected", "shown", "none"}
  /\ w.next \in {"load", "stay", "leave"}
  /\ w.changes = "shown" => w.item
PageOk(p) ==
  /\ Len(p.options) \in Nat
  /\ p.gated \in BOOLEAN /\ p.clears \in BOOLEAN /\ p.polls \in BOOLEAN
  /\ p.gated => p.options = <<>> \/ p.options = <<"fixed">>
  /\ p.polls => p.options = <<>>
  /\ ~p.auto => p.reads = {}
  /\ \A w \in p.writes : ControlOk(w)

LEMMA ControlsOk ==
  ASSUME NEW right
  PROVE  /\ ControlOk(Form(right)) /\ ControlOk(Upload(right)) /\ ControlOk(Row(right))
         /\ ControlOk(Edit(right)) /\ ControlOk(NoWrite)
BY DEF ControlOk, Form, Upload, Row, Edit, NoWrite

LEMMA OtherControlsOk ==
  /\ ControlOk(OpenEdit) /\ ControlOk(GenerateDraft) /\ ControlOk(ImportAnalysis)
  /\ ControlOk(Respond) /\ ControlOk(RequestLink) /\ ControlOk(StartQuiz)
BY DEF ControlOk, OpenEdit, GenerateDraft, ImportAnalysis, Respond, RequestLink, StartQuiz,
       NoWrite, Form, Upload, Row

LEMMA PlainOk ==
  ASSUME NEW reads, NEW writes, \A w \in writes : ControlOk(w)
  PROVE  PageOk(Plain(reads, writes))
BY DEF PageOk, Plain

LEMMA TableOk == \A v \in DOMAIN Table : PageOk(Table[v])
<1> USE ControlsOk, OtherControlsOk DEF PageOk, Plain, Chain, Loader
<1>1. PageOk(Grades)
  BY DEF Grades
<1>2. PageOk(Students)
  BY DEF Students
<1>3. PageOk(Reports)
  BY DEF Reports
<1>4. PageOk(Quizzes)
  BY DEF Quizzes
<1>5. PageOk(AuditLogs)
  BY DEF AuditLogs
<1>6. PageOk(ContentIssues)
  BY DEF ContentIssues
<1>7. PageOk(Curriculum)
  BY DEF Curriculum
<1>8. PageOk(Reviews)
  BY DEF Reviews
<1>9. PageOk(Skills)
  BY DEF Skills
<1>10. PageOk(Overview)
  BY DEF Overview
<1>11. PageOk(FeatureFlags)
  BY DEF FeatureFlags
<1>12. PageOk(SiteSettings)
  BY DEF SiteSettings
<1>13. PageOk(Questions)
  BY DEF Questions
<1>14. PageOk(Subjects)
  BY DEF Subjects
<1>15. PageOk(Units)
  BY DEF Units
<1>16. PageOk(Lessons)
  BY DEF Lessons
<1>17. PageOk(Books)
  BY DEF Books
<1>18. PageOk(QuestionMedia)
  BY DEF QuestionMedia
<1>19. PageOk(Progress)
  BY DEF Progress
<1>20. PageOk(Achievements)
  BY DEF Achievements
<1>21. PageOk(MistakeList)
  BY DEF MistakeList
<1>22. PageOk(StudentSubjects)
  BY DEF StudentSubjects
<1>23. PageOk(SubjectMap)
  BY DEF SubjectMap
<1>24. PageOk(Family)
  BY DEF Family
<1>25. PageOk(Lesson)
  BY DEF Lesson
<1>26. PageOk(Onboarding)
  BY DEF Onboarding
<1> HIDE DEF PageOk, Plain, Chain, Loader
<1>27. \A v \in DOMAIN Table : Table[v] \in
        {Grades, Students, Reports, Quizzes, AuditLogs, ContentIssues, Curriculum, Reviews,
         Skills, Overview, FeatureFlags, SiteSettings, Questions, Subjects, Units, Lessons,
         Books, QuestionMedia, Progress, Achievements, MistakeList, StudentSubjects,
         SubjectMap, Family, Lesson, Onboarding}
  BY DEF Table
<1> QED
  BY <1>1, <1>2, <1>3, <1>4, <1>5, <1>6, <1>7, <1>8, <1>9, <1>10, <1>11, <1>12, <1>13, <1>14,
     <1>15, <1>16, <1>17, <1>18, <1>19, <1>20, <1>21, <1>22, <1>23, <1>24, <1>25, <1>26, <1>27

-----------------------------------------------------------------------------
(* Types. *)

(* The first option is one of them. *)
LEMMA FirstIs ==
  ASSUME NEW o \in SUBSET (Keys \ {0})
  PROVE  o # {} => First(o) \in o /\ First(o) # 0
<1> SUFFICES ASSUME o # {} PROVE First(o) \in o /\ First(o) # 0
  OBVIOUS
<1>0. o \subseteq Nat
  BY PagesAssumption
<1>1. IsWellFoundedOn(OpToRel(<, Nat), Nat)
  BY NatLessThanWellFounded
<1>2. PICK m \in o : \A p \in o : ~(<<p, m>> \in OpToRel(<, Nat))
  BY <1>0, <1>1, WFMin
<1>3. ASSUME NEW p \in o PROVE m <= p
  <2>1. <<p, m>> \in Nat \X Nat /\ p \in Nat /\ m \in Nat
    BY <1>0
  <2>2. OpToRel(<, Nat) = {ss \in Nat \X Nat : ss[1] < ss[2]}
    BY DEF OpToRel
  <2>3. ~(p < m)
    BY <1>2, <2>1, <2>2
  <2> QED BY <2>1, <2>3
<1> QED BY <1>3, <1>2 DEF First

Lists == [key : Keys, rev : Nat, pending : BOOLEAN]
Ops == {"none", "options", "load", "refs", "write"}
Steps == {"none", "sent", "ok", "partial", "failed", "refused"}
Controls == {NoWrite} \cup UNION {Table[v].writes : v \in DOMAIN Table}
Requests == [op : Ops, level : Nat, key : Keys, at : Keys, write : Controls, row : 0..2,
             step : Steps, got : Lists]
Screens == [list : Lists, loading : BOOLEAN, saving : BOOLEAN, busy : 0..2, error : Errors,
            open : BOOLEAN]
Servers == [rev : [Keys -> Nat], pending : BOOLEAN]

(* What a call is about.                                                    *)
CallOk(c) ==
  /\ c \in Requests
  /\ c.op = "none" => c = NoCall
  /\ c.op = "options" => c.level \in Levels /\ ~Fixed
  /\ c.op = "write" => c.write \in Page.writes

Typed ==
  /\ view \in Views /\ role \in Roles
  /\ sel \in [Levels -> Keys] /\ opts \in [Levels -> SUBSET (Keys \ {0})]
  /\ ui \in Screens /\ srv \in Servers /\ disturbed \subseteq Reasons
  /\ calls \in [Slots -> Requests] /\ \A s \in Slots : CallOk(calls[s])

LEMMA PageIs ==
  ASSUME view \in Views
  PROVE  PageOk(Page) /\ Page.writes \subseteq Controls /\ Len(Page.options) \in Nat
BY TableOk, ViewsAssumption DEF Page, Controls, PageOk

LEMMA FixedIs == Fixed => Len(Page.options) = 1 /\ Levels = {1}
<1>1. Len(<<"fixed">>) = 1
  OBVIOUS
<1> QED BY <1>1 DEF Fixed, Levels

LEMMA SelectedIs ==
  ASSUME Typed
  PROVE  Selected \in Keys
<1>1. Len(Page.options) \in Nat
  BY PageIs DEF Typed
<1>2. CASE Levels = {}
  BY <1>2, PagesAssumption DEF Selected
<1>3. CASE Levels # {}
  <2>1. Len(Page.options) \in Levels
    BY <1>1, <1>3 DEF Levels
  <2> QED BY <2>1, <1>3 DEF Selected, Typed
<1> QED BY <1>2, <1>3

LEMMA NewCalls ==
  /\ NoList \in Lists /\ NoCall \in Requests /\ NoCall.op = "none"
  /\ \A k \in Keys :
       LET c == Load(k) IN
       c \in Requests /\ c.op = "load" /\ c.key = k /\ c.step = "sent" /\ c.got = NoList
  /\ \A l \in Nat, k \in Keys :
       LET c == Options(l, k) IN
       /\ c \in Requests /\ c.op = "options" /\ c.level = l /\ c.key = k /\ c.step = "sent"
       /\ c.got = NoList
<1>1. NoList \in Lists
  BY PagesAssumption DEF NoList, Lists
<1>2. NoCall \in Requests /\ NoCall.op = "none"
  BY <1>1, PagesAssumption DEF NoCall, Requests, Controls, Ops, Steps
<1> DEFINE n == NoCall
<1>3. n.got = NoList
  BY DEF NoCall
<1>4. n \in Requests
  BY <1>2
<1>5. /\ \A k \in Keys : Load(k) = [n EXCEPT !.op = "load", !.key = k, !.step = "sent"]
      /\ \A l \in Nat, k \in Keys :
           Options(l, k) = [n EXCEPT !.op = "options", !.level = l, !.key = k, !.step = "sent"]
  BY DEF Load, Options
<1> HIDE DEF n
<1>6. ASSUME NEW k \in Keys
      PROVE  LET c == Load(k) IN
             c \in Requests /\ c.op = "load" /\ c.key = k /\ c.step = "sent" /\ c.got = NoList
  <2> DEFINE c == [n EXCEPT !.op = "load", !.key = k, !.step = "sent"]
  <2>1. c \in Requests /\ c.op = "load" /\ c.key = k /\ c.step = "sent" /\ c.got = n.got
    BY <1>4 DEF Requests, Ops, Steps
  <2>2. Load(k) = c
    BY <1>5
  <2> QED BY <1>3, <2>1, <2>2
<1>7. ASSUME NEW l \in Nat, NEW k \in Keys
      PROVE  LET c == Options(l, k) IN
             /\ c \in Requests /\ c.op = "options" /\ c.level = l /\ c.key = k /\ c.step = "sent"
             /\ c.got = NoList
  <2> DEFINE c == [n EXCEPT !.op = "options", !.level = l, !.key = k, !.step = "sent"]
  <2>1. /\ c \in Requests /\ c.op = "options" /\ c.level = l /\ c.key = k /\ c.step = "sent"
        /\ c.got = n.got
    BY <1>4 DEF Requests, Ops, Steps
  <2>2. Options(l, k) = c
    BY <1>5
  <2> QED BY <1>3, <2>1, <2>2
<1> QED BY <1>1, <1>2, <1>6, <1>7

(* The call that follows a new selection. *)
LEMMA BelowIs ==
  ASSUME Typed, NEW l \in Levels, NEW v \in Keys, ~Fixed \/ l = Len(Page.options)
  PROVE  /\ CallOk(Below(l, v)) /\ Below(l, v).key = v /\ Below(l, v).got = NoList
         /\ Below(l, v).step = "sent"
         /\ l = Len(Page.options) => Below(l, v).op = "load"
         /\ l # Len(Page.options) =>
              Below(l, v).op = "options" /\ Below(l, v).level = l + 1 /\ l + 1 \in Levels
<1>1. Len(Page.options) \in Nat
  BY PageIs DEF Typed
<1>2. l \in Nat /\ (l # Len(Page.options) => l + 1 \in Levels)
  BY <1>1 DEF Levels
<1>3. CASE l = Len(Page.options)
  BY <1>3, NewCalls DEF Below, CallOk
<1>4. CASE l # Len(Page.options)
  <2>1. Below(l, v) = Options(l + 1, v)
    BY <1>4 DEF Below
  <2> QED BY <1>2, <1>4, <2>1, NewCalls DEF CallOk
<1> QED BY <1>3, <1>4

(* What an answered call keeps. *)
Answered(c, step, got) == [c EXCEPT !.step = step, !.got = got]

LEMMA AnsweredIs ==
  ASSUME NEW c, CallOk(c), c # NoCall, NEW step \in Steps, NEW got \in Lists
  PROVE  LET d == Answered(c, step, got) IN
         /\ CallOk(d) /\ d.op = c.op /\ d.level = c.level /\ d.key = c.key /\ d.at = c.at
         /\ d.write = c.write /\ d.step = step /\ d.got = got
<1>1. c \in Requests /\ c.op # "none"
  BY DEF CallOk
<1> DEFINE d == Answered(c, step, got)
<1>2. /\ d \in Requests /\ d.op = c.op /\ d.level = c.level /\ d.key = c.key /\ d.at = c.at
      /\ d.write = c.write /\ d.step = step /\ d.got = got
  BY <1>1 DEF Requests, Answered
<1> HIDE DEF d
<1>3. CallOk(d)
  BY <1>1, <1>2 DEF CallOk
<1> QED BY <1>2, <1>3 DEF d

(* The slot s gets the call d, or is emptied. *)
LEMMA SlotTyped ==
  ASSUME Typed, view' = view, NEW s \in Slots, NEW d, CallOk(d),
         calls' = [calls EXCEPT ![s] = d]
  PROVE  /\ calls' \in [Slots -> Requests] /\ \A t \in Slots : CallOk(calls[t])'
         /\ calls'[s] = d /\ \A t \in Slots \ {s} : calls'[t] = calls[t]
<1>1. Page' = Page /\ Levels' = Levels /\ Fixed' = Fixed
  BY DEF Page, Levels, Fixed
<1>2. d \in Requests
  BY DEF CallOk
<1>3. /\ calls' \in [Slots -> Requests]
      /\ calls'[s] = d /\ \A t \in Slots \ {s} : calls'[t] = calls[t]
  BY <1>2 DEF Typed
<1>4. ASSUME NEW t \in Slots PROVE CallOk(calls[t])'
  <2>1. CallOk(calls'[t])
    BY <1>3 DEF Typed
  <2> QED BY <1>1, <2>1 DEF CallOk
<1> QED BY <1>3, <1>4

LEMMA NoCallOk == CallOk(NoCall)
BY NewCalls DEF CallOk, NoCall

(* A call that is sent takes the first slot that is free; if calls never    *)
(* overlapped, there was no other.                                          *)
LEMMA SendIs ==
  ASSUME Typed, NEW c, CallOk(c), Send(c)
  PROVE  \E s \in Slots :
           /\ calls[s] = NoCall /\ calls' = [calls EXCEPT ![s] = c]
           /\ "overlap" \notin disturbed' =>
                s = 1 /\ Busy = {} /\ \A t \in Slots : calls[t] = NoCall
           /\ disturbed \subseteq disturbed' /\ disturbed' \subseteq disturbed \cup {"overlap"}
           /\ view' = view /\ role' = role /\ srv' = srv /\ ui.open
<1>1. PICK s \in Slots : Free(s) /\ calls' = [calls EXCEPT ![s] = c]
  BY DEF Send
<1>2. /\ calls[s] = NoCall /\ \A t \in 1..(s - 1) : calls[t] # NoCall
  BY <1>1 DEF Free
<1>3. disturbed \subseteq disturbed' /\ disturbed' \subseteq disturbed \cup {"overlap"}
  BY DEF Send
<1>4. ASSUME "overlap" \notin disturbed'
      PROVE  s = 1 /\ Busy = {} /\ \A t \in Slots : calls[t] = NoCall
  <2>1. Busy = {}
    BY <1>4 DEF Send
  <2>2. \A t \in Slots : calls[t] = NoCall
    BY <2>1 DEF Busy
  <2>3. s = 1
    <3>1. MaxCalls \in Nat /\ s \in 1..MaxCalls
      BY PagesAssumption DEF Slots
    <3>2. ASSUME s # 1 PROVE FALSE
      <4>1. 1 \in 1..(s - 1) /\ 1 \in Slots
        BY <3>1, <3>2 DEF Slots
      <4> QED BY <1>2, <2>2, <4>1
    <3> QED BY <3>2
  <2> QED BY <2>1, <2>2, <2>3
<1> QED BY <1>1, <1>2, <1>3, <1>4 DEF Send

LEMMA BeginIs ==
  ASSUME Typed, NEW u \in Screens
  PROVE  LET b == Begin(u) IN
         /\ b \in Screens /\ b.list = u.list /\ b.saving = u.saving /\ b.busy = u.busy
         /\ b.open = u.open /\ b.loading = Page.gated
<1>1. Page.gated \in BOOLEAN
  BY PageIs DEF PageOk, Typed
<1> QED BY <1>1 DEF Begin, Screens, Errors

LEMMA ReleasedIs ==
  ASSUME Typed, NEW w
  PROVE  LET b == Released(w) IN
         /\ b \in Screens /\ b.list = ui.list /\ b.loading = ui.loading /\ b.error = ui.error
         /\ b.saving = (ui.saving /\ w.flag # "form")
         /\ b.busy = (IF w.flag = "row" THEN 0 ELSE ui.busy) /\ b.open = ui.open
<1> DEFINE saving == ui.saving /\ w.flag # "form"
           busy == IF w.flag = "row" THEN 0 ELSE ui.busy
<1>1. ui \in Screens
  BY DEF Typed
<1>2. Released(w) = [ui EXCEPT !.saving = saving, !.busy = busy]
  BY DEF Released
<1>3. saving \in BOOLEAN
  OBVIOUS
<1>4. busy \in 0..2
  BY <1>1 DEF Screens
<1> HIDE DEF saving, busy
<1>5. LET b == [ui EXCEPT !.saving = saving, !.busy = busy] IN
      /\ b \in Screens /\ b.list = ui.list /\ b.loading = ui.loading /\ b.error = ui.error
      /\ b.saving = saving /\ b.busy = busy /\ b.open = ui.open
  BY <1>1, <1>3, <1>4 DEF Screens
<1> QED BY <1>2, <1>5 DEF saving, busy

LEMMA PressIs ==
  ASSUME Typed, NEW w \in Page.writes, NEW r \in Rows, Press(w, r)
  PROVE  \E c : /\ CallOk(c) /\ Send(c) /\ c # NoCall /\ c.op = "write" /\ c.write = w
                /\ c.key = Selected /\ c.step = "sent" /\ c.got = NoList
                /\ c.at = IF w.changes = "shown" THEN ui.list.key ELSE Selected
<1> DEFINE n == NoCall
           key == Selected
           at == IF w.changes = "shown" THEN ui.list.key ELSE Selected
           c == [n EXCEPT !.op = "write", !.key = key, !.write = w, !.row = r,
                          !.at = at, !.step = "sent"]
<1>1. n \in Requests /\ n.got = NoList
  BY NewCalls DEF NoCall
<1>2. Selected \in Keys /\ ui.list.key \in Keys
  BY SelectedIs DEF Typed, Screens, Lists
<1>3. key \in Keys /\ at \in Keys /\ r \in 0..2 /\ w \in Controls
  BY <1>2, PageIs DEF Rows, Typed
<1>4. Send(c)
  BY DEF Press
<1> HIDE DEF n, key, at
<1>5. /\ c \in Requests /\ c.op = "write" /\ c.write = w
      /\ c.key = key /\ c.step = "sent" /\ c.got = n.got /\ c.at = at
  BY <1>1, <1>3 DEF Requests, Ops, Steps
<1> HIDE DEF c
<1>6. CallOk(c) /\ c # NoCall
  BY <1>5, NewCalls DEF CallOk
<1> QED BY <1>1, <1>4, <1>5, <1>6 DEF key, at

(* The calls that are answered, and those whose reply arrives. *)
LEMMA BackIs ==
  ASSUME Typed, NEW s \in Slots, NEW ops, NEW steps, Back(s, ops, steps), "none" \notin ops
  PROVE  /\ ui.open /\ calls[s].op \in ops /\ calls[s].step \in steps
         /\ calls[s] # NoCall /\ CallOk(calls[s]) /\ calls[s].key \in Keys
         /\ calls[s].got \in Lists
BY NewCalls DEF Back, Typed, Requests

LEMMA ServerIs ==
  ASSUME Typed, NEW s \in Slots
  PROVE  /\ Read(s) => \E step, got :
              /\ step \in {"ok", "partial", "refused"} /\ got \in Lists
              /\ calls[s].op \in {"options", "load", "refs"} /\ calls[s].step = "sent"
              /\ calls' = [calls EXCEPT ![s] = Answered(calls[s], step, got)]
              /\ calls[s].op = "load" => got = [key |-> calls[s].key, pending |-> srv.pending,
                                                rev |-> srv.rev[calls[s].key]]
              /\ calls[s].op # "load" => got = NoList
         /\ Write(s) => \E step :
              /\ step \in {"ok", "refused"} /\ calls[s].op = "write" /\ calls[s].step = "sent"
              /\ calls' = [calls EXCEPT ![s] = Answered(calls[s], step, NoList)]
         /\ Fail(s) =>
              /\ calls[s] # NoCall
              /\ calls' = [calls EXCEPT ![s] = Answered(calls[s], "failed", NoList)]
<1> DEFINE c == calls[s]
<1>1. c \in Requests /\ srv \in Servers
  BY DEF Typed
<1>2. ASSUME NEW step, NEW got, Answer(s, step, got)
      PROVE  calls' = [calls EXCEPT ![s] = Answered(c, step, got)]
  BY <1>2 DEF Answer, Answered, Typed
<1>3. ASSUME Read(s)
      PROVE \E step, got :
              /\ step \in {"ok", "partial", "refused"} /\ got \in Lists
              /\ c.op \in {"options", "load", "refs"} /\ c.step = "sent"
              /\ calls' = [calls EXCEPT ![s] = Answered(c, step, got)]
              /\ c.op = "load" => got = [key |-> c.key, pending |-> srv.pending,
                                         rev |-> srv.rev[c.key]]
              /\ c.op # "load" => got = NoList
  <2> DEFINE step == IF ~Refused(c) THEN "ok" ELSE IF Page.settled THEN "partial" ELSE "refused"
             list == [key |-> c.key, rev |-> srv.rev[c.key], pending |-> srv.pending]
             got == IF c.op = "load" THEN list ELSE NoList
  <2>1. list \in Lists
    BY <1>1 DEF Lists, Requests, Servers
  <2>2. got \in Lists /\ step \in {"ok", "partial", "refused"}
    BY <2>1, NewCalls
  <2>3. Answer(s, step, got) /\ c.op \in {"options", "load", "refs"} /\ c.step = "sent"
    BY <1>3 DEF Read
  <2> HIDE DEF step
  <2> QED BY <1>2, <2>2, <2>3
<1>4. ASSUME Write(s)
      PROVE \E step :
              /\ step \in {"ok", "refused"} /\ c.op = "write" /\ c.step = "sent"
              /\ calls' = [calls EXCEPT ![s] = Answered(c, step, NoList)]
  <2>1. \E step \in {"ok", "refused"} : Answer(s, step, NoList)
    BY <1>4 DEF Write
  <2> QED BY <1>2, <1>4, <2>1 DEF Write
<1>5. ASSUME Fail(s)
      PROVE  c # NoCall /\ calls' = [calls EXCEPT ![s] = Answered(c, "failed", NoList)]
  <2>1. c.step \in {"sent", "ok", "partial"} /\ Answer(s, "failed", NoList)
    BY <1>5 DEF Fail
  <2>2. c # NoCall
    BY <2>1 DEF NoCall
  <2> QED BY <1>2, <2>1, <2>2
<1> QED BY <1>3, <1>4, <1>5

LEMMA InitTyped == Init => Typed
<1> SUFFICES ASSUME Init PROVE Typed
  OBVIOUS
<1>1. view \in Views /\ role \in Roles /\ Len(Page.options) \in Nat /\ PageOk(Page)
  BY PageIs DEF Init
<1>2. /\ sel \in [Levels -> Keys] /\ opts \in [Levels -> SUBSET (Keys \ {0})]
      /\ srv \in Servers /\ disturbed \subseteq Reasons
  <2>1. sel \in [Levels -> Keys]
    BY PagesAssumption DEF Init
  <2>2. opts \in [Levels -> SUBSET (Keys \ {0})]
    <3>1. {1, 2} \in SUBSET (Keys \ {0}) /\ {} \in SUBSET (Keys \ {0})
      BY PagesAssumption
    <3> QED BY <3>1 DEF Init
  <2> QED BY <2>1, <2>2 DEF Init, Servers
<1>3. ui \in Screens
  <2> DEFINE gated == Page.gated
             list == NoList
  <2>1. ui = [list |-> list, loading |-> gated, saving |-> FALSE, busy |-> 0, error |-> "",
              open |-> TRUE]
    BY DEF Init
  <2>2. gated \in BOOLEAN /\ list \in Lists
    BY <1>1, NewCalls DEF PageOk
  <2>3. 0 \in 0..2 /\ "" \in Errors
    BY DEF Errors
  <2> HIDE DEF gated, list
  <2> QED BY <2>1, <2>2, <2>3, Zenon DEF Screens
<1>4. Selected \in Keys
  <2>1. CASE Levels = {}
    BY <2>1, PagesAssumption DEF Selected
  <2>2. CASE Levels # {}
    BY <2>2, <1>1, <1>2 DEF Selected, Levels
  <2> QED BY <2>1, <2>2
<1> DEFINE refs == [NoCall EXCEPT !.op = "refs", !.step = "sent"]
<1>5. refs \in Requests /\ refs.op = "refs"
  <2> DEFINE n == NoCall
  <2>1. n \in Requests
    BY NewCalls
  <2> HIDE DEF n
  <2>2. LET d == [n EXCEPT !.op = "refs", !.step = "sent"] IN d \in Requests /\ d.op = "refs"
    BY <2>1 DEF Requests, Ops, Steps
  <2> QED BY <2>2 DEF n
<1> HIDE DEF refs
<1>6. CallOk(refs)
  BY <1>5 DEF CallOk
<1>7. CallOk(Load(Selected))
  BY <1>4, NewCalls DEF CallOk
<1>8. ASSUME ~(Levels = {} \/ Fixed) PROVE CallOk(Options(1, 0))
  BY <1>1, <1>8, NewCalls, PagesAssumption DEF CallOk, Levels
<1>9. calls = [s \in Slots |->
        IF s = 1 THEN IF Levels = {} \/ Fixed THEN Load(Selected) ELSE Options(1, 0)
        ELSE IF s = 2 /\ Page.refs # {} THEN refs ELSE NoCall]
  BY DEF Init, refs
<1>10. \A s \in Slots : CallOk(calls[s])
  BY <1>6, <1>7, <1>8, <1>9, NoCallOk
<1>11. calls \in [Slots -> Requests]
  BY <1>9, <1>10 DEF CallOk
<1> QED BY <1>1, <1>2, <1>3, <1>10, <1>11 DEF Typed

LEMMA SentTyped ==
  ASSUME Typed, NEW c, CallOk(c), Send(c)
  PROVE  /\ view' \in Views /\ role' \in Roles /\ srv' \in Servers
         /\ disturbed' \subseteq Reasons
         /\ calls' \in [Slots -> Requests] /\ \A t \in Slots : CallOk(calls[t])'
         /\ Levels' = Levels
<1>1. PICK s \in Slots :
        /\ calls' = [calls EXCEPT ![s] = c] /\ disturbed' \subseteq disturbed \cup {"overlap"}
        /\ view' = view /\ role' = role /\ srv' = srv
  BY SendIs
<1> QED BY <1>1, SlotTyped DEF Typed, Reasons, Levels, Page

LEMMA TypedKept == Typed /\ [Next]_vars => Typed'
<1> SUFFICES ASSUME Typed, [Next]_vars PROVE Typed'
  OBVIOUS
<1> DEFINE Rest == /\ view' \in Views /\ role' \in Roles /\ Levels' = Levels
                   /\ calls' \in [Slots -> Requests] /\ \A t \in Slots : CallOk(calls[t])'
<1>a. ASSUME view' = view, role' = role, calls' = calls PROVE Rest
  BY <1>a DEF Typed, CallOk, Levels, Fixed, Page
<1>b. ASSUME view' = view, role' = role, NEW s \in Slots, NEW d, CallOk(d),
             calls' = [calls EXCEPT ![s] = d]
      PROVE  Rest
  BY <1>b, SlotTyped DEF Typed, Levels, Page
<1>c. ui \in Screens /\ ui.list \in Lists /\ srv \in Servers
  BY DEF Typed, Screens
<1>1. ASSUME NEW l \in Levels, NEW v \in opts[l], Choose(l, v) PROVE Typed'
  <2>1. v \in Keys /\ sel' \in [Levels -> Keys] /\ opts' = opts
    BY <1>1, PagesAssumption DEF Choose, Typed
  <2>2. CASE ~Page.auto /\ (l = Len(Page.options) \/ v = sel[l])
    <3>1. /\ ui' = ui /\ calls' = calls /\ view' = view /\ role' = role /\ srv' = srv
          /\ disturbed' = disturbed
      BY <1>1, <2>2 DEF Choose
    <3> QED BY <2>1, <3>1, <1>a DEF Typed
  <2>3. CASE ~(~Page.auto /\ (l = Len(Page.options) \/ v = sel[l]))
    <3>1. Send(Below(l, v)) /\ ui' = IF l = Len(Page.options) THEN Begin(ui) ELSE ui
      BY <1>1, <2>3 DEF Choose
    <3>2. CallOk(Below(l, v))
      <4>1. ~Fixed \/ l = Len(Page.options)
        BY FixedIs
      <4> QED BY <2>1, <4>1, BelowIs
    <3>3. ui' \in Screens
      BY <3>1, <1>c, BeginIs
    <3> QED BY <2>1, <3>1, <3>2, <3>3, SentTyped DEF Typed
  <2> QED BY <2>2, <2>3
<1>2. ASSUME NEW w \in Page.writes, NEW r \in Rows, Press(w, r) PROVE Typed'
  <2>1. PICK c : CallOk(c) /\ Send(c)
    BY <1>2, PressIs
  <2>2. ui' \in Screens
    <3> DEFINE saving == ui.saving \/ w.flag = "form"
               busy == IF w.flag = "row" THEN r ELSE ui.busy
    <3>1. ui' = [ui EXCEPT !.error = "", !.saving = saving, !.busy = busy]
      BY <1>2 DEF Press
    <3>2. saving \in BOOLEAN
      OBVIOUS
    <3>3. busy \in 0..2
      BY <1>c DEF Screens, Rows
    <3> HIDE DEF saving, busy
    <3> QED BY <1>c, <3>1, <3>2, <3>3 DEF Screens, Errors
  <2> QED BY <1>2, <2>1, <2>2, SentTyped DEF Press, Typed
<1>3. CASE Reload
  <2>1. CallOk(Load(Selected))
    BY SelectedIs, NewCalls DEF CallOk
  <2>2. ui' \in Screens
    BY <1>3, <1>c, BeginIs DEF Reload
  <2> QED BY <1>3, <2>1, <2>2, SentTyped DEF Reload, Typed
<1>4. CASE RefuseInput
  <2>1. ui' \in Screens
    BY <1>4, <1>c DEF RefuseInput, Screens, Errors
  <2> QED BY <1>4, <1>a, <2>1 DEF RefuseInput, Typed
<1>5. ASSUME NEW s \in Slots, Read(s) PROVE Typed'
  <2>1. PICK step, got : step \in Steps /\ got \in Lists /\ calls[s].op # "none"
                         /\ calls' = [calls EXCEPT ![s] = Answered(calls[s], step, got)]
    BY <1>5, ServerIs DEF Steps
  <2>2. CallOk(Answered(calls[s], step, got))
    BY <2>1, AnsweredIs, NewCalls DEF Typed
  <2> QED BY <1>5, <1>b, <2>1, <2>2 DEF Read, Typed
<1>6. ASSUME NEW s \in Slots, Write(s) PROVE Typed'
  <2>1. PICK step \in Steps : calls[s].op = "write"
                         /\ calls' = [calls EXCEPT ![s] = Answered(calls[s], step, NoList)]
    BY <1>6, ServerIs DEF Steps
  <2>2. CallOk(Answered(calls[s], step, NoList))
    BY <2>1, AnsweredIs, NewCalls DEF Typed
  <2>3. srv' \in Servers
    <3> DEFINE rev == [k \in Keys |-> srv.rev[k] + IF k \in Changed(calls[s].at) THEN 1 ELSE 0]
    <3>1. srv' = srv \/ srv' = [srv EXCEPT !.pending = Page.polls, !.rev = rev]
      BY <1>6 DEF Write
    <3>2. rev \in [Keys -> Nat] /\ Page.polls \in BOOLEAN
      BY <1>c, PageIs DEF Servers, PageOk, Typed
    <3> HIDE DEF rev
    <3> QED BY <1>c, <3>1, <3>2 DEF Servers
  <2> QED BY <1>6, <1>b, <2>1, <2>2, <2>3 DEF Write, Typed
<1>7. ASSUME NEW s \in Slots, Fail(s) PROVE Typed'
  <2>1. CallOk(Answered(calls[s], "failed", NoList))
    BY <1>7, ServerIs, AnsweredIs, NewCalls DEF Typed, Steps
  <2> QED BY <1>7, <1>b, <2>1, ServerIs DEF Fail, Typed
<1>8. CASE EndAnalysis
  <2>1. srv' \in Servers
    <3> DEFINE rev == [srv.rev EXCEPT ![0] = @ + 1]
    <3>1. srv' = [srv EXCEPT !.pending = FALSE, !.rev = rev]
      BY <1>8 DEF EndAnalysis
    <3>2. rev \in [Keys -> Nat]
      BY <1>c, PagesAssumption DEF Servers
    <3> HIDE DEF rev
    <3> QED BY <1>c, <3>1, <3>2 DEF Servers
  <2> QED BY <1>8, <1>a, <2>1 DEF EndAnalysis, Typed
<1>9. ASSUME NEW s \in Slots, OptionsArrive(s) PROVE Typed'
  <2> DEFINE c == calls[s]
             l == c.level
             options == Children[c.key]
             v == IF Page.auto THEN First(options) ELSE sel[l]
             emptied == v = 0 /\ v # sel[l]
  <2>1. c.op = "options" /\ l \in Levels /\ ~Fixed /\ c.key \in Keys
    BY <1>9, BackIs DEF OptionsArrive, CallOk
  <2>2. options \in SUBSET (Keys \ {0}) /\ v \in Keys
    BY <2>1, FirstIs, PagesAssumption DEF Typed, First
  <2>3. /\ opts' \in [Levels -> SUBSET (Keys \ {0})] /\ sel' \in [Levels -> Keys]
    <3>1. /\ opts' = [i \in Levels |-> IF i = l THEN options
                                       ELSE IF i > l /\ emptied THEN {} ELSE opts[i]]
          /\ sel' = [i \in Levels |-> IF i = l THEN v
                                      ELSE IF i > l /\ emptied THEN 0 ELSE sel[i]]
      BY <1>9 DEF OptionsArrive
    <3> HIDE DEF emptied, options, v
    <3> QED BY <2>2, <3>1, PagesAssumption DEF Typed
  <2>4. CASE v = sel[l] \/ emptied
    <3>1. calls' = [calls EXCEPT ![s] = NoCall] /\ ui' \in {ui, [ui EXCEPT !.list = NoList]}
      BY <1>9, <2>4 DEF OptionsArrive, Done
    <3>2. ui' \in Screens
      BY <1>c, <3>1, NewCalls DEF Screens
    <3> QED BY <1>9, <1>b, <2>3, <3>1, <3>2, NoCallOk DEF OptionsArrive, Typed
  <2>5. CASE ~(v = sel[l] \/ emptied)
    <3>1. /\ calls' = [calls EXCEPT ![s] = Below(l, v)]
          /\ ui' = IF l = Len(Page.options) THEN Begin(ui) ELSE ui
      BY <1>9, <2>5 DEF OptionsArrive
    <3>2. CallOk(Below(l, v)) /\ ui' \in Screens
      BY <2>1, <2>2, <3>1, <1>c, BelowIs, BeginIs
    <3> QED BY <1>9, <1>b, <2>3, <3>1, <3>2 DEF OptionsArrive, Typed
  <2> QED BY <2>4, <2>5
<1>10. ASSUME NEW s \in Slots, ListArrives(s) PROVE Typed'
  <2>1. calls[s].got \in Lists /\ calls' = [calls EXCEPT ![s] = NoCall]
    BY <1>10, BackIs DEF ListArrives, Done
  <2>2. ui' \in Screens
    BY <1>10, <1>c, <2>1 DEF ListArrives, Screens, Errors
  <2> QED BY <1>10, <1>b, <2>1, <2>2, NoCallOk DEF ListArrives, Typed
<1>11. ASSUME NEW s \in Slots, RefsArrive(s) PROVE Typed'
  BY <1>11, <1>b, NoCallOk DEF RefsArrive, Done, Typed
<1>12. ASSUME NEW s \in Slots, ReadFails(s) PROVE Typed'
  <2>1. /\ calls[s].step \in Bad /\ calls' = [calls EXCEPT ![s] = NoCall]
        /\ calls[s].op = "options" => calls[s].level \in Levels
    BY <1>12, BackIs DEF ReadFails, Done, CallOk
  <2>2. ui' \in Screens
    <3> DEFINE loading == ui.loading /\ calls[s].op # "load"
               list == IF calls[s].op = "load" /\ (Page.quiet \/ Page.settled)
                       THEN NoList ELSE ui.list
               error == IF Page.quiet THEN ui.error ELSE calls[s].step
    <3>1. ui' = [ui EXCEPT !.loading = loading, !.list = list, !.error = error]
      BY <1>12 DEF ReadFails
    <3>2. loading \in BOOLEAN
      OBVIOUS
    <3>3. list \in Lists /\ error \in Errors
      BY <1>c, <2>1, NewCalls DEF Screens, Errors, Bad
    <3> HIDE DEF loading, list, error
    <3> QED BY <1>c, <3>1, <3>2, <3>3 DEF Screens
  <2>3. opts' \in [Levels -> SUBSET (Keys \ {0})] /\ disturbed' \subseteq Reasons
    BY <1>12, <2>1 DEF ReadFails, Typed, Reasons
  <2> QED BY <1>12, <1>b, <2>1, <2>2, <2>3, NoCallOk DEF ReadFails, Typed
<1>13. ASSUME NEW s \in Slots, WriteArrives(s) PROVE Typed'
  <2>1. calls[s].key \in Keys
    BY <1>13, BackIs DEF WriteArrives
  <2>2. CallOk(Load(calls[s].key))
    BY <2>1, NewCalls DEF CallOk
  <2>3. /\ Released(calls[s].write) \in Screens
        /\ Begin(Released(calls[s].write)) \in Screens
    BY ReleasedIs, BeginIs
  <2>4. ui' \in Screens
    BY <1>13, <2>3 DEF WriteArrives, Screens
  <2>5. disturbed' \subseteq Reasons
    BY <1>13 DEF WriteArrives, Typed, Reasons
  <2>6. \E d \in {NoCall, Load(calls[s].key)} : calls' = [calls EXCEPT ![s] = d]
    BY <1>13 DEF WriteArrives, Done
  <2> QED BY <1>13, <1>b, <2>2, <2>4, <2>5, <2>6, NoCallOk DEF WriteArrives, Typed
<1>14. ASSUME NEW s \in Slots, WriteFails(s) PROVE Typed'
  <2>1. Released(calls[s].write) \in Screens /\ calls[s].step \in Bad
    BY <1>14, ReleasedIs, BackIs DEF WriteFails
  <2>2. ui' \in Screens
    BY <1>14, <2>1 DEF WriteFails, Screens, Errors, Bad
  <2>3. disturbed' \subseteq Reasons /\ calls' = [calls EXCEPT ![s] = NoCall]
    BY <1>14 DEF WriteFails, Typed, Reasons, Done
  <2> QED BY <1>14, <1>b, <2>2, <2>3, NoCallOk DEF WriteFails, Typed
<1>15. CASE UNCHANGED vars
  BY <1>15, <1>a DEF vars, Typed
<1> QED BY <1>1, <1>2, <1>3, <1>4, <1>5, <1>6, <1>7, <1>8, <1>9, <1>10, <1>11, <1>12, <1>13,
           <1>14, <1>15 DEF Next, User, Server, Replies

-----------------------------------------------------------------------------
(* What is disabled waits for a call. *)

Waits ==
  /\ ui.saving => Writing("form") # {}
  /\ ui.busy # 0 => Writing("row") # {}
  /\ ui.loading => Loading # {}

Writes(c, flag) == c.op = "write" /\ c.write.flag = flag

LEMMA SlotWaits ==
  ASSUME Typed, Waits, view' = view, NEW s \in Slots, NEW d, CallOk(d),
         calls' = [calls EXCEPT ![s] = d],
         ui'.saving => Writes(d, "form") \/ (ui.saving /\ ~Writes(calls[s], "form")),
         ui'.busy # 0 => Writes(d, "row") \/ (ui.busy # 0 /\ ~Writes(calls[s], "row")),
         ui'.loading => d.op = "load" \/ (ui.loading /\ calls[s].op # "load")
  PROVE  Waits'
<1>1. /\ calls'[s] = d /\ \A t \in Slots \ {s} : calls'[t] = calls[t]
      /\ \A t \in Slots : CallOk(calls[t])
  BY SlotTyped DEF Typed
<1>2. \A t \in Slots : (calls[t].op = "write" \/ calls[t].op = "load") => calls[t] # NoCall
  BY NewCalls
<1>3. d.op = "write" \/ d.op = "load" => d # NoCall
  BY NewCalls
<1>4. ASSUME NEW flag, Writes(d, flag) \/ (Writing(flag) # {} /\ ~Writes(calls[s], flag))
      PROVE  Writing(flag)' # {}
  BY <1>1, <1>2, <1>3, <1>4 DEF Writing, Busy, Writes
<1>5. ASSUME d.op = "load" \/ (Loading # {} /\ calls[s].op # "load")
      PROVE  Loading' # {}
  BY <1>1, <1>2, <1>3, <1>5 DEF Loading, Busy
<1> QED BY <1>4, <1>5 DEF Waits

LEMMA WaitsKept == Typed /\ Waits /\ [Next]_vars => Waits'
<1> SUFFICES ASSUME Typed, Waits, [Next]_vars PROVE Waits'
  OBVIOUS
<1>a. ASSUME calls' = calls, ui'.saving = ui.saving, ui'.busy = ui.busy, ui'.loading = ui.loading
      PROVE  Waits'
  BY <1>a DEF Waits, Writing, Loading, Busy
<1>b. ASSUME NEW c, CallOk(c), Send(c),
             ui'.saving => Writes(c, "form") \/ ui.saving,
             ui'.busy # 0 => Writes(c, "row") \/ ui.busy # 0,
             ui'.loading => c.op = "load" \/ ui.loading
      PROVE  Waits'
  <2>1. PICK s \in Slots : calls[s] = NoCall /\ calls' = [calls EXCEPT ![s] = c] /\ view' = view
    BY <1>b, SendIs
  <2>2. ~Writes(calls[s], "form") /\ ~Writes(calls[s], "row") /\ calls[s].op # "load"
    BY <2>1, NewCalls DEF Writes
  <2> QED BY <1>b, <2>1, <2>2, SlotWaits
<1>c. ASSUME NEW s \in Slots, NEW d, CallOk(d), view' = view,
             calls' = [calls EXCEPT ![s] = d], d.op = calls[s].op, d.write = calls[s].write,
             ui' = ui
      PROVE  Waits'
  BY <1>c, SlotWaits DEF Writes, Waits, Writing, Loading
<1>d. /\ ui \in Screens
      /\ \A u \in Screens : Begin(u).saving = u.saving /\ Begin(u).busy = u.busy
  BY BeginIs DEF Typed
<1>1. ASSUME NEW l \in Levels, NEW v \in opts[l], Choose(l, v) PROVE Waits'
  <2>1. v \in Keys
    BY PagesAssumption DEF Typed
  <2>2. CASE ~Page.auto /\ (l = Len(Page.options) \/ v = sel[l])
    BY <1>1, <1>a, <2>2 DEF Choose
  <2>3. CASE ~(~Page.auto /\ (l = Len(Page.options) \/ v = sel[l]))
    <3>1. Send(Below(l, v)) /\ ui' = IF l = Len(Page.options) THEN Begin(ui) ELSE ui
      BY <1>1, <2>3 DEF Choose
    <3>2. CallOk(Below(l, v)) /\ (l = Len(Page.options) => Below(l, v).op = "load")
      <4>1. ~Fixed \/ l = Len(Page.options)
        BY FixedIs
      <4> QED BY <2>1, <4>1, BelowIs
    <3> QED BY <1>b, <1>d, <3>1, <3>2
  <2> QED BY <2>2, <2>3
<1>2. ASSUME NEW w \in Page.writes, NEW r \in Rows, Press(w, r) PROVE Waits'
  <2>1. PICK c : CallOk(c) /\ Send(c) /\ c.op = "write" /\ c.write = w
    BY <1>2, PressIs
  <2>2. /\ ui'.saving => w.flag = "form" \/ ui.saving
        /\ ui'.busy # 0 => w.flag = "row" \/ ui.busy # 0
        /\ ui'.loading = ui.loading
    BY <1>2, <1>d DEF Press, Screens
  <2> QED BY <1>b, <2>1, <2>2 DEF Writes
<1>3. CASE Reload
  <2>1. CallOk(Load(Selected)) /\ Load(Selected).op = "load"
    BY SelectedIs, NewCalls DEF CallOk
  <2> QED BY <1>3, <1>b, <1>d, <2>1 DEF Reload
<1>4. CASE RefuseInput
  BY <1>4, <1>a, <1>d DEF RefuseInput, Screens
<1>5. ASSUME NEW s \in Slots, Read(s) \/ Write(s) \/ Fail(s) PROVE Waits'
  <2>1. PICK step \in Steps, got \in Lists :
          calls[s] # NoCall /\ calls' = [calls EXCEPT ![s] = Answered(calls[s], step, got)]
    BY <1>5, ServerIs, NewCalls DEF Steps
  <2>2. LET d == Answered(calls[s], step, got) IN
        CallOk(d) /\ d.op = calls[s].op /\ d.write = calls[s].write
    BY <2>1, AnsweredIs DEF Typed
  <2>3. view' = view /\ ui' = ui
    BY <1>5 DEF Read, Write, Fail
  <2> QED BY <1>c, <2>1, <2>2, <2>3
<1>6. CASE EndAnalysis
  BY <1>6, <1>a DEF EndAnalysis
<1>7. ASSUME NEW s \in Slots, OptionsArrive(s) PROVE Waits'
  <2> DEFINE c == calls[s]
             l == c.level
             options == Children[c.key]
             v == IF Page.auto THEN First(options) ELSE sel[l]
             emptied == v = 0 /\ v # sel[l]
  <2>1. c.op = "options" /\ l \in Levels /\ ~Fixed /\ c.key \in Keys
    BY <1>7, BackIs DEF OptionsArrive, CallOk
  <2>2. v \in Keys
    BY <2>1, FirstIs, PagesAssumption DEF Typed, First
  <2>3. ~Writes(c, "form") /\ ~Writes(c, "row") /\ c.op # "load" /\ view' = view
    BY <1>7, <2>1 DEF Writes, OptionsArrive
  <2>4. CASE v = sel[l] \/ emptied
    <3>1. calls' = [calls EXCEPT ![s] = NoCall] /\ ui' \in {ui, [ui EXCEPT !.list = NoList]}
      BY <1>7, <2>4 DEF OptionsArrive, Done
    <3>2. ui'.saving = ui.saving /\ ui'.busy = ui.busy /\ ui'.loading = ui.loading
      BY <1>d, <3>1 DEF Screens
    <3> QED BY <2>3, <3>1, <3>2, NoCallOk, SlotWaits
  <2>5. CASE ~(v = sel[l] \/ emptied)
    <3>1. /\ calls' = [calls EXCEPT ![s] = Below(l, v)]
          /\ ui' = IF l = Len(Page.options) THEN Begin(ui) ELSE ui
      BY <1>7, <2>5 DEF OptionsArrive
    <3>2. CallOk(Below(l, v)) /\ (l = Len(Page.options) => Below(l, v).op = "load")
      BY <2>1, <2>2, BelowIs
    <3> HIDE DEF c, l, v
    <3> QED BY <1>d, <2>3, <3>1, <3>2, SlotWaits DEF c
  <2> QED BY <2>4, <2>5
<1>8. ASSUME NEW s \in Slots, ListArrives(s) PROVE Waits'
  <2>1. calls[s].op = "load" /\ calls' = [calls EXCEPT ![s] = NoCall] /\ view' = view
    BY <1>8 DEF ListArrives, Done, Back
  <2>2. ui'.saving = ui.saving /\ ui'.busy = ui.busy /\ ~ui'.loading
    BY <1>8, <1>d DEF ListArrives, Screens
  <2> QED BY <2>1, <2>2, NoCallOk, SlotWaits DEF Writes
<1>9. ASSUME NEW s \in Slots, RefsArrive(s) PROVE Waits'
  <2>1. /\ calls[s].op = "refs" /\ calls' = [calls EXCEPT ![s] = NoCall] /\ view' = view
        /\ ui' = ui
    BY <1>9 DEF RefsArrive, Done, Back
  <2> QED BY <2>1, NoCallOk, SlotWaits DEF Writes
<1>10. ASSUME NEW s \in Slots, ReadFails(s) PROVE Waits'
  <2>1. /\ calls[s].op \in {"options", "load", "refs"} /\ calls' = [calls EXCEPT ![s] = NoCall]
        /\ view' = view
    BY <1>10 DEF ReadFails, Done, Back
  <2>2. /\ ui'.saving = ui.saving /\ ui'.busy = ui.busy
        /\ ui'.loading => ui.loading /\ calls[s].op # "load"
    BY <1>10, <1>d DEF ReadFails, Screens
  <2> QED BY <2>1, <2>2, NoCallOk, SlotWaits DEF Writes
<1>11. ASSUME NEW s \in Slots, WriteArrives(s) \/ WriteFails(s) PROVE Waits'
  <2> DEFINE c == calls[s]
             u == Released(c.write)
  <2>1. c.op = "write" /\ c.key \in Keys /\ view' = view
    BY <1>11, BackIs DEF WriteArrives, WriteFails
  <2>2. /\ u \in Screens /\ u.saving = (ui.saving /\ c.write.flag # "form")
        /\ u.busy = (IF c.write.flag = "row" THEN 0 ELSE ui.busy) /\ u.loading = ui.loading
    BY ReleasedIs
  <2>3. CASE c.write.next = "load" /\ WriteArrives(s)
    <3>1. calls' = [calls EXCEPT ![s] = Load(c.key)] /\ ui' = Begin(u)
      BY <2>3 DEF WriteArrives
    <3>2. CallOk(Load(c.key)) /\ Load(c.key).op = "load"
      BY <2>1, NewCalls DEF CallOk
    <3> HIDE DEF u
    <3> QED BY <1>d, <2>1, <2>2, <3>1, <3>2, SlotWaits DEF Writes
  <2>4. CASE ~(c.write.next = "load" /\ WriteArrives(s))
    <3>1. /\ calls' = [calls EXCEPT ![s] = NoCall]
          /\ ui' = [u EXCEPT !.open = c.write.next # "leave"] \/ ui' = [u EXCEPT !.error = c.step]
      BY <1>11, <2>4 DEF WriteArrives, WriteFails, Done
    <3> HIDE DEF u
    <3>2. ui'.saving = u.saving /\ ui'.busy = u.busy /\ ui'.loading = u.loading
      BY <2>2, <3>1 DEF Screens
    <3> QED BY <2>1, <2>2, <3>1, <3>2, NoCallOk, SlotWaits DEF Writes
  <2> QED BY <2>3, <2>4
<1>12. CASE UNCHANGED vars
  BY <1>12, <1>a DEF vars
<1> QED BY <1>1, <1>2, <1>3, <1>4, <1>5, <1>6, <1>7, <1>8, <1>9, <1>10, <1>11, <1>12
     DEF Next, User, Server, Replies

-----------------------------------------------------------------------------
(* The root of a chain has no list; only pages that poll list something     *)
(* that is pending.                                                         *)

OnChain == Levels # {} /\ ~Fixed
Placed(list) == list = NoList \/ list.key # 0
BelowRoot(c) ==
  /\ c.op \in {"load", "write"} => c.key # 0
  /\ c.op = "write" /\ c.write.changes # "none" => c.at # 0
  /\ Placed(c.got)

RootInv ==
  /\ srv.pending => Page.polls
  /\ OnChain => /\ srv.rev[0] = 0 /\ Placed(ui.list)
                /\ \A s \in Slots : BelowRoot(calls[s])

LEMMA PollsOnly == ASSUME Typed, Page.polls PROVE ~OnChain
<1>1. Page.options = <<>>
  BY PageIs DEF PageOk, Typed
<1> QED BY <1>1 DEF OnChain, Levels

LEMMA NoCallBelow == BelowRoot(NoCall) /\ Placed(NoList)
BY DEF BelowRoot, NoCall, Placed

LEMMA InitRoot == Init => RootInv
<1> SUFFICES ASSUME Init PROVE RootInv
  OBVIOUS
<1>1. Typed
  BY InitTyped
<1>2. ~srv.pending
  BY DEF Init
<1>3. ASSUME OnChain PROVE srv.rev[0] = 0 /\ Placed(ui.list) /\ \A s \in Slots : BelowRoot(calls[s])
  <2>1. srv.rev[0] = 0 /\ ui.list = NoList
    BY <1>3, PagesAssumption DEF Init, OnChain
  <2>2. ASSUME NEW s \in Slots PROVE BelowRoot(calls[s])
    <3>1. calls[s].op \in {"none", "options", "refs"} /\ calls[s].got = NoList
      <4>1. Options(1, 0).op = "options" /\ Options(1, 0).got = NoList
        BY NewCalls, PagesAssumption
      <4>2. calls[s] \in {Options(1, 0), NoCall, [NoCall EXCEPT !.op = "refs", !.step = "sent"]}
        BY <1>3 DEF Init, OnChain
      <4>3. LET d == [NoCall EXCEPT !.op = "refs", !.step = "sent"] IN
            d.op = "refs" /\ d.got = NoList
        BY DEF NoCall
      <4>4. NoCall.op = "none" /\ NoCall.got = NoList
        BY DEF NoCall
      <4> QED BY <4>1, <4>2, <4>3, <4>4
    <3> QED BY <3>1 DEF BelowRoot, Placed
  <2> QED BY <2>1, <2>2 DEF Placed
<1> QED BY <1>2, <1>3 DEF RootInv

LEMMA RootKept == Typed /\ RootInv /\ [Next]_vars => RootInv'
<1> SUFFICES ASSUME Typed, RootInv, [Next]_vars PROVE RootInv'
  OBVIOUS
<1>a. ASSUME view' = view PROVE Page' = Page /\ OnChain' = OnChain
  BY <1>a DEF Page, OnChain, Levels, Fixed
<1>b. ASSUME view' = view, srv' = srv, calls' = calls, ui'.list \in {ui.list, NoList}
      PROVE  RootInv'
  BY <1>a, <1>b, NoCallBelow DEF RootInv, BelowRoot, Placed
<1>c. ASSUME view' = view, srv' = srv, NEW s \in Slots, NEW d, CallOk(d),
             calls' = [calls EXCEPT ![s] = d],
             OnChain => BelowRoot(d) /\ (ui'.list \in {ui.list, NoList, calls[s].got})
      PROVE  RootInv'
  <2>1. /\ calls'[s] = d /\ \A t \in Slots \ {s} : calls'[t] = calls[t]
    BY <1>c, SlotTyped
  <2>2. ASSUME OnChain PROVE Placed(ui'.list) /\ \A t \in Slots : BelowRoot(calls'[t])
    BY <1>c, <2>1, <2>2, NoCallBelow DEF RootInv, BelowRoot
  <2> QED BY <1>a, <1>c, <2>2 DEF RootInv, BelowRoot, Placed
<1>d. ASSUME NEW c, CallOk(c), Send(c), OnChain => BelowRoot(c), ui'.list = ui.list
      PROVE  RootInv'
  <2>1. PICK s \in Slots : calls' = [calls EXCEPT ![s] = c] /\ view' = view /\ srv' = srv
    BY <1>d, SendIs
  <2> QED BY <1>c, <1>d, <2>1
<1>e. ui \in Screens /\ \A u \in Screens : Begin(u).list = u.list
  BY BeginIs DEF Typed
<1>1. ASSUME NEW l \in Levels, NEW v \in opts[l], Choose(l, v) PROVE RootInv'
  <2>1. v \in Keys \ {0}
    BY PagesAssumption DEF Typed
  <2>2. CASE ~Page.auto /\ (l = Len(Page.options) \/ v = sel[l])
    BY <1>1, <1>b, <2>2 DEF Choose
  <2>3. CASE ~(~Page.auto /\ (l = Len(Page.options) \/ v = sel[l]))
    <3>1. Send(Below(l, v)) /\ ui' = IF l = Len(Page.options) THEN Begin(ui) ELSE ui
      BY <1>1, <2>3 DEF Choose
    <3>2. /\ CallOk(Below(l, v)) /\ Below(l, v).key = v /\ Below(l, v).got = NoList
          /\ Below(l, v).op \in {"load", "options"}
      <4>1. ~Fixed \/ l = Len(Page.options)
        BY FixedIs
      <4> QED BY <2>1, <4>1, BelowIs
    <3>3. BelowRoot(Below(l, v))
      BY <2>1, <3>2, NoCallBelow DEF BelowRoot
    <3> QED BY <1>d, <1>e, <3>1, <3>2, <3>3
  <2> QED BY <2>2, <2>3
<1>2. ASSUME NEW w \in Page.writes, NEW r \in Rows, Press(w, r) PROVE RootInv'
  <2>1. PICK c : /\ CallOk(c) /\ Send(c) /\ c.op = "write" /\ c.write = w
                 /\ c.key = Selected /\ c.got = NoList
                 /\ c.at = IF w.changes = "shown" THEN ui.list.key ELSE Selected
    BY <1>2, PressIs
  <2>2. ui'.list = ui.list
    BY <1>2, <1>e DEF Press, Screens
  <2>3. ASSUME OnChain PROVE BelowRoot(c)
    <3>1. Selected # 0
      <4>1. Len(Page.options) \in Levels
        BY <2>3, PageIs DEF OnChain, Levels, Typed
      <4> QED BY <1>2, <2>3, <4>1 DEF Press, Selected, OnChain
    <3>2. w.changes = "shown" => ui.list.key # 0
      <4>1. ControlOk(w)
        BY PageIs DEF PageOk, Typed
      <4> QED BY <1>2, <2>3, <4>1 DEF ControlOk, Press, RootInv, Placed
    <3> QED BY <2>1, <3>1, <3>2, NoCallBelow DEF BelowRoot
  <2> QED BY <1>d, <2>1, <2>2, <2>3
<1>3. CASE Reload
  <2>1. /\ CallOk(Load(Selected)) /\ Load(Selected).op = "load" /\ Load(Selected).key = Selected
        /\ Load(Selected).got = NoList
    BY SelectedIs, NewCalls DEF CallOk
  <2>2. OnChain => Selected # 0
    BY <1>3, PollsOnly DEF Reload, OnChain
  <2> QED BY <1>3, <1>d, <1>e, <2>1, <2>2, NoCallBelow DEF Reload, BelowRoot
<1>4. CASE RefuseInput
  BY <1>4, <1>b, <1>e DEF RefuseInput, Screens
<1>5. ASSUME NEW s \in Slots, Read(s) PROVE RootInv'
  <2>1. PICK step, got :
          /\ step \in Steps /\ got \in Lists /\ calls[s].op \in {"options", "load", "refs"}
          /\ calls' = [calls EXCEPT ![s] = Answered(calls[s], step, got)]
          /\ calls[s].op = "load" => got.key = calls[s].key
          /\ calls[s].op # "load" => got = NoList
    BY <1>5, ServerIs DEF Steps
  <2> DEFINE d == Answered(calls[s], step, got)
  <2>2. CallOk(d) /\ d.op = calls[s].op /\ d.key = calls[s].key /\ d.got = got
    BY <2>1, AnsweredIs, NewCalls DEF Typed
  <2>3. OnChain => BelowRoot(d)
    BY <2>1, <2>2 DEF RootInv, BelowRoot, Placed
  <2> HIDE DEF d
  <2> QED BY <1>5, <1>c, <2>1, <2>2, <2>3 DEF Read, d
<1>6. ASSUME NEW s \in Slots, Fail(s) PROVE RootInv'
  <2> DEFINE d == Answered(calls[s], "failed", NoList)
  <2>1. calls' = [calls EXCEPT ![s] = d] /\ calls[s] # NoCall
    BY <1>6, ServerIs
  <2>2. /\ CallOk(d) /\ d.op = calls[s].op /\ d.key = calls[s].key /\ d.got = NoList
        /\ d.write = calls[s].write /\ d.at = calls[s].at
    BY <2>1, AnsweredIs, NewCalls DEF Typed, Steps
  <2>3. OnChain => BelowRoot(d)
    BY <2>2, NoCallBelow DEF RootInv, BelowRoot
  <2> HIDE DEF d
  <2> QED BY <1>6, <1>c, <2>1, <2>2, <2>3 DEF Fail
<1>7. ASSUME NEW s \in Slots, Write(s) PROVE RootInv'
  <2>1. PICK step \in Steps : calls[s].op = "write"
                         /\ calls' = [calls EXCEPT ![s] = Answered(calls[s], step, NoList)]
    BY <1>7, ServerIs DEF Steps
  <2> DEFINE d == Answered(calls[s], step, NoList)
  <2>2. /\ CallOk(d) /\ d.op = calls[s].op /\ d.key = calls[s].key /\ d.got = NoList
        /\ d.write = calls[s].write /\ d.at = calls[s].at
    BY <2>1, AnsweredIs, NewCalls DEF Typed
  <2>3. OnChain => BelowRoot(d)
    BY <2>2, NoCallBelow DEF RootInv, BelowRoot
  <2> HIDE DEF d
  <2>4. calls'[s] = d /\ \A t \in Slots \ {s} : calls'[t] = calls[t]
    BY <1>7, <2>1, <2>2, SlotTyped DEF Write, d
  <2>5. srv'.pending => Page.polls
    BY <1>7 DEF Write, RootInv, Typed, Servers
  <2>6. ASSUME OnChain PROVE srv'.rev[0] = 0
    <3>1. CASE srv' = srv
      BY <2>6, <3>1 DEF RootInv
    <3>2. CASE srv' # srv
      <4>1. /\ calls[s].write.changes # "none"
            /\ srv' = [srv EXCEPT !.pending = Page.polls,
                 !.rev = [k \in Keys |-> srv.rev[k] + IF k \in Changed(calls[s].at) THEN 1 ELSE 0]]
        BY <1>7, <3>2 DEF Write
      <4>2. 0 \notin Changed(calls[s].at)
        BY <2>1, <2>6, <4>1 DEF RootInv, BelowRoot, Changed, OnChain
      <4> QED BY <2>6, <4>1, <4>2, PagesAssumption DEF RootInv, Typed, Servers
    <3> QED BY <3>1, <3>2
  <2>7. view' = view /\ ui' = ui
    BY <1>7 DEF Write
  <2> QED BY <1>a, <2>3, <2>4, <2>5, <2>6, <2>7 DEF RootInv, BelowRoot, Placed
<1>8. CASE EndAnalysis
  <2>1. ~OnChain /\ view' = view
    BY <1>8, PollsOnly DEF EndAnalysis, RootInv
  <2>2. ~srv'.pending
    BY <1>8 DEF EndAnalysis, Typed, Servers
  <2> QED BY <1>a, <2>1, <2>2 DEF RootInv
<1>9. ASSUME NEW s \in Slots, OptionsArrive(s) PROVE RootInv'
  <2> DEFINE c == calls[s]
             l == c.level
             options == Children[c.key]
             v == IF Page.auto THEN First(options) ELSE sel[l]
             emptied == v = 0 /\ v # sel[l]
  <2>1. c.op = "options" /\ l \in Levels /\ ~Fixed /\ c.key \in Keys
    BY <1>9, BackIs DEF OptionsArrive, CallOk
  <2>2. v \in Keys /\ view' = view /\ srv' = srv
    BY <1>9, <2>1, FirstIs, PagesAssumption DEF Typed, First, OptionsArrive
  <2>3. CASE v = sel[l] \/ emptied
    <3>1. calls' = [calls EXCEPT ![s] = NoCall] /\ ui' \in {ui, [ui EXCEPT !.list = NoList]}
      BY <1>9, <2>3 DEF OptionsArrive, Done
    <3>2. ui'.list \in {ui.list, NoList}
      BY <1>e, <3>1 DEF Screens
    <3> QED BY <1>c, <2>2, <3>1, <3>2, NoCallOk, NoCallBelow
  <2>4. CASE ~(v = sel[l] \/ emptied)
    <3>1. /\ calls' = [calls EXCEPT ![s] = Below(l, v)]
          /\ ui' = IF l = Len(Page.options) THEN Begin(ui) ELSE ui
      BY <1>9, <2>4 DEF OptionsArrive
    <3>2. /\ CallOk(Below(l, v)) /\ Below(l, v).key = v /\ Below(l, v).got = NoList
          /\ Below(l, v).op \in {"load", "options"} /\ v # 0
      BY <2>1, <2>2, <2>4, BelowIs
    <3> HIDE DEF v, l
    <3>3. BelowRoot(Below(l, v)) /\ ui'.list = ui.list
      BY <1>e, <3>1, <3>2, NoCallBelow DEF BelowRoot
    <3> QED BY <1>c, <2>2, <3>1, <3>2, <3>3
  <2> QED BY <2>3, <2>4
<1>10. ASSUME NEW s \in Slots, ListArrives(s) \/ RefsArrive(s) \/ ReadFails(s) PROVE RootInv'
  <2>1. calls' = [calls EXCEPT ![s] = NoCall] /\ view' = view /\ srv' = srv
    BY <1>10 DEF ListArrives, RefsArrive, ReadFails, Done
  <2>2. ui'.list \in {ui.list, NoList, calls[s].got}
    BY <1>10, <1>e DEF ListArrives, RefsArrive, ReadFails, Screens
  <2> QED BY <1>c, <2>1, <2>2, NoCallOk, NoCallBelow
<1>11. ASSUME NEW s \in Slots, WriteArrives(s) \/ WriteFails(s) PROVE RootInv'
  <2> DEFINE c == calls[s]
             u == Released(c.write)
  <2>1. c.op = "write" /\ c.key \in Keys /\ view' = view /\ srv' = srv
    BY <1>11, BackIs DEF WriteArrives, WriteFails
  <2>2. u \in Screens /\ u.list = ui.list
    BY ReleasedIs
  <2>3. CASE c.write.next = "load" /\ WriteArrives(s)
    <3>1. calls' = [calls EXCEPT ![s] = Load(c.key)] /\ ui' = Begin(u)
      BY <2>3 DEF WriteArrives
    <3>2. /\ CallOk(Load(c.key)) /\ Load(c.key).op = "load" /\ Load(c.key).key = c.key
          /\ Load(c.key).got = NoList
      BY <2>1, NewCalls DEF CallOk
    <3>3. OnChain => BelowRoot(Load(c.key))
      BY <2>1, <3>2, NoCallBelow DEF BelowRoot, RootInv
    <3>4. ui'.list = ui.list
      BY <1>e, <2>2, <3>1
    <3> HIDE DEF u, c
    <3> QED BY <1>c, <2>1, <3>1, <3>2, <3>3, <3>4
  <2>4. CASE ~(c.write.next = "load" /\ WriteArrives(s))
    <3>1. /\ calls' = [calls EXCEPT ![s] = NoCall]
          /\ ui' = [u EXCEPT !.open = c.write.next # "leave"] \/ ui' = [u EXCEPT !.error = c.step]
      BY <1>11, <2>4 DEF WriteArrives, WriteFails, Done
    <3> HIDE DEF u
    <3>2. ui'.list = ui.list
      BY <2>2, <3>1 DEF Screens
    <3> QED BY <1>c, <2>1, <3>1, <3>2, NoCallOk, NoCallBelow
  <2> QED BY <2>3, <2>4
<1>12. CASE UNCHANGED vars
  BY <1>12, <1>b DEF vars
<1> QED BY <1>1, <1>2, <1>3, <1>4, <1>5, <1>6, <1>7, <1>8, <1>9, <1>10, <1>11, <1>12
     DEF Next, User, Server, Replies

-----------------------------------------------------------------------------
(* Calls that never overlapped: one at a time in the first slot, and the    *)
(* references that were asked for with the first load.                      *)

Lone == "overlap" \notin disturbed =>
  \A s \in Slots : calls[s] # NoCall => (s = 1 <=> calls[s].op # "refs")

LEMMA FirstSlot == 1 \in Slots
BY PagesAssumption DEF Slots

LEMMA InitLone == Init => Lone
<1> SUFFICES ASSUME Init, NEW s \in Slots, calls[s] # NoCall
             PROVE  s = 1 <=> calls[s].op # "refs"
  BY DEF Lone
<1> DEFINE refs == [NoCall EXCEPT !.op = "refs", !.step = "sent"]
<1>1. refs.op = "refs"
  BY DEF NoCall
<1>2. Typed /\ Selected \in Keys
  BY InitTyped, SelectedIs
<1>3. Load(Selected).op = "load" /\ Options(1, 0).op = "options"
  BY <1>2, NewCalls, PagesAssumption
<1>4. calls[s] = IF s = 1 THEN IF Levels = {} \/ Fixed THEN Load(Selected) ELSE Options(1, 0)
                 ELSE IF s = 2 /\ Page.refs # {} THEN refs ELSE NoCall
  BY DEF Init
<1> HIDE DEF refs
<1> QED BY <1>1, <1>3, <1>4

(* What a step does to the calls: a call is sent, or a slot turns to a call *)
(* that is one of the references if and only if it was.                     *)
Sends == \E c : CallOk(c) /\ c.op # "refs" /\ Send(c)
Turns(s) == \E d : /\ CallOk(d) /\ calls' = [calls EXCEPT ![s] = d] /\ calls[s] # NoCall
                   /\ d = NoCall \/ (d.op = "refs" <=> calls[s].op = "refs")

LEMMA Moves ==
  ASSUME Typed, [Next]_vars
  PROVE  /\ view' = view /\ disturbed \subseteq disturbed'
         /\ calls' = calls \/ Sends \/ \E s \in Slots : Turns(s)
<1>1. view' = view /\ disturbed \subseteq disturbed'
  BY DEF Next, User, Server, Replies, vars, Choose, Press, Reload, RefuseInput, Send, Read, Write,
         EndAnalysis, Fail, OptionsArrive, ListArrives, RefsArrive, ReadFails, WriteArrives,
         WriteFails
<1>2. ASSUME NEW l \in Levels, NEW v \in opts[l], Choose(l, v) PROVE calls' = calls \/ Sends
  <2>1. v \in Keys /\ (~Fixed \/ l = Len(Page.options))
    BY FixedIs, PagesAssumption DEF Typed
  <2>2. CallOk(Below(l, v)) /\ Below(l, v).op # "refs"
    BY <2>1, BelowIs
  <2> QED BY <1>2, <2>2 DEF Choose, Sends
<1>3. ASSUME NEW w \in Page.writes, NEW r \in Rows, Press(w, r) PROVE Sends
  BY <1>3, PressIs DEF Sends
<1>4. ASSUME Reload PROVE Sends
  <2>1. CallOk(Load(Selected)) /\ Load(Selected).op = "load"
    BY SelectedIs, NewCalls DEF CallOk
  <2> QED BY <1>4, <2>1 DEF Reload, Sends
<1>5. ASSUME NEW s \in Slots, Read(s) \/ Write(s) \/ Fail(s) PROVE Turns(s)
  <2>1. PICK step \in Steps, got \in Lists :
          calls[s] # NoCall /\ calls' = [calls EXCEPT ![s] = Answered(calls[s], step, got)]
    BY <1>5, ServerIs, NewCalls DEF Steps
  <2>2. LET d == Answered(calls[s], step, got) IN CallOk(d) /\ d.op = calls[s].op
    BY <2>1, AnsweredIs DEF Typed
  <2> QED BY <2>1, <2>2 DEF Turns
<1>6. ASSUME NEW s \in Slots, OptionsArrive(s) PROVE Turns(s)
  <2> DEFINE c == calls[s]
             v == IF Page.auto THEN First(Children[c.key]) ELSE sel[c.level]
  <2>1. c.op = "options" /\ c.level \in Levels /\ ~Fixed /\ c.key \in Keys /\ c # NoCall
    BY <1>6, BackIs DEF OptionsArrive, CallOk
  <2>2. v \in Keys
    BY <2>1, FirstIs, PagesAssumption DEF Typed, First
  <2>3. CallOk(Below(c.level, v)) /\ Below(c.level, v).op # "refs"
    BY <2>1, <2>2, BelowIs
  <2>4. \E d \in {NoCall, Below(c.level, v)} : calls' = [calls EXCEPT ![s] = d]
    BY <1>6 DEF OptionsArrive, Done
  <2> QED BY <2>1, <2>3, <2>4, NoCallOk DEF Turns
<1>7. ASSUME NEW s \in Slots,
             ListArrives(s) \/ RefsArrive(s) \/ ReadFails(s) \/ WriteFails(s)
      PROVE  Turns(s)
  BY <1>7, BackIs, NoCallOk
     DEF ListArrives, RefsArrive, ReadFails, WriteFails, Done, Turns
<1>8. ASSUME NEW s \in Slots, WriteArrives(s) PROVE Turns(s)
  <2>1. calls[s].op = "write" /\ calls[s].key \in Keys /\ calls[s] # NoCall
    BY <1>8, BackIs DEF WriteArrives
  <2>2. CallOk(Load(calls[s].key)) /\ Load(calls[s].key).op = "load"
    BY <2>1, NewCalls DEF CallOk
  <2>3. \E d \in {NoCall, Load(calls[s].key)} : calls' = [calls EXCEPT ![s] = d]
    BY <1>8 DEF WriteArrives, Done
  <2> QED BY <2>1, <2>2, <2>3, NoCallOk DEF Turns
<1>9. ASSUME RefuseInput \/ EndAnalysis \/ UNCHANGED vars PROVE calls' = calls
  BY <1>9 DEF RefuseInput, EndAnalysis, vars
<1>10. calls' = calls \/ Sends \/ \E s \in Slots : Turns(s)
  BY <1>2, <1>3, <1>4, <1>5, <1>6, <1>7, <1>8, <1>9 DEF Next, User, Server, Replies
<1> QED BY <1>1, <1>10

LEMMA LoneKept == Typed /\ Lone /\ [Next]_vars => Lone'
<1> SUFFICES ASSUME Typed, Lone, [Next]_vars, "overlap" \notin disturbed',
                    NEW t \in Slots, calls'[t] # NoCall
             PROVE  t = 1 <=> calls'[t].op # "refs"
  BY DEF Lone
<1>1. /\ view' = view /\ disturbed \subseteq disturbed'
      /\ calls' = calls \/ Sends \/ \E s \in Slots : Turns(s)
  BY Moves
<1>2. calls[t] # NoCall => (t = 1 <=> calls[t].op # "refs")
  BY <1>1 DEF Lone
<1>3. CASE Sends
  <2>1. PICK c : CallOk(c) /\ c.op # "refs" /\ Send(c)
    BY <1>3 DEF Sends
  <2>2. /\ calls' = [calls EXCEPT ![1] = c] /\ \A u \in Slots : calls[u] = NoCall
    BY <2>1, SendIs
  <2>3. calls'[1] = c /\ (t # 1 => calls'[t] = calls[t])
    BY <1>1, <2>1, <2>2, SlotTyped, FirstSlot
  <2> QED BY <2>1, <2>2, <2>3
<1>4. ASSUME NEW s \in Slots, Turns(s) PROVE t = 1 <=> calls'[t].op # "refs"
  <2>1. PICK d : /\ CallOk(d) /\ calls' = [calls EXCEPT ![s] = d] /\ calls[s] # NoCall
                 /\ d = NoCall \/ (d.op = "refs" <=> calls[s].op = "refs")
    BY <1>4 DEF Turns
  <2>2. calls'[s] = d /\ (t # s => calls'[t] = calls[t])
    BY <1>1, <2>1, SlotTyped
  <2> QED BY <1>2, <2>1, <2>2
<1> QED BY <1>1, <1>2, <1>3, <1>4

-----------------------------------------------------------------------------
(* The list that is shown, and the call that will replace it.               *)

(* An analysis that was pending when the list was read may have ended.      *)
Reflects(list) ==
  list.key = Selected /\ (list.pending \/ (~srv.pending /\ list.rev = srv.rev[Selected]))
Excused == "failed" \in disturbed /\ (ui.error # "" \/ Page.quiet \/ ClearsOnly)

NoneMissed(c) ==
  /\ c.op \in {"none", "options"} => Reflects(ui.list) \/ Excused
  /\ c.op = "load" => c.key = Selected /\ (c.step \in Good => Reflects(c.got))
  /\ c.op = "write" =>
       /\ c.key = Selected
       /\ c.write.next = "stay" /\ c.write.changes = "none" =>
            Reflects(ui.list) \/ "failed" \in disturbed

ShownInv ==
  disturbed \subseteq {"failed"} /\ ui.open /\ Page.reads # {} => NoneMissed(calls[1])

(* A call that is sent while nothing overlapped is the only one.            *)
LEMMA SendsFirst ==
  ASSUME Typed, NEW c, CallOk(c), Send(c), "overlap" \notin disturbed'
  PROVE  /\ calls'[1] = c /\ calls[1] = NoCall /\ calls[1].op = "none" /\ srv' = srv
         /\ view' = view
<1>1. /\ calls' = [calls EXCEPT ![1] = c] /\ calls[1] = NoCall /\ srv' = srv /\ view' = view
  BY SendIs
<1> QED BY <1>1, SlotTyped, FirstSlot, NewCalls

LEMMA InitShown == Init => ShownInv
<1> SUFFICES ASSUME Init PROVE NoneMissed(calls[1])
  BY DEF ShownInv
<1>1. Typed /\ Selected \in Keys
  BY InitTyped, SelectedIs
<1>2. calls[1] = IF Levels = {} \/ Fixed THEN Load(Selected) ELSE Options(1, 0)
  BY FirstSlot DEF Init
<1>3. CASE Levels = {} \/ Fixed
  <2>1. /\ calls[1].op = "load" /\ calls[1].key = Selected /\ calls[1].step = "sent"
    BY <1>1, <1>2, <1>3, NewCalls
  <2> QED BY <2>1 DEF NoneMissed, Good
<1>4. CASE ~(Levels = {} \/ Fixed)
  <2>1. calls[1].op = "options"
    BY <1>2, <1>4, NewCalls, PagesAssumption
  <2>2. Selected = 0
    <3>1. Len(Page.options) \in Levels
      BY <1>1, <1>4, PageIs DEF Levels, Typed
    <3>2. sel[Len(Page.options)] = 0
      BY <1>4, <3>1 DEF Init
    <3> QED BY <1>4, <3>2 DEF Selected
  <2>3. Reflects(ui.list)
    BY <1>4, <2>2, PagesAssumption DEF Init, Reflects, NoList
  <2> QED BY <2>1, <2>3 DEF NoneMissed
<1> QED BY <1>3, <1>4

(* What stays so while a step does not touch the list or the selection.     *)
LEMMA StaysShown ==
  ASSUME Typed, view' = view, Selected' = Selected, srv' = srv, disturbed \subseteq disturbed',
         NoneMissed(calls[1]), calls'[1].op = calls[1].op, calls'[1].key = calls[1].key,
         calls'[1].write = calls[1].write,
         calls'[1].op = "load" /\ calls'[1].step \in Good => Reflects(calls'[1].got),
         ui'.list = ui.list,
         ui'.error = ui.error \/ ui'.error # "" \/ Page.quiet
  PROVE  NoneMissed(calls[1])'
<1>1. Page' = Page /\ ClearsOnly' = ClearsOnly
  BY DEF Page, ClearsOnly
<1>2. Reflects(ui.list) => Reflects(ui.list)'
  BY DEF Reflects
<1>3. Excused => Excused'
  BY <1>1 DEF Excused
<1>4. calls'[1].op = "load" /\ calls'[1].step \in Good => Reflects(calls[1].got)'
  BY DEF Reflects
<1> QED BY <1>2, <1>3, <1>4 DEF NoneMissed

LEMMA SameSelected == view' = view /\ sel' = sel => Selected' = Selected
BY DEF Selected, Levels, Page

LEMMA ShownKept == Typed /\ RootInv /\ Lone /\ ShownInv /\ [Next]_vars => ShownInv'
<1> SUFFICES ASSUME Typed, RootInv, Lone, ShownInv, [Next]_vars,
                    disturbed' \subseteq {"failed"}, ui'.open, (Page.reads # {})'
             PROVE  NoneMissed(calls[1])'
  BY DEF ShownInv
<1>a. view' = view /\ disturbed \subseteq disturbed' /\ Page' = Page /\ Page.reads # {}
  BY Moves DEF Page
<1>b. /\ "overlap" \notin disturbed' /\ "overlap" \notin disturbed
      /\ \A s \in Slots : calls[s] # NoCall => (s = 1 <=> calls[s].op # "refs")
  BY <1>a DEF Lone
<1>c. ui \in Screens /\ \A u \in Screens : Begin(u).list = u.list /\ Begin(u).open = u.open
  BY BeginIs DEF Typed
<1>d. Page.auto /\ 1 \in Slots
  BY <1>a, PageIs, FirstSlot DEF PageOk, Typed
<1>e. ui.open => NoneMissed(calls[1])
  BY <1>a, <1>b DEF ShownInv
<1>f. ASSUME NEW s \in Slots, NEW d, CallOk(d), calls[s] # NoCall,
             calls' = [calls EXCEPT ![s] = d]
      PROVE  /\ s = 1 => calls'[1] = d
             /\ s # 1 => calls'[1] = calls[1] /\ calls[s].op = "refs"
  BY <1>a, <1>b, <1>d, <1>f, SlotTyped
<1>1. ASSUME NEW l \in Levels, NEW v \in opts[l], Choose(l, v) PROVE NoneMissed(calls[1])'
  <2> DEFINE c == Below(l, v)
  <2>1. v \in Keys /\ (~Fixed \/ l = Len(Page.options))
    BY FixedIs, PagesAssumption DEF Typed
  <2>2. /\ CallOk(c) /\ c.key = v /\ c.step = "sent"
        /\ l = Len(Page.options) => c.op = "load"
        /\ l # Len(Page.options) => c.op = "options"
    BY <2>1, BelowIs
  <2>3. Send(c) /\ ui' = (IF l = Len(Page.options) THEN Begin(ui) ELSE ui)
    BY <1>1, <1>d DEF Choose
  <2> HIDE DEF c
  <2>4. calls'[1] = c /\ calls[1].op = "none" /\ srv' = srv /\ ui.open
    BY <1>b, <2>2, <2>3, SendsFirst DEF Send
  <2>5. sel'[l] = v /\ \A i \in Levels \ {l} : sel'[i] = sel[i]
    BY <1>1, <1>d DEF Choose
  <2>6. Levels' = Levels /\ Levels # {} /\ Len(Page.options) \in Levels
    BY <1>a, PageIs DEF Levels, Typed
  <2>7. CASE l = Len(Page.options)
    <3>1. Selected' = v
      BY <1>a, <2>5, <2>6, <2>7 DEF Selected
    <3> QED BY <2>2, <2>4, <2>7, <3>1 DEF NoneMissed, Good
  <2>8. CASE l # Len(Page.options)
    <3>1. Selected' = Selected
      BY <1>a, <2>5, <2>6, <2>8 DEF Selected
    <3>2. Reflects(ui.list) \/ Excused
      BY <1>e, <2>4 DEF NoneMissed
    <3>3. (Reflects(ui.list) \/ Excused)'
      BY <1>a, <2>3, <2>4, <2>8, <3>1, <3>2 DEF Reflects, Excused, ClearsOnly
    <3> QED BY <2>2, <2>4, <2>8, <3>3 DEF NoneMissed
  <2> QED BY <2>7, <2>8
<1>2. ASSUME NEW w \in Page.writes, NEW r \in Rows, Press(w, r) PROVE NoneMissed(calls[1])'
  <2>1. PICK c : CallOk(c) /\ Send(c) /\ c.op = "write" /\ c.write = w /\ c.key = Selected
    BY <1>2, PressIs
  <2>2. calls'[1] = c /\ calls[1].op = "none" /\ srv' = srv /\ ui.open
    BY <1>b, <2>1, SendsFirst DEF Send
  <2>3. ui'.list = ui.list /\ Selected' = Selected
    BY <1>2, <1>a, <1>c, SameSelected DEF Press, Screens
  <2>4. Reflects(ui.list) \/ "failed" \in disturbed
    BY <1>e, <2>2 DEF NoneMissed, Excused
  <2>5. (Reflects(ui.list) \/ "failed" \in disturbed)'
    BY <1>a, <2>2, <2>3, <2>4 DEF Reflects
  <2> QED BY <2>1, <2>2, <2>3, <2>5 DEF NoneMissed
<1>3. CASE Reload
  <2> DEFINE c == Load(Selected)
  <2>1. CallOk(c) /\ c.op = "load" /\ c.key = Selected /\ c.step = "sent"
    BY SelectedIs, NewCalls DEF CallOk
  <2>2. Send(c) /\ Selected' = Selected
    BY <1>3, <1>a, SameSelected DEF Reload
  <2> HIDE DEF c
  <2>3. calls'[1] = c
    BY <1>b, <2>1, <2>2, SendsFirst
  <2> QED BY <2>1, <2>2, <2>3 DEF NoneMissed, Good
<1>4. CASE RefuseInput
  <2>1. ui'.list = ui.list /\ ui'.error # "" /\ ui.open
    BY <1>4, <1>c DEF RefuseInput, Screens
  <2>2. /\ srv' = srv /\ calls' = calls /\ sel' = sel
    BY <1>4 DEF RefuseInput
  <2>3. NoneMissed(calls[1])
    BY <1>e, <2>1
  <2> QED BY <1>a, <2>1, <2>2, <2>3, SameSelected, StaysShown DEF NoneMissed
<1>5. ASSUME NEW s \in Slots, Read(s) PROVE NoneMissed(calls[1])'
  <2>1. PICK step, got :
          /\ step \in Steps /\ got \in Lists /\ calls[s].op \in {"options", "load", "refs"}
          /\ calls' = [calls EXCEPT ![s] = Answered(calls[s], step, got)]
          /\ calls[s].op = "load" => got = [key |-> calls[s].key, pending |-> srv.pending,
                                            rev |-> srv.rev[calls[s].key]]
    BY <1>5, ServerIs DEF Steps
  <2> DEFINE d == Answered(calls[s], step, got)
  <2>2. /\ CallOk(d) /\ d.op = calls[s].op /\ d.key = calls[s].key /\ d.got = got
        /\ d.write = calls[s].write /\ calls[s] # NoCall
    BY <2>1, AnsweredIs, NewCalls DEF Typed
  <2>3. /\ ui' = ui /\ srv' = srv /\ Selected' = Selected /\ NoneMissed(calls[1])
    BY <1>5, <1>a, <1>e, SameSelected DEF Read
  <2> HIDE DEF d
  <2>4. CASE s = 1
    <3>1. calls'[1] = d
      BY <1>f, <2>1, <2>2, <2>4 DEF d
    <3>2. d.op = "load" => Reflects(d.got)
      BY <2>1, <2>2, <2>3, <2>4 DEF NoneMissed, Reflects, Typed, Servers
    <3> QED BY <1>a, <2>2, <2>3, <2>4, <3>1, <3>2, StaysShown
  <2>5. CASE s # 1
    <3>1. calls'[1] = calls[1]
      BY <1>f, <2>1, <2>2, <2>5 DEF d
    <3> QED BY <1>a, <2>3, <3>1, StaysShown DEF NoneMissed
  <2> QED BY <2>4, <2>5
<1>6. ASSUME NEW s \in Slots, Fail(s) PROVE NoneMissed(calls[1])'
  <2> DEFINE d == Answered(calls[s], "failed", NoList)
  <2>1. calls' = [calls EXCEPT ![s] = d] /\ calls[s] # NoCall
    BY <1>6, ServerIs
  <2>2. /\ CallOk(d) /\ d.op = calls[s].op /\ d.key = calls[s].key /\ d.step = "failed"
        /\ d.write = calls[s].write
    BY <2>1, AnsweredIs, NewCalls DEF Typed, Steps
  <2> HIDE DEF d
  <2>3. /\ ui' = ui /\ srv' = srv /\ Selected' = Selected /\ NoneMissed(calls[1])
    BY <1>6, <1>a, <1>e, SameSelected DEF Fail
  <2>4. \/ calls'[1] = d /\ s = 1
        \/ calls'[1] = calls[1]
    BY <1>f, <2>1, <2>2
  <2>5. calls'[1].op = "load" /\ calls'[1].step \in Good => Reflects(calls'[1].got)
    BY <2>2, <2>3, <2>4 DEF NoneMissed, Good
  <2> QED BY <1>a, <2>2, <2>3, <2>4, <2>5, StaysShown
<1>7. ASSUME NEW s \in Slots, Write(s) PROVE NoneMissed(calls[1])'
  <2>1. PICK step \in Steps : calls[s].op = "write"
                         /\ calls' = [calls EXCEPT ![s] = Answered(calls[s], step, NoList)]
    BY <1>7, ServerIs DEF Steps
  <2> DEFINE d == Answered(calls[s], step, NoList)
  <2>2. /\ CallOk(d) /\ d.op = "write" /\ d.key = calls[s].key /\ d.write = calls[s].write
        /\ calls[s] # NoCall
    BY <2>1, AnsweredIs, NewCalls DEF Typed
  <2> HIDE DEF d
  <2>3. s = 1 /\ calls'[1] = d
    BY <1>b, <1>f, <2>1, <2>2 DEF d
  <2>4. /\ ui' = ui /\ Selected' = Selected /\ NoneMissed(calls[1])
        /\ d.write.changes = "none" => srv' = srv
    BY <1>7, <1>a, <1>e, <2>2, SameSelected DEF Write
  <2>5. ASSUME d.write.next = "stay", d.write.changes = "none"
        PROVE  (Reflects(ui.list) \/ "failed" \in disturbed)'
    <3>1. Reflects(ui.list) \/ "failed" \in disturbed
      BY <2>1, <2>2, <2>3, <2>4, <2>5 DEF NoneMissed
    <3> QED BY <1>a, <2>4, <2>5, <3>1 DEF Reflects
  <2>6. d.key = Selected
    BY <2>1, <2>2, <2>3, <2>4 DEF NoneMissed
  <2> QED BY <2>2, <2>3, <2>4, <2>5, <2>6 DEF NoneMissed
<1>8. CASE EndAnalysis
  <2>1. /\ ui' = ui /\ calls' = calls /\ Selected' = Selected /\ srv.pending
        /\ NoneMissed(calls[1]) /\ disturbed' = disturbed
    BY <1>8, <1>a, <1>e, SameSelected DEF EndAnalysis
  <2>2. \A list : Reflects(list) => list.key = Selected /\ list.pending
    BY <2>1 DEF Reflects
  <2>3. /\ Reflects(ui.list) => Reflects(ui.list)'
        /\ Reflects(calls[1].got) => Reflects(calls[1].got)'
    BY <2>1, <2>2 DEF Reflects
  <2>4. Excused => Excused'
    BY <1>a, <2>1 DEF Excused, ClearsOnly
  <2> QED BY <2>1, <2>3, <2>4 DEF NoneMissed
<1>9. ASSUME NEW s \in Slots, OptionsArrive(s) PROVE NoneMissed(calls[1])'
  <2> DEFINE c == calls[s]
             l == c.level
             options == Children[c.key]
             v == First(options)
             n == Len(Page.options)
             emptied == v = 0 /\ v # sel[l]
  <2>1. /\ c.op = "options" /\ l \in Levels /\ ~Fixed /\ c.key \in Keys /\ c # NoCall /\ s = 1
        /\ ui.open
    BY <1>9, <1>b, BackIs DEF OptionsArrive, CallOk
  <2>2. v \in Keys /\ n \in Levels /\ Levels' = Levels /\ n \in Nat
    <3>1. options \in SUBSET (Keys \ {0})
      BY <2>1, PagesAssumption
    <3>2. v \in Keys
      BY <3>1, FirstIs, PagesAssumption DEF First
    <3>3. Levels' = Levels /\ n \in Nat
      BY <1>a, PageIs DEF Levels, Typed
    <3>4. n \in Levels
      BY <2>1, <3>3 DEF Levels
    <3> QED BY <3>2, <3>3, <3>4
  <2>3. /\ srv' = srv /\ disturbed' = disturbed /\ ClearsOnly' = ClearsOnly
        /\ Reflects(ui.list) \/ Excused
    BY <1>9, <1>a, <1>e, <2>1 DEF OptionsArrive, ClearsOnly, NoneMissed
  <2>4. sel' = [i \in Levels |-> IF i = l THEN v ELSE IF i > l /\ emptied THEN 0 ELSE sel[i]]
    BY <1>9, <1>d DEF OptionsArrive
  <2>5. Selected' = (IF n = l THEN v ELSE IF emptied THEN 0 ELSE Selected)
    <3> HIDE DEF v, emptied
    <3>1. n > l \/ n = l
      BY <2>1, <2>2 DEF Levels
    <3>2. Selected' = sel'[n] /\ Selected = sel[n]
      BY <1>a, <2>2 DEF Selected
    <3> QED BY <2>2, <2>4, <3>1, <3>2
  <2>6. CASE v = sel[l]
    <3>1. calls' = [calls EXCEPT ![s] = NoCall] /\ ui' = ui
      BY <1>9, <1>d, <2>6 DEF OptionsArrive, Done
    <3>2. calls'[1] = NoCall /\ Selected' = Selected
      BY <1>a, <1>f, <2>1, <2>2, <2>5, <2>6, <3>1, NoCallOk DEF Selected
    <3>3. (Reflects(ui.list) \/ Excused)'
      BY <1>a, <2>3, <3>1, <3>2 DEF Reflects, Excused
    <3> QED BY <3>2, <3>3, NewCalls DEF NoneMissed
  <2>7. CASE emptied
    <3>1. calls' = [calls EXCEPT ![s] = NoCall] /\ ui' = [ui EXCEPT !.list = NoList]
      BY <1>9, <1>d, <2>7 DEF OptionsArrive, Done
    <3>2. calls'[1] = NoCall /\ Selected' = 0 /\ ui'.list = NoList
      BY <1>c, <1>f, <2>1, <2>5, <2>7, <3>1, NoCallOk DEF Screens
    <3>3. srv.rev[0] = 0 /\ ~srv.pending
      <4>1. OnChain
        BY <2>1 DEF OnChain
      <4> QED BY <4>1, PollsOnly DEF RootInv
    <3>4. Reflects(ui.list)'
      BY <2>3, <3>2, <3>3 DEF Reflects, NoList
    <3> QED BY <3>2, <3>4, NewCalls DEF NoneMissed
  <2>8. CASE ~(v = sel[l] \/ emptied)
    <3> DEFINE d == Below(l, v)
    <3>1. calls' = [calls EXCEPT ![s] = d] /\ ui' = (IF l = n THEN Begin(ui) ELSE ui)
      BY <1>9, <1>d, <2>8 DEF OptionsArrive
    <3>2. /\ CallOk(d) /\ d.key = v /\ d.step = "sent"
          /\ l = n => d.op = "load"
          /\ l # n => d.op = "options"
      <4> HIDE DEF v, l
      <4> QED BY <2>1, <2>2, BelowIs
    <3> HIDE DEF d, v
    <3>3. calls'[1] = d
      BY <1>f, <2>1, <3>1, <3>2
    <3>4. CASE l = n
      BY <2>5, <3>2, <3>3, <3>4 DEF NoneMissed, Good
    <3>5. CASE l # n
      <4>1. ui' = ui /\ Selected' = Selected
        BY <2>5, <2>8, <3>1, <3>5
      <4>2. (Reflects(ui.list) \/ Excused)'
        BY <1>a, <2>3, <4>1 DEF Reflects, Excused
      <4> QED BY <3>2, <3>3, <3>5, <4>2 DEF NoneMissed
    <3> QED BY <3>4, <3>5
  <2> QED BY <2>6, <2>7, <2>8
<1>10. ASSUME NEW s \in Slots, ListArrives(s) PROVE NoneMissed(calls[1])'
  <2>1. /\ calls[s].op = "load" /\ calls[s].step \in Good /\ calls[s] # NoCall /\ ui.open
        /\ calls' = [calls EXCEPT ![s] = NoCall]
    BY <1>10, BackIs DEF ListArrives, Done
  <2>2. s = 1 /\ calls'[1] = NoCall
    BY <1>b, <1>f, <2>1, NoCallOk
  <2>3. ui'.list = calls[1].got /\ srv' = srv /\ Selected' = Selected
    BY <1>10, <1>a, <1>c, <2>2, SameSelected DEF ListArrives, Screens
  <2>4. Reflects(calls[1].got)
    BY <1>e, <2>1, <2>2 DEF NoneMissed
  <2>5. Reflects(ui.list)'
    BY <2>3, <2>4 DEF Reflects
  <2> QED BY <2>2, <2>5, NewCalls DEF NoneMissed
<1>11. ASSUME NEW s \in Slots, RefsArrive(s) PROVE NoneMissed(calls[1])'
  <2>1. /\ calls[s].op = "refs" /\ calls[s] # NoCall /\ ui' = ui /\ srv' = srv
        /\ calls' = [calls EXCEPT ![s] = NoCall] /\ Selected' = Selected
    BY <1>11, <1>a, BackIs, SameSelected DEF RefsArrive, Done
  <2>2. calls'[1] = calls[1]
    BY <1>b, <1>f, <2>1, NoCallOk
  <2> QED BY <1>a, <1>e, <2>1, <2>2, StaysShown DEF NoneMissed
<1>12. ASSUME NEW s \in Slots, ReadFails(s) PROVE NoneMissed(calls[1])'
  <2>1. /\ calls[s].op \in {"options", "load", "refs"} /\ calls[s] # NoCall
        /\ calls' = [calls EXCEPT ![s] = NoCall] /\ calls[s].step # "" /\ ui.open
    <3>1. calls[s].step \in Bad
      BY <1>12, BackIs DEF ReadFails
    <3>2. calls[s].step # ""
      BY <3>1 DEF Bad
    <3> QED BY <1>12, <3>2, BackIs DEF ReadFails, Done
  <2>2. /\ srv' = srv /\ Selected' = Selected /\ "failed" \in disturbed'
        /\ ui'.error = (IF Page.quiet THEN ui.error ELSE calls[s].step)
        /\ calls[s].op # "load" => ui'.list = ui.list
    BY <1>12, <1>a, <1>c, SameSelected DEF ReadFails, Screens
  <2>3. CASE s = 1
    <3>1. calls'[1] = NoCall
      BY <1>f, <2>1, <2>3, NoCallOk
    <3>2. Excused'
      BY <1>a, <2>1, <2>2 DEF Excused
    <3> QED BY <3>1, <3>2, NewCalls DEF NoneMissed
  <2>4. CASE s # 1
    <3>1. calls'[1] = calls[1] /\ calls[s].op = "refs"
      BY <1>f, <2>1, <2>4, NoCallOk
    <3>2. ui'.error = ui.error \/ ui'.error # "" \/ Page.quiet
      BY <2>1, <2>2
    <3> QED BY <1>a, <1>e, <2>1, <2>2, <3>1, <3>2, StaysShown DEF NoneMissed
  <2> QED BY <2>3, <2>4
<1>13. ASSUME NEW s \in Slots, WriteArrives(s) PROVE NoneMissed(calls[1])'
  <2> DEFINE c == calls[s]
             u == Released(c.write)
  <2>1. c.op = "write" /\ c.key \in Keys /\ c # NoCall /\ c.write \in Page.writes /\ ui.open
    BY <1>13, BackIs DEF WriteArrives, CallOk
  <2>2. u \in Screens /\ u.list = ui.list
    BY ReleasedIs
  <2>3. s = 1 /\ c.key = Selected /\ srv' = srv /\ Selected' = Selected /\ ControlOk(c.write)
    BY <1>13, <1>a, <1>b, <1>e, <2>1, SameSelected, PageIs
       DEF WriteArrives, NoneMissed, PageOk, Typed
  <2>4. CASE c.write.next = "load"
    <3>1. calls' = [calls EXCEPT ![s] = Load(c.key)]
      BY <1>13, <2>4 DEF WriteArrives
    <3>2. /\ CallOk(Load(c.key)) /\ Load(c.key).op = "load" /\ Load(c.key).key = c.key
          /\ Load(c.key).step = "sent"
      BY <2>1, NewCalls DEF CallOk
    <3>3. calls'[1] = Load(c.key)
      BY <1>f, <2>1, <2>3, <3>1, <3>2
    <3> QED BY <2>3, <3>2, <3>3 DEF NoneMissed, Good
  <2>5. CASE c.write.next # "load"
    <3>1. /\ calls' = [calls EXCEPT ![s] = NoCall]
          /\ ui' = [u EXCEPT !.open = c.write.next # "leave"]
          /\ disturbed' = IF c.write.next = "stay" /\ c.write.changes # "none"
                            THEN disturbed \cup {"unlisted"} ELSE disturbed
      BY <1>13, <2>5 DEF WriteArrives, Done
    <3> HIDE DEF u
    <3>2. ui'.list = ui.list /\ c.write.next # "leave"
      BY <2>2, <3>1 DEF Screens
    <3>3. c.write.next = "stay" /\ c.write.changes = "none"
      BY <2>3, <2>5, <3>1, <3>2 DEF ControlOk
    <3>4. Reflects(ui.list) \/ "failed" \in disturbed
      BY <1>e, <2>1, <2>3, <3>3 DEF NoneMissed
    <3>5. ClearsOnly'
      BY <1>a, <2>1, <3>3 DEF ClearsOnly
    <3>6. (Reflects(ui.list) \/ Excused)'
      BY <1>a, <2>3, <3>2, <3>4, <3>5 DEF Reflects, Excused
    <3>7. calls'[1] = NoCall
      BY <1>f, <2>1, <2>3, <3>1, NoCallOk
    <3> QED BY <3>6, <3>7, NewCalls DEF NoneMissed
  <2> QED BY <2>4, <2>5
<1>14. ASSUME NEW s \in Slots, WriteFails(s) PROVE NoneMissed(calls[1])'
  <2> DEFINE u == Released(calls[s].write)
  <2>1. /\ calls[s].op = "write" /\ calls[s] # NoCall /\ calls[s].step # ""
        /\ calls' = [calls EXCEPT ![s] = NoCall]
    <3>1. calls[s].step \in Bad /\ calls[s].op = "write" /\ calls[s] # NoCall
      BY <1>14, BackIs DEF WriteFails
    <3>2. calls[s].step # ""
      BY <3>1 DEF Bad
    <3> QED BY <1>14, <3>1, <3>2 DEF WriteFails, Done
  <2>2. s = 1 /\ calls'[1] = NoCall
    BY <1>b, <1>f, <2>1, NoCallOk
  <2>3. u \in Screens
    BY ReleasedIs
  <2>4. ui' = [u EXCEPT !.error = calls[s].step] /\ "failed" \in disturbed'
    BY <1>14 DEF WriteFails
  <2> HIDE DEF u
  <2>5. Excused'
    BY <2>1, <2>3, <2>4 DEF Excused, Screens
  <2> QED BY <2>2, <2>5, NewCalls DEF NoneMissed
<1>15. CASE UNCHANGED vars
  <2>1. ui' = ui /\ srv' = srv /\ calls' = calls /\ Selected' = Selected
    BY <1>15, SameSelected DEF vars
  <2> QED BY <1>a, <1>e, <2>1, StaysShown DEF NoneMissed
<1> QED BY <1>1, <1>2, <1>3, <1>4, <1>5, <1>6, <1>7, <1>8, <1>9, <1>10, <1>11, <1>12, <1>13,
           <1>14, <1>15 DEF Next, User, Server, Replies

-----------------------------------------------------------------------------
(* The selects of a chain.                                                  *)

Above(l) == IF l = 1 THEN 0 ELSE sel[l - 1]
Fit(l) ==
  /\ opts[l] = IF Above(l) = 0 /\ l > 1 THEN {} ELSE Children[Above(l)]
  /\ sel[l] = 0 <=> opts[l] = {}
  /\ sel[l] \in opts[l] \cup {0}

(* Every select fits but the one whose options are on their way.            *)
FitsBut(c) ==
  /\ c.op = "options" => c.key = Above(c.level) /\ (c.level > 1 => c.key # 0)
  /\ \A l \in Levels : (c.op = "options" /\ c.level = l) \/ Fit(l)
ChainInv == disturbed = {} /\ Page.auto /\ ~Fixed => FitsBut(calls[1])

LEMMA InitChain == Init => ChainInv
<1> SUFFICES ASSUME Init, ~Fixed PROVE FitsBut(calls[1])
  BY DEF ChainInv
<1>1. Len(Page.options) \in Nat /\ Typed
  BY InitTyped, PageIs DEF Typed
<1>2. \A l \in Levels : sel[l] = 0 /\ opts[l] = {}
  BY DEF Init
<1>3. calls[1] = IF Levels = {} THEN Load(Selected) ELSE Options(1, 0)
  BY FirstSlot DEF Init
<1>4. CASE Levels = {}
  BY <1>1, <1>3, <1>4, NewCalls, SelectedIs DEF FitsBut
<1>5. CASE Levels # {}
  <2>1. calls[1].op = "options" /\ calls[1].level = 1 /\ calls[1].key = 0
    BY <1>3, <1>5, NewCalls, PagesAssumption
  <2>2. ASSUME NEW l \in Levels, l # 1 PROVE Fit(l)
    <3>1. l - 1 \in Levels /\ l > 1
      BY <1>1, <2>2 DEF Levels
    <3> QED BY <1>2, <2>2, <3>1 DEF Fit, Above
  <2> QED BY <2>1, <2>2 DEF FitsBut, Above
<1> QED BY <1>4, <1>5

LEMMA StaysFit ==
  ASSUME Typed, view' = view, sel' = sel, opts' = opts, FitsBut(calls[1]),
         \/ /\ calls'[1].op = calls[1].op /\ calls'[1].level = calls[1].level
            /\ calls'[1].key = calls[1].key
         \/ calls[1].op # "options" /\ calls'[1].op # "options"
  PROVE  FitsBut(calls[1])'
<1>1. Levels' = Levels /\ \A l \in Levels : (Fit(l) <=> Fit(l)') /\ Above(l)' = Above(l)
  BY DEF Levels, Page, Fit, Above
<1>2. calls[1].op = "options" => calls[1].level \in Levels
  BY FirstSlot DEF Typed, CallOk
<1> QED BY <1>1, <1>2 DEF FitsBut

LEMMA ChainKept == Typed /\ Lone /\ ChainInv /\ [Next]_vars => ChainInv'
<1> SUFFICES ASSUME Typed, Lone, ChainInv, [Next]_vars, disturbed' = {}, (Page.auto /\ ~Fixed)'
             PROVE  FitsBut(calls[1])'
  BY DEF ChainInv
<1>a. /\ view' = view /\ disturbed \subseteq disturbed' /\ Page.auto /\ ~Fixed
      /\ Levels' = Levels
  BY Moves DEF Page, Fixed, Levels
<1>b. /\ "overlap" \notin disturbed'
      /\ \A s \in Slots : calls[s] # NoCall => (s = 1 <=> calls[s].op # "refs")
  BY <1>a DEF Lone
<1>c. FitsBut(calls[1]) /\ Len(Page.options) \in Nat
  BY <1>a, PageIs DEF ChainInv, Typed
<1>d. ASSUME NEW s \in Slots, NEW d, CallOk(d), calls[s] # NoCall,
             calls' = [calls EXCEPT ![s] = d]
      PROVE  /\ s = 1 => calls'[1] = d
             /\ s # 1 => calls'[1] = calls[1]
  BY <1>a, <1>d, FirstSlot, SlotTyped
<1>e. ASSUME NEW c, CallOk(c), Send(c), c.op # "options", sel' = sel, opts' = opts
      PROVE  FitsBut(calls[1])'
  <2>1. calls'[1] = c /\ calls[1].op = "none"
    BY <1>b, <1>e, SendsFirst
  <2> QED BY <1>a, <1>c, <1>e, <2>1, StaysFit
<1>f. ASSUME NEW s \in Slots, calls[s] # NoCall, calls' = [calls EXCEPT ![s] = NoCall],
             calls[s].op # "options", sel' = sel, opts' = opts
      PROVE  FitsBut(calls[1])'
  <2>1. (s = 1 /\ calls'[1] = NoCall) \/ calls'[1] = calls[1]
    BY <1>d, <1>f, NoCallOk
  <2> QED BY <1>a, <1>c, <1>f, <2>1, NewCalls, StaysFit
<1>1. ASSUME NEW l \in Levels, NEW v \in opts[l], Choose(l, v) PROVE FitsBut(calls[1])'
  <2> DEFINE c == Below(l, v)
  <2>1. v \in Keys \ {0} /\ (~Fixed \/ l = Len(Page.options))
    BY <1>a, PagesAssumption DEF Typed
  <2>2. /\ CallOk(c) /\ c.key = v
        /\ l = Len(Page.options) => c.op = "load"
        /\ l # Len(Page.options) => c.op = "options" /\ c.level = l + 1
    BY <2>1, BelowIs
  <2>3. Send(c) /\ opts' = opts
    BY <1>1, <1>a DEF Choose
  <2> HIDE DEF c
  <2>4. calls'[1] = c /\ calls[1].op = "none"
    BY <1>b, <2>2, <2>3, SendsFirst
  <2>5. sel'[l] = v /\ \A i \in Levels \ {l} : sel'[i] = sel[i]
    BY <1>1, <1>a DEF Choose
  <2>6. \A i \in Levels : Fit(i)
    BY <1>c, <2>4 DEF FitsBut
  <2>7. \A i \in Levels : i # l + 1 => Above(i)' = Above(i)
    BY <1>c, <2>5 DEF Above, Levels
  <2>8. ASSUME NEW i \in Levels, i # l + 1 PROVE Fit(i)'
    BY <2>1, <2>3, <2>5, <2>6, <2>7, <2>8 DEF Fit
  <2>9. CASE l = Len(Page.options)
    <3>1. \A i \in Levels : i # l + 1
      BY <1>c, <2>9 DEF Levels
    <3> QED BY <1>a, <2>2, <2>4, <2>8, <2>9, <3>1 DEF FitsBut
  <2>10. CASE l # Len(Page.options)
    <3>1. Above(l + 1)' = v
      BY <1>c, <2>5 DEF Above, Levels
    <3>2. calls'[1].op = "options" /\ calls'[1].level = l + 1 /\ calls'[1].key = v
      BY <2>2, <2>4, <2>10
    <3> QED BY <1>a, <2>1, <2>8, <3>1, <3>2 DEF FitsBut
  <2> QED BY <2>9, <2>10
<1>2. ASSUME NEW w \in Page.writes, NEW r \in Rows, Press(w, r) PROVE FitsBut(calls[1])'
  <2>1. PICK c : CallOk(c) /\ Send(c) /\ c.op = "write"
    BY <1>2, PressIs
  <2> QED BY <1>2, <1>e, <2>1 DEF Press
<1>3. CASE Reload
  <2>1. CallOk(Load(Selected)) /\ Load(Selected).op = "load"
    BY SelectedIs, NewCalls DEF CallOk
  <2> QED BY <1>3, <1>e, <2>1 DEF Reload
<1>4. CASE RefuseInput \/ EndAnalysis \/ UNCHANGED vars
  <2>1. calls' = calls /\ sel' = sel /\ opts' = opts
    BY <1>4 DEF RefuseInput, EndAnalysis, vars
  <2> QED BY <1>a, <1>c, <2>1, StaysFit
<1>5. ASSUME NEW s \in Slots, Read(s) \/ Write(s) \/ Fail(s) PROVE FitsBut(calls[1])'
  <2>1. PICK step \in Steps, got \in Lists :
          calls[s] # NoCall /\ calls' = [calls EXCEPT ![s] = Answered(calls[s], step, got)]
    BY <1>5, ServerIs, NewCalls DEF Steps
  <2> DEFINE d == Answered(calls[s], step, got)
  <2>2. CallOk(d) /\ d.op = calls[s].op /\ d.level = calls[s].level /\ d.key = calls[s].key
    BY <2>1, AnsweredIs DEF Typed
  <2>3. sel' = sel /\ opts' = opts
    BY <1>5 DEF Read, Write, Fail
  <2>4. (s = 1 /\ calls'[1] = d) \/ calls'[1] = calls[1]
    BY <1>d, <2>1, <2>2
  <2> HIDE DEF d
  <2> QED BY <1>a, <1>c, <2>2, <2>3, <2>4, StaysFit
<1>6. ASSUME NEW s \in Slots, OptionsArrive(s) PROVE FitsBut(calls[1])'
  <2> DEFINE c == calls[s]
             options == Children[c.key]
             v == First(options)
             n == Len(Page.options)
  <2>0. c.op = "options" /\ c.level \in Levels /\ c.key \in Keys /\ c # NoCall /\ s = 1
    BY <1>6, <1>b, BackIs DEF OptionsArrive, CallOk
  <2> PICK l \in Levels : l = c.level
    BY <2>0
  <2> DEFINE emptied == v = 0 /\ v # sel[l]
  <2>1. c.op = "options" /\ l = c.level /\ c.key \in Keys /\ c # NoCall /\ s = 1
    BY <2>0
  <2>2. /\ options \in SUBSET (Keys \ {0}) /\ v \in Keys
        /\ v = 0 <=> options = {}
        /\ v \in options \cup {0}
    <3>1. options \in SUBSET (Keys \ {0})
      BY <2>1, PagesAssumption
    <3>2. options # {} => v \in options /\ v # 0
      BY <3>1, FirstIs
    <3>3. options = {} => v = 0
      BY DEF First
    <3> QED BY <3>1, <3>2, <3>3, PagesAssumption
  <2>3. /\ opts' = [i \in Levels |-> IF i = l THEN options
                                     ELSE IF i > l /\ emptied THEN {} ELSE opts[i]]
        /\ sel' = [i \in Levels |-> IF i = l THEN v
                                    ELSE IF i > l /\ emptied THEN 0 ELSE sel[i]]
    BY <1>6, <1>a, <2>1 DEF OptionsArrive
  <2>4. /\ c.key = Above(l) /\ (l > 1 => c.key # 0)
        /\ \A i \in Levels : i # l => Fit(i)
    BY <1>c, <2>1 DEF FitsBut
  <2> HIDE DEF v, emptied
  <2>5. Above(l)' = Above(l)
    BY <1>c, <2>1, <2>3 DEF Above, Levels
  <2>6. Fit(l)'
    BY <2>1, <2>2, <2>3, <2>4, <2>5 DEF Fit
  <2>7. CASE v = sel[l]
    <3>1. calls' = [calls EXCEPT ![s] = NoCall] /\ ~emptied
      BY <1>6, <1>a, <2>1, <2>7 DEF OptionsArrive, Done, v, emptied
    <3>2. calls'[1] = NoCall
      BY <1>d, <2>1, <3>1, NoCallOk
    <3>3. ASSUME NEW i \in Levels, i # l PROVE Fit(i)'
      <4>1. \A j \in Levels : sel'[j] = sel[j]
        BY <2>3, <2>7, <3>1
      <4>2. Above(i)' = Above(i)
        BY <1>c, <4>1 DEF Above, Levels
      <4> QED BY <2>3, <2>4, <3>1, <3>3, <4>1, <4>2 DEF Fit
    <3> QED BY <1>a, <2>6, <3>2, <3>3, NewCalls DEF FitsBut
  <2>8. CASE emptied
    <3>1. calls' = [calls EXCEPT ![s] = NoCall]
      BY <1>6, <1>a, <2>1, <2>8 DEF OptionsArrive, Done, v, emptied
    <3>2. calls'[1] = NoCall
      BY <1>d, <2>1, <3>1, NoCallOk
    <3>3. ASSUME NEW i \in Levels, i # l PROVE Fit(i)'
      <4>1. CASE i < l
        <5>1. Above(i)' = Above(i)
          BY <1>c, <2>1, <2>3, <4>1 DEF Above, Levels
        <5>2. l \in Int /\ i \in Int /\ ~(i > l) /\ i # l
          BY <1>c, <4>1 DEF Levels
        <5>3. opts'[i] = opts[i] /\ sel'[i] = sel[i]
          BY <2>3, <5>2
        <5> QED BY <2>4, <5>1, <5>2, <5>3 DEF Fit
      <4>2. CASE i > l
        <5>1. i > 1 /\ Above(i)' = 0
          <6>1. i - 1 \in Levels /\ i - 1 >= l /\ i > 1
            BY <1>c, <2>1, <4>2 DEF Levels
          <6>2. sel'[i - 1] = 0
            BY <2>1, <2>3, <2>8, <6>1 DEF emptied, Levels
          <6> QED BY <6>1, <6>2 DEF Above
        <5>2. opts'[i] = {} /\ sel'[i] = 0
          BY <2>3, <2>8, <3>3, <4>2
        <5> QED BY <5>1, <5>2 DEF Fit
      <4> QED BY <1>c, <2>1, <3>3, <4>1, <4>2 DEF Levels
    <3> QED BY <1>a, <2>6, <3>2, <3>3, NewCalls DEF FitsBut
  <2>9. CASE ~(v = sel[l] \/ emptied)
    <3> DEFINE d == Below(l, v)
    <3>1. calls' = [calls EXCEPT ![s] = d]
      BY <1>6, <1>a, <2>1, <2>9 DEF OptionsArrive, v, emptied
    <3>2. /\ CallOk(d) /\ d.key = v /\ v # 0
          /\ l = n => d.op = "load"
          /\ l # n => d.op = "options" /\ d.level = l + 1
      <4>1. l \in Levels /\ v \in Keys /\ ~Fixed
        BY <1>a, <2>1, <2>2
      <4>2. v # 0
        BY <2>9 DEF emptied
      <4>3. /\ CallOk(d) /\ d.key = v
            /\ l = Len(Page.options) => d.op = "load"
            /\ l # Len(Page.options) => d.op = "options" /\ d.level = l + 1
        BY <1>a, <4>1, BelowIs
      <4> QED BY <4>2, <4>3
    <3> HIDE DEF d
    <3>3. calls'[1] = d
      BY <1>d, <2>1, <3>1, <3>2
    <3>4. /\ sel'[l] = v /\ opts'[l] = options
          /\ \A i \in Levels \ {l} : sel'[i] = sel[i] /\ opts'[i] = opts[i]
      BY <2>1, <2>3, <2>9
    <3>5. ASSUME NEW i \in Levels, i # l, i # l + 1 PROVE Fit(i)'
      <4>1. Above(i)' = Above(i)
        BY <1>c, <2>1, <3>4, <3>5 DEF Above, Levels
      <4> QED BY <2>4, <3>4, <3>5, <4>1 DEF Fit
    <3>6. CASE l = n
      <4>1. \A i \in Levels : i # l + 1
        BY <1>c, <3>6 DEF Levels
      <4> QED BY <1>a, <2>6, <3>2, <3>3, <3>5, <3>6, <4>1 DEF FitsBut
    <3>7. CASE l # n
      <4>1. Above(l + 1)' = v
        BY <1>c, <2>1, <3>4 DEF Above, Levels
      <4>2. calls'[1].op = "options" /\ calls'[1].level = l + 1 /\ calls'[1].key = v
        BY <3>2, <3>3, <3>7
      <4> QED BY <1>a, <2>6, <3>2, <3>5, <4>1, <4>2 DEF FitsBut
    <3> QED BY <3>6, <3>7
  <2> QED BY <2>7, <2>8, <2>9
<1>7. ASSUME NEW s \in Slots, ListArrives(s) \/ RefsArrive(s) \/ WriteFails(s)
      PROVE  FitsBut(calls[1])'
  <2>1. calls[s].op # "options" /\ calls[s] # NoCall
    BY <1>7, BackIs DEF ListArrives, RefsArrive, WriteFails
  <2> QED BY <1>7, <1>f, <2>1 DEF ListArrives, RefsArrive, WriteFails, Done
<1>8. ASSUME NEW s \in Slots, ReadFails(s) PROVE FALSE
  BY <1>8 DEF ReadFails
<1>9. ASSUME NEW s \in Slots, WriteArrives(s) PROVE FitsBut(calls[1])'
  <2>1. calls[s].op = "write" /\ calls[s].key \in Keys /\ calls[s] # NoCall
    BY <1>9, BackIs DEF WriteArrives
  <2> DEFINE d == IF calls[s].write.next = "load" THEN Load(calls[s].key) ELSE NoCall
  <2>2. CallOk(d) /\ d.op # "options"
    BY <2>1, NewCalls, NoCallOk DEF CallOk
  <2>3. calls' = [calls EXCEPT ![s] = d] /\ sel' = sel /\ opts' = opts
    BY <1>9 DEF WriteArrives, Done
  <2> HIDE DEF d
  <2>4. (s = 1 /\ calls'[1] = d) \/ calls'[1] = calls[1]
    BY <1>d, <2>1, <2>2, <2>3
  <2> QED BY <1>a, <1>c, <2>1, <2>2, <2>3, <2>4, StaysFit
<1> QED BY <1>1, <1>2, <1>3, <1>4, <1>5, <1>6, <1>7, <1>8, <1>9 DEF Next, User, Server, Replies

-----------------------------------------------------------------------------
(* The theorems. *)

IInv == Typed /\ Waits /\ RootInv /\ Lone /\ ShownInv /\ ChainInv

(* The inductive invariant of every page of the table, for any role, any    *)
(* tree of options and any number of calls.                                 *)
THEOREM Invariant == Spec => []IInv
<1>1. Init => IInv
  <2>1. Init => Waits
    <3> SUFFICES ASSUME Init PROVE Waits
      OBVIOUS
    <3>1. Typed /\ Selected \in Keys /\ 1 \in Slots
      BY InitTyped, SelectedIs, FirstSlot
    <3>2. ~ui.saving /\ ui.busy = 0 /\ ui.loading = Page.gated
      BY DEF Init
    <3>3. ASSUME Page.gated PROVE 1 \in Loading
      <4>1. Levels = {} \/ Fixed
        BY <3>1, <3>3, PageIs DEF PageOk, Levels, Fixed, Typed
      <4>2. calls[1] = Load(Selected)
        BY <3>1, <4>1 DEF Init
      <4> QED BY <3>1, <4>2, NewCalls DEF Loading, Busy
    <3> QED BY <3>2, <3>3 DEF Waits
  <2> QED BY <2>1, InitTyped, InitRoot, InitLone, InitShown, InitChain DEF IInv
<1>2. IInv /\ [Next]_vars => IInv'
  BY TypedKept, WaitsKept, RootKept, LoneKept, ShownKept, ChainKept DEF IInv
<1> QED BY <1>1, <1>2, PTL DEF Spec

(* A control is disabled, or a page says that it loads, only while the call *)
(* it waits for is under way.                                               *)
THEOREM PageTyped == Spec => []TypeOK
<1>1. IInv => TypeOK
  BY DEF IInv, Typed, Waits, TypeOK, Screens, Lists
<1> QED BY <1>1, Invariant, PTL

(* Once everything is answered a page shows the list that is selected as    *)
(* the server has it, or an error.                                          *)
THEOREM ListsAreCurrent == Spec => []ShownIsCurrent
<1>1. IInv => ShownIsCurrent
  <2> SUFFICES ASSUME IInv, Settled, disturbed \subseteq {"failed"}, Page.reads # {}
               PROVE  \/ ui.error # "" \/ (disturbed # {} /\ (Page.quiet \/ ClearsOnly))
                      \/ /\ ui.list.key = Selected
                         /\ ui.list.pending \/ ui.list.rev = srv.rev[Selected]
    BY DEF ShownIsCurrent
  <2>1. calls[1].op = "none"
    BY FirstSlot, NewCalls DEF Settled, Busy
  <2>2. Reflects(ui.list) \/ Excused
    BY <2>1 DEF IInv, ShownInv, NoneMissed, Settled
  <2> QED BY <2>2 DEF Reflects, Excused
<1> QED BY <1>1, Invariant, PTL

(* Options and selections of a chain belong to the option above them.       *)
THEOREM ChainsFit == Spec => []ChainFits
<1>1. IInv => ChainFits
  <2> SUFFICES ASSUME IInv, Settled, disturbed = {}, Page.auto, ~Fixed
               PROVE  \A l \in Levels : Fit(l)
    BY DEF ChainFits, Fit, Above
  <2>1. calls[1].op = "none"
    BY FirstSlot, NewCalls DEF Settled, Busy
  <2> QED BY <2>1 DEF IInv, ChainInv, FitsBut
<1> QED BY <1>1, Invariant, PTL
=============================================================================
