----------------------------- MODULE Curriculum -----------------------------
(***************************************************************************)
(* The units and lessons of the subjects, the skills they share, and who   *)
(* writes them: imports of the structure that an analysis of a book        *)
(* proposes, and the forms of the pages of units, lessons and skills.      *)
(*                                                                         *)
(* An import is one transaction.  For each name it carries it looks for a  *)
(* row with that name under its parent, by ILIKE, and inserts one if there *)
(* is none; no constraint of the schema keeps another import from doing    *)
(* the same before either commits.                                         *)
(***************************************************************************)
EXTENDS Integers, Sequences, FiniteSets

CONSTANTS
  Imports,     \* the requests that import an analysis
  Forms,       \* the forms that are sent
  Subjects,
  SubjectOf,   \* the subject and the book of an import
  BookOf,
  Script,      \* its units, each before its lessons, each before their skills
  Like,        \* <<name, pattern>>: the name is matched by the pattern of ILIKE
  Seeded,      \* the rows there are at first
  FormNames,   \* the names that forms give
  MaxFailures

Kinds == {"unit", "lesson", "skill"}

(* A unit has a subject above it, a lesson a unit, a skill nothing: the id  *)
(* of a row is who inserted it, and for which entry of a script.            *)
Root(subject) == <<subject>>

(* The entry that an entry belongs to: the nearest of the kind above it.    *)
Above(script, k, kind) ==
  CHOOSE j \in 1..(k - 1) :
    /\ script[j].kind = kind
    /\ \A n \in (j + 1)..(k - 1) : script[n].kind # kind

Nested(script) ==
  \A k \in DOMAIN script :
    /\ script[k].kind # "unit" => \E j \in 1..(k - 1) : script[j].kind = "unit"
    /\ script[k].kind = "skill" =>
         \E j \in 1..(k - 1) : /\ script[j].kind = "lesson"
                               /\ \A n \in (j + 1)..(k - 1) : script[n].kind = "skill"

ScriptNames == UNION {{Script[i][k].name : k \in DOMAIN Script[i]} : i \in Imports}

ASSUME CurriculumAssumption ==
  /\ Imports \cap Forms = {}
  /\ SubjectOf \in [Imports -> Subjects]
  /\ Script \in [Imports -> Seq([kind : Kinds, name : ScriptNames])]
  /\ \A i \in Imports : Nested(Script[i])
  /\ MaxFailures \in Nat

(* Siblings: rows of one kind under one parent. *)
Together(r, s) == r.kind = s.kind /\ r.parent = s.parent
Distinct(r, s) == r.name # s.name /\ (r.kind # "skill" => r.order # s.order)
NamesDiffer(S) == \A r, s \in S : r # s /\ Together(r, s) => r.name # s.name

(* What the keys of the tables ensure of the rows there were: no more, as   *)
(* neither names nor orders are unique.                                     *)
ASSUME SeededAssumption ==
  /\ \A r \in Seeded :
       /\ r = [id |-> r.id, kind |-> r.kind, parent |-> r.parent, name |-> r.name,
               order |-> r.order]
       /\ r.kind \in Kinds /\ r.order \in Nat
  /\ \A r, s \in Seeded : r # s => r.id # s.id
  /\ \A r \in Seeded : r.id[1] \notin Imports \cup Forms
  /\ \A r \in Seeded : r.kind = "lesson" =>
       \E u \in Seeded : u.kind = "unit" /\ u.id = r.parent

VARIABLES
  rows,       \* units, lessons and skills, as committed
  links,      \* lesson_skills
  imported,   \* the books whose analysis has an imported_at
  imp,        \* the imports under way, with what their transactions wrote
  form,       \* the forms under way
  disturbed,  \* what has interfered with the imports: see Reasons
  failures

vars == <<rows, links, imported, imp, form, disturbed, failures>>
Reasons == {"overlap", "form", "renamed"}

Row(id, kind, parent, name, order) ==
  [id |-> id, kind |-> kind, parent |-> parent, name |-> name, order |-> order]

NoImport == [pc |-> "idle", at |-> 1, unit |-> <<>>, lesson |-> <<>>, skill |-> <<>>,
             order |-> 0, rows |-> {}, links |-> {}, created |-> 0, after |-> {}]
NoForm == [pc |-> "idle", lesson |-> <<>>, skill |-> <<>>]

Ended == {"idle", "done", "failed"}
Active == {i \in Imports : imp[i].pc \notin Ended}

Init ==
  /\ rows = Seeded /\ links = {} /\ imported = {}
  /\ imp = [i \in Imports |-> NoImport]
  /\ form = [f \in Forms |-> NoForm]
  /\ disturbed = {}
  /\ failures = 0

-----------------------------------------------------------------------------
(* ImportBookAnalysis. *)

Entry(i) == Script[i][imp[i].at]
Parent(i) ==
  CASE Entry(i).kind = "unit" -> Root(SubjectOf[i])
    [] Entry(i).kind = "lesson" -> imp[i].unit
    [] OTHER -> <<>>

(* What the transaction sees: what is committed, and what it wrote itself.  *)
Seen(i) == rows \cup imp[i].rows
Siblings(i) == {r \in Seen(i) : r.kind = Entry(i).kind /\ r.parent = Parent(i)}

(* Mutant: a skill is inserted without a search. *)
MatchingNoSkill(i) ==
  {r \in Siblings(i) : r.kind # "skill" /\ <<r.name, Entry(i).name>> \in Like}

Matching(i) == {r \in Siblings(i) : <<r.name, Entry(i).name>> \in Like}

Advance(i, record) ==
  [record EXCEPT !.at = @ + 1,
                 !.pc = IF record.at = Len(Script[i]) THEN "mark" ELSE "find"]

(* The row of an entry is known; a skill is then linked to its lesson.      *)
With(i, record, id) ==
  CASE Entry(i).kind = "unit" -> Advance(i, [record EXCEPT !.unit = id])
    [] Entry(i).kind = "lesson" -> Advance(i, [record EXCEPT !.lesson = id])
    [] OTHER -> [record EXCEPT !.skill = id, !.pc = "link"]

Begin(i) ==
  /\ imp[i].pc = "idle"
  /\ imp' = [imp EXCEPT ![i].pc = IF Script[i] = <<>> THEN "mark" ELSE "find",
                        ![i].after = {j \in Imports : imp[j].pc = "done"}]
  /\ disturbed' = disturbed \cup (IF Active = {} THEN {} ELSE {"overlap"})
  /\ UNCHANGED <<rows, links, imported, form, failures>>

(* SELECT ... ILIKE ... LIMIT 1: any of the rows that match. *)
Find(i) ==
  /\ imp[i].pc = "find"
  /\ \/ \E r \in Matching(i) : imp' = [imp EXCEPT ![i] = With(i, imp[i], r.id)]
     \/ /\ Matching(i) = {}
        /\ imp' = [imp EXCEPT ![i].pc = IF Entry(i).kind = "skill" THEN "insert" ELSE "max"]
  /\ UNCHANGED <<rows, links, imported, form, disturbed, failures>>

(* COALESCE(MAX("order"), 0) *)
Largest(i) ==
  {n \in {0} \cup {r.order : r \in Siblings(i)} : \A r \in Siblings(i) : r.order <= n}

(* Mutant: the largest order there is, not the next. *)
NextOrderLargest(i) == Largest(i)

NextOrder(i) == {n + 1 : n \in Largest(i)}

ReadOrder(i) ==
  /\ imp[i].pc = "max"
  /\ \E n \in NextOrder(i) :
       imp' = [imp EXCEPT ![i].order = n, ![i].pc = "insert"]
  /\ UNCHANGED <<rows, links, imported, form, disturbed, failures>>

Insert(i) ==
  /\ imp[i].pc = "insert"
  /\ LET id == <<i, imp[i].at>>
         order == IF Entry(i).kind = "skill" THEN 0 ELSE imp[i].order
         new == Row(id, Entry(i).kind, Parent(i), Entry(i).name, order)
     IN imp' = [imp EXCEPT ![i] =
                  With(i, [imp[i] EXCEPT !.rows = @ \cup {new}, !.created = @ + 1], id)]
  /\ UNCHANGED <<rows, links, imported, form, disturbed, failures>>

Pair(i) == <<imp[i].lesson, imp[i].skill>>

(* Mutant: the link is written outside of the transaction. *)
LinkOutside(i) ==
  /\ imp[i].pc = "link"
  /\ links' = links \cup {Pair(i)}
  /\ imp' = [imp EXCEPT ![i] = Advance(i, imp[i])]
  /\ UNCHANGED <<rows, imported, form, disturbed, failures>>

(* Mutant: a pair that another import has inserted is passed over.          *)
LinkNoWait(i) ==
  /\ imp[i].pc = "link"
  /\ LET inserted == links \cup UNION {imp[j].links : j \in Active \ {i}}
     IN imp' = [imp EXCEPT ![i] =
                  Advance(i, [imp[i] EXCEPT !.links = @ \cup ({Pair(i)} \ inserted)])]
  /\ UNCHANGED <<rows, links, imported, form, disturbed, failures>>

(* INSERT INTO lesson_skills ... ON CONFLICT DO NOTHING waits for a         *)
(* transaction that has inserted the same pair.                             *)
Link(i) ==
  /\ imp[i].pc = "link"
  /\ \A j \in Active \ {i} : Pair(i) \notin imp[j].links
  /\ imp' = [imp EXCEPT ![i] =
               Advance(i, [imp[i] EXCEPT !.links = @ \cup ({Pair(i)} \ links)])]
  /\ UNCHANGED <<rows, links, imported, form, disturbed, failures>>

(* UPDATE book_analyses SET imported_at = now(): locks the row.             *)
Marked(i) == imp[i].pc = "commit"
Mark(i) ==
  /\ imp[i].pc = "mark"
  /\ \A j \in Imports \ {i} : BookOf[j] = BookOf[i] => ~Marked(j)
  /\ imp' = [imp EXCEPT ![i].pc = "commit"]
  /\ UNCHANGED <<rows, links, imported, form, disturbed, failures>>

Commit(i) ==
  /\ imp[i].pc = "commit"
  /\ rows' = rows \cup imp[i].rows
  /\ links' = links \cup imp[i].links
  /\ imported' = imported \cup {BookOf[i]}
  /\ imp' = [imp EXCEPT ![i].pc = "done", ![i].rows = {}, ![i].links = {}]
  /\ UNCHANGED <<form, disturbed, failures>>

RollBack(i) == imp' = [imp EXCEPT ![i] = [NoImport EXCEPT !.pc = "failed"]]

(* A statement fails, or the request dies: the transaction is rolled back.  *)
Fail(i) ==
  /\ i \in Active /\ failures < MaxFailures
  /\ RollBack(i)
  /\ failures' = failures + 1
  /\ UNCHANGED <<rows, links, imported, form, disturbed>>

(* Two imports that link the same skills in another order wait for each     *)
(* other; PostgreSQL ends one of them.                                      *)
Waits(i, j) ==
  /\ imp[i].pc = "link" /\ j \in Active \ {i}
  /\ Pair(i) \in imp[j].links

EndDeadlock(i) ==
  /\ \E circle \in SUBSET Active :
       /\ i \in circle
       /\ \A j \in circle : /\ \E k \in circle : Waits(j, k)
                            /\ \E k \in circle : Waits(k, j)
  /\ RollBack(i)
  /\ UNCHANGED <<rows, links, imported, form, disturbed, failures>>

-----------------------------------------------------------------------------
(* The forms of AdminCurriculumHandler.  None of them looks for a row with  *)
(* the name it gives.                                                       *)

Orders == {1, 2}   \* bound: the orders that forms give; 1 if none is given
Note(reasons) == disturbed' = disturbed \cup {"form"} \cup reasons

CreateUnit(f) ==
  /\ form[f].pc = "idle"
  /\ \E s \in Subjects, name \in FormNames, order \in Orders :
       rows' = rows \cup {Row(<<f, 0>>, "unit", Root(s), name, order)}
  /\ form' = [form EXCEPT ![f].pc = "done"]
  /\ Note({})
  /\ UNCHANGED <<links, imported, imp, failures>>

CreateLesson(f) ==
  /\ form[f].pc = "idle"
  /\ \E u \in rows, name \in FormNames, order \in Orders :
       /\ u.kind = "unit"
       /\ rows' = rows \cup {Row(<<f, 0>>, "lesson", u.id, name, order)}
  /\ form' = [form EXCEPT ![f].pc = "done"]
  /\ Note({})
  /\ UNCHANGED <<links, imported, imp, failures>>

(* A skill may name a lesson; the link is a statement of its own.           *)
LinkNext(f, skill) ==
  \/ form' = [form EXCEPT ![f].pc = "done"]
  \/ \E l \in rows : /\ l.kind = "lesson"
                     /\ form' = [form EXCEPT ![f] = [pc |-> "link", lesson |-> l.id, skill |-> skill]]

CreateSkill(f) ==
  /\ form[f].pc = "idle"
  /\ \E name \in FormNames : rows' = rows \cup {Row(<<f, 0>>, "skill", <<>>, name, 0)}
  /\ LinkNext(f, <<f, 0>>)
  /\ Note({})
  /\ UNCHANGED <<links, imported, imp, failures>>

(* A name or an order that is not given stays; is_active and the texts are  *)
(* left out.                                                                *)
Rewritten(r, new) ==
  {new, [new EXCEPT !.name = r.name], [new EXCEPT !.order = r.order]}

Rewrite(kind) ==
  \E r \in rows, name \in FormNames, order \in Orders :
    /\ r.kind = kind
    /\ \E updated \in Rewritten(r, [r EXCEPT !.name = name, !.order = order]) :
         /\ rows' = (rows \ {r}) \cup {updated}
         /\ Note(IF updated.name = r.name THEN {} ELSE {"renamed"})

UpdateUnit(f) ==
  /\ form[f].pc = "idle"
  /\ Rewrite("unit")
  /\ form' = [form EXCEPT ![f].pc = "done"]
  /\ UNCHANGED <<links, imported, imp, failures>>

UpdateLesson(f) ==
  /\ form[f].pc = "idle"
  /\ Rewrite("lesson")
  /\ form' = [form EXCEPT ![f].pc = "done"]
  /\ UNCHANGED <<links, imported, imp, failures>>

UpdateSkill(f) ==
  /\ form[f].pc = "idle"
  /\ \E r \in rows, name \in FormNames :
       /\ r.kind = "skill"
       /\ \E given \in {name, r.name} :
            /\ rows' = (rows \ {r}) \cup {[r EXCEPT !.name = given]}
            /\ Note(IF given = r.name THEN {} ELSE {"renamed"})
       /\ LinkNext(f, r.id)
  /\ UNCHANGED <<links, imported, imp, failures>>

LinkForm(f) ==
  /\ form[f].pc = "link"
  /\ \A i \in Active : <<form[f].lesson, form[f].skill>> \notin imp[i].links
  /\ links' = links \cup {<<form[f].lesson, form[f].skill>>}
  /\ form' = [form EXCEPT ![f].pc = "done"]
  /\ UNCHANGED <<rows, imported, imp, disturbed, failures>>

LinkFails(f) ==
  /\ form[f].pc = "link" /\ failures < MaxFailures
  /\ form' = [form EXCEPT ![f].pc = "done"]
  /\ failures' = failures + 1
  /\ UNCHANGED <<rows, links, imported, imp, disturbed>>

-----------------------------------------------------------------------------
ImportBookAnalysis(i) ==
  \/ Begin(i) \/ Find(i) \/ ReadOrder(i) \/ Insert(i) \/ Link(i) \/ Mark(i)
  \/ Commit(i) \/ Fail(i) \/ EndDeadlock(i)

Next ==
  \/ \E i \in Imports : ImportBookAnalysis(i)
  \/ \E f \in Forms : \/ CreateUnit(f) \/ CreateLesson(f) \/ CreateSkill(f)
                      \/ UpdateUnit(f) \/ UpdateLesson(f) \/ UpdateSkill(f)
                      \/ LinkForm(f) \/ LinkFails(f)

Spec == Init /\ [][Next]_vars

-----------------------------------------------------------------------------
Written == rows \cup UNION {imp[i].rows : i \in Imports}
IdsOf(kind) == {r.id : r \in {s \in Written : s.kind = kind}}

(* The types of the variables; a row has one version, a lesson its unit and *)
(* a link its lesson and its skill.                                         *)
TypeOK ==
  /\ \A r \in Written : /\ r.kind \in Kinds /\ r.order \in Nat
                        /\ r.kind = "lesson" => r.parent \in IdsOf("unit")
  /\ \A r, s \in Written : r.id = s.id => r = s
  /\ \A i \in Imports : imp[i].at \in 1..(Len(Script[i]) + 1)
  /\ \A p \in links : p[1] \in IdsOf("lesson") /\ p[2] \in IdsOf("skill")
  /\ disturbed \subseteq Reasons

(* A name is a pattern that matches itself: one with a backslash does not.  *)
MatchesItself == \A name \in ScriptNames : <<name, name>> \in Like

(* Imports that do not overlap write no name again under a parent, and no   *)
(* order of siblings: a row that they insert differs from every sibling,    *)
(* whatever rows there were.                                                *)
InsertedDistinct(S) ==
  \A r \in S \ Seeded, s \in S : r # s /\ Together(r, s) => Distinct(r, s)
SiblingsDiffer == MatchesItself /\ disturbed = {} => InsertedDistinct(rows)

(* Importing the same structure again adds nothing: no unit, no lesson, no  *)
(* skill, as long as a name is matched by itself and no other and the rows  *)
(* there were had names of their own, unless imports overlapped or somebody *)
(* used a form in between.                                                  *)
Exact == \A p \in Like : p[1] = p[2]
Unambiguous == Exact /\ MatchesItself /\ NamesDiffer(Seeded)
Again(i) ==
  /\ imp[i].pc = "done"
  /\ \E j \in imp[i].after : Script[i] = Script[j] /\ SubjectOf[i] = SubjectOf[j]
ReimportAddsNothing ==
  Unambiguous /\ disturbed = {} => \A i \in Imports : Again(i) => imp[i].created = 0

(* What the handler says of the name of a row: an import reuses a row of    *)
(* the same name, it does not repeat it, however many run at once.          *)
NameOnce ==
  disturbed \subseteq {"overlap"} => NamesDiffer(rows)

(* ... and it reuses none but a row of the same name: afterwards each name  *)
(* that was imported is the name of a row.                                  *)
NamedThere ==
  disturbed = {} =>
    \A i \in Imports : imp[i].pc = "done" => \A k \in DOMAIN Script[i] :
      \E r \in rows : r.kind = Script[i][k].kind /\ r.name = Script[i][k].name

(* Whatever runs at once with it, and whatever fails: an import that was    *)
(* acknowledged has put each name it carries where its structure has it,    *)
(* the lesson in its unit, the skill in that lesson, under that name or one *)
(* that its pattern matches.                                                *)
Holds(r, i, k) ==
  /\ r.kind = Script[i][k].kind
  /\ r.name = Script[i][k].name \/ <<r.name, Script[i][k].name>> \in Like
InUnit(l, i, k) ==
  \E u \in rows : /\ Holds(u, i, Above(Script[i], k, "unit"))
                  /\ u.parent = Root(SubjectOf[i]) /\ l.parent = u.id
Placed(i, k) ==
  CASE Script[i][k].kind = "unit" ->
         \E u \in rows : Holds(u, i, k) /\ u.parent = Root(SubjectOf[i])
    [] Script[i][k].kind = "lesson" -> \E l \in rows : Holds(l, i, k) /\ InUnit(l, i, k)
    [] OTHER ->
         LET lesson == Above(Script[i], k, "lesson") IN
         \E l, s \in rows : /\ Holds(s, i, k) /\ <<l.id, s.id>> \in links
                            /\ Holds(l, i, lesson) /\ InUnit(l, i, lesson)
ImportedIsThere ==
  "renamed" \notin disturbed =>
    \A i \in Imports : imp[i].pc = "done" => \A k \in DOMAIN Script[i] : Placed(i, k)
=============================================================================
